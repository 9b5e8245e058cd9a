-------------------------- MODULE ProductionExport ---------------------------
(***************************************************************************)
(* The publication lifecycle of workflow/production_export_lifecycle.py    *)
(* for one decided job: publish_export, recover_exports and cancel, over   *)
(* the bundle directory of exporting/bundle.py and the job store.          *)
(*                                                                         *)
(* Operations on a job exclude each other by its operation lock.  Its job  *)
(* lock is held from loading the state to recording the event, but not     *)
(* while a bundle is being staged: a cancellation may come then, and the   *)
(* phase kept in memory tells it whether a bundle may already be there.    *)
(* The process may die anywhere and loses the phase; the machine may lose  *)
(* power and loses names that were never written back.                     *)
(*                                                                         *)
(* The job store is used as CommitRegister describes it: a recorded event  *)
(* is there for good, one whose recording failed may be there or not, and  *)
(* may leave the job unreadable.                                           *)
(***************************************************************************)
EXTENDS JobLifecycle, Naturals

CONSTANTS
    RenameDurable,  \* the bundle's new name is never left without an fsync
    MaxFaults       \* bound: failures, crashes and power losses

ASSUME RenameAssumption == RenameDurable \in BOOLEAN
ASSUME FaultAssumption  == MaxFaults \in Nat

VARIABLES
    status,     \* the status of the stored job
    readable,   \* FALSE when loading the job fails with "job store corrupted"
    doubt,      \* the last recording failed
    bundle,     \* what bears the bundle's name, "volatile" until fsynced
    phase,      \* holder.phase
    op,         \* the next step of the running operation, or "idle"
    seen,       \* recovery found the bundle already published
    faults

store     == <<status, readable, doubt>>
operation == <<op, seen>>
vars      == <<store, bundle, phase, operation, faults>>

Decided == {"APPROVED", "MANUAL_REVIEW", "REJECTED"}

(* The steps that run under holder.lock, which is the job lock. *)
Locked == {"rename", "sync", "append"}

Published == bundle \in {"volatile", "durable"}

Init ==
    /\ status \in Decided
    /\ readable = TRUE
    /\ doubt = FALSE
    /\ bundle \in {"none", "foreign"}
    /\ phase = "UNKNOWN"
    /\ op = "idle"
    /\ seen = FALSE
    /\ faults = 0

Fault == faults < MaxFaults /\ faults' = faults + 1

Goto(step) == op' = step /\ UNCHANGED <<seen, faults>>
Return     == op' = "idle" /\ UNCHANGED <<seen, faults>>
Raise      == op' = "idle" /\ Fault /\ UNCHANGED seen

(* append_event, by what its caller learns. *)
Recorded(type, to) ==
    /\ validate_transition(status, to, type)
    /\ status' = to
    /\ doubt' = FALSE
    /\ UNCHANGED readable

Unrecorded(to) ==
    /\ status' \in {status, to}
    /\ readable' \in BOOLEAN
    /\ doubt' = TRUE

-----------------------------------------------------------------------------
(* publish_export: _begin_publish validates the command against the job    *)
(* and records EXPORT_STARTED in one hold of the job lock.                 *)
BeginPublish ==
    /\ op = "idle"
    /\ readable
    /\ status \in Decided
    /\ UNCHANGED bundle
    /\ \/ /\ Recorded("EXPORT_STARTED", "EXPORTING")
          /\ phase' = "STAGING"
          /\ op' = "stage" /\ seen' = FALSE
          /\ UNCHANGED faults
       \/ Unrecorded("EXPORTING") /\ UNCHANGED phase /\ Raise

(* _recover_one: load the job and let go of its lock again.  A job that is *)
(* not EXPORTING is only reported.                                         *)
RecoverLoad ==
    /\ op = "idle"
    /\ readable
    /\ status = "EXPORTING"
    /\ op' = "inspect" /\ seen' = FALSE
    /\ UNCHANGED <<store, bundle, phase, faults>>

Inspected == IF bundle = "none" THEN "STAGING" ELSE "PUBLISHED"

(* _prepare_recovery_export, on the state loaded before: the attempts may  *)
(* be unreadable, and a bundle that is not ours fails the recovery.        *)
Inspect ==
    /\ op = "inspect"
    /\ UNCHANGED <<store, bundle>>
    /\ \/ UNCHANGED phase /\ Raise
       \/ phase' = "UNKNOWN" /\ Raise
       \/ bundle = "foreign" /\ phase' = "UNKNOWN" /\ Return
       \/ /\ bundle = "none"
          /\ phase' = Inspected
          /\ op' = "stage" /\ UNCHANGED <<seen, faults>>
       \/ /\ Published
          /\ phase' = Inspected
          /\ op' = "commit" /\ seen' = TRUE /\ UNCHANGED faults

(* _stage_bundle, with no lock held: a failure leaves the phase STAGING. *)
Stage ==
    /\ op = "stage"
    /\ UNCHANGED <<store, bundle>>
    /\ \/ UNCHANGED phase /\ Goto("commit")
       \/ phase' = "STAGING" /\ Raise

CommitLoadUnchecked ==  \* mutant: the state is not loaded again
    /\ op = "commit"
    /\ readable
    /\ UNCHANGED <<store, bundle>>
    /\ phase' = IF seen THEN "PUBLISHED" ELSE "UNKNOWN"
    /\ Goto(IF seen THEN "append" ELSE "rename")

CommitLoadAgain ==  \* mutant: recovery publishes what it has found again
    /\ op = "commit"
    /\ UNCHANGED <<store, bundle>>
    /\ IF readable /\ status = "EXPORTING"
       THEN phase' = "UNKNOWN" /\ Goto("rename")
       ELSE UNCHANGED phase /\ Return

CommitLoadAppends ==  \* mutant: the event is recorded before the rename
    /\ op = "commit"
    /\ UNCHANGED <<store, bundle>>
    /\ IF readable /\ status = "EXPORTING"
       THEN phase' = "PUBLISHED" /\ Goto("append")
       ELSE UNCHANGED phase /\ Return

(* _commit_publish and _commit_recovery take the job lock, look at the job *)
(* again and forget the phase before the bundle's name may change.         *)
CommitLoad ==
    /\ op = "commit"
    /\ UNCHANGED <<store, bundle>>
    /\ \/ UNCHANGED phase /\ Raise
       \/ ~(readable /\ status = "EXPORTING") /\ UNCHANGED phase /\ Return
       \/ /\ readable /\ status = "EXPORTING"
          /\ phase' = IF seen THEN "PUBLISHED" ELSE "UNKNOWN"
          /\ Goto(IF seen THEN "append" ELSE "rename")

(* The rename replaces nothing.  Recovery would take over an exact bundle  *)
(* it finds only now, but no other operation can have published it.        *)
Rename ==
    /\ op = "rename"
    /\ UNCHANGED <<store, phase>>
    /\ \/ UNCHANGED bundle /\ Raise
       \/ bundle # "none" /\ UNCHANGED bundle /\ Return
       \/ /\ bundle = "none"
          /\ bundle' = IF RenameDurable THEN "durable" ELSE "volatile"
          /\ Goto("sync")

(* fsync of the target root, then the readback of what was published. *)
Sync ==
    /\ op = "sync"
    /\ UNCHANGED store
    /\ \/ bundle' = "durable" /\ phase' = "PUBLISHED" /\ Goto("append")
       \/ bundle' \in {bundle, "durable"} /\ UNCHANGED phase /\ Raise

AppendPublished ==
    /\ op = "append"
    /\ UNCHANGED <<bundle, phase>>
    /\ \/ Recorded("EXPORT_PUBLISHED", "COMPLETED") /\ Return
       \/ Unrecorded("COMPLETED") /\ Raise

CancelAnyPhase ==  \* mutant: an export is cancelled whatever its phase
    /\ op \notin Locked
    /\ readable
    /\ UNCHANGED <<bundle, phase, operation>>
    /\ \/ Recorded("CANCEL_REQUESTED", "CANCELLED") /\ UNCHANGED faults
       \/ status \notin TERMINAL_STATUSES /\ Unrecorded("CANCELLED") /\ Fault

(* _cancel_durable, which waits for the job lock: an export may be         *)
(* cancelled only while it is known to be staging.                         *)
Cancel ==
    /\ op \notin Locked
    /\ readable
    /\ status = "EXPORTING" => phase = "STAGING"
    /\ UNCHANGED <<bundle, phase, operation>>
    /\ \/ Recorded("CANCEL_REQUESTED", "CANCELLED") /\ UNCHANGED faults
       \/ status \notin TERMINAL_STATUSES /\ Unrecorded("CANCELLED") /\ Fault

-----------------------------------------------------------------------------
(* The environment. *)

(* The holder is only weakly referenced and goes when nobody uses it. *)
DropHolder ==
    /\ op = "idle"
    /\ phase # "UNKNOWN"
    /\ phase' = "UNKNOWN"
    /\ UNCHANGED <<store, bundle, operation, faults>>

(* Another bundle takes the name. *)
TakeName ==
    /\ bundle = "none"
    /\ bundle' = "foreign"
    /\ Fault
    /\ UNCHANGED <<store, phase, operation>>

WriteBack ==
    /\ bundle = "volatile"
    /\ bundle' = "durable"
    /\ UNCHANGED <<store, phase, operation, faults>>

ProcessCrash ==
    /\ phase' = "UNKNOWN"
    /\ UNCHANGED <<store, bundle>>
    /\ Raise

PowerLoss ==
    /\ phase' = "UNKNOWN"
    /\ bundle' = IF bundle = "volatile" THEN "none" ELSE bundle
    /\ readable' \in IF doubt THEN BOOLEAN ELSE {readable}
    /\ UNCHANGED <<status, doubt>>
    /\ Raise

Step == Inspect \/ Stage \/ CommitLoad \/ Rename \/ Sync \/ AppendPublished

Next ==
    \/ BeginPublish
    \/ RecoverLoad
    \/ Step
    \/ Cancel
    \/ DropHolder \/ TakeName \/ WriteBack \/ ProcessCrash \/ PowerLoss

Spec == Init /\ [][Next]_vars

(* An operation that has begun runs on unless the process dies. *)
FairSpec == Spec /\ WF_vars(Step)

-----------------------------------------------------------------------------
Steps == {"idle", "inspect", "stage", "commit", "rename", "sync", "append"}

(* The types of the variables, and the steps the statuses go with. *)
TypeOK ==
    /\ status \in Decided \cup {"EXPORTING", "COMPLETED", "CANCELLED"}
    /\ readable \in BOOLEAN
    /\ doubt \in BOOLEAN
    /\ bundle \in {"none", "foreign", "volatile", "durable"}
    /\ phase \in {"UNKNOWN", "STAGING", "PUBLISHED"}
    /\ op \in Steps
    /\ seen \in BOOLEAN
    /\ faults \in 0 .. MaxFaults

(* A cancelled job has no published bundle: no cancellation slips in       *)
(* between the last look at the job and the rename, and after a crash no   *)
(* export is cancelled before somebody looked for its bundle.              *)
CancelledIsUnpublished == status = "CANCELLED" => ~Published

(* The lifecycle is "crash-safe" (production_export_lifecycle.py:1): a job *)
(* recorded as COMPLETED has its bundle, also after a power loss.          *)
CompletedIsPublished == status = "COMPLETED" => bundle = "durable"

Outcome == INSTANCE ExportOutcome WITH
    bundle <- IF Published THEN "ours" ELSE bundle

(* The lifecycle implements ExportOutcome: the job is exported or          *)
(* cancelled, never both, and no crash or recovery undoes either.          *)
ImplementsOutcome == Outcome!Spec

(* A recovery that meets no further failure settles the job: it finishes   *)
(* the export, or finds that it has been cancelled.                        *)
RecoveryConverges ==
    (op = "inspect" /\ readable /\ bundle # "foreign" /\ faults = MaxFaults)
        ~> status \in {"COMPLETED", "CANCELLED"}
=============================================================================
