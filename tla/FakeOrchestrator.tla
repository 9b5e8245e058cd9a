-------------------------- MODULE FakeOrchestrator --------------------------
(***************************************************************************)
(* run_fake_job of workflow/orchestrator.py: the vertical slice that takes *)
(* a job from compilation to its exported bundle, recording every stage in *)
(* the job store.  Several threads may call it for the same job, a stage   *)
(* or a recording may fail, and the process may stop and be restarted.     *)
(*                                                                         *)
(* The job store is used as CommitRegister describes it.  The repair       *)
(* rounds of an item record nothing and are part of its verification.      *)
(***************************************************************************)
EXTENDS JobLifecycle, Naturals

CONSTANTS
    Callers,
    MaxFaults,      \* bound: stages and recordings that fail
    MaxCrashes      \* bound: stops of the process

ASSUME BoundsAssumption == MaxFaults \in Nat /\ MaxCrashes \in Nat

VARIABLES
    status,         \* the stored job; "ABSENT" before its first snapshot
    bundle,         \* what stands under the bundle's name: "none", "foreign", "own"
    generations,    \* the times the root attempt has been generated
    faults, crashes,
    pc, cursor,     \* what each call does next, and cursor.status
    result          \* final_status of the result a caller got last

vars == <<status, bundle, generations, faults, crashes, pc, cursor, result>>

Init ==
    /\ status = "ABSENT"
    /\ bundle \in {"none", "foreign"}
    /\ generations = 0
    /\ faults = 0 /\ crashes = 0
    /\ pc = [c \in Callers |-> "idle"]
    /\ cursor = [c \in Callers |-> "ABSENT"]
    /\ result = [c \in Callers |-> "none"]

-----------------------------------------------------------------------------
Goto(c, step) == pc' = [pc EXCEPT ![c] = step]

Leave(c, value) ==
    /\ Goto(c, "idle")
    /\ cursor' = [cursor EXCEPT ![c] = "ABSENT"]
    /\ result' = [result EXCEPT ![c] = value]

Fault == faults < MaxFaults /\ faults' = faults + 1

Call(c) ==
    /\ pc[c] = "idle"
    /\ Goto(c, "init")
    /\ result' = [result EXCEPT ![c] = "none"]
    /\ UNCHANGED <<status, bundle, generations, faults, crashes, cursor>>

(* _load_or_init: the first snapshot is saved unless there is one. *)
InitJob(c) ==
    /\ pc[c] = "init"
    /\ UNCHANGED <<bundle, generations, crashes>>
    /\ \/ /\ status' = IF status = "ABSENT" THEN "CREATED" ELSE status
          /\ Goto(c, "load")
          /\ UNCHANGED <<faults, cursor, result>>
       \/ /\ Fault
          /\ status' \in IF status = "ABSENT" THEN {"ABSENT", "CREATED"} ELSE {status}
          /\ Leave(c, "none")

ResumeGeneration(c) ==  \* mutant: a job found generating generates again
    /\ pc[c] = "load"
    /\ UNCHANGED <<status, bundle, generations, faults, crashes>>
    /\ IF status \in TERMINAL_STATUSES
       THEN Leave(c, status)
       ELSE /\ Goto(c, IF status = "GENERATING" THEN "generate" ELSE "started")
            /\ cursor' = [cursor EXCEPT ![c] = status]
            /\ UNCHANGED result

(* A terminal job is left alone; any other starts over at its status. *)
Load(c) ==
    /\ pc[c] = "load"
    /\ UNCHANGED <<status, bundle, generations, faults, crashes>>
    /\ IF status \in TERMINAL_STATUSES
       THEN Leave(c, status)
       ELSE /\ Goto(c, "started")
            /\ cursor' = [cursor EXCEPT ![c] = status]
            /\ UNCHANGED result

-----------------------------------------------------------------------------
(* The stages that are recorded, the event of each and what follows it. *)

Recorded == {"started", "compiled", "attempt", "finished", "decided", "exporting", "published"}

EventOf(step) ==
    CASE step = "started"   -> "JOB_STARTED"
      [] step = "compiled"  -> "SPEC_COMPILED"
      [] step = "attempt"   -> "ATTEMPT_STARTED"
      [] step = "finished"  -> "ATTEMPT_FINISHED"
      [] step = "decided"   -> "VERIFIER_FINISHED"
      [] step = "exporting" -> "EXPORT_STARTED"
      [] step = "published" -> "EXPORT_PUBLISHED"

(* _terminal_to_state: an item ends decided, never in another repair. *)
Targets(step) == EVENT_TO_STATE(EventOf(step)) \ {"REPAIR_SELECTING"}

PublishedFirst(step) ==  \* mutant: the export is recorded before it is made
    CASE step = "started"   -> "compiled"
      [] step = "compiled"  -> "attempt"
      [] step = "attempt"   -> "generate"
      [] step = "generate"  -> "finished"
      [] step = "finished"  -> "verify"
      [] step = "verify"    -> "decided"
      [] step = "decided"   -> "request"
      [] step = "request"   -> "exporting"
      [] step = "exporting" -> "published"
      [] step = "published" -> "export"
      [] step = "export"    -> "return"

After(step) ==
    CASE step = "started"   -> "compiled"
      [] step = "compiled"  -> "attempt"
      [] step = "attempt"   -> "generate"
      [] step = "generate"  -> "finished"
      [] step = "finished"  -> "verify"
      [] step = "verify"    -> "decided"
      [] step = "decided"   -> "request"
      [] step = "request"   -> "exporting"
      [] step = "exporting" -> "export"
      [] step = "export"    -> "published"
      [] step = "published" -> "return"

(* append_event accepts what continues the stored job. *)
Accepted(c, to, type) ==
    /\ status = cursor[c]
    /\ validate_transition(status, to, type)

AppendEvent(c) ==
    /\ pc[c] \in Recorded
    /\ UNCHANGED <<bundle, generations, crashes, result>>
    /\ \E to \in Targets(pc[c]) :
          LET accepted == Accepted(c, to, EventOf(pc[c])) IN
          \/ /\ accepted
             /\ status' = to
             /\ cursor' = [cursor EXCEPT ![c] = to]
             /\ Goto(c, After(pc[c]))
             /\ UNCHANGED faults
          \/ /\ accepted
             /\ Fault
             /\ status' \in {status, to}
             /\ Goto(c, "fatal")
             /\ UNCHANGED cursor
          \/ /\ ~accepted
             /\ Goto(c, "fatal")
             /\ UNCHANGED <<status, faults, cursor>>

(* A stage fails with an error of this package, or with any other.         *)
StageFails(c) ==
    /\ Fault
    /\ \/ Goto(c, "fatal") /\ UNCHANGED <<cursor, result>>
       \/ Leave(c, "none")

Generate(c) ==
    /\ pc[c] = "generate"
    /\ UNCHANGED <<status, bundle, crashes>>
    /\ generations' = generations + 1
    /\ \/ Goto(c, After("generate")) /\ UNCHANGED <<faults, cursor, result>>
       \/ StageFails(c)

(* Verification with its repair rounds, and the export request. *)
Prepare(c) ==
    /\ pc[c] \in {"verify", "request"}
    /\ UNCHANGED <<status, bundle, generations, crashes>>
    /\ \/ Goto(c, After(pc[c])) /\ UNCHANGED <<faults, cursor, result>>
       \/ StageFails(c)

(* export_bundle never replaces what stands under the name.  A failure may *)
(* come before the bundle is in its place or after.                        *)
ExportBundle(c) ==
    /\ pc[c] = "export"
    /\ UNCHANGED <<status, generations, crashes>>
    /\ \/ /\ bundle = "none"
          /\ bundle' = "own"
          /\ Goto(c, After("export"))
          /\ UNCHANGED <<faults, cursor, result>>
       \/ bundle = "none" /\ bundle' \in {"none", "own"} /\ StageFails(c)
       \/ /\ bundle # "none"
          /\ Goto(c, "fatal")
          /\ UNCHANGED <<bundle, faults, cursor, result>>

(* _try_fatal: what it cannot record it forgets. *)
TryFatal(c) ==
    /\ pc[c] = "fatal"
    /\ UNCHANGED <<bundle, generations, crashes>>
    /\ Leave(c, "JOB_FAILED")
    /\ LET accepted == Accepted(c, "JOB_FAILED", "FATAL") IN
       \/ accepted /\ status' = "JOB_FAILED" /\ UNCHANGED faults
       \/ accepted /\ Fault /\ status' \in {status, "JOB_FAILED"}
       \/ ~accepted /\ UNCHANGED <<status, faults>>

Return(c) ==
    /\ pc[c] = "return"
    /\ Leave(c, "COMPLETED")
    /\ UNCHANGED <<status, bundle, generations, faults, crashes>>

(* The process stops, every call with it. *)
Crash ==
    /\ crashes < MaxCrashes
    /\ crashes' = crashes + 1
    /\ pc' = [c \in Callers |-> "idle"]
    /\ cursor' = [c \in Callers |-> "ABSENT"]
    /\ result' = [c \in Callers |-> "none"]
    /\ UNCHANGED <<status, bundle, generations, faults>>

Next ==
    \/ \E c \in Callers :
          \/ Call(c) \/ InitJob(c) \/ Load(c) \/ AppendEvent(c) \/ Generate(c) \/ Prepare(c)
          \/ ExportBundle(c) \/ TryFatal(c) \/ Return(c)
    \/ Crash

Spec == Init /\ [][Next]_vars

-----------------------------------------------------------------------------
Steps == Recorded \cup {"idle", "init", "load", "generate", "verify", "request", "export",
                        "fatal", "return"}

(* The types of the variables. *)
TypeOK ==
    /\ status \in JobStatus \cup {"ABSENT"}
    /\ bundle \in {"none", "foreign", "own"}
    /\ generations \in Nat
    /\ faults \in 0 .. MaxFaults /\ crashes \in 0 .. MaxCrashes
    /\ pc \in [Callers -> Steps]
    /\ cursor \in [Callers -> JobStatus \cup {"ABSENT"}]
    /\ result \in [Callers -> TERMINAL_STATUSES \cup {"none"}]

(* However often a job is started, by whom, and wherever it was stopped,   *)
(* its root attempt is generated at most once.                             *)
GeneratesOnce == generations <= 1

(* A job recorded as completed has its bundle, whenever the process stops, *)
(* and a caller told of a completion finds it recorded.                    *)
CompletedHasBundle ==
    /\ status = "COMPLETED" => bundle = "own"
    /\ \A c \in Callers : result[c] = "COMPLETED" => status = "COMPLETED"

(* A job is not failed by being started again: it ends JOB_FAILED only     *)
(* when a stage or a recording of it has failed, or when the name of its   *)
(* bundle was taken.                                                       *)
RestartIsIdempotent == status = "JOB_FAILED" /\ bundle # "foreign" => faults > 0
=============================================================================
