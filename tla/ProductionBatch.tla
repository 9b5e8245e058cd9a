---------------------------- MODULE ProductionBatch ----------------------------
(***************************************************************************)
(* A production batch (workflow/production_batch.py), its journal          *)
(* (production_batch_journal.py) and its publication                       *)
(* (production_batch_export.py).                                           *)
(*                                                                         *)
(* A run takes a reserved batch through six phases: candidates, frozen     *)
(* cohort, batch verified, routed, export staged, completed.  Each phase   *)
(* is recorded in the journal with what it binds before the run goes on,   *)
(* and a run that finds a phase recorded goes on only if it would have     *)
(* recorded the same.  Runs of one batch, after each other or at the same  *)
(* time in processes of their own, may build different candidates and may  *)
(* get different verdicts.  A caller may cancel at every checkpoint, calls *)
(* may fail and processes die (bounded by MaxFaults), and the machine may  *)
(* lose power (bounded by MaxLosses).                                      *)
(*                                                                         *)
(* What a record binds is a prefix of <<cohort, verdict, decisions>>.      *)
(***************************************************************************)
EXTENDS Naturals, Sequences

CONSTANTS
    BatchRuns,
    Cohorts,            \* the sets of artifacts a build may come up with
    Members,
    ItemStatuses,       \* of the required item rule: a subset of the four
    OnUnverifiable,     \* its gate policies
    OnWarning,
    MaxFaults, MaxLosses,
    Unset               \* nothing yet, of all of them

\* GatePolicy.__post_init__ refuses other policies, and an item has one of four statuses.
ASSUME BatchAssumptions ==
    /\ OnUnverifiable \in {"reject", "manual_review"}
    /\ ItemStatuses \subseteq {"PASS", "WARNING", "FAIL", "UNVERIFIABLE"}
    /\ MaxLosses \in Nat

BatchPhases == 1..6
Routed == 4
Staged == 5
BatchCompleted == 6

VARIABLES
    batchPc,        \* <<phase, step>> of a run
    cohort, batchItems, \* its candidates: the artifacts, the status of each member
    verdict,        \* what the batch rule says
    batchStaged,    \* the bundle it staged
    dir,            \* the batch's directory: "absent", "made", "synced"
    journal,        \* what each phase's record binds
    synced,         \* the records whose name survives a power loss
    bundle,         \* what was published under the batch's bundle name
    told,           \* the phases of which a run was told that they are recorded
    faults, losses

candidates == <<cohort, batchItems, verdict>>
disk == <<dir, journal, synced>>
batchVars == <<batchPc, candidates, batchStaged, disk, bundle, told, faults, losses>>

BatchStatuses == {"PASS", "FAIL", "UNVERIFIABLE"}

BatchInit ==
    /\ batchPc = [r \in BatchRuns |-> <<0, "idle">>]
    /\ cohort = [r \in BatchRuns |-> Unset] /\ batchItems = [r \in BatchRuns |-> Unset]
    /\ verdict = [r \in BatchRuns |-> Unset]
    /\ batchStaged = [r \in BatchRuns |-> Unset]
    /\ dir = "absent" /\ journal = [k \in BatchPhases |-> Unset] /\ synced = {}
    /\ bundle = Unset
    /\ told = {}
    /\ faults = 0 /\ losses = 0

-----------------------------------------------------------------------------
(* Routing *)

\* _final_report: the required results about a member, its own and the batch's.
Required(item, batch) == {item, batch}

StopReason(required) ==
    IF "UNVERIFIABLE" \in required THEN "UNVERIFIABLE"
    ELSE IF required # {"PASS"} THEN "NO_IMPROVEMENT" ELSE "PASS_ALL_REQUIRED"

Manual(item) == \/ item = "WARNING" /\ OnWarning = "manual_review"
                \/ item = "UNVERIFIABLE" /\ OnUnverifiable = "manual_review"

\* decide_artifact; an unverifiable batch rule rejects.
Decide(item, batch) ==
    LET required == Required(item, batch)
        stop == StopReason(required)
    IN  IF \/ batch = "UNVERIFIABLE"
           \/ item = "UNVERIFIABLE" /\ OnUnverifiable = "reject"
           \/ stop = "NO_IMPROVEMENT"
           \/ "FAIL" \in required
           \/ item = "WARNING" /\ OnWarning = "reject"
        THEN "REJECTED"
        ELSE IF Manual(item) THEN "MANUAL_REVIEW" ELSE "APPROVED"

Decisions(r) == [m \in Members |-> Decide(batchItems[r][m], verdict[r])]

\* The bytes a phase is bound to, as far as the run knows them.
Binding(r, k) ==
    CASE k \in {1, 2} -> <<cohort[r]>>
      [] k = 3 -> <<cohort[r], verdict[r]>>
      [] OTHER -> <<cohort[r], verdict[r], Decisions(r)>>

-----------------------------------------------------------------------------
(* Steps of a run *)

GotoPhase(r, k, step) == batchPc' = [batchPc EXCEPT ![r] = <<k, step>>]

\* The run ends and its objects are gone; what was staged is closed.
EndRun(r) ==
    /\ GotoPhase(r, 0, "idle")
    /\ cohort' = [cohort EXCEPT ![r] = Unset] /\ batchItems' = [batchItems EXCEPT ![r] = Unset]
    /\ verdict' = [verdict EXCEPT ![r] = Unset] /\ batchStaged' = [batchStaged EXCEPT ![r] = Unset]
\* An exception.
Raise(r) == EndRun(r) /\ UNCHANGED <<disk, bundle, told>>
Refused(r) == Raise(r) /\ UNCHANGED <<faults, losses>>

\* reserve, build_candidates, _validate_candidates, freeze_production_cohort.
Build(r) ==
    /\ batchPc[r] = <<0, "idle">>
    /\ \E c \in Cohorts, s \in [Members -> ItemStatuses] :
          cohort' = [cohort EXCEPT ![r] = c] /\ batchItems' = [batchItems EXCEPT ![r] = s]
    /\ GotoPhase(r, 1, "open")
    /\ UNCHANGED <<verdict, batchStaged, disk, bundle, told, faults, losses>>

\* _open_directory: the loser of a race to make the directory is refused.
OpenDirectory(r, k) ==
    /\ batchPc[r] = <<k, "open">>
    /\ GotoPhase(r, k, IF dir = "absent" THEN "mkdir" ELSE "read")
    /\ UNCHANGED <<candidates, batchStaged, disk, bundle, told, faults, losses>>
MakeDirectory(r, k) ==
    /\ batchPc[r] = <<k, "mkdir">>
    /\ IF dir = "absent"
       THEN /\ dir' = "made" /\ GotoPhase(r, k, "syncParent")
            /\ UNCHANGED <<candidates, batchStaged, journal, synced, bundle, told, faults, losses>>
       ELSE Refused(r)
SyncParent(r, k) ==
    /\ batchPc[r] = <<k, "syncParent">>
    /\ dir' = "synced" /\ GotoPhase(r, k, "read")
    /\ UNCHANGED <<candidates, batchStaged, journal, synced, bundle, told, faults, losses>>

\* record returns: the phase's checkpoint is next.
Recorded(r, k) ==
    /\ GotoPhase(r, k, "checkpoint")
    /\ told' = told \cup {k}
    /\ UNCHANGED <<candidates, batchStaged, dir, bundle, faults, losses>>

AnyOrder(r, k) ==  \* mutant: the earlier records are not looked at
    /\ batchPc[r] = <<k, "read">>
    /\ \/ journal[k] = Unset /\ GotoPhase(r, k, "link")
          /\ UNCHANGED <<candidates, batchStaged, disk, bundle, told, faults, losses>>
       \/ journal[k] # Unset /\ Recorded(r, k) /\ UNCHANGED <<journal, synced>>

\* _record_open: no gap, and an existing record must be the same.
ReadRecord(r, k) ==
    /\ batchPc[r] = <<k, "read">>
    /\ \/ (\E j \in 1..(k - 1) : journal[j] = Unset) /\ Refused(r)
       \/ /\ \A j \in 1..(k - 1) : journal[j] # Unset
          /\ \/ /\ journal[k] = Unset /\ GotoPhase(r, k, "link")
                /\ UNCHANGED <<candidates, batchStaged, disk, bundle, told, faults, losses>>
             \/ /\ journal[k] = Binding(r, k)
                /\ Recorded(r, k) /\ UNCHANGED <<journal, synced>>
             \/ /\ journal[k] \notin {Unset, Binding(r, k)} /\ Refused(r)

\* _publish: a synced temporary file is linked; a name that is taken is left alone.
LinkRecord(r, k) ==
    /\ batchPc[r] = <<k, "link">>
    /\ IF journal[k] = Unset
       THEN journal' = [journal EXCEPT ![k] = Binding(r, k)] /\ GotoPhase(r, k, "sync")
       ELSE UNCHANGED journal /\ GotoPhase(r, k, "verify")
    /\ UNCHANGED <<candidates, batchStaged, dir, synced, bundle, told, faults, losses>>
SyncRecord(r, k) ==
    /\ batchPc[r] = <<k, "sync">>
    /\ synced' = {j \in BatchPhases : journal[j] # Unset}
    /\ GotoPhase(r, k, "verify")
    /\ UNCHANGED <<candidates, batchStaged, dir, journal, bundle, told, faults, losses>>
\* The record is read again.
VerifyRecord(r, k) ==
    /\ batchPc[r] = <<k, "verify">>
    /\ IF journal[k] = Binding(r, k) THEN Recorded(r, k) /\ UNCHANGED <<journal, synced>>
       ELSE Refused(r)

\* _checkpoint: a cancelled batch raises, after its publication no more.
Cancel(r, k) == batchPc[r] = <<k, "checkpoint">> /\ k # BatchCompleted /\ Refused(r)

Proceed(r, k) ==
    /\ batchPc[r] = <<k, "checkpoint">> /\ k \in {1, 3}
    /\ GotoPhase(r, k + 1, "open")
    /\ UNCHANGED <<candidates, batchStaged, disk, bundle, told, faults, losses>>

\* verify_batch, about the whole cohort.
Verify(r) ==
    /\ batchPc[r] = <<2, "checkpoint">>
    /\ \E v \in BatchStatuses : verdict' = [verdict EXCEPT ![r] = v]
    /\ GotoPhase(r, 3, "open")
    /\ UNCHANGED <<cohort, batchItems, batchStaged, disk, bundle, told, faults, losses>>

\* stage, with _validate_bindings: what is not bound to the cohort is refused.
StageExport(r) ==
    /\ batchPc[r] = <<Routed, "checkpoint">>
    /\ \/ /\ batchStaged' = [batchStaged EXCEPT ![r] = Binding(r, Routed)]
          /\ GotoPhase(r, Staged, "open")
          /\ UNCHANGED <<candidates, disk, bundle, told, faults, losses>>
       \/ Refused(r)

\* commit, which accepts a bundle that is exactly its own.
Commit(r) ==
    /\ batchPc[r] = <<Staged, "checkpoint">>
    /\ \/ /\ bundle \in {Unset, batchStaged[r]}
          /\ bundle' = batchStaged[r] /\ batchStaged' = [batchStaged EXCEPT ![r] = Unset]
          /\ GotoPhase(r, BatchCompleted, "open")
          /\ UNCHANGED <<candidates, disk, told, faults, losses>>
       \/ bundle \notin {Unset, batchStaged[r]} /\ Refused(r)
       \* The bundle is published and the call fails.
       \/ /\ bundle = Unset /\ faults < MaxFaults
          /\ bundle' = batchStaged[r] /\ EndRun(r)
          /\ faults' = faults + 1
          /\ UNCHANGED <<disk, told, losses>>

FinishBatch(r) ==
    /\ batchPc[r] = <<BatchCompleted, "checkpoint">>
    /\ EndRun(r)
    /\ UNCHANGED <<disk, bundle, told, faults, losses>>

-----------------------------------------------------------------------------
(* Faults *)

\* A call fails, or the process dies.
Fail(r) ==
    /\ batchPc[r] # <<0, "idle">> /\ faults < MaxFaults /\ faults' = faults + 1
    /\ Raise(r) /\ UNCHANGED losses

PowerLoss ==
    /\ losses < MaxLosses /\ losses' = losses + 1
    /\ batchPc' = [r \in BatchRuns |-> <<0, "idle">>]
    /\ cohort' = [r \in BatchRuns |-> Unset] /\ batchItems' = cohort' /\ verdict' = cohort' /\ batchStaged' = cohort'
    /\ \/ /\ dir = "made" /\ dir' = "absent"
          /\ journal' = [k \in BatchPhases |-> Unset] /\ synced' = {}
       \/ /\ UNCHANGED dir
          /\ \E lost \in SUBSET (BatchPhases \ synced) :
                journal' = [k \in BatchPhases |-> IF k \in lost THEN Unset ELSE journal[k]]
          /\ synced' = {k \in BatchPhases : journal'[k] # Unset}
    /\ UNCHANGED <<bundle, told, faults>>

Record(r, k) ==
    \/ OpenDirectory(r, k) \/ MakeDirectory(r, k) \/ SyncParent(r, k)
    \/ ReadRecord(r, k) \/ LinkRecord(r, k) \/ SyncRecord(r, k) \/ VerifyRecord(r, k)

BatchNext ==
    \/ \E r \in BatchRuns :
          \/ Build(r)
          \/ \E k \in BatchPhases : Record(r, k) \/ Cancel(r, k) \/ Proceed(r, k)
          \/ Verify(r) \/ StageExport(r) \/ Commit(r) \/ FinishBatch(r)
          \/ Fail(r)
    \/ PowerLoss

BatchSpec == BatchInit /\ [][BatchNext]_batchVars

-----------------------------------------------------------------------------
(* Properties *)

Bindings ==
    {<<c>> : c \in Cohorts} \cup (Cohorts \X BatchStatuses)
    \cup (Cohorts \X BatchStatuses \X [Members -> {"APPROVED", "MANUAL_REVIEW", "REJECTED"}])

\* The variables stay in their types.
BatchTypeOK ==
    /\ dir \in {"absent", "made", "synced"}
    /\ \A k \in BatchPhases : journal[k] \in Bindings \cup {Unset}
    /\ synced \subseteq {k \in BatchPhases : journal[k] # Unset}
    /\ bundle \in Bindings \cup {Unset}

\* A batch has one result: once a bundle is published, no later or concurrent run with
\* other candidates, another verdict or other decisions replaces it.
OneResult == [][bundle # Unset => bundle' = bundle]_batchVars

\* A bundle is published only under a record, at that moment, of exactly its cohort,
\* verdict and decisions.
PublishedAsRecorded ==
    [][bundle' # bundle => bundle' = journal[Staged] /\ bundle' = journal[Routed]]_batchVars

\* A member is approved only when the whole cohort was verified: one rule about the
\* batch that failed, or could not be checked, approves nobody.
ApprovedByBoth ==
    \A r \in BatchRuns : batchStaged[r] # Unset /\ Len(batchStaged[r]) = 3 =>
        \A m \in Members : batchStaged[r][3][m] = "APPROVED" =>
            batchItems[r][m] = "PASS" /\ batchStaged[r][2] = "PASS"

\* The records tell one story: each is bound to what the earlier ones say.
Agrees(earlier, later) ==
    Len(earlier) <= Len(later) /\ \A i \in DOMAIN earlier : later[i] = earlier[i]
OneStory ==
    losses = 0 => \A j, k \in BatchPhases : j < k /\ journal[k] # Unset =>
        journal[j] # Unset /\ Agrees(journal[j], journal[k])

\* A member is approved only by its own report and the batch's, and the journal tells
\* one story.  A batch has one result, which is the one its journal recorded.
BatchIsOne ==
    /\ [](BatchTypeOK /\ ApprovedByBoth /\ OneStory)
    /\ OneResult /\ PublishedAsRecorded

=============================================================================
