------------------------- MODULE Publication_proofs --------------------------
(***************************************************************************)
(* Proofs about what a job publishes. ProductionExport: what a cancelled   *)
(* and a completed job may have in the target directory, and that the      *)
(* lifecycle implements ExportOutcome. InputCas: what a style that was     *)
(* stored leaves on disk, and who may fail to store it. BundlePublication: *)
(* what bears the name of a bundle, and who says so. PairStore: what a     *)
(* pair of files that was stored or read leaves on disk, for good.         *)
(***************************************************************************)
EXTENDS ProductionExport, InputCas, BundlePublication, PairStore, FiniteSetTheorems, TLAPS

(* A bundle exists only for a job that is being exported or has been. *)
PublishedIsRecorded == Published => status \in {"EXPORTING", "COMPLETED"}

(* The phase a cancellation trusts: while it says STAGING there is no      *)
(* bundle, whatever failed or died before.                                 *)
StagingIsUnpublished == phase = "STAGING" => ~Published

(* What a publication knows at each step of its hold of the job lock. *)
CommitInv ==
    /\ op \in Locked => status = "EXPORTING"
    /\ op \in {"rename", "sync"} => phase = "UNKNOWN"
    /\ op \in {"sync", "append"} => Published
    /\ op = "append" => phase = "PUBLISHED"

(* Nobody takes a published bundle away while a recovery runs, and what is *)
(* being staged was not there.                                             *)
SeenInv ==
    /\ op = "commit" /\ seen => Published
    /\ op \in {"inspect", "stage"} => ~seen
    /\ op = "stage" => ~Published

DurableInv ==
    RenameDurable => bundle # "volatile" /\ (status = "COMPLETED" => bundle = "durable")

IInv ==
    /\ TypeOK
    /\ PublishedIsRecorded
    /\ StagingIsUnpublished
    /\ CommitInv
    /\ SeenInv
    /\ DurableInv

(* A failure stays within its bound. *)
LEMMA FaultBounded == ASSUME faults \in 0 .. MaxFaults, Fault PROVE faults' \in 0 .. MaxFaults
  BY FaultAssumption DEF Fault

(* The invariant holds initially. *)
LEMMA InitInv == Init => IInv
<1>1. 0 \in 0 .. MaxFaults
  BY FaultAssumption
<1>2. QED
  BY <1>1, RenameAssumption, FaultAssumption
     DEF Init, IInv, TypeOK, PublishedIsRecorded, StagingIsUnpublished, CommitInv,
         SeenInv, DurableInv, Published, Decided, Locked, Steps

(* Every step preserves the invariant, one action at a time. *)
LEMMA NextInv == IInv /\ [Next]_vars => IInv'
<1> SUFFICES ASSUME IInv, [Next]_vars
             PROVE  IInv'
  OBVIOUS
<1>0. Fault => faults' \in 0 .. MaxFaults
  BY FaultBounded DEF IInv, TypeOK
<1> USE RenameAssumption, <1>0
    DEF IInv, TypeOK, PublishedIsRecorded, StagingIsUnpublished, CommitInv, SeenInv,
        DurableInv, Published, Decided, Locked, Steps, Raise, Return, Goto, store,
        operation
<1>1. CASE BeginPublish
  BY <1>1 DEF BeginPublish, Recorded, Unrecorded
<1>2. CASE RecoverLoad
  BY <1>2 DEF RecoverLoad
<1>3. CASE Inspect
  <2>1. UNCHANGED <<store, bundle>> /\ seen = FALSE
    BY <1>3 DEF Inspect
  <2>2. CASE (UNCHANGED phase \/ phase' = "UNKNOWN") /\ (Raise \/ Return)
    BY <2>1, <2>2
  <2>3. CASE /\ bundle = "none"
             /\ phase' = "STAGING"
             /\ op' = "stage" /\ UNCHANGED <<seen, faults>>
    BY <2>1, <2>3
  <2>4. CASE /\ Published
             /\ phase' = "PUBLISHED"
             /\ op' = "commit" /\ seen' = TRUE /\ UNCHANGED faults
    BY <2>1, <2>4
  <2>5. QED
    BY <1>3, <2>2, <2>3, <2>4 DEF Inspect, Inspected
<1>4. CASE Stage
  BY <1>4 DEF Stage
<1>5. CASE CommitLoad
  BY <1>5 DEF CommitLoad
<1>6. CASE Rename
  BY <1>6 DEF Rename
<1>7. CASE Sync
  BY <1>7 DEF Sync
<1>8. CASE AppendPublished
  BY <1>8 DEF AppendPublished, Recorded, Unrecorded
<1>9. CASE Cancel
  BY <1>9 DEF Cancel, Recorded, Unrecorded, validate_transition, TRANSITIONS,
              TERMINAL_STATUSES
<1>10. CASE DropHolder
  BY <1>10 DEF DropHolder
<1>11. CASE TakeName
  BY <1>11 DEF TakeName
<1>12. CASE WriteBack
  BY <1>12 DEF WriteBack
<1>13. CASE ProcessCrash
  BY <1>13 DEF ProcessCrash
<1>14. CASE PowerLoss
  BY <1>14 DEF PowerLoss
<1>15. CASE UNCHANGED vars
  BY <1>15 DEF vars
<1>16. QED
  BY <1>1, <1>2, <1>3, <1>4, <1>5, <1>6, <1>7, <1>8, <1>9, <1>10, <1>11, <1>12,
     <1>13, <1>14, <1>15 DEF Next, Step

(* The invariant holds in every state. *)
LEMMA AlwaysInv == Spec => []IInv
<1>1. Init => IInv
  BY InitInv
<1>2. IInv /\ [Next]_vars => IInv'
  BY NextInv
<1>3. QED
  BY <1>1, <1>2, PTL DEF Spec

(* The variables keep their types; in particular an export never leaves    *)
(* its job JOB_FAILED.                                                     *)
THEOREM TypeCorrect == Spec => []TypeOK
<1>1. IInv => TypeOK
  BY DEF IInv
<1>2. QED
  BY <1>1, AlwaysInv, PTL

(* A cancelled job has no published bundle, whichever failures, crashes    *)
(* and power losses the lifecycle went through, however many.              *)
THEOREM NeverBoth == Spec => []CancelledIsUnpublished
<1>1. IInv => CancelledIsUnpublished
  BY DEF IInv, PublishedIsRecorded, CancelledIsUnpublished
<1>2. QED
  BY <1>1, AlwaysInv, PTL

(* If the bundle's new name survives a power loss, so does the bundle of   *)
(* every completed job.                                                    *)
THEOREM CompletedHasBundle == ASSUME RenameDurable PROVE Spec => []CompletedIsPublished
<1>1. IInv => CompletedIsPublished
  BY DEF IInv, DurableInv, CompletedIsPublished
<1>2. QED
  BY <1>1, AlwaysInv, PTL

(* Under the same assumption every step of the lifecycle is a step of      *)
(* ExportOutcome or leaves status and bundle alone.                        *)
LEMMA StepRefines ==
  ASSUME RenameDurable, IInv, [Next]_vars
  PROVE  [Outcome!Next]_(Outcome!vars)
<1> USE DEF Outcome!vars, Outcome!Next, Outcome!Take, Outcome!Start, Outcome!Publish,
        Outcome!Complete, Outcome!Cancel, Published, Decided, Fault, Raise, Return, Goto,
        store, operation
<1>1. CASE BeginPublish
  BY <1>1 DEF BeginPublish, Recorded, Unrecorded
<1>2. CASE RecoverLoad
  BY <1>2 DEF RecoverLoad
<1>3. CASE Inspect
  BY <1>3 DEF Inspect
<1>4. CASE Stage
  BY <1>4 DEF Stage
<1>5. CASE CommitLoad
  BY <1>5 DEF CommitLoad
<1>6. CASE Rename
  BY <1>6 DEF Rename, IInv, CommitInv, Locked
<1>7. CASE Sync
  BY <1>7 DEF Sync, IInv, CommitInv
<1>8. CASE AppendPublished
  BY <1>8 DEF AppendPublished, Recorded, Unrecorded, IInv, CommitInv, Locked
<1>9. CASE Cancel
  <2>1. ~Published
    BY <1>9 DEF Cancel, IInv, PublishedIsRecorded, StagingIsUnpublished, Recorded,
                validate_transition, TRANSITIONS, TERMINAL_STATUSES
  <2>2. status \in Decided \cup {"EXPORTING"}
    BY <1>9 DEF Cancel, IInv, TypeOK, Recorded, validate_transition, TRANSITIONS,
                TERMINAL_STATUSES
  <2>3. QED
    BY <1>9, <2>1, <2>2 DEF Cancel, Recorded, Unrecorded, IInv, TypeOK
<1>10. CASE DropHolder
  BY <1>10 DEF DropHolder
<1>11. CASE TakeName
  BY <1>11 DEF TakeName
<1>12. CASE WriteBack
  BY <1>12 DEF WriteBack
<1>13. CASE ProcessCrash
  BY <1>13 DEF ProcessCrash
<1>14. CASE PowerLoss
  BY <1>14 DEF PowerLoss, IInv, DurableInv
<1>15. CASE UNCHANGED vars
  BY <1>15 DEF vars
<1>16. QED
  BY <1>1, <1>2, <1>3, <1>4, <1>5, <1>6, <1>7, <1>8, <1>9, <1>10, <1>11, <1>12,
     <1>13, <1>14, <1>15 DEF Next, Step

(* The lifecycle implements ExportOutcome: exported or cancelled, never    *)
(* both, and neither is ever undone.                                       *)
THEOREM Refinement == ASSUME RenameDurable PROVE Spec => ImplementsOutcome
<1>1. Init => Outcome!Init
  BY DEF Init, Outcome!Init, Published
<1>2. IInv /\ [Next]_vars => [Outcome!Next]_(Outcome!vars)
  BY StepRefines
<1>3. QED
  BY <1>1, <1>2, AlwaysInv, PTL DEF Spec, Outcome!Spec, ImplementsOutcome

-----------------------------------------------------------------------------
(* The store of a style, for any number of publishers, of directories that *)
(* are moved away, bad files, failures, deaths and losses of power.        *)

CasPlaces == {"idle", "syncParent", "reconcile", "syncFound", "prepare", "write", "fsync", "link",
              "fail", "fallback", "proc", "procLink", "inspect", "syncDir", "readback", "stable"}

CasTypes ==
    /\ CasTypeOK /\ casPc \in [Publishers -> CasPlaces]
    /\ direct \in BOOLEAN /\ swaps \in Dirs /\ casTampered \in Nat /\ casFaults \in Nat

(* What a publisher relies on by each of its steps.                        *)
HasFile(t) ==
    \/ casPc[t] \in {"link", "fallback", "proc", "procLink"}
    \/ casPc[t] = "reconcile" /\ then[t] = "fallback"
HasFound(t) == casPc[t] \in {"syncFound", "inspect", "syncDir", "readback", "stable"}
Publishes(t) ==
    /\ opened[t] <= swaps
    /\ casPc[t] = "syncParent" => then[t] = "prepare"
    /\ HasFile(t) => tmp[t] = "durable"
    /\ HasFound(t) => Object(t) # "absent"
    /\ casPc[t] \in {"readback", "stable"} => opened[t] \in named
    /\ casResult[t] = "stored" /\ swaps = 0 => 0 \in named /\ obj[0] # "absent"

(* Left alone it finds its own file, or that of another one.               *)
FindsAFile(t) ==
    direct /\ Undisturbed =>
        /\ casPc[t] \notin {"fallback", "proc", "procLink", "fail"} /\ then[t] # "fallback"
        /\ casPc[t] = "reconcile" /\ then[t] = "fail" => Object(t) # "absent"
        /\ casPc[t] = "inspect" => by[opened[t]] = t
        /\ casResult[t] # "failed"

CasInv ==
    /\ CasTypes /\ VisibleIsDurable
    /\ \A t \in Publishers : Publishes(t) /\ FindsAFile(t)

(* What the step of one publisher leaves alone: the others, and every file *)
(* that bears the name.                                                    *)
NotTheOthers(t) ==
    \A u \in Publishers \ {t} :
        /\ casPc'[u] = casPc[u] /\ then'[u] = then[u] /\ opened'[u] = opened[u]
        /\ tmp'[u] = tmp[u] /\ casResult'[u] = casResult[u]
KeepsFiles ==
    /\ UNCHANGED <<direct, swaps, casTampered>>
    /\ casFaults' = 0 => casFaults = 0
    /\ \A d \in Dirs : obj[d] # "absent" =>
          obj'[d] # "absent" /\ by'[d] = by[d] /\ (d \in named => d \in named')
Acts(t) == CasStep(t) \/ Fail(t) \/ Crash(t)

LEMMA ReturnTypes ==
    ASSUME CasInv, NEW t \in Publishers, NEW outcome \in {Nil, "stored", "failed"},
           ReturnOutcome(t, outcome)
    PROVE  /\ casPc' \in [Publishers -> CasPlaces] /\ casPc'[t] = "idle"
           /\ casResult' \in [Publishers -> {Nil, "stored", "failed"}] /\ casResult'[t] = outcome
           /\ tmp' \in [Publishers -> {"none", "partial", "whole", "durable"}]
           /\ \A u \in Publishers \ {t} :
                 casPc'[u] = casPc[u] /\ tmp'[u] = tmp[u] /\ casResult'[u] = casResult[u]
  BY DEF ReturnOutcome, CasInv, CasTypes, CasTypeOK, CasPlaces

LEMMA RefusedFrame ==
    ASSUME CasInv, NEW t \in Publishers, Failed(t) \/ Crash(t),
           UNCHANGED world \/ CasFault
    PROVE  /\ CasTypes' /\ VisibleIsDurable' /\ NotTheOthers(t) /\ KeepsFiles
           /\ casPc'[t] = "idle" /\ casResult'[t] # "stored"
           /\ UNCHANGED <<opened, obj, by, named, then>>
           /\ UNCHANGED casFaults \/ casFaults' # 0
  <1>1. PICK outcome \in {Nil, "failed"} :
           ReturnOutcome(t, outcome) /\ UNCHANGED <<direct, then, opened, disk>>
        BY DEF Failed, Crash
  <1>2. /\ UNCHANGED <<swaps, casTampered>> /\ casFaults' \in Nat
        /\ UNCHANGED casFaults \/ casFaults' # 0
        BY DEF world, CasFault, Crash, CasInv, CasTypes
  <1>3. CasTypes' /\ NotTheOthers(t)
        BY <1>1, <1>2, ReturnTypes DEF disk, CasInv, CasTypes, CasTypeOK, NotTheOthers
  <1>4. VisibleIsDurable' /\ KeepsFiles
        BY <1>1, <1>2 DEF disk, CasInv, VisibleIsDurable, KeepsFiles
  <1>5. casPc'[t] = "idle" /\ casResult'[t] # "stored"
        BY <1>1, ReturnTypes, CasAssumptions
  <1> QED BY <1>1, <1>2, <1>3, <1>4, <1>5 DEF disk

LEMMA AdvanceTypes ==
    ASSUME CasInv, NEW t \in Publishers, NEW step \in CasPlaces, Advance(t, step)
    PROVE  /\ casPc' \in [Publishers -> CasPlaces] /\ casPc'[t] = step /\ UNCHANGED casResult
           /\ \A u \in Publishers \ {t} : casPc'[u] = casPc[u]
  BY DEF Advance, CasInv, CasTypes

LEMMA LinkedFrame ==
    ASSUME CasInv, NEW t \in Publishers, Linked(t), tmp[t] = "durable"
    PROVE  /\ dir' = dir /\ Object(t) = "absent"
           /\ obj' \in [Dirs -> {"absent", "bad", "whole", "durable"}] /\ obj'[opened[t]] = "durable"
           /\ by' \in [Dirs -> Publishers \cup {Nil}] /\ by'[opened[t]] = t
           /\ named' \in SUBSET Dirs
           /\ \A d \in Dirs : obj[d] # "absent" =>
                 obj'[d] # "absent" /\ by'[d] = by[d] /\ (d \in named => d \in named')
           /\ casTampered = 0 => \A d \in Dirs : obj'[d] \in {"absent", "durable"}
  BY DEF Linked, Object, CasInv, CasTypes, CasTypeOK, VisibleIsDurable

(* Whoever is refused while the others leave the name alone was disturbed. *)
LEMMA RefusedStep ==
    ASSUME CasInv, NEW t \in Publishers,
           (Refused(t) /\ ~(direct /\ Undisturbed)) \/ Fail(t) \/ Crash(t)
    PROVE  CasTypes' /\ VisibleIsDurable' /\ NotTheOthers(t) /\ KeepsFiles
           /\ Publishes(t)' /\ FindsAFile(t)'
  <1>1. /\ CasTypes' /\ VisibleIsDurable' /\ NotTheOthers(t) /\ KeepsFiles
        /\ casPc'[t] = "idle" /\ casResult'[t] # "stored"
        /\ UNCHANGED <<opened, obj, by, named, then>>
        BY RefusedFrame DEF Refused, Fail, Crash
  <1>2. Publishes(t)'
        BY <1>1 DEF Publishes, HasFile, HasFound, CasInv, KeepsFiles
  <1>3. ~(direct' /\ Undisturbed')
    <2>1. CASE Refused(t) /\ ~(direct /\ Undisturbed)
          BY <2>1 DEF Refused, Failed, world, Undisturbed
    <2>2. CASE Fail(t) \/ Crash(t)
          BY <2>2 DEF Fail, Crash, CasFault, Undisturbed, CasInv, CasTypes
    <2> QED BY <2>1, <2>2
  <1> QED BY <1>1, <1>2, <1>3 DEF FindsAFile

(* A step that changes nothing but the place of the publisher.             *)
LEMMA AdvanceStep ==
    ASSUME CasInv, NEW t \in Publishers, NEW step \in CasPlaces, Advance(t, step),
           UNCHANGED <<direct, then, opened, disk, world>>,
           tmp' = tmp \/ \E file \in {"partial", "whole", "durable"} : tmp' = [tmp EXCEPT ![t] = file]
    PROVE  CasTypes' /\ VisibleIsDurable' /\ NotTheOthers(t) /\ KeepsFiles
           /\ casPc'[t] = step /\ UNCHANGED <<casResult, then, opened, dir, obj, by, named>>
  <1>1. UNCHANGED <<direct, then, opened, dir, obj, by, named, swaps, casTampered, casFaults>>
        BY DEF disk, world
  <1>2. /\ tmp' \in [Publishers -> {"none", "partial", "whole", "durable"}]
        /\ \A u \in Publishers \ {t} : tmp'[u] = tmp[u]
        BY DEF CasInv, CasTypes, CasTypeOK
  <1>3. CasTypes' /\ NotTheOthers(t)
        BY <1>1, <1>2, AdvanceTypes DEF CasInv, CasTypes, CasTypeOK, NotTheOthers
  <1> QED BY <1>1, <1>3, AdvanceTypes DEF CasInv, VisibleIsDurable, KeepsFiles

LEMMA LookSteps ==
    ASSUME CasInv, NEW t \in Publishers,
           \/ ReconcileOpen(t) \/ EnsureAbsent(t) \/ EnsureStillAbsent(t) \/ InspectFinal(t)
           \/ Readback(t)
    PROVE  CasTypes' /\ VisibleIsDurable' /\ NotTheOthers(t) /\ KeepsFiles
           /\ Publishes(t)' /\ FindsAFile(t)'
  <1> CasTypes /\ VisibleIsDurable /\ Publishes(t) /\ FindsAFile(t)
      BY DEF CasInv
  <1>f. /\ opened[t] \in Dirs /\ then[t] \in {"prepare", "fallback", "fail"}
        /\ Object(t) \in {"absent", "bad", "whole", "durable"}
        /\ Undisturbed => Object(t) \in {"absent", "durable"} /\ Stable(t)
    <2>1. opened[t] \in Dirs /\ then[t] \in {"prepare", "fallback", "fail"}
          BY DEF CasTypes, CasTypeOK
    <2>2. Undisturbed => opened[t] = 0 /\ swaps = 0
          BY <2>1 DEF Undisturbed, Publishes, Dirs
    <2> QED BY <2>1, <2>2 DEF CasTypes, CasTypeOK, Object, Undisturbed, VisibleIsDurable, Stable
  <1>0. ASSUME NEW step \in CasPlaces, Advance(t, step),
               UNCHANGED <<direct, then, opened, tmp, disk, world>>
        PROVE  /\ CasTypes' /\ VisibleIsDurable' /\ NotTheOthers(t) /\ KeepsFiles
               /\ casPc'[t] = step /\ Object(t)' = Object(t) /\ (Undisturbed' <=> Undisturbed)
               /\ UNCHANGED <<casResult, then, opened, tmp, dir, obj, by, named, direct, swaps>>
        BY <1>0, AdvanceStep DEF Object, Undisturbed, world
  <1>1. CASE ReconcileOpen(t)
    <2>1. CASE Object(t) \in {"absent", "whole", "durable"}
      <3> DEFINE next == IF Object(t) = "absent" THEN then[t] ELSE "syncFound"
      <3>1. next \in CasPlaces
            BY <1>f DEF CasPlaces
      <3>2. casPc[t] = "reconcile" /\ Advance(t, next) /\ UNCHANGED <<direct, then, opened, tmp, disk, world>>
            BY <1>1, <2>1 DEF ReconcileOpen, Look
      <3>3. /\ CasTypes' /\ VisibleIsDurable' /\ NotTheOthers(t) /\ KeepsFiles
            /\ casPc'[t] = next /\ Object(t)' = Object(t) /\ (Undisturbed' <=> Undisturbed)
            /\ UNCHANGED <<casResult, then, opened, tmp, dir, obj, by, named, direct, swaps>>
            BY <1>0, <3>1, <3>2
      <3>4. Publishes(t)'
            BY <1>f, <3>2, <3>3 DEF Publishes, HasFile, HasFound
      <3>5. FindsAFile(t)'
            BY <1>f, <3>2, <3>3 DEF FindsAFile
      <3> QED BY <3>3, <3>4, <3>5
    <2>2. CASE Object(t) \notin {"absent", "whole", "durable"}
      <3>1. Refused(t) /\ ~Undisturbed
            BY <1>1, <1>f, <2>2 DEF ReconcileOpen, Look
      <3> QED BY <3>1, RefusedStep
    <2> QED BY <2>1, <2>2
  <1>2. CASE EnsureAbsent(t) \/ EnsureStillAbsent(t)
    <2>1. /\ casPc[t] \in {"fallback", "proc"} /\ ~(direct /\ Undisturbed)
          /\ \/ Refused(t)
             \/ \E step \in {"proc", "procLink"} :
                    Advance(t, step) /\ UNCHANGED <<direct, then, opened, tmp, disk, world>>
          BY <1>2 DEF EnsureAbsent, EnsureStillAbsent, Look, FindsAFile
    <2>2. CASE Refused(t)
          BY <2>1, <2>2, RefusedStep
    <2>3. ASSUME NEW step \in {"proc", "procLink"},
                 Advance(t, step) /\ UNCHANGED <<direct, then, opened, tmp, disk, world>>
          PROVE  CasTypes' /\ VisibleIsDurable' /\ NotTheOthers(t) /\ KeepsFiles
                 /\ Publishes(t)' /\ FindsAFile(t)'
      <3>1. step \in CasPlaces
            BY DEF CasPlaces
      <3>3. /\ CasTypes' /\ VisibleIsDurable' /\ NotTheOthers(t) /\ KeepsFiles
            /\ casPc'[t] = step /\ Object(t)' = Object(t) /\ (Undisturbed' <=> Undisturbed)
            /\ UNCHANGED <<casResult, then, opened, tmp, dir, obj, by, named, direct, swaps>>
            BY <1>0, <2>3, <3>1
      <3> QED BY <2>1, <3>3 DEF Publishes, HasFile, HasFound, FindsAFile
    <2> QED BY <2>1, <2>2, <2>3
  <1>3. CASE InspectFinal(t)
    <2>1. casPc[t] = "inspect"
          BY <1>3 DEF InspectFinal, Look
    <2>2. CASE by[opened[t]] = t /\ Good(Object(t)) /\ Stable(t)
      <3>1. Advance(t, "syncDir") /\ UNCHANGED <<direct, then, opened, tmp, disk, world>>
            BY <1>3, <2>2 DEF InspectFinal, Look
      <3>2. "syncDir" \in CasPlaces
            BY DEF CasPlaces
      <3> QED BY <1>0, <2>1, <3>1, <3>2 DEF Publishes, HasFile, HasFound, FindsAFile
    <2>3. CASE ~(by[opened[t]] = t /\ Good(Object(t)) /\ Stable(t))
      <3>1. Refused(t)
            BY <1>3, <2>3 DEF InspectFinal, Look
      <3>2. ~(direct /\ Undisturbed)
            BY <1>f, <2>1, <2>3 DEF FindsAFile, Publishes, HasFound, Good
      <3> QED BY <3>1, <3>2, RefusedStep
    <2> QED BY <2>2, <2>3
  <1>4. CASE Readback(t)
    <2>1. casPc[t] = "readback"
          BY <1>4 DEF Readback, Look
    <2>2. CASE Good(Object(t))
      <3>1. Advance(t, "stable") /\ UNCHANGED <<direct, then, opened, tmp, disk, world>>
            BY <1>4, <2>2 DEF Readback, Look
      <3>2. "stable" \in CasPlaces
            BY DEF CasPlaces
      <3> QED BY <1>0, <2>1, <3>1, <3>2 DEF Publishes, HasFile, HasFound, FindsAFile
    <2>3. CASE ~Good(Object(t))
      <3>1. Refused(t) /\ ~Undisturbed
            BY <1>4, <1>f, <2>1, <2>3 DEF Readback, Look, Publishes, HasFound, Good
      <3> QED BY <3>1, RefusedStep
    <2> QED BY <2>2, <2>3
  <1> QED BY <1>1, <1>2, <1>3, <1>4

LEMMA FileSteps ==
    ASSUME CasInv, NEW t \in Publishers,
           OpenPrefix(t) \/ OpenTmp(t) \/ WriteAll(t) \/ FsyncTmp(t)
    PROVE  CasTypes' /\ VisibleIsDurable' /\ NotTheOthers(t) /\ KeepsFiles
           /\ Publishes(t)' /\ FindsAFile(t)'
  <1> CasTypes /\ VisibleIsDurable /\ Publishes(t) /\ FindsAFile(t)
      BY DEF CasInv
  <1>1. CASE OpenPrefix(t)
    <2>1. /\ UNCHANGED <<direct, tmp, obj, by, named, swaps, casTampered, casFaults>>
          /\ casPc'[t] \in {"syncParent", "reconcile"} /\ opened'[t] = swaps /\ then'[t] = "prepare"
          /\ casResult'[t] = Nil
          BY <1>1 DEF OpenPrefix, world, CasTypes, CasTypeOK
    <2>2. CasTypes' /\ NotTheOthers(t)
          BY <1>1, <2>1 DEF OpenPrefix, CasTypes, CasTypeOK, CasPlaces, NotTheOthers
    <2>3. VisibleIsDurable' /\ KeepsFiles
          BY <2>1 DEF VisibleIsDurable, KeepsFiles
    <2>4. Publishes(t)' /\ FindsAFile(t)'
          BY <2>1, CasAssumptions DEF Publishes, HasFile, HasFound, FindsAFile, CasTypes, Dirs
    <2> QED BY <2>2, <2>3, <2>4
  <1>2. ASSUME NEW step \in {"write", "fsync", "link"}, Advance(t, step),
               UNCHANGED <<direct, then, opened, disk, world>>,
               NEW file \in {"partial", "whole", "durable"}, tmp' = [tmp EXCEPT ![t] = file],
               step = "link" => file = "durable"
        PROVE  CasTypes' /\ VisibleIsDurable' /\ NotTheOthers(t) /\ KeepsFiles
               /\ Publishes(t)' /\ FindsAFile(t)'
    <2>1. step \in CasPlaces /\ tmp'[t] = file
          BY <1>2 DEF CasPlaces, CasTypes, CasTypeOK
    <2>2. /\ CasTypes' /\ VisibleIsDurable' /\ NotTheOthers(t) /\ KeepsFiles
          /\ casPc'[t] = step /\ UNCHANGED <<casResult, then, opened, dir, obj, by, named>>
          BY <1>2, <2>1, AdvanceStep
    <2>3. UNCHANGED <<direct, swaps, casTampered, casFaults>>
          BY <1>2 DEF world
    <2> QED BY <1>2, <2>1, <2>2, <2>3 DEF Publishes, HasFile, HasFound, FindsAFile, Undisturbed
  <1>3. CASE OpenTmp(t)
        BY <1>2, <1>3 DEF OpenTmp
  <1>4. CASE WriteAll(t)
        BY <1>2, <1>4 DEF WriteAll
  <1>5. CASE FsyncTmp(t)
    <2>1. CASE Stable(t)
          BY <1>2, <1>5, <2>1 DEF FsyncTmp
    <2>2. CASE ~Stable(t)
      <3>1. Refused(t) /\ ~Undisturbed
            BY <1>5, <2>2 DEF FsyncTmp, Stable, Undisturbed, Publishes, CasTypes, CasTypeOK, Dirs
      <3> QED BY <3>1, RefusedStep
    <2> QED BY <2>1, <2>2
  <1> QED BY <1>1, <1>3, <1>4, <1>5

LEMMA SyncSteps ==
    ASSUME CasInv, NEW t \in Publishers, SyncParent(t) \/ SyncFound(t) \/ SyncDir(t)
    PROVE  CasTypes' /\ VisibleIsDurable' /\ NotTheOthers(t) /\ KeepsFiles
           /\ Publishes(t)' /\ FindsAFile(t)'
  <1> CasTypes /\ VisibleIsDurable /\ Publishes(t) /\ FindsAFile(t)
      BY DEF CasInv
  <1>0. "reconcile" \in CasPlaces /\ "readback" \in CasPlaces
        BY DEF CasPlaces
  <1>1. CASE SyncParent(t)
    <2>1. UNCHANGED <<direct, then, opened, tmp, obj, by, named, swaps, casTampered, casFaults>>
          BY <1>1 DEF SyncParent, world
    <2>2. /\ casPc[t] = "syncParent" /\ casPc'[t] = "reconcile" /\ UNCHANGED casResult
          /\ casPc' \in [Publishers -> CasPlaces] /\ \A u \in Publishers \ {t} : casPc'[u] = casPc[u]
          BY <1>0, <1>1, AdvanceTypes DEF SyncParent
    <2>3. dir' = "synced"
          BY <1>1 DEF SyncParent
    <2>4. CasTypes' /\ NotTheOthers(t) /\ VisibleIsDurable' /\ KeepsFiles
          BY <2>1, <2>2, <2>3 DEF CasTypes, CasTypeOK, NotTheOthers, VisibleIsDurable, KeepsFiles
    <2>5. (direct /\ Undisturbed => then[t] # "fallback") /\ (then[t] = "fail" => then'[t] = "fail")
          BY <2>1 DEF FindsAFile
    <2> QED BY <2>1, <2>2, <2>4, <2>5 DEF Publishes, HasFile, HasFound, FindsAFile, Undisturbed, Object
  <1>2. CASE SyncFound(t) \/ SyncDir(t)
    <2>1. /\ UNCHANGED <<direct, then, opened, tmp, dir, by, swaps, casTampered, casFaults>>
          /\ casPc[t] \in {"syncFound", "syncDir"} /\ Advance(t, "readback")
          /\ obj' = obj \/ obj' = [obj EXCEPT ![opened[t]] = IF @ = "whole" THEN "durable" ELSE @]
          /\ named' = IF Object(t) = "absent" THEN named ELSE named \cup {opened[t]}
          BY <1>2 DEF SyncFound, SyncDir, world
    <2>2. /\ casPc'[t] = "readback" /\ UNCHANGED casResult
          /\ casPc' \in [Publishers -> CasPlaces] /\ \A u \in Publishers \ {t} : casPc'[u] = casPc[u]
          BY <1>0, <2>1, AdvanceTypes
    <2>3. opened[t] \in Dirs /\ Object(t) # "absent"
          BY <2>1 DEF CasTypes, CasTypeOK, Publishes, HasFound
    <2>4. /\ named' = named \cup {opened[t]}
          /\ obj' \in [Dirs -> {"absent", "bad", "whole", "durable"}]
          /\ \A d \in Dirs : obj'[d] = obj[d] \/ (obj[d] = "whole" /\ obj'[d] = "durable")
          BY <2>1, <2>3 DEF CasTypes, CasTypeOK
    <2>5. CasTypes' /\ NotTheOthers(t) /\ VisibleIsDurable' /\ KeepsFiles
          BY <2>1, <2>2, <2>3, <2>4 DEF CasTypes, CasTypeOK, NotTheOthers, VisibleIsDurable, KeepsFiles
    <2>6. 0 \in Dirs
          BY CasAssumptions DEF Dirs
    <2>7. obj'[opened[t]] # "absent" /\ (obj[0] # "absent" => obj'[0] # "absent")
          BY <2>3, <2>4, <2>6 DEF Object
    <2>8. Publishes(t)'
          BY <2>1, <2>2, <2>4, <2>7 DEF Publishes, HasFile, HasFound, Object
    <2>9. FindsAFile(t)'
          BY <2>1, <2>2 DEF FindsAFile, Undisturbed
    <2> QED BY <2>5, <2>8, <2>9
  <1> QED BY <1>1, <1>2

(* A link that succeeds, and one that is reconciled.                       *)
LEMMA LinkSteps ==
    ASSUME CasInv, NEW t \in Publishers, DirectLink(t) \/ ProcLink(t)
    PROVE  CasTypes' /\ VisibleIsDurable' /\ NotTheOthers(t) /\ KeepsFiles
           /\ Publishes(t)' /\ FindsAFile(t)'
  <1> CasTypes /\ VisibleIsDurable /\ Publishes(t) /\ FindsAFile(t)
      BY DEF CasInv
  <1>1. /\ tmp[t] = "durable" /\ UNCHANGED <<direct, opened, tmp>>
        /\ direct /\ Undisturbed => casPc[t] = "link"
        BY DEF DirectLink, ProcLink, Publishes, HasFile, FindsAFile
  <1>2. PICK step \in {"inspect", "reconcile"} :
           /\ Advance(t, step)
           /\ step = "inspect" => then' = then /\ Linked(t) /\ UNCHANGED world
           /\ step = "reconcile" =>
                 /\ then' = [then EXCEPT ![t] = "fail"] \/ (~direct /\ then' = [then EXCEPT ![t] = "fallback"])
                 /\ \/ UNCHANGED <<disk, world>> /\ (Object(t) # "absent" \/ ~direct)
                    \/ CasFault /\ (Linked(t) \/ UNCHANGED disk)
    <2>1. CASE DirectLink(t)
          BY <2>1 DEF DirectLink, ReconcileThen
    <2>2. CASE ProcLink(t)
          BY <2>2 DEF ProcLink, ReconcileThen
    <2> QED BY <2>1, <2>2
  <1>3. /\ casPc'[t] = step /\ UNCHANGED casResult
        /\ casPc' \in [Publishers -> CasPlaces] /\ \A u \in Publishers \ {t} : casPc'[u] = casPc[u]
    <2>1. step \in CasPlaces
          BY DEF CasPlaces
    <2> QED BY <1>2, <2>1, AdvanceTypes
  <1>4. /\ then' \in [Publishers -> {"prepare", "fallback", "fail"}]
        /\ \A u \in Publishers \ {t} : then'[u] = then[u]
        /\ step = "reconcile" => then'[t] = "fail" \/ (~direct /\ then'[t] = "fallback")
        /\ step = "inspect" => then'[t] = then[t]
        BY <1>2 DEF CasTypes, CasTypeOK
  <1>5. Linked(t) \/ UNCHANGED disk
        BY <1>2
  <1>6. /\ UNCHANGED <<swaps, casTampered>> /\ casFaults' \in Nat
        /\ UNCHANGED casFaults \/ casFaults' # 0
        BY <1>2 DEF world, CasFault, CasTypes
  <1>7. /\ dir' = dir /\ named' \in SUBSET Dirs
        /\ obj' \in [Dirs -> {"absent", "bad", "whole", "durable"}]
        /\ by' \in [Dirs -> Publishers \cup {Nil}]
        /\ \A d \in Dirs : obj[d] # "absent" =>
              obj'[d] # "absent" /\ by'[d] = by[d] /\ (d \in named => d \in named')
        /\ casTampered = 0 => \A d \in Dirs : obj'[d] \in {"absent", "durable"}
        /\ Linked(t) => obj'[opened[t]] = "durable" /\ by'[opened[t]] = t
    <2>1. CASE Linked(t)
          BY <1>1, <2>1, LinkedFrame
    <2>2. CASE UNCHANGED disk /\ ~Linked(t)
          BY <2>2 DEF disk, CasTypes, CasTypeOK, VisibleIsDurable
    <2> QED BY <1>5, <2>1, <2>2
  <1>8. CasTypes' /\ NotTheOthers(t)
        BY <1>1, <1>3, <1>4, <1>6, <1>7 DEF CasTypes, CasTypeOK, NotTheOthers
  <1>9. VisibleIsDurable' /\ KeepsFiles
        BY <1>1, <1>6, <1>7 DEF VisibleIsDurable, KeepsFiles, CasTypes
  <1>10. 0 \in Dirs /\ opened[t] \in Dirs
         BY CasAssumptions DEF Dirs, CasTypes, CasTypeOK
  <1>11. Publishes(t)'
         BY <1>1, <1>2, <1>3, <1>6, <1>7, <1>10 DEF Publishes, HasFile, HasFound, Object
  <1>12. FindsAFile(t)'
    <2>1. CASE step = "inspect"
          BY <1>1, <1>2, <1>3, <1>4, <1>6, <1>7, <2>1 DEF FindsAFile, Undisturbed
    <2>2. CASE step = "reconcile"
      <3>1. direct' /\ Undisturbed' => UNCHANGED disk /\ Object(t) # "absent" /\ direct /\ Undisturbed
            BY <1>1, <1>2, <1>6, <2>2 DEF Undisturbed, CasFault, CasTypes
      <3>2. direct' /\ Undisturbed' => Object(t)' # "absent"
            BY <1>1, <1>7, <1>10, <3>1 DEF Object
      <3> QED BY <1>1, <1>3, <1>4, <2>2, <3>1, <3>2 DEF FindsAFile
    <2> QED BY <2>1, <2>2
  <1> QED BY <1>8, <1>9, <1>11, <1>12

LEMMA EndSteps ==
    ASSUME CasInv, NEW t \in Publishers, CheckBindings(t) \/ NothingBearsIt(t)
    PROVE  CasTypes' /\ VisibleIsDurable' /\ NotTheOthers(t) /\ KeepsFiles
           /\ Publishes(t)' /\ FindsAFile(t)'
  <1> CasTypes /\ VisibleIsDurable /\ Publishes(t) /\ FindsAFile(t)
      BY DEF CasInv
  <1>1. CASE NothingBearsIt(t)
        BY <1>1, RefusedStep DEF NothingBearsIt, FindsAFile
  <1>2. CASE CheckBindings(t) /\ ~Stable(t)
    <2>1. Refused(t) /\ ~Undisturbed
          BY <1>2 DEF CheckBindings, Stable, Undisturbed, Publishes, CasTypes, CasTypeOK, Dirs
    <2> QED BY <2>1, RefusedStep
  <1>3. CASE CheckBindings(t) /\ Stable(t)
    <2>1. casPc[t] = "stable" /\ ReturnOutcome(t, "stored")
          /\ UNCHANGED <<direct, then, opened, dir, obj, by, named, swaps, casTampered, casFaults>>
          BY <1>3 DEF CheckBindings, Succeed, disk, world
    <2>2. /\ casPc' \in [Publishers -> CasPlaces] /\ casPc'[t] = "idle"
          /\ casResult' \in [Publishers -> {Nil, "stored", "failed"}] /\ casResult'[t] = "stored"
          /\ tmp' \in [Publishers -> {"none", "partial", "whole", "durable"}]
          /\ \A u \in Publishers \ {t} :
                casPc'[u] = casPc[u] /\ tmp'[u] = tmp[u] /\ casResult'[u] = casResult[u]
          BY <2>1, ReturnTypes
    <2>3. CasTypes' /\ NotTheOthers(t)
          BY <2>1, <2>2 DEF CasTypes, CasTypeOK, NotTheOthers
    <2>4. VisibleIsDurable' /\ KeepsFiles
          BY <2>1 DEF VisibleIsDurable, KeepsFiles
    <2>5. opened[t] \in named /\ obj[opened[t]] # "absent" /\ opened[t] = swaps
          BY <1>3, <2>1 DEF Publishes, HasFound, Object, Stable
    <2> QED BY <2>1, <2>2, <2>3, <2>4, <2>5 DEF Publishes, HasFile, HasFound, FindsAFile, Undisturbed
  <1> QED BY <1>1, <1>2, <1>3

(* The step of one publisher takes nothing from another one.               *)
LEMMA ActsStep ==
    ASSUME CasInv, NEW t \in Publishers, Acts(t)
    PROVE  CasInv' /\ KeepsFiles /\ NotTheOthers(t)
  <1>1. CasTypes' /\ VisibleIsDurable' /\ NotTheOthers(t) /\ KeepsFiles
        /\ Publishes(t)' /\ FindsAFile(t)'
        BY LookSteps, FileSteps, SyncSteps, LinkSteps, EndSteps, RefusedStep DEF Acts, CasStep
  <1>2. ASSUME NEW u \in Publishers \ {t} PROVE Publishes(u)' /\ FindsAFile(u)'
    <2>1. Publishes(u) /\ FindsAFile(u) /\ opened[u] \in Dirs /\ 0 \in Dirs
          BY CasAssumptions DEF CasInv, CasTypes, CasTypeOK, Dirs
    <2>2. /\ casPc'[u] = casPc[u] /\ then'[u] = then[u] /\ opened'[u] = opened[u]
          /\ tmp'[u] = tmp[u] /\ casResult'[u] = casResult[u]
          BY <1>1 DEF NotTheOthers
    <2>3. /\ UNCHANGED <<direct, swaps, casTampered>> /\ (Undisturbed' => Undisturbed)
          /\ obj[0] # "absent" => obj'[0] # "absent" /\ (0 \in named => 0 \in named')
          /\ obj[opened[u]] # "absent" =>
                /\ obj'[opened[u]] # "absent" /\ by'[opened[u]] = by[opened[u]]
                /\ opened[u] \in named => opened[u] \in named'
          BY <1>1, <2>1 DEF KeepsFiles, Undisturbed
    <2>4. Publishes(u)'
          BY <2>1, <2>2, <2>3 DEF Publishes, HasFile, HasFound, Object
    <2>5. casPc[u] = "inspect" => obj[opened[u]] # "absent"
          BY <2>1 DEF Publishes, HasFound, Object
    <2>6. FindsAFile(u)'
          BY <2>1, <2>2, <2>3, <2>5 DEF FindsAFile, Object
    <2> QED BY <2>4, <2>6
  <1> QED BY <1>1, <1>2 DEF CasInv

LEMMA CasPowerStep ==
    ASSUME CasInv, CasPowerLoss
    PROVE  CasInv'
  <1> CasTypes /\ VisibleIsDurable
      BY DEF CasInv
  <1>1. PICK lost \in SUBSET Dirs :
           /\ obj' = [d \in Dirs |-> IF d \in lost THEN "absent"
                                     ELSE IF obj[d] = "whole" THEN "bad" ELSE obj[d]]
           /\ by' = [d \in Dirs |-> IF d \in lost THEN Nil ELSE by[d]]
           /\ named' = named \ lost
        BY DEF CasPowerLoss
  <1>2. /\ UNCHANGED <<direct, then, opened, swaps, casTampered>>
        /\ casFaults' \in Nat /\ casFaults' # 0 /\ dir' \in {"absent", "made", "synced"}
        BY DEF CasPowerLoss, CasFault, CasTypes, CasTypeOK
  <1>3. CasTypes'
    <2>1. /\ obj' \in [Dirs -> {"absent", "bad", "whole", "durable"}]
          /\ by' \in [Dirs -> Publishers \cup {Nil}] /\ named' \in SUBSET Dirs
          BY <1>1 DEF CasTypes, CasTypeOK
    <2> QED BY <1>2, <2>1 DEF CasPowerLoss, CasTypes, CasTypeOK, CasPlaces
  <1>4. VisibleIsDurable'
        BY <1>1, <1>2 DEF VisibleIsDurable, CasTypes
  <1>5. ASSUME NEW t \in Publishers PROVE Publishes(t)' /\ FindsAFile(t)'
    <2>1. casPc'[t] = "idle" /\ casResult'[t] = Nil
          BY DEF CasPowerLoss
    <2> QED BY <1>2, <2>1, CasAssumptions
            DEF CasInv, Publishes, HasFile, HasFound, FindsAFile, Undisturbed
  <1> QED BY <1>3, <1>4, <1>5 DEF CasInv

(* Another program makes bad files and moves directories; it removes none. *)
LEMMA OthersStep ==
    ASSUME CasInv, Tamper \/ Swap
    PROVE  CasInv'
  <1> CasTypes /\ VisibleIsDurable
      BY DEF CasInv
  <1>1. /\ UNCHANGED <<direct, casPc, then, opened, tmp, casResult, dir, named, casFaults>>
        /\ swaps' \in Dirs /\ swaps' >= swaps /\ casTampered' \in Nat /\ casTampered' >= casTampered
        /\ swaps' # 0 \/ casTampered' # 0
        BY CasAssumptions DEF Tamper, Swap, CasTypes, Dirs, disk
  <1>2. /\ obj' \in [Dirs -> {"absent", "bad", "whole", "durable"}]
        /\ by' \in [Dirs -> Publishers \cup {Nil}]
        /\ \A d \in Dirs : obj[d] # "absent" => obj'[d] # "absent"
        /\ casTampered' = 0 => obj' = obj
        BY DEF Tamper, Swap, CasTypes, CasTypeOK, disk
  <1>3. CasTypes' /\ VisibleIsDurable'
        BY <1>1, <1>2 DEF CasTypes, CasTypeOK, VisibleIsDurable
  <1>4. ASSUME NEW t \in Publishers PROVE Publishes(t)' /\ FindsAFile(t)'
    <2>1. opened[t] \in Dirs /\ 0 \in Dirs /\ swaps \in Nat /\ opened[t] \in Nat /\ swaps' \in Nat
          BY <1>1, CasAssumptions DEF CasTypes, CasTypeOK, Dirs
    <2>2. Publishes(t)'
          BY <1>1, <1>2, <2>1 DEF CasInv, Publishes, HasFile, HasFound, Object
    <2> QED BY <1>1, <2>2 DEF FindsAFile, Undisturbed
  <1> QED BY <1>3, <1>4 DEF CasInv

LEMMA CasInitially ==
    ASSUME CasInit PROVE CasInv
  <1>1. 0 \in Dirs
        BY CasAssumptions DEF Dirs
  <1>2. CasTypes
        BY <1>1 DEF CasInit, CasTypes, CasTypeOK, CasPlaces
  <1>3. VisibleIsDurable
        BY DEF CasInit, VisibleIsDurable
  <1>4. \A t \in Publishers : Publishes(t) /\ FindsAFile(t)
        BY CasAssumptions DEF CasInit, Publishes, HasFile, HasFound, FindsAFile
  <1> QED BY <1>2, <1>3, <1>4 DEF CasInv

LEMMA CasStepKeeps ==
    ASSUME CasInv, [CasNext]_casVars
    PROVE  CasInv'
  <1>1. CASE UNCHANGED casVars
        BY <1>1 DEF casVars, disk, world, CasInv, CasTypes, CasTypeOK, VisibleIsDurable, Publishes,
           HasFile, HasFound, Object, FindsAFile, Undisturbed
  <1> QED BY <1>1, ActsStep, CasPowerStep, OthersStep DEF CasNext, Acts

(* A publisher succeeds after its last look at the bindings only.          *)
LEMMA CasSuccess ==
    ASSUME CasInv, [CasNext]_casVars, NEW t \in Publishers,
           casResult'[t] = "stored", casResult[t] = Nil
    PROVE  opened[t] = swaps /\ (obj[swaps] = "durable" \/ casTampered > 0)
  <1> CasTypes /\ VisibleIsDurable /\ Publishes(t) /\ Nil # "stored"
      BY CasAssumptions DEF CasInv
  <1>1. PICK u \in Publishers : Acts(u)
        BY DEF CasNext, Acts, CasPowerLoss, Tamper, Swap, casVars
  <1>2. Acts(t)
        BY <1>1, ActsStep DEF NotTheOthers
  <1>3. ~Refused(t) /\ ~Fail(t) /\ ~Crash(t)
        BY RefusedFrame DEF Refused, Fail, Crash
  <1>4. CASE CheckBindings(t)
    <2>1. Stable(t) /\ HasFound(t)
          BY <1>3, <1>4 DEF CheckBindings, HasFound
    <2>2. swaps \in Dirs /\ obj[swaps] # "absent" /\ opened[t] = swaps
          BY <2>1 DEF Stable, Publishes, Object, CasTypes
    <2> QED BY <2>2 DEF VisibleIsDurable, CasTypes, CasTypeOK
  <1>5. CASE OpenPrefix(t)
        BY <1>5 DEF OpenPrefix, CasTypes, CasTypeOK
  <1>6. CASE SyncParent(t) \/ SyncFound(t) \/ OpenTmp(t) \/ WriteAll(t) \/ SyncDir(t)
        BY <1>6 DEF SyncParent, SyncFound, OpenTmp, WriteAll, SyncDir, Advance
  <1>7. CASE ReconcileOpen(t) \/ EnsureAbsent(t) \/ EnsureStillAbsent(t) \/ InspectFinal(t) \/ Readback(t)
        BY <1>3, <1>7 DEF ReconcileOpen, EnsureAbsent, EnsureStillAbsent, InspectFinal, Readback, Look, Advance
  <1>8. CASE FsyncTmp(t) \/ DirectLink(t) \/ ProcLink(t) \/ NothingBearsIt(t)
        BY <1>3, <1>8 DEF FsyncTmp, DirectLink, ProcLink, NothingBearsIt, ReconcileThen, Advance
  <1> QED BY <1>2, <1>3, <1>4, <1>5, <1>6, <1>7, <1>8 DEF Acts, CasStep

LEMMA CasReplaced ==
    ASSUME CasInv, [CasNext]_casVars, NEW d \in Dirs, obj[d] # "absent", by'[d] # by[d]
    PROVE  casTampered' # casTampered \/ casFaults' # casFaults
  <1>1. CASE \E t \in Publishers : Acts(t)
        BY <1>1, ActsStep DEF KeepsFiles
  <1>2. CASE CasPowerLoss \/ Tamper
        BY <1>2 DEF CasPowerLoss, CasFault, Tamper, CasInv, CasTypes
  <1>3. CASE Swap \/ UNCHANGED casVars
        BY <1>3 DEF Swap, disk, casVars
  <1> QED BY <1>1, <1>2, <1>3 DEF CasNext, Acts

(* A style is seen under its digest only when a power loss cannot change   *)
(* it, it has its name after a success, and publishers who are left alone  *)
(* all succeed; a publisher succeeds in the directory that bears the       *)
(* prefix, and nothing of ours is ever replaced (store_style and           *)
(* _publish of workflow/_production_input_cas.py).                         *)
THEOREM StyleDurable ==
    CasSpec => StyleIsDurable
  <1>1. CasInit => CasInv
        BY CasInitially
  <1>2. CasInv /\ [CasNext]_casVars => CasInv'
        BY CasStepKeeps
  <1>3. CasInv => CasTypeOK /\ VisibleIsDurable /\ StoredHasAName /\ ConvergeDirectly
    <2> HAVE CasInv
    <2>1. 0 \in Dirs
          BY CasAssumptions DEF Dirs
    <2>2. StoredHasAName
          BY <2>1 DEF CasInv, Publishes, StoredHasAName, VisibleIsDurable
    <2>3. ConvergeDirectly
          BY DEF CasInv, FindsAFile, ConvergeDirectly, Converge
    <2> QED BY <2>2, <2>3 DEF CasInv, CasTypes
  <1>4. CasInv /\ [CasNext]_casVars =>
           [\A t \in Publishers : casResult'[t] = "stored" /\ casResult[t] = Nil =>
               opened[t] = swaps /\ (obj[swaps] = "durable" \/ casTampered > 0)]_casVars
        BY CasSuccess
  <1>5. CasInv /\ [CasNext]_casVars =>
           [\A d \in Dirs : obj[d] # "absent" /\ by'[d] # by[d] =>
               casTampered' # casTampered \/ casFaults' # casFaults]_casVars
        BY CasReplaced
  <1>6. CasSpec => SuccessIsHere
        BY <1>1, <1>2, <1>4, PTL DEF CasSpec, SuccessIsHere
  <1>7. CasSpec => NeverReplaced
        BY <1>1, <1>2, <1>5, PTL DEF CasSpec, NeverReplaced
  <1>8. CasSpec => [](CasTypeOK /\ VisibleIsDurable /\ StoredHasAName /\ ConvergeDirectly)
        BY <1>1, <1>2, <1>3, PTL DEF CasSpec
  <1> QED BY <1>6, <1>7, <1>8 DEF StyleIsDurable

-----------------------------------------------------------------------------
(* The name of a bundle, for any number of threads, documents and exports, *)
(* writes of another program, failures, deaths and losses of power.        *)

BeforeRename == {"idle", "write", "readback", "seal", "open", "commit", "check", "recheck", "rename"}
AfterSeal == {"open", "commit", "check", "recheck", "rename",
              "opened", "fsync", "look", "read", "relook"}
AfterRename == {"opened", "fsync", "look", "read", "relook"}
WithName == {"commit", "check", "recheck", "rename", "opened", "fsync", "look", "read", "relook",
             "enter", "inspect", "inspectRead", "inspectAgain"}
BundlePlaces == BeforeRename \cup WithName \cup {"done"}
Outcomes == {"published", "converged", "found", "missing", "exists", "closed", "error"}

Whole(x) == \A f \in Files : tree[x][f] = "good"

BundleTypes ==
    /\ BundleTypeOK /\ pc \in [Threads -> BundlePlaces]
    /\ fds \in [Threads -> SUBSET {"root", "staging", "final"}]
    /\ entries \in [Threads -> SUBSET Files]
    /\ version \in [Threads -> Nat] /\ sealed \in [Threads -> Nat] /\ bundleSeen \in [Threads -> Nat]
    /\ result \in [Threads -> Outcomes \cup {None}] /\ takenBack \subseteq Threads
    /\ tampered \in Nat

(* Who is done holds nothing, and who holds the name is at work under it.  *)
HoldsFor(t) ==
    /\ pc[t] \in {"idle", "done"} => fds[t] = {}
    /\ lock.owner = t => pc[t] \in WithName
    /\ pc[t] \in {"commit", "check", "recheck", "rename", "enter"} /\ lock.owner = t => lock.depth = 1

(* What a thread knows of its tree and of the name at each of its steps. A *)
(* version that has not grown stands for a tree that nobody wrote to.      *)
KnowsTree(t) ==
    /\ pc[t] \in AfterSeal => sealed[t] <= version[t]
    /\ pc[t] \in {"readback", "seal"} \cup AfterSeal => entries[t] = Files
    /\ pc[t] \in {"seal"} \cup AfterSeal /\ tampered = 0 => Whole(t)
    /\ pc[t] = "relook" /\ version[t] = sealed[t] => Whole(t)
KnowsName(t) ==
    /\ pc[t] \in AfterRename => final = t
    /\ pc[t] \in {"look", "read", "relook"} => finalSynced
    /\ pc[t] \in {"inspectRead", "inspectAgain"} => final # None /\ bundleSeen[t] <= Version(final)
    /\ pc[t] = "inspectAgain" => final \in Threads /\ (Version(final) = bundleSeen[t] => Exact(final, t))
Wins(t) ==
    /\ pc[t] # "done" => result[t] = None
    /\ t \in Winners => final \in Threads /\ job[final] = job[t]
    /\ result[t] = "published" => final = t /\ finalSynced
    /\ t \in takenBack => result[t] \in {"found", "converged"}

(* What bears the name was sealed, and loses no document with the power.   *)
Bears ==
    final \in Threads =>
        /\ pc[final] \notin BeforeRename /\ entries[final] = Files
        /\ tampered = 0 => Whole(final)

BundleInv ==
    /\ BundleTypes /\ Bears
    /\ \A t \in Threads : HoldsFor(t) /\ KnowsTree(t) /\ KnowsName(t) /\ Wins(t)

LEMMA BundleInitially == BundleInit => BundleInv
  <1> SUFFICES ASSUME BundleInit PROVE BundleInv
      OBVIOUS
  <1> USE BundleAssumptions DEF BundleInit
  <1>1. BundleTypes
        BY DEF BundleTypes, BundleTypeOK, BundlePlaces, BeforeRename, WithName, Content, Free
  <1>2. Bears
        BY DEF Bears
  <1>3. ASSUME NEW t \in Threads PROVE HoldsFor(t) /\ KnowsTree(t) /\ KnowsName(t) /\ Wins(t)
        BY <1>3
        DEF HoldsFor, KnowsTree, KnowsName, Wins, Free, AfterSeal, AfterRename, Winners, Succeeded
  <1> QED BY <1>1, <1>2, <1>3 DEF BundleInv

(* What the step of one thread leaves alone: the others, a tree that it no *)
(* longer writes, and a name that is taken.                                *)
Frame(t) ==
    /\ UNCHANGED <<job, takenBack, tampered>>
    /\ \A u \in Threads \ {t} :
          /\ pc'[u] = pc[u] /\ sealed'[u] = sealed[u] /\ bundleSeen'[u] = bundleSeen[u]
          /\ version'[u] = version[u] /\ tree'[u] = tree[u] /\ entries'[u] = entries[u]
          /\ result'[u] = result[u] /\ fds'[u] = fds[u]
    /\ pc[t] # "write" => tree'[t] = tree[t] /\ version'[t] = version[t] /\ entries'[t] = entries[t]
    /\ pc[t] \notin BeforeRename => pc'[t] \notin BeforeRename
    /\ \/ lock' = lock
       \/ lock.owner \in {None, t} /\ (lock'.owner = t \/ lock' = Free)
    /\ \/ final' = final /\ (finalSynced => finalSynced')
       \/ final = None /\ final' = t

LEMMA FinalUnwritten ==
    ASSUME BundleInv, NEW t \in Threads, Frame(t), final # None
    PROVE  /\ final' = final /\ (finalSynced => finalSynced')
           /\ final \in Threads => tree'[final] = tree[final] /\ version'[final] = version[final]
                                    /\ entries'[final] = entries[final]
           /\ Version(final)' = Version(final)
           /\ \A u \in Threads : Exact(final, u)' <=> Exact(final, u)
  <1>1. final' = final /\ (finalSynced => finalSynced')
        BY DEF Frame
  <1>2. ASSUME final \in Threads
        PROVE  tree'[final] = tree[final] /\ version'[final] = version[final]
               /\ entries'[final] = entries[final]
        BY <1>2 DEF BundleInv, Bears, Frame, BeforeRename
  <1> QED BY <1>1, <1>2 DEF Version, Exact, Frame

LEMMA OthersKeep ==
    ASSUME BundleInv, NEW t \in Threads, Frame(t), NEW u \in Threads \ {t}
    PROVE  HoldsFor(u)' /\ KnowsTree(u)' /\ KnowsName(u)' /\ Wins(u)'
  <1> HoldsFor(u) /\ KnowsTree(u) /\ KnowsName(u) /\ Wins(u) /\ None \notin Threads
      BY BundleAssumptions DEF BundleInv
  <1>1. HoldsFor(u)'
        BY DEF HoldsFor, Frame, Free
  <1>2. KnowsTree(u)'
        BY DEF KnowsTree, Frame, Whole
  <1>3. CASE final = None
    <2>1. KnowsName(u)'
          BY <1>3 DEF KnowsName, Frame, AfterRename
    <2>2. u \notin Winners /\ u \notin Winners' /\ result[u] # "published"
          BY <1>3 DEF Wins, Frame, Winners
    <2>3. Wins(u)'
          BY <2>2 DEF Wins, Frame, Winners
    <2> QED BY <1>1, <1>2, <2>1, <2>3
  <1>4. CASE final # None
    <2>1. /\ final' = final /\ (finalSynced => finalSynced')
          /\ Version(final)' = Version(final) /\ (Exact(final, u)' <=> Exact(final, u))
          BY <1>4, FinalUnwritten
    <2>2. KnowsName(u)'
          BY <2>1 DEF KnowsName, Frame
    <2>3. Wins(u)'
          BY <2>1 DEF Wins, Frame, Winners
    <2> QED BY <1>1, <1>2, <2>2, <2>3
  <1> QED BY <1>3, <1>4

LEMMA BearsKept ==
    ASSUME BundleInv, NEW t \in Threads, Frame(t),
           final' = t /\ final = None =>
               pc'[t] \notin BeforeRename /\ entries'[t] = Files /\ (tampered = 0 => Whole(t)')
    PROVE  Bears'
  <1>1. CASE final = None
        BY <1>1, BundleAssumptions DEF Bears, Frame, Whole
  <1>2. CASE final # None
    <2>1. /\ final' = final /\ (final \in Threads => tree'[final] = tree[final]
                                                     /\ entries'[final] = entries[final])
          BY <1>2, FinalUnwritten
    <2>2. final \in Threads => pc'[final] \notin BeforeRename
          BY DEF BundleInv, Bears, Frame
    <2> QED BY <2>1, <2>2 DEF BundleInv, Bears, Frame, Whole
  <1> QED BY <1>1, <1>2

LEMMA ThreadStep ==
    ASSUME BundleInv, NEW t \in Threads, Frame(t), BundleTypes',
           final' = t /\ final = None =>
               pc'[t] \notin BeforeRename /\ entries'[t] = Files /\ (tampered = 0 => Whole(t)'),
           HoldsFor(t)', KnowsTree(t)', KnowsName(t)', Wins(t)'
    PROVE  BundleInv'
  BY OthersKeep, BearsKept DEF BundleInv

(* What moving on to a step says: who is there has no result yet.          *)
GoesTo(t, step) ==
    /\ pc' \in [Threads -> BundlePlaces] /\ pc'[t] = step
    /\ \A u \in Threads \ {t} : pc'[u] = pc[u]
    /\ UNCHANGED <<result, tampered>>
    /\ Winners' = Winners /\ result[t] = None /\ t \notin takenBack /\ t \notin Winners

LEMMA MoveTypes ==
    ASSUME BundleInv, NEW t \in Threads, NEW step \in BundlePlaces \ {"idle", "done"},
           pc[t] # "done", MoveOn(t, step), UNCHANGED <<job, final, takenBack>>
    PROVE  GoesTo(t, step)
  <1>1. Wins(t) /\ None \notin Outcomes
        BY BundleAssumptions DEF BundleInv, Outcomes
  <1>2. result[t] = None /\ t \notin takenBack /\ t \notin Winners
        BY <1>1 DEF Wins, Outcomes, Winners, Succeeded
  <1> QED BY <1>2 DEF GoesTo, MoveOn, StepTo, BundleInv, BundleTypes, Winners

LEMMA HeldTypes ==
    ASSUME BundleTypes, NEW t \in Threads, NEW S \in SUBSET {"root", "staging", "final"},
           fds' = [fds EXCEPT ![t] = S] \/ fds' = [fds EXCEPT ![t] = @ \cup S]
    PROVE  /\ fds' \in [Threads -> SUBSET {"root", "staging", "final"}]
           /\ \A u \in Threads \ {t} : fds'[u] = fds[u]
  BY DEF BundleTypes

(* A step that reads, compares and goes on.                                *)
LEMMA QuietStep ==
    ASSUME BundleInv, NEW t \in Threads, NEW step \in BundlePlaces \ {"idle", "done"},
           pc[t] # "done", MoveOn(t, step), UNCHANGED <<mind, bundleDisk, held, takenBack>>,
           pc[t] \notin BeforeRename => step \notin BeforeRename,
           pc[t] \in WithName => step \in WithName,
           step \in {"commit", "check", "recheck", "rename", "enter"} /\ lock.owner = t => lock.depth = 1,
           KnowsTree(t)', KnowsName(t)'
    PROVE  BundleInv'
  <1>1. GoesTo(t, step)
        BY MoveTypes DEF mind, bundleDisk
  <1>2. UNCHANGED <<job, converge, sealed, bundleSeen, tree, entries, version, final, finalSynced,
                    lock, fds, takenBack>>
        BY DEF mind, bundleDisk, held
  <1>3. BundleTypes' /\ Frame(t)
    <2>1. BundleTypes'
          BY <1>1, <1>2 DEF BundleInv, BundleTypes, BundleTypeOK, GoesTo
    <2>2. Frame(t)
          BY <1>1, <1>2 DEF BundleInv, BundleTypes, Frame, GoesTo
    <2> QED BY <2>1, <2>2
  <1>4. HoldsFor(t)'
        BY <1>1, <1>2 DEF BundleInv, HoldsFor, GoesTo
  <1>5. Wins(t)'
        BY <1>1, <1>2, BundleAssumptions DEF Wins, Outcomes, GoesTo
  <1>6. ~(final' = t /\ final = None)
        BY <1>2, BundleAssumptions
  <1> QED BY <1>3, <1>4, <1>5, <1>6, ThreadStep

(* A call that ends lets go of everything, and what it says of a bundle is *)
(* true of the one that bears the name.                                    *)
LEMMA FinishStep ==
    ASSUME BundleInv, NEW t \in Threads, NEW outcome \in Outcomes, pc[t] # "done",
           Finish(t, outcome), UNCHANGED <<mind, final, finalSynced, tampered, takenBack>>,
           \/ UNCHANGED <<tree, version, entries>>
           \/ /\ pc[t] = "write" /\ entries' = entries
              /\ tree' \in [Threads -> [Files -> Content]] /\ version' \in [Threads -> Nat]
              /\ \A u \in Threads \ {t} : tree'[u] = tree[u] /\ version'[u] = version[u],
           outcome \in Succeeded => final \in Threads /\ job[final] = job[t],
           outcome = "published" => final = t /\ finalSynced
    PROVE  BundleInv'
  <1>1. /\ pc' \in [Threads -> BundlePlaces] /\ pc'[t] = "done"
        /\ result' \in [Threads -> Outcomes \cup {None}] /\ result'[t] = outcome
        /\ fds' \in [Threads -> SUBSET {"root", "staging", "final"}] /\ fds'[t] = {}
        /\ \A u \in Threads \ {t} : pc'[u] = pc[u] /\ result'[u] = result[u] /\ fds'[u] = fds[u]
        /\ lock' = IF lock.owner = t THEN Free ELSE lock
        BY DEF Finish, StepTo, Release, BundleInv, BundleTypes, BundlePlaces
  <1>2. UNCHANGED <<job, converge, sealed, bundleSeen, final, finalSynced, tampered, takenBack>>
        BY DEF mind
  <1>3. Wins(t) /\ HoldsFor(t) /\ lock \in {Free} \cup [owner : Threads, depth : {1, 2}]
        BY DEF BundleInv, BundleTypes, BundleTypeOK
  <1>4. t \notin takenBack
        BY <1>3, BundleAssumptions DEF Wins
  <1>5. BundleTypes'
        BY <1>1, <1>2 DEF BundleInv, BundleTypes, BundleTypeOK
  <1>6. Frame(t)
        BY <1>1, <1>2 DEF Frame, BeforeRename, Free
  <1>7. HoldsFor(t)'
        BY <1>1, <1>3, BundleAssumptions DEF HoldsFor, Free
  <1>8. KnowsTree(t)' /\ KnowsName(t)'
        BY <1>1 DEF KnowsTree, KnowsName, AfterSeal, AfterRename
  <1>9. Wins(t)'
        BY <1>1, <1>2, <1>4 DEF Wins, Winners, Succeeded
  <1> QED BY <1>2, <1>5, <1>6, <1>7, <1>8, <1>9, BundleAssumptions, ThreadStep

LEMMA RefusedBundle ==
    ASSUME BundleInv, NEW t \in Threads, pc[t] # "done", UNCHANGED takenBack,
           Mismatch(t) \/ Fails(t) \/ CloseStaged(t)
    PROVE  BundleInv'
  <1>1. PICK outcome \in {"error", "closed"} :
            Finish(t, outcome) /\ UNCHANGED <<mind, bundleDisk, tampered>>
        BY DEF Mismatch, Fails, CloseStaged
  <1>2. outcome \in Outcomes /\ outcome \notin Succeeded
        BY DEF Outcomes, Succeeded
  <1> QED BY <1>1, <1>2, FinishStep DEF bundleDisk, Succeeded

(* _stage_bundle *)
LEMMA StageSteps ==
    ASSUME BundleInv, NEW t \in Threads, UNCHANGED takenBack,
           Begin(t) \/ (\E f \in Files : WriteFile(t, f)) \/ SyncDirectories(t) \/ StageReadback(t) \/ Seal(t)
    PROVE  BundleInv'
  <1> BundleTypes /\ HoldsFor(t) /\ KnowsTree(t) /\ KnowsName(t) /\ Wins(t)
      BY DEF BundleInv
  <1> USE DEF BundlePlaces, BeforeRename, WithName
  <1>1. CASE Begin(t)
    <2>1. /\ pc[t] = "idle" /\ MoveOn(t, "write") /\ UNCHANGED <<job, sealed, bundleSeen, bundleDisk, lock>>
          /\ fds' = [fds EXCEPT ![t] = {"root", "staging"}]
          /\ converge' \in [Threads -> BOOLEAN]
          BY <1>1 DEF Begin, BundleTypes, BundleTypeOK
    <2>2. UNCHANGED <<tree, entries, version, final, finalSynced>>
          BY <2>1 DEF bundleDisk
    <2>3. GoesTo(t, "write")
          BY <2>1, <2>2, MoveTypes
    <2>4. /\ fds' \in [Threads -> SUBSET {"root", "staging", "final"}]
          /\ \A u \in Threads \ {t} : fds'[u] = fds[u]
      <3>1. {"root", "staging"} \in SUBSET {"root", "staging", "final"}
            OBVIOUS
      <3> QED BY <2>1, <3>1, HeldTypes
    <2>5. BundleTypes'
          BY <2>1, <2>2, <2>3, <2>4 DEF BundleTypes, BundleTypeOK, GoesTo
    <2>6. Frame(t)
          BY <2>1, <2>2, <2>3, <2>4 DEF Frame, GoesTo
    <2>7. HoldsFor(t)' /\ KnowsTree(t)' /\ KnowsName(t)' /\ Wins(t)'
          BY <2>1, <2>2, <2>3, BundleAssumptions
          DEF HoldsFor, KnowsTree, KnowsName, Wins, AfterSeal, AfterRename, GoesTo
    <2> QED BY <2>2, <2>5, <2>6, <2>7, BundleAssumptions, ThreadStep
  <1>2. ASSUME NEW f \in Files, WriteFile(t, f) PROVE BundleInv'
    <2>1. /\ pc[t] = "write" /\ UNCHANGED <<mind, final, finalSynced, entries, tampered>>
          /\ \E content \in {"good", "partial"} : tree' = [tree EXCEPT ![t][f] = content]
          /\ version' = [version EXCEPT ![t] = @ + 1]
          /\ UNCHANGED <<pc, held, result>> \/ Finish(t, "error")
          BY <1>2 DEF WriteFile
    <2>2. /\ tree' \in [Threads -> [Files -> Content]] /\ version' \in [Threads -> Nat]
          /\ \A u \in Threads \ {t} : tree'[u] = tree[u] /\ version'[u] = version[u]
          BY <2>1 DEF BundleTypes, BundleTypeOK, Content
    <2>3. CASE Finish(t, "error")
      <3>1. "error" \in Outcomes /\ "error" \notin Succeeded
            BY DEF Outcomes, Succeeded
      <3> QED BY <2>1, <2>2, <2>3, <3>1, FinishStep
    <2>4. CASE UNCHANGED <<pc, held, result>>
      <3>1. UNCHANGED <<job, converge, sealed, bundleSeen, lock, fds, final, finalSynced, entries,
                        tampered>>
            BY <2>1, <2>4 DEF mind, held
      <3>2. BundleTypes' /\ Frame(t)
        <4>1. BundleTypes'
              BY <2>1, <2>2, <2>4, <3>1 DEF BundleTypes, BundleTypeOK
        <4>2. Frame(t)
              BY <2>1, <2>2, <2>4, <3>1 DEF BundleTypes, Frame
        <4> QED BY <4>1, <4>2
      <3>3. HoldsFor(t)' /\ KnowsTree(t)' /\ KnowsName(t)' /\ Wins(t)'
            BY <2>1, <2>4, <3>1
            DEF HoldsFor, KnowsTree, KnowsName, Wins, AfterSeal, AfterRename, Winners
      <3> QED BY <3>1, <3>2, <3>3, BundleAssumptions, ThreadStep
    <2> QED BY <2>1, <2>3, <2>4
  <1>3. CASE SyncDirectories(t)
    <2>1. CASE Finish(t, "error") /\ UNCHANGED <<mind, bundleDisk, tampered>>
      <3>1. "error" \in Outcomes /\ "error" \notin Succeeded /\ pc[t] # "done"
            BY <1>3 DEF Outcomes, Succeeded, SyncDirectories
      <3> QED BY <2>1, <3>1, FinishStep DEF bundleDisk, Succeeded
    <2>2. CASE /\ entries' = [entries EXCEPT ![t] = Files] /\ MoveOn(t, "readback")
               /\ UNCHANGED <<mind, tree, version, final, finalSynced, held>>
      <3>1. pc[t] = "write" /\ UNCHANGED <<job, converge, sealed, bundleSeen, lock, fds>>
            BY <1>3, <2>2 DEF SyncDirectories, mind, held
      <3>2. GoesTo(t, "readback")
            BY <2>2, <3>1, MoveTypes
      <3>3. BundleTypes'
            BY <2>2, <3>1, <3>2 DEF BundleTypes, BundleTypeOK, GoesTo
      <3>4. Frame(t)
            BY <2>2, <3>1, <3>2 DEF Frame, BundleTypes, GoesTo
      <3>5. HoldsFor(t)' /\ KnowsTree(t)' /\ KnowsName(t)' /\ Wins(t)'
            BY <2>2, <3>1, <3>2, BundleAssumptions
            DEF HoldsFor, KnowsTree, KnowsName, Wins, AfterSeal, AfterRename, BundleTypes, GoesTo
      <3> QED BY <2>2, <3>3, <3>4, <3>5, BundleAssumptions, ThreadStep
    <2> QED BY <1>3, <2>1, <2>2 DEF SyncDirectories
  <1>4. CASE StageReadback(t)
    <2>1. pc[t] = "readback"
          BY <1>4 DEF StageReadback
    <2>2. CASE ReadsBack(t, t)
      <3>1. MoveOn(t, "seal") /\ UNCHANGED <<mind, bundleDisk, held>>
            BY <1>4, <2>2 DEF StageReadback
      <3>2. pc'[t] = "seal" /\ UNCHANGED <<entries, tree, tampered>>
            BY <3>1 DEF MoveOn, StepTo, BundleTypes, bundleDisk
      <3>3. KnowsTree(t)' /\ KnowsName(t)'
            BY <2>1, <2>2, <3>2 DEF KnowsTree, KnowsName, AfterSeal, AfterRename, ReadsBack, Whole
      <3> QED BY <2>1, <3>1, <3>3, QuietStep
    <2>3. CASE ~ReadsBack(t, t)
          BY <1>4, <2>1, <2>3, RefusedBundle DEF StageReadback
    <2> QED BY <2>2, <2>3
  <1>5. CASE Seal(t)
    <2>1. /\ pc[t] = "seal" /\ sealed' = [sealed EXCEPT ![t] = version[t]] /\ MoveOn(t, "open")
          /\ UNCHANGED <<job, converge, bundleSeen, tree, entries, version, final, finalSynced, lock, fds>>
          BY <1>5 DEF Seal, bundleDisk, held
    <2>2. GoesTo(t, "open")
          BY <2>1, MoveTypes
    <2>3. BundleTypes'
          BY <2>1, <2>2 DEF BundleTypes, BundleTypeOK, GoesTo
    <2>4. Frame(t)
          BY <2>1, <2>2 DEF Frame, BundleTypes, GoesTo
    <2>5. HoldsFor(t)' /\ KnowsTree(t)' /\ KnowsName(t)' /\ Wins(t)'
          BY <2>1, <2>2, BundleAssumptions
          DEF HoldsFor, KnowsTree, KnowsName, Wins, AfterSeal, AfterRename, BundleTypes, Whole, GoesTo
    <2> QED BY <2>1, <2>3, <2>4, <2>5, BundleAssumptions, ThreadStep
  <1> QED BY <1>1, <1>2, <1>3, <1>4, <1>5

(* _commit_staged_bundle up to the rename *)
LEMMA CheckSteps ==
    ASSUME BundleInv, NEW t \in Threads, UNCHANGED takenBack,
           EnterCommit(t) \/ CheckSnapshot(t) \/ CheckBytes(t) \/ CheckAgain(t)
    PROVE  BundleInv'
  <1> BundleTypes /\ HoldsFor(t) /\ KnowsTree(t) /\ KnowsName(t) /\ Wins(t)
      BY DEF BundleInv
  <1> USE DEF BundlePlaces, BeforeRename, WithName
  <1>1. CASE EnterCommit(t)
    <2>1. /\ pc[t] = "open" /\ MoveOn(t, "commit") /\ CanLock(t)
          /\ lock' = [owner |-> t, depth |-> lock.depth + 1]
          /\ UNCHANGED <<job, converge, sealed, bundleSeen, tree, entries, version, final,
                          finalSynced, fds>>
          BY <1>1 DEF EnterCommit, Lock, mind, bundleDisk
    <2>2. GoesTo(t, "commit")
          BY <2>1, MoveTypes
    <2>3. lock = Free
          BY <2>1, BundleAssumptions DEF CanLock, HoldsFor, BundleTypes, BundleTypeOK
    <2>4. lock' = [owner |-> t, depth |-> 1]
          BY <2>1, <2>3 DEF Free
    <2>5. BundleTypes' /\ Frame(t)
      <3>1. BundleTypes'
            BY <2>1, <2>2, <2>3, <2>4 DEF BundleTypes, BundleTypeOK, Free, GoesTo
      <3>2. Frame(t)
            BY <2>1, <2>2, <2>3, <2>4 DEF BundleTypes, Frame, Free, GoesTo
      <3> QED BY <3>1, <3>2
    <2>6. HoldsFor(t)' /\ KnowsTree(t)' /\ KnowsName(t)' /\ Wins(t)'
          BY <2>1, <2>2, <2>4, BundleAssumptions
          DEF HoldsFor, KnowsTree, KnowsName, Wins, AfterSeal, AfterRename, Whole, GoesTo
    <2> QED BY <2>1, <2>5, <2>6, BundleAssumptions, ThreadStep
  <1>2. ASSUME NEW step \in {"check", "recheck", "rename"}, pc[t] \in {"commit", "check", "recheck"},
               MoveOn(t, step), UNCHANGED <<mind, bundleDisk, held>>
        PROVE  BundleInv'
    <2>1. /\ pc'[t] = step
          /\ UNCHANGED <<entries, tree, version, sealed, tampered>>
          BY <1>2 DEF MoveOn, StepTo, BundleTypes, bundleDisk, mind
    <2>2. KnowsTree(t)' /\ KnowsName(t)'
          BY <1>2, <2>1 DEF KnowsTree, KnowsName, AfterSeal, AfterRename, Whole
    <2>3. lock.owner = t => lock.depth = 1
          BY <1>2 DEF HoldsFor
    <2> QED BY <1>2, <2>2, <2>3, QuietStep
  <1>3. ASSUME Mismatch(t), pc[t] # "done" PROVE BundleInv'
        BY <1>3, RefusedBundle
  <1>4. CASE CheckSnapshot(t)
        BY <1>2, <1>3, <1>4 DEF CheckSnapshot
  <1>5. CASE CheckBytes(t)
        BY <1>2, <1>3, <1>5 DEF CheckBytes
  <1>6. CASE CheckAgain(t)
        BY <1>2, <1>3, <1>6 DEF CheckAgain
  <1> QED BY <1>1, <1>4, <1>5, <1>6

(* The rename, and what follows it under the name *)
LEMMA RenameSteps ==
    ASSUME BundleInv, NEW t \in Threads, UNCHANGED takenBack,
           RenameBundle(t) \/ OpenFinal(t) \/ FsyncRoot(t)
    PROVE  BundleInv'
  <1> BundleTypes /\ HoldsFor(t) /\ KnowsTree(t) /\ KnowsName(t) /\ Wins(t)
      BY DEF BundleInv
  <1> USE DEF BundlePlaces, BeforeRename, WithName
  <1>1. CASE RenameBundle(t) /\ final = None
    <2>1. /\ pc[t] = "rename" /\ final' = t /\ finalSynced' = FALSE /\ MoveOn(t, "opened")
          /\ UNCHANGED <<job, converge, sealed, bundleSeen, tree, entries, version, lock, fds>>
          BY <1>1 DEF RenameBundle, mind, held
    <2>2. /\ pc' \in [Threads -> BundlePlaces] /\ pc'[t] = "opened"
          /\ \A u \in Threads \ {t} : pc'[u] = pc[u] /\ UNCHANGED <<result, tampered>>
          BY <2>1 DEF MoveOn, StepTo, BundleTypes
    <2>3. UNCHANGED <<result, tampered>> /\ result[t] = None /\ t \notin takenBack /\ t \notin Winners'
          BY <2>1, BundleAssumptions DEF Wins, MoveOn, Winners, Succeeded
    <2>4. BundleTypes'
          BY <2>1, <2>2, <2>3 DEF BundleTypes, BundleTypeOK
    <2>5. Frame(t)
          BY <1>1, <2>1, <2>2, <2>3 DEF Frame, BundleTypes
    <2>6. HoldsFor(t)' /\ KnowsTree(t)' /\ KnowsName(t)' /\ Wins(t)'
          BY <2>1, <2>2, <2>3, BundleAssumptions
          DEF HoldsFor, KnowsTree, KnowsName, Wins, AfterSeal, AfterRename, Whole
    <2>7. pc'[t] \notin BeforeRename /\ entries'[t] = Files /\ (tampered = 0 => Whole(t)')
          BY <2>1, <2>2 DEF KnowsTree, AfterSeal, Whole
    <2> QED BY <2>4, <2>5, <2>6, <2>7, ThreadStep
  <1>2. CASE RenameBundle(t) /\ final # None
    <2>1. pc[t] = "rename" /\ UNCHANGED <<mind, tree, entries, version, final, finalSynced>>
          BY <1>2 DEF RenameBundle
    <2>2. CASE MoveOn(t, "enter") /\ UNCHANGED held
      <3>1. pc'[t] = "enter"
            BY <2>2 DEF MoveOn, StepTo, BundleTypes
      <3>2. KnowsTree(t)' /\ KnowsName(t)'
            BY <3>1 DEF KnowsTree, KnowsName, AfterSeal, AfterRename
      <3>3. lock.owner = t => lock.depth = 1
            BY <2>1 DEF HoldsFor
      <3> QED BY <2>1, <2>2, <3>2, <3>3, QuietStep DEF bundleDisk
    <2>3. CASE Finish(t, "exists") /\ UNCHANGED <<tampered, bundleFaults>>
      <3>1. "exists" \in Outcomes /\ "exists" \notin Succeeded
            BY DEF Outcomes, Succeeded
      <3> QED BY <2>1, <2>3, <3>1, FinishStep DEF Succeeded
    <2> QED BY <1>2, <2>2, <2>3 DEF RenameBundle
  <1>3. CASE OpenFinal(t)
    <2>1. pc[t] = "opened" /\ final = t
          BY <1>3 DEF OpenFinal, KnowsName, AfterRename
    <2>2. /\ fds' = [fds EXCEPT ![t] = @ \cup {"final"}] /\ MoveOn(t, "fsync")
          /\ UNCHANGED <<job, converge, sealed, bundleSeen, tree, entries, version, final, finalSynced, lock>>
          BY <1>3, <2>1 DEF OpenFinal, mind, bundleDisk
    <2>3. GoesTo(t, "fsync")
          BY <2>1, <2>2, MoveTypes
    <2>4. /\ fds' \in [Threads -> SUBSET {"root", "staging", "final"}]
          /\ \A u \in Threads \ {t} : fds'[u] = fds[u]
      <3>1. {"final"} \in SUBSET {"root", "staging", "final"}
            OBVIOUS
      <3> QED BY <2>2, <3>1, HeldTypes
    <2>5. BundleTypes' /\ Frame(t)
      <3>1. BundleTypes'
            BY <2>1, <2>2, <2>3, <2>4 DEF BundleTypes, BundleTypeOK, GoesTo
      <3>2. Frame(t)
            BY <2>1, <2>2, <2>3, <2>4 DEF Frame, GoesTo
      <3> QED BY <3>1, <3>2
    <2>6. HoldsFor(t)' /\ KnowsTree(t)' /\ KnowsName(t)' /\ Wins(t)'
          BY <2>1, <2>2, <2>3, BundleAssumptions
          DEF HoldsFor, KnowsTree, KnowsName, Wins, AfterSeal, AfterRename, Whole, GoesTo
    <2> QED BY <2>2, <2>5, <2>6, BundleAssumptions, ThreadStep
  <1>4. CASE FsyncRoot(t)
    <2>1. pc[t] = "fsync" /\ final = t
          BY <1>4 DEF FsyncRoot, KnowsName, AfterRename
    <2>2. /\ finalSynced' = TRUE /\ MoveOn(t, "look")
          /\ UNCHANGED <<job, converge, sealed, bundleSeen, tree, entries, version, final, lock, fds>>
          BY <1>4 DEF FsyncRoot, mind, held
    <2>3. GoesTo(t, "look")
          BY <2>1, <2>2, MoveTypes
    <2>4. BundleTypes' /\ Frame(t)
      <3>1. BundleTypes'
            BY <2>1, <2>2, <2>3 DEF BundleTypes, BundleTypeOK, GoesTo
      <3>2. Frame(t)
            BY <2>1, <2>2, <2>3 DEF BundleTypes, Frame, GoesTo
      <3> QED BY <3>1, <3>2
    <2>5. HoldsFor(t)' /\ KnowsTree(t)' /\ KnowsName(t)' /\ Wins(t)'
          BY <2>1, <2>2, <2>3, BundleAssumptions
          DEF HoldsFor, KnowsTree, KnowsName, Wins, AfterSeal, AfterRename, Whole, GoesTo
    <2> QED BY <2>2, <2>4, <2>5, BundleAssumptions, ThreadStep
  <1> QED BY <1>1, <1>2, <1>3, <1>4

(* _verify_published_final: what it compares is the tree that was sealed.  *)
LEMMA LastLookSteps ==
    ASSUME BundleInv, NEW t \in Threads, UNCHANGED takenBack,
           LookSnapshot(t) \/ LookBytes(t) \/ LookAgain(t)
    PROVE  BundleInv'
  <1> BundleTypes /\ HoldsFor(t) /\ KnowsTree(t) /\ KnowsName(t) /\ Wins(t)
      BY DEF BundleInv
  <1> USE DEF BundlePlaces, BeforeRename, WithName
  <1>1. ASSUME NEW step \in {"read", "relook"}, pc[t] \in {"look", "read"},
               step = "relook" => Whole(t),
               MoveOn(t, step), UNCHANGED <<mind, bundleDisk, held>>
        PROVE  BundleInv'
    <2>1. /\ pc'[t] = step
          /\ UNCHANGED <<entries, tree, version, sealed, tampered, final, finalSynced>>
          BY <1>1 DEF MoveOn, StepTo, BundleTypes, bundleDisk, mind
    <2>2. KnowsTree(t)' /\ KnowsName(t)'
          BY <1>1, <2>1 DEF KnowsTree, KnowsName, AfterSeal, AfterRename, Whole
    <2> QED BY <1>1, <2>2, QuietStep
  <1>2. ASSUME Mismatch(t), pc[t] # "done" PROVE BundleInv'
        BY <1>2, RefusedBundle
  <1>3. CASE LookSnapshot(t)
        BY <1>1, <1>2, <1>3 DEF LookSnapshot
  <1>4. CASE LookBytes(t)
    <2>1. CASE ReadsBack(t, t)
          BY <1>1, <1>4, <2>1 DEF LookBytes, ReadsBack, Whole
    <2>2. CASE ~ReadsBack(t, t)
          BY <1>2, <1>4, <2>2 DEF LookBytes
    <2> QED BY <2>1, <2>2
  <1>5. CASE LookAgain(t)
    <2>1. CASE version[t] = sealed[t] /\ final = t
      <3>1. /\ pc[t] = "relook" /\ Finish(t, "published")
            /\ UNCHANGED <<mind, bundleDisk, tampered>>
            BY <1>5, <2>1 DEF LookAgain
      <3>2. finalSynced /\ "published" \in Outcomes
            BY <3>1 DEF KnowsName, Outcomes
      <3> QED BY <2>1, <3>1, <3>2, FinishStep DEF bundleDisk
    <2>2. CASE ~(version[t] = sealed[t] /\ final = t)
          BY <1>2, <1>5, <2>2 DEF LookAgain
    <2> QED BY <2>1, <2>2
  <1> QED BY <1>3, <1>4, <1>5

(* _inspect_final_bundle *)
LEMMA InspectSteps ==
    ASSUME BundleInv, NEW t \in Threads, UNCHANGED takenBack,
           \/ BeginInspect(t) \/ EnterInspect(t) \/ InspectSnapshot(t)
           \/ InspectBytes(t) \/ InspectAgain(t)
    PROVE  BundleInv'
  <1> BundleTypes /\ HoldsFor(t) /\ KnowsTree(t) /\ KnowsName(t) /\ Wins(t)
      BY DEF BundleInv
  <1> USE DEF BundlePlaces, BeforeRename, WithName
  <1>0. ASSUME NEW outcome \in {"found", "missing"}, pc[t] # "done", InspectionSays(t, outcome),
               outcome = "found" => final \in Threads /\ job[final] = job[t]
        PROVE  BundleInv'
    <2>1. PICK said \in {outcome, "converged", "error"} :
             /\ Finish(t, said) /\ UNCHANGED <<mind, bundleDisk, tampered>>
             /\ said = "converged" => outcome = "found"
          BY <1>0 DEF InspectionSays
    <2>2. /\ said \in Outcomes /\ said # "published"
          /\ said \in Succeeded => outcome = "found"
          BY <2>1 DEF Outcomes, Succeeded
    <2> QED BY <1>0, <2>1, <2>2, FinishStep DEF bundleDisk
  <1>1. CASE BeginInspect(t)
    <2>1. /\ pc[t] = "idle" /\ fds' = [fds EXCEPT ![t] = {"root"}] /\ MoveOn(t, "enter")
          /\ UNCHANGED <<job, converge, sealed, bundleSeen, tree, entries, version, final,
                          finalSynced, lock>>
          BY <1>1 DEF BeginInspect, mind, bundleDisk
    <2>2. GoesTo(t, "enter")
          BY <2>1, MoveTypes
    <2>3. /\ fds' \in [Threads -> SUBSET {"root", "staging", "final"}]
          /\ \A u \in Threads \ {t} : fds'[u] = fds[u]
      <3>1. {"root"} \in SUBSET {"root", "staging", "final"}
            OBVIOUS
      <3> QED BY <2>1, <3>1, HeldTypes
    <2>4. BundleTypes' /\ Frame(t)
      <3>1. BundleTypes'
            BY <2>1, <2>2, <2>3 DEF BundleTypes, BundleTypeOK, GoesTo
      <3>2. Frame(t)
            BY <2>1, <2>2, <2>3 DEF Frame, GoesTo
      <3> QED BY <3>1, <3>2
    <2>5. HoldsFor(t)' /\ KnowsTree(t)' /\ KnowsName(t)' /\ Wins(t)'
          BY <2>1, <2>2, BundleAssumptions
          DEF HoldsFor, KnowsTree, KnowsName, Wins, AfterSeal, AfterRename, GoesTo
    <2> QED BY <2>1, <2>4, <2>5, BundleAssumptions, ThreadStep
  <1>2. CASE EnterInspect(t)
    <2>1. /\ pc[t] = "enter" /\ CanLock(t) /\ lock' = [owner |-> t, depth |-> lock.depth + 1]
          /\ MoveOn(t, "inspect")
          /\ UNCHANGED <<job, converge, sealed, bundleSeen, tree, entries, version, final,
                          finalSynced, fds>>
          BY <1>2 DEF EnterInspect, Lock, mind, bundleDisk
    <2>2. GoesTo(t, "inspect")
          BY <2>1, MoveTypes
    <2>3. lock.depth + 1 \in {1, 2}
      <3>1. CASE lock = Free
            BY <3>1 DEF Free
      <3>2. CASE lock # Free
            BY <2>1, <3>2, BundleAssumptions DEF CanLock, HoldsFor, BundleTypes, BundleTypeOK
      <3> QED BY <3>1, <3>2
    <2>4. lock' \in [owner : Threads, depth : {1, 2}] /\ lock'.owner = t
          BY <2>1, <2>3
    <2>5. BundleTypes' /\ Frame(t)
      <3>1. BundleTypes'
            BY <2>1, <2>2, <2>4 DEF BundleTypes, BundleTypeOK, CanLock, GoesTo
      <3>2. Frame(t)
            BY <2>1, <2>2, <2>4 DEF CanLock, Frame, GoesTo
      <3> QED BY <3>1, <3>2
    <2>6. HoldsFor(t)' /\ KnowsTree(t)' /\ KnowsName(t)' /\ Wins(t)'
          BY <2>1, <2>2, BundleAssumptions
          DEF HoldsFor, KnowsTree, KnowsName, Wins, AfterSeal, AfterRename, GoesTo
    <2> QED BY <2>1, <2>5, <2>6, BundleAssumptions, ThreadStep
  <1>3. CASE InspectSnapshot(t)
    <2>1. CASE final = None
          BY <1>0, <1>3, <2>1 DEF InspectSnapshot
    <2>2. CASE final # None
      <3>1. /\ pc[t] = "inspect" /\ bundleSeen' = [bundleSeen EXCEPT ![t] = Version(final)]
            /\ fds' = [fds EXCEPT ![t] = @ \cup {"final"}] /\ MoveOn(t, "inspectRead")
            /\ UNCHANGED <<job, converge, sealed, tree, entries, version, final, finalSynced, lock>>
            BY <1>3, <2>2 DEF InspectSnapshot, bundleDisk
      <3>2. Version(final) \in Nat /\ Version(final)' = Version(final)
            BY <3>1 DEF Version, BundleTypes
      <3>3. GoesTo(t, "inspectRead")
            BY <3>1, MoveTypes
      <3>4. /\ fds' \in [Threads -> SUBSET {"root", "staging", "final"}]
            /\ \A u \in Threads \ {t} : fds'[u] = fds[u]
        <4>1. {"final"} \in SUBSET {"root", "staging", "final"}
              OBVIOUS
        <4> QED BY <3>1, <4>1, HeldTypes
      <3>5. BundleTypes' /\ Frame(t)
        <4>1. BundleTypes'
              BY <3>1, <3>2, <3>3, <3>4 DEF BundleTypes, BundleTypeOK, GoesTo
        <4>2. Frame(t)
              BY <3>1, <3>2, <3>3, <3>4 DEF Frame, GoesTo
        <4> QED BY <4>1, <4>2
      <3>6. HoldsFor(t)' /\ KnowsTree(t)' /\ KnowsName(t)' /\ Wins(t)'
            BY <2>2, <3>1, <3>2, <3>3, BundleAssumptions
            DEF HoldsFor, KnowsTree, KnowsName, Wins, AfterSeal, AfterRename, BundleTypes, GoesTo
      <3> QED BY <3>1, <3>5, <3>6, BundleAssumptions, ThreadStep
    <2> QED BY <2>1, <2>2
  <1>4. CASE InspectBytes(t)
    <2>1. pc[t] = "inspectRead"
          BY <1>4 DEF InspectBytes
    <2>2. CASE Exact(final, t)
      <3>1. MoveOn(t, "inspectAgain") /\ UNCHANGED <<mind, bundleDisk, held>>
            BY <1>4, <2>2 DEF InspectBytes
      <3>2. /\ pc'[t] = "inspectAgain"
            /\ UNCHANGED <<final, tree, version, job, bundleSeen, tampered>>
            BY <3>1 DEF MoveOn, StepTo, BundleTypes, bundleDisk, mind
      <3>3. KnowsTree(t)'
            BY <3>2 DEF KnowsTree, AfterSeal
      <3>4. KnowsName(t)'
            BY <2>1, <2>2, <3>2 DEF KnowsName, AfterRename, Exact, Version
      <3> QED BY <2>1, <3>1, <3>3, <3>4, QuietStep
    <2>3. CASE ~Exact(final, t)
          BY <1>4, <2>1, <2>3, RefusedBundle DEF InspectBytes
    <2> QED BY <2>2, <2>3
  <1>5. CASE InspectAgain(t)
    <2>1. pc[t] = "inspectAgain" /\ final \in Threads
          BY <1>5 DEF InspectAgain, KnowsName
    <2>2. CASE Version(final) = bundleSeen[t] /\ InspectionSays(t, "found")
          BY <1>0, <2>1, <2>2 DEF KnowsName, Exact
    <2>3. CASE Mismatch(t)
          BY <2>1, <2>3, RefusedBundle
    <2> QED BY <1>5, <2>2, <2>3 DEF InspectAgain
  <1> QED BY <1>1, <1>2, <1>3, <1>4, <1>5
(* Another program may write to any tree, but no version stays.            *)
LEMMA TamperStep ==
    ASSUME BundleInv, NEW x \in Threads, NEW f \in Files, TamperTree(x, f), UNCHANGED takenBack
    PROVE  BundleInv'
  <1>1. /\ tree' = [tree EXCEPT ![x][f] = "bad"] /\ version' = [version EXCEPT ![x] = @ + 1]
        /\ tampered' = tampered + 1 /\ tampered \in Nat /\ tampered' # 0
        /\ UNCHANGED <<pc, job, converge, sealed, bundleSeen, entries, final, finalSynced, lock, fds,
                        result, takenBack>>
        BY DEF TamperTree, mind, held, BundleInv, BundleTypes
  <1>2. BundleTypes'
        BY <1>1 DEF BundleInv, BundleTypes, BundleTypeOK, Content
  <1>3. Bears'
        BY <1>1 DEF BundleInv, Bears
  <1>4. ASSUME NEW t \in Threads PROVE HoldsFor(t)' /\ KnowsTree(t)' /\ KnowsName(t)' /\ Wins(t)'
    <2> BundleTypes /\ HoldsFor(t) /\ KnowsTree(t) /\ KnowsName(t) /\ Wins(t)
        BY DEF BundleInv
    <2>1. HoldsFor(t)' /\ Wins(t)'
          BY <1>1 DEF HoldsFor, Wins, Winners
    <2>2. KnowsTree(t)'
      <3>1. CASE t = x
            BY <1>1, <3>1 DEF KnowsTree, BundleTypes, AfterSeal
      <3>2. CASE t # x
            BY <1>1, <3>2 DEF KnowsTree, BundleTypes, Whole
      <3> QED BY <3>1, <3>2
    <2>3. KnowsName(t)'
      <3>1. CASE final = x
            BY <1>1, <3>1 DEF KnowsName, Version, BundleTypes
      <3>2. CASE final # x
        <4>1. Version(final)' = Version(final) /\ (Exact(final, t)' <=> Exact(final, t))
              BY <1>1, <3>2 DEF Version, Exact, BundleTypes
        <4> QED BY <1>1, <4>1 DEF KnowsName
      <3> QED BY <3>1, <3>2
    <2> QED BY <2>1, <2>2, <2>3
  <1> QED BY <1>2, <1>3, <1>4 DEF BundleInv

(* Whoever was at work is gone, with what it held.                         *)
LEMMA StopStep ==
    ASSUME BundleInv, pc' = Died, lock' = Free, fds' = [t \in Threads |-> {}],
           UNCHANGED <<mind, result, tampered, version, entries>>,
           tree' \in [Threads -> [Files -> Content]],
           \A x \in Threads : entries[x] = Files => tree'[x] = tree[x],
           \/ UNCHANGED <<final, finalSynced, takenBack>>
           \/ /\ ~finalSynced /\ final' = None /\ finalSynced' = TRUE
              /\ takenBack' = takenBack \cup Winners
    PROVE  BundleInv'
  <1>1. /\ pc' \in [Threads -> {"idle", "done"}]
        /\ \A t \in Threads : pc'[t] = "idle" => pc[t] = "idle"
        /\ UNCHANGED <<job, converge, sealed, bundleSeen>>
        BY DEF Died, mind
  <1>2. BundleTypes'
    <2>1. pc' \in [Threads -> BundlePlaces]
          BY <1>1 DEF BundlePlaces, BeforeRename
    <2>2. takenBack' \subseteq Threads
          BY DEF Winners, BundleInv, BundleTypes
    <2>3. final' \in Threads \cup {None, Foreign} /\ finalSynced' \in BOOLEAN
          BY DEF BundleInv, BundleTypes, BundleTypeOK
    <2> QED BY <1>1, <2>1, <2>2, <2>3 DEF BundleInv, BundleTypes, BundleTypeOK
  <1>3. Bears'
    <2>1. CASE final' = None
          BY <2>1, BundleAssumptions DEF Bears
    <2>2. CASE final' = final
      <3> SUFFICES ASSUME final' \in Threads
                   PROVE  /\ pc'[final'] \notin BeforeRename /\ entries'[final'] = Files
                          /\ tampered' = 0 => Whole(final)'
          BY DEF Bears
      <3>1. /\ pc[final] \notin BeforeRename /\ entries[final] = Files
            /\ tampered = 0 => Whole(final)
            BY <2>2 DEF BundleInv, Bears
      <3>2. tree'[final] = tree[final] /\ pc'[final] = "done"
            BY <1>1, <2>2, <3>1 DEF BeforeRename
      <3> QED BY <2>2, <3>1, <3>2 DEF Whole, BeforeRename
    <2> QED BY <2>1, <2>2
  <1>4. ASSUME NEW t \in Threads PROVE HoldsFor(t)' /\ KnowsTree(t)' /\ KnowsName(t)' /\ Wins(t)'
    <2> HoldsFor(t) /\ Wins(t)
        BY DEF BundleInv
    <2>1. HoldsFor(t)' /\ KnowsTree(t)' /\ KnowsName(t)'
          BY <1>1, BundleAssumptions
          DEF HoldsFor, KnowsTree, KnowsName, AfterSeal, AfterRename, WithName, Free
    <2>2. CASE UNCHANGED <<final, finalSynced, takenBack>>
      <3>1. Wins(t)'
            BY <1>1, <2>2 DEF Wins, Winners
      <3> QED BY <2>1, <3>1
    <2>3. CASE ~finalSynced /\ final' = None /\ takenBack' = takenBack \cup Winners
      <3>1. t \notin Winners' /\ result[t] # "published"
            BY <2>3 DEF Winners, Wins
      <3>2. t \in Winners => result[t] \in {"found", "converged"}
            BY <3>1 DEF Winners, Succeeded
      <3>3. Wins(t)'
            BY <1>1, <2>3, <3>1, <3>2 DEF Wins
      <3> QED BY <2>1, <3>3
    <2> QED BY <2>2, <2>3
  <1> QED BY <1>2, <1>3, <1>4 DEF BundleInv

LEMMA WorldSteps ==
    ASSUME BundleInv, (ProcessDies /\ UNCHANGED takenBack) \/ BundlePowerLoss
    PROVE  BundleInv'
  <1> BundleTypes
      BY DEF BundleInv
  <1>1. CASE ProcessDies /\ UNCHANGED takenBack
    <2>1. /\ pc' = Died /\ lock' = Free /\ fds' = [t \in Threads |-> {}]
          /\ UNCHANGED <<mind, result, tampered, version, entries, tree, final, finalSynced, takenBack>>
          BY <1>1 DEF ProcessDies, bundleDisk
    <2> QED BY <2>1, StopStep DEF BundleTypes, BundleTypeOK
  <1>2. CASE BundlePowerLoss
    <2>1. /\ pc' = Died /\ lock' = Free /\ fds' = [t \in Threads |-> {}]
          /\ tree' = [t \in Threads |-> [f \in Files |->
                         IF f \in entries[t] \/ tree[t][f] = "absent" THEN tree[t][f] ELSE "absent"]]
          /\ UNCHANGED <<mind, result, tampered, version, entries>>
          /\ \/ UNCHANGED <<final, finalSynced, takenBack>>
             \/ /\ ~finalSynced /\ final' = None /\ finalSynced' = TRUE
                /\ takenBack' = takenBack \cup Winners
          BY <1>2 DEF BundlePowerLoss
    <2>2. tree' \in [Threads -> [Files -> Content]]
          BY <2>1 DEF BundleTypes, BundleTypeOK, Content
    <2>3. ASSUME NEW x \in Threads, entries[x] = Files PROVE tree'[x] = tree[x]
      <3>1. tree[x] \in [Files -> Content]
            BY DEF BundleTypes, BundleTypeOK
      <3>2. tree'[x] = [f \in Files |-> tree[x][f]]
            BY <2>1, <2>3
      <3> QED BY <3>1, <3>2
    <2> QED BY <2>1, <2>2, <2>3, StopStep
  <1> QED BY <1>1, <1>2

LEMMA BundleStep == BundleInv /\ [BundleNext]_bundleVars => BundleInv'
  <1> SUFFICES ASSUME BundleInv, [BundleNext]_bundleVars PROVE BundleInv'
      OBVIOUS
  <1>1. ASSUME NEW t \in Threads, UNCHANGED takenBack,
               Begin(t) \/ BeginInspect(t) \/ CloseStaged(t) \/ CallRaises(t) \/ Proceed(t)
        PROVE  BundleInv'
    <2>1. CASE CloseStaged(t) \/ CallRaises(t)
          BY <1>1, <2>1, RefusedBundle DEF CloseStaged, CallRaises
    <2>2. CASE Begin(t) \/ BeginInspect(t) \/ Proceed(t)
          BY <1>1, <2>2, StageSteps, CheckSteps, RenameSteps, LastLookSteps, InspectSteps DEF Proceed
    <2> QED BY <1>1, <2>1, <2>2
  <1>2. CASE UNCHANGED bundleVars
    <2>1. UNCHANGED <<pc, job, converge, sealed, bundleSeen, tree, entries, version, final, finalSynced,
                      lock, fds, result, takenBack, tampered>>
          BY <1>2 DEF bundleVars, mind, bundleDisk, held
    <2>2. BundleTypes' /\ Bears'
          BY <2>1 DEF BundleInv, BundleTypes, BundleTypeOK, Bears, Whole
    <2>3. ASSUME NEW t \in Threads PROVE HoldsFor(t)' /\ KnowsTree(t)' /\ KnowsName(t)' /\ Wins(t)'
          BY <2>1 DEF BundleInv, HoldsFor, KnowsTree, KnowsName, Wins, Winners, Whole, Version, Exact
    <2> QED BY <2>2, <2>3 DEF BundleInv
  <1> QED BY <1>1, <1>2, TamperStep, WorldSteps DEF BundleNext, AllDone
(* Only an inspection or a last look says that the bundle is there, and    *)
(* only a rename to a name that is free gives it away.                     *)
Says(t) ==
    /\ \/ result' = result
       \/ \E outcome \in Outcomes :
             result' = [result EXCEPT ![t] = outcome] /\ (outcome \in Succeeded => Exact(final, t))
    /\ final' = final \/ final = None

LEMMA ThreadSays ==
    ASSUME BundleInv, NEW t \in Threads,
           Begin(t) \/ BeginInspect(t) \/ CloseStaged(t) \/ CallRaises(t) \/ Proceed(t)
    PROVE  Says(t)
  <1> BundleTypes /\ KnowsTree(t) /\ KnowsName(t)
      BY DEF BundleInv
  <1>1. ASSUME NEW step, MoveOn(t, step), final' = final \/ final = None
        PROVE  Says(t)
        BY <1>1 DEF MoveOn, Says
  <1>2. ASSUME NEW outcome \in {"error", "exists", "closed"}, Finish(t, outcome), final' = final
        PROVE  Says(t)
        BY <1>2 DEF Finish, Says, Outcomes, Succeeded
  <1>3. ASSUME Mismatch(t) PROVE Says(t)
        BY <1>2, <1>3 DEF Mismatch, bundleDisk
  <1>4. CASE CloseStaged(t) \/ CallRaises(t)
        BY <1>2, <1>4 DEF CloseStaged, CallRaises, Fails, bundleDisk
  <1>5. CASE Begin(t) \/ SyncDirectories(t) \/ StageReadback(t) \/ Seal(t)
        BY <1>1, <1>2, <1>3, <1>5 DEF Begin, SyncDirectories, StageReadback, Seal, bundleDisk
  <1>6. ASSUME NEW f \in Files, WriteFile(t, f) PROVE Says(t)
        BY <1>2, <1>6 DEF WriteFile, Says
  <1>7. CASE EnterCommit(t) \/ CheckSnapshot(t) \/ CheckBytes(t) \/ CheckAgain(t)
        BY <1>1, <1>3, <1>7 DEF EnterCommit, CheckSnapshot, CheckBytes, CheckAgain, bundleDisk
  <1>8. CASE RenameBundle(t) \/ OpenFinal(t) \/ FsyncRoot(t)
        BY <1>1, <1>2, <1>3, <1>8 DEF RenameBundle, OpenFinal, FsyncRoot, bundleDisk
  <1>9. CASE LookSnapshot(t) \/ LookBytes(t)
        BY <1>1, <1>3, <1>9 DEF LookSnapshot, LookBytes, bundleDisk
  <1>10. CASE LookAgain(t)
    <2>1. CASE version[t] = sealed[t] /\ final = t
      <3>1. pc[t] = "relook" /\ Finish(t, "published") /\ UNCHANGED bundleDisk
            BY <1>10, <2>1 DEF LookAgain
      <3>2. Exact(final, t)
            BY <2>1, <3>1 DEF KnowsTree, Exact, Whole
      <3> QED BY <3>1, <3>2 DEF Says, Finish, bundleDisk, Outcomes
    <2>2. CASE ~(version[t] = sealed[t] /\ final = t)
          BY <1>3, <1>10, <2>2 DEF LookAgain
    <2> QED BY <2>1, <2>2
  <1>11. CASE BeginInspect(t) \/ EnterInspect(t) \/ InspectBytes(t)
         BY <1>1, <1>3, <1>11 DEF BeginInspect, EnterInspect, InspectBytes, bundleDisk
  <1>12. ASSUME NEW outcome \in {"found", "missing"}, InspectionSays(t, outcome),
                outcome = "found" => Exact(final, t)
         PROVE  Says(t)
    <2>1. PICK said \in {outcome, "converged", "error"} :
             Finish(t, said) /\ UNCHANGED bundleDisk /\ (said = "converged" => outcome = "found")
          BY <1>12 DEF InspectionSays
    <2>2. said \in Outcomes /\ (said \in Succeeded => Exact(final, t))
          BY <1>12, <2>1 DEF Outcomes, Succeeded
    <2> QED BY <2>1, <2>2 DEF Says, Finish, bundleDisk
  <1>13. CASE InspectSnapshot(t)
         BY <1>1, <1>12, <1>13 DEF InspectSnapshot, bundleDisk
  <1>14. CASE InspectAgain(t)
    <2>1. pc[t] = "inspectAgain" /\ (Version(final) = bundleSeen[t] => Exact(final, t))
          BY <1>14 DEF InspectAgain, KnowsName
    <2> QED BY <1>3, <1>12, <1>14, <2>1 DEF InspectAgain
  <1> QED BY <1>4, <1>5, <1>6, <1>7, <1>8, <1>9, <1>10, <1>11, <1>13, <1>14 DEF Proceed

LEMMA SaysWhatIsThere ==
    ASSUME BundleInv, [BundleNext]_bundleVars
    PROVE  /\ \A t \in Threads : result'[t] \in Succeeded /\ result[t] = None => Exact(final, t)
           /\ final # None => final' = final \/ (final' = None /\ ~finalSynced)
  <1> None \notin Succeeded /\ result \in [Threads -> Outcomes \cup {None}]
      BY BundleAssumptions DEF Succeeded, BundleInv, BundleTypes
  <1>1. CASE \E t \in Threads : Says(t)
    <2>1. PICK u \in Threads : Says(u)
          BY <1>1
    <2>2. ASSUME NEW t \in Threads, result'[t] \in Succeeded, result[t] = None
          PROVE  Exact(final, t)
      <3>1. result'[t] # result[t]
            BY <2>2
      <3>2. PICK outcome \in Outcomes :
               result' = [result EXCEPT ![u] = outcome] /\ (outcome \in Succeeded => Exact(final, u))
            BY <2>1, <3>1 DEF Says
      <3>3. t = u
            BY <3>1, <3>2
      <3>4. outcome \in Succeeded
            BY <2>2, <3>2, <3>3
      <3> QED BY <3>2, <3>3, <3>4
    <2>3. final # None => final' = final
          BY <2>1 DEF Says
    <2> QED BY <2>2, <2>3
  <1>2. CASE result' = result /\ (final' = final \/ (final' = None /\ ~finalSynced))
        BY <1>2
  <1>3. CASE \E x \in Threads, f \in Files : TamperTree(x, f)
        BY <1>2, <1>3 DEF TamperTree
  <1>4. CASE ProcessDies \/ BundlePowerLoss
        BY <1>2, <1>4 DEF ProcessDies, BundlePowerLoss, bundleDisk
  <1>5. CASE UNCHANGED bundleVars
        BY <1>2, <1>5 DEF bundleVars, bundleDisk
  <1> QED BY <1>1, <1>3, <1>4, <1>5, ThreadSays DEF BundleNext, AllDone

LEMMA OneName == BundleInv => BundleTypeOK /\ NeverTorn /\ OneWinner /\ NothingHeld
  <1> HAVE BundleInv
  <1>1. BundleTypeOK /\ NeverTorn /\ NothingHeld
        BY BundleAssumptions DEF BundleInv, BundleTypes, Bears, Whole, HoldsFor, WithName,
                                 NeverTorn, NothingHeld
  <1>2. /\ \A s, t \in Winners : job[s] = job[t]
        /\ \A t \in takenBack : result[t] # "published"
        BY DEF BundleInv, BundleTypes, Wins, Winners
  <1>3. Cardinality({t \in Threads : result[t] = "published"}) <= 1
    <2> DEFINE publishers == {t \in Threads : result[t] = "published"}
    <2>1. publishers \subseteq {final}
          BY DEF BundleInv, Wins
    <2>2. publishers = {} \/ publishers = {final}
          BY <2>1
    <2>3. Cardinality({}) = 0 /\ Cardinality({final}) = 1
          BY FS_EmptySet, FS_Singleton
    <2> QED BY <2>2, <2>3
  <1> QED BY <1>1, <1>2, <1>3 DEF OneWinner

(* What bears a bundle's name is whole, it is the tree of one thread, and  *)
(* no thread that has returned holds a lock or a descriptor; a thread      *)
(* reports success of exactly its own documents, and a bundle that         *)
(* survived a power loss keeps its name (_commit_staged_bundle and         *)
(* _inspect_final_bundle of exporting/bundle.py).                          *)
THEOREM BundleWhole ==
    BundleSpec => BundleIsWhole
  <1>1. BundleInit => BundleInv
        BY BundleInitially
  <1>2. BundleInv /\ [BundleNext]_bundleVars => BundleInv'
        BY BundleStep
  <1>3. BundleInv => BundleTypeOK /\ NeverTorn /\ OneWinner /\ NothingHeld
        BY OneName
  <1>4. BundleInv /\ [BundleNext]_bundleVars =>
           [\A t \in Threads : result'[t] \in Succeeded /\ result[t] = None => Exact(final, t)]_bundleVars
        BY SaysWhatIsThere
  <1>5. BundleInv /\ [BundleNext]_bundleVars =>
           [final # None => final' = final \/ (final' = None /\ ~finalSynced)]_bundleVars
        BY SaysWhatIsThere
  <1>6. BundleSpec => SuccessIsExact
        BY <1>1, <1>2, <1>4, PTL DEF BundleSpec, SuccessIsExact
  <1>7. BundleSpec => NameKept
        BY <1>1, <1>2, <1>5, PTL DEF BundleSpec, NameKept
  <1>8. BundleSpec => [](BundleTypeOK /\ NeverTorn /\ OneWinner /\ NothingHeld)
        BY <1>1, <1>2, <1>3, PTL DEF BundleSpec
  <1> QED BY <1>6, <1>7, <1>8 DEF BundleIsWhole

-----------------------------------------------------------------------------
(* The pair, for any threads, documents and faults.                        *)

(* The steps of a thread that publishes: with a temporary name, and with   *)
(* the final name in place.                                                *)
Unclaimed   == {"write", "fsync", "claim"}
WithTemp    == Unclaimed \cup {"inspect", "unlink"}
WithFinal   == {"inspect", "unlink", "syncDir"}
Publication == {"temp", "syncDir"} \cup WithTemp
Recovered   == {"committed", "syncCommitted", "content", "syncContent", "temp", "syncDir"}
PutSteps    == {"syncCommitted", "content", "syncContent"} \cup Publication
Inside      == {"scan", "recover", "syncAlias"} \cup Recovered \cup WithTemp
PairPlaces  == {"idle", "open", "syncParent"} \cup Inside

PairTypes ==
    /\ PairTypeOK /\ sameStore \in BOOLEAN /\ rereads \in BOOLEAN /\ doc \in [Putters -> Docs]
    /\ pairOp \in [Putters -> {"put", "read"}] /\ pairPc \in [Putters -> PairPlaces]
    /\ pairResult = [t \in Putters |-> pairResult[t]] /\ pairFaults \in Nat

(* A final name is there until the power is lost, and bears a durable file *)
(* in a durable directory.                                                 *)
InPlace ==
    \A k \in Kinds :
        /\ Final(k) \in maybe => Final(k) \in now
        /\ Visible(k) => owner[k] \in Putters /\ ino[owner[k]][k] = "durable" /\ pairDir = "synced"

(* What was put or read is the document whose content stays.               *)
KnownStays == \A d \in known : Final("content") \in sure /\ DocOf("content") = d

(* What a thread has: the lock, a directory, and once it links a file a    *)
(* durable one.                                                            *)
HasStore(t) ==
    /\ sameStore /\ pairPc[t] # "idle" => pairLock = t
    /\ pairPc[t] \in {"syncParent"} \cup PutSteps => pairOp[t] = "put"
    /\ pairOp[t] = "put" /\ pairPc[t] \in Inside => pairDir = "synced"
    /\ pairPc[t] = "claim" => ino[t][kind[t]] = "durable"

(* What it publishes is not in place as its own.                           *)
Mine(t, k) == Visible(k) /\ owner[k] = t
NotMine(t) ==
    /\ pairPc[t] \in {"temp"} \cup Unclaimed => ~Mine(t, kind[t])
    /\ pairPc[t] \in {"content", "syncContent"} => ~Mine(t, "metadata")
    /\ pairPc[t] \in Publication /\ kind[t] = "content" => ~Mine(t, "metadata")

(* What it knows of the two files.                                         *)
KnowsFiles(t) ==
    /\ pairPc[t] \in Publication /\ kind[t] = "metadata" =>
           Final("content") \in sure /\ DocOf("content") = doc[t]
    /\ pairPc[t] = "syncContent" =>
           kind[t] = "metadata" /\ Visible("content") /\ DocOf("content") = doc[t]
    /\ pairPc[t] \in WithFinal => Visible(kind[t]) /\ DocOf(kind[t]) = doc[t]
    /\ pairPc[t] = "syncCommitted" => Visible("metadata")

(* Without a fault it leaves no temporary name.                            *)
KeepsTidy(t) ==
    /\ pairPc[t] \in Unclaimed => ~linked[t]
    /\ pairFaults = 0 =>
           \A k \in Kinds : Temp(t, k) \in now => pairPc[t] \in WithTemp /\ k = kind[t]

(* In its own store it knows of every temporary name.                      *)
KnowsTemps(t) ==
    sameStore =>
        /\ pairPc[t] \in {"recover", "syncAlias"} =>
               \A k \in Kinds : ~Orphan(k) /\ (k \in plan[t] <=> Temps(k) # {})
        /\ pairPc[t] \in Recovered => \A k \in Kinds : Temps(k) = {}
        /\ pairPc[t] \in WithTemp =>
               \A k \in Kinds : Temps(k) = IF k = kind[t] THEN {t} ELSE {}

PutterInv(t) ==
    HasStore(t) /\ NotMine(t) /\ KnowsFiles(t) /\ KeepsTidy(t) /\ KnowsTemps(t)

PairInv ==
    /\ PairTypes /\ InPlace /\ MetadataCommits /\ StoredIsDurable /\ KnownStays
    /\ \A t \in Putters : PutterInv(t)

LEMMA TempIsNotFinal ==
    ASSUME NEW t \in Putters PROVE \A k, j : Temp(t, k) # Final(j)
  BY PairAssumptions DEF Temp, Final

LEMMA PairInitially == PairInit => PairInv
  <1> SUFFICES ASSUME PairInit PROVE PairInv
      OBVIOUS
  <1> USE DEF PairInit
  <1>1. PairTypes
        BY DEF PairTypes, PairTypeOK, PairPlaces, Kinds
  <1>2. InPlace /\ MetadataCommits /\ StoredIsDurable /\ KnownStays
        BY DEF InPlace, MetadataCommits, StoredIsDurable, KnownStays, Visible
  <1>3. ASSUME NEW t \in Putters PROVE PutterInv(t)
    <2>1. pairPc[t] = "idle" /\ now = {}
          OBVIOUS
    <2>2. "idle" \notin {"syncParent"} \cup PutSteps \cup Inside
          BY DEF PutSteps, Inside, Recovered, Publication, WithTemp, Unclaimed
    <2> QED BY <2>1, <2>2
            DEF PutterInv, HasStore, NotMine, KnowsFiles, KeepsTidy, KnowsTemps, PutSteps, Inside,
                Recovered, Publication, WithTemp, WithFinal, Unclaimed
  <1> QED BY <1>1, <1>2, <1>3 DEF PairInv

(* What the step of one thread leaves of another: its mind, the final      *)
(* names and the files under them, and its temporary names, unless it      *)
(* drops one.                                                              *)
Stays(t) ==
    /\ UNCHANGED inputs
    /\ pairPc'[t] = pairPc[t] /\ kind'[t] = kind[t] /\ linked'[t] = linked[t]
    /\ plan'[t] = plan[t] /\ pairOp'[t] = pairOp[t]
    /\ pairDir = "synced" => pairDir' = "synced"
    /\ \A k \in Kinds :
          /\ Visible(k) => Visible(k)' /\ owner'[k] = owner[k]
          /\ Mine(t, k)' => Mine(t, k)
          /\ Final(k) \in sure => Final(k) \in sure'
          /\ ino'[t][k] = ino[t][k] \/ ino'[t][k] = "durable"
          /\ Temp(t, k) \in now' => Temp(t, k) \in now
    /\ pairFaults' = 0 => pairFaults = 0
    /\ sameStore => pairPc[t] = "idle"

LEMMA PutterKept ==
    ASSUME PairTypes, NEW t \in Putters, PutterInv(t), Stays(t)
    PROVE  PutterInv(t)'
  <1>1. sameStore' = sameStore /\ doc' = doc /\ "content" \in Kinds /\ "metadata" \in Kinds
        BY DEF Stays, inputs, Kinds
  <1>2. kind[t] \in Kinds /\ sure \subseteq now
        BY DEF PairTypes, PairTypeOK
  <1>3. \A k \in Kinds : Visible(k) => DocOf(k)' = DocOf(k)
        BY <1>1 DEF Stays, DocOf
  <1>4. HasStore(t)'
    <2>1. pairPc[t] = "claim" => ino'[t][kind'[t]] = "durable"
          BY <1>2 DEF PutterInv, HasStore, Stays
    <2> QED BY <1>1, <2>1 DEF PutterInv, HasStore, Stays
  <1>5. NotMine(t)'
        BY <1>1, <1>2 DEF PutterInv, NotMine, Stays
  <1>6. KnowsFiles(t)'
    <2>1. Final("content") \in sure => Visible("content")
          BY <1>2 DEF Visible
    <2> QED BY <1>1, <1>2, <1>3, <2>1 DEF PutterInv, KnowsFiles, Stays
  <1>7. KeepsTidy(t)'
        BY DEF PutterInv, KeepsTidy, Stays
  <1>8. KnowsTemps(t)'
    <2>1. sameStore => pairPc'[t] = "idle"
          BY DEF Stays
    <2> QED BY <1>1, <2>1 DEF KnowsTemps, Recovered, WithTemp, Unclaimed
  <1> QED BY <1>4, <1>5, <1>6, <1>7, <1>8 DEF PutterInv

(* A thread whose call has ended.                                          *)
LEMMA PutterIdle ==
    ASSUME NEW t \in Putters, pairPc'[t] = "idle",
           pairFaults' = 0 => \A k \in Kinds : Temp(t, k) \notin now'
    PROVE  PutterInv(t)'
  BY DEF PutterInv, HasStore, NotMine, KnowsFiles, KeepsTidy, KnowsTemps, PutSteps, Inside,
         Recovered, Publication, WithTemp, WithFinal, Unclaimed

(* In a store of their own, threads take turns.                            *)
LEMMA TakesTurns ==
    ASSUME PairInv, NEW t \in Putters, sameStore, pairPc[t] # "idle" \/ pairLock = Nothing
    PROVE  \A s \in Putters \ {t} : pairPc[s] = "idle"
  BY PairAssumptions DEF PairInv, PutterInv, HasStore

(* A step of a thread that links no final name.                            *)
Gentle(t) ==
    /\ pairDir' \in {"absent", "made", "synced"}
    /\ ino' \in [Putters -> [Kinds -> {"none", "partial", "whole", "durable"}]]
    /\ owner' \in [Kinds -> Putters \cup {Nothing}]
    /\ sure' \subseteq now' /\ now' \subseteq maybe' /\ maybe' \subseteq Names
    /\ pairDir = "synced" => pairDir' = "synced"
    /\ \A k \in Kinds :
          /\ Visible(k)' <=> Visible(k)
          /\ Visible(k) => owner'[k] = owner[k] /\ ino'[owner[k]][k] = "durable"
          /\ Final(k) \in sure => Final(k) \in sure'
          /\ Final(k) \in maybe' => Final(k) \in now'
          /\ \A s \in Putters \ {t} :
                /\ ino'[s][k] = ino[s][k] \/ ino'[s][k] = "durable"
                /\ Temp(s, k) \in now' => Temp(s, k) \in now

LEMMA GentleWorld ==
    ASSUME PairInv, NEW t \in Putters, Gentle(t), UNCHANGED inputs
    PROVE  /\ InPlace' /\ MetadataCommits'
           /\ \A k \in Kinds : Visible(k) => DocOf(k)' = DocOf(k)
           /\ UNCHANGED <<acked, known>> => StoredIsDurable' /\ KnownStays'
  <1>1. doc' = doc /\ "content" \in Kinds /\ "metadata" \in Kinds /\ sure \subseteq now
        BY DEF inputs, Kinds, PairInv, PairTypes, PairTypeOK
  <1>2. \A k \in Kinds : Visible(k) => DocOf(k)' = DocOf(k)
        BY <1>1 DEF Gentle, DocOf
  <1>3. InPlace'
        BY DEF PairInv, InPlace, Gentle
  <1>4. MetadataCommits'
    <2>1. Visible("metadata") => Visible("content")
          BY <1>1 DEF PairInv, MetadataCommits, Visible
    <2> QED BY <1>1, <1>2, <2>1 DEF PairInv, MetadataCommits, Gentle
  <1>5. ASSUME UNCHANGED <<acked, known>> PROVE StoredIsDurable' /\ KnownStays'
    <2>1. \A k \in Kinds : Final(k) \in sure => Visible(k)
          BY <1>1 DEF Visible
    <2>2. StoredIsDurable'
          BY <1>2, <1>5, <2>1 DEF PairInv, StoredIsDurable, Gentle
    <2>3. KnownStays'
          BY <1>1, <1>2, <1>5, <2>1 DEF PairInv, KnownStays, Gentle
    <2> QED BY <2>2, <2>3
  <1> QED BY <1>2, <1>3, <1>4, <1>5

(* What the step of a thread does with its mind: it goes to a place, and   *)
(* leaves the others where they are.                                       *)
Turn(t, place) ==
    /\ UNCHANGED inputs
    /\ pairPc' = [pairPc EXCEPT ![t] = place]
    /\ pairOp' \in [Putters -> {"put", "read"}] /\ plan' \in [Putters -> SUBSET Kinds]
    /\ kind' \in [Putters -> Kinds] /\ linked' \in [Putters -> BOOLEAN]
    /\ \A s \in Putters \ {t} : /\ pairOp'[s] = pairOp[s] /\ plan'[s] = plan[s]
                                /\ kind'[s] = kind[s] /\ linked'[s] = linked[s]
    /\ pairLock' \in Putters \cup {Nothing}
    /\ pairResult' = [s \in Putters |-> pairResult'[s]]
    /\ acked' \in Docs \cup {Nothing} /\ known' \subseteq Docs
    /\ pairFaults' \in Nat /\ (pairFaults' = 0 => pairFaults = 0)
    /\ pairPc[t] # "idle" \/ ~sameStore \/ pairLock = Nothing

LEMMA GentleTurn ==
    ASSUME PairInv, NEW t \in Putters, NEW place \in PairPlaces, Turn(t, place), Gentle(t),
           PutterInv(t)', StoredIsDurable', KnownStays'
    PROVE  PairInv'
  <1>1. PairTypes'
        BY DEF PairInv, PairTypes, PairTypeOK, Turn, Gentle, inputs
  <1>2. InPlace' /\ MetadataCommits'
        BY GentleWorld DEF Turn
  <1>3. ASSUME NEW s \in Putters \ {t} PROVE PutterInv(s)'
    <2>1. pairPc'[s] = pairPc[s]
          BY DEF Turn, PairInv, PairTypes
    <2>2. sameStore => pairPc[s] = "idle"
          BY TakesTurns DEF Turn
    <2>3. Stays(s)
          BY <2>1, <2>2 DEF Stays, Turn, Gentle, Mine
    <2> QED BY <2>3, PutterKept DEF PairInv
  <1> QED BY <1>1, <1>2, <1>3 DEF PairInv

LEMMA PairTyped ==
    ASSUME PairInv
    PROVE  /\ sure \subseteq now /\ now \subseteq maybe /\ maybe \subseteq Names
           /\ pairDir \in {"absent", "made", "synced"}
           /\ ino \in [Putters -> [Kinds -> {"none", "partial", "whole", "durable"}]]
           /\ owner \in [Kinds -> Putters \cup {Nothing}]
           /\ pairOp \in [Putters -> {"put", "read"}] /\ plan \in [Putters -> SUBSET Kinds]
           /\ kind \in [Putters -> Kinds] /\ linked \in [Putters -> BOOLEAN]
           /\ pairPc \in [Putters -> PairPlaces] /\ doc \in [Putters -> Docs]
           /\ acked \in Docs \cup {Nothing} /\ known \subseteq Docs /\ pairFaults \in Nat
           /\ \A k \in Kinds :
                 /\ Final(k) \in maybe => Final(k) \in now
                 /\ Visible(k) => owner[k] \in Putters /\ ino[owner[k]][k] = "durable"
                                  /\ pairDir = "synced"
  BY DEF PairInv, PairTypes, PairTypeOK, InPlace

LEMMA GentleSame ==
    ASSUME PairInv, NEW t \in Putters, UNCHANGED pairDisk
    PROVE  Gentle(t) /\ (\A k \in Kinds : Temps(k)' = Temps(k)) /\ UNCHANGED <<now, sure, maybe, owner>>
  <1>1. UNCHANGED <<pairDir, ino, owner, now, sure, maybe>>
        BY DEF pairDisk, names
  <1>2. Gentle(t)
        BY <1>1, PairTyped DEF Gentle, Visible
  <1> QED BY <1>1, <1>2 DEF Temps

LEMMA GentleDrop ==
    ASSUME PairInv, NEW t \in Putters, NEW s \in Putters, NEW k \in Kinds, DropName(Temp(s, k)),
           UNCHANGED <<pairDir, ino, owner>>
    PROVE  /\ Gentle(t) /\ Temp(s, k) \notin now'
           /\ \A j \in Kinds : Temps(j)' = IF j = k THEN Temps(j) \ {s} ELSE Temps(j)
  <1>1. \A j : Temp(s, k) # Final(j)
        BY TempIsNotFinal
  <1>2. Gentle(t)
        BY <1>1, PairTyped DEF Gentle, DropName, Visible
  <1>3. \A j \in Kinds : Temps(j)' = IF j = k THEN Temps(j) \ {s} ELSE Temps(j)
        BY DEF Temps, DropName, Temp
  <1> QED BY <1>2, <1>3 DEF DropName

LEMMA GentleSync ==
    ASSUME PairInv, NEW t \in Putters, SyncPairDir, UNCHANGED <<pairDir, ino, owner>>
    PROVE  /\ Gentle(t) /\ \A j \in Kinds : Temps(j)' = Temps(j) /\ (Visible(j) => Final(j) \in sure')
  <1>1. Gentle(t)
        BY PairTyped DEF Gentle, SyncPairDir, Visible
  <1> QED BY <1>1 DEF SyncPairDir, Temps, Visible

(* A step to another place, and the end of a call.                         *)
Minds(t) ==
    /\ pairOp' \in [Putters -> {"put", "read"}] /\ plan' \in [Putters -> SUBSET Kinds]
    /\ kind' \in [Putters -> Kinds] /\ linked' \in [Putters -> BOOLEAN]
    /\ \A s \in Putters \ {t} : /\ pairOp'[s] = pairOp[s] /\ plan'[s] = plan[s]
                                /\ kind'[s] = kind[s] /\ linked'[s] = linked[s]

LEMMA SameMinds == ASSUME PairInv, NEW t \in Putters, UNCHANGED pairMind PROVE Minds(t)
  BY PairTyped DEF Minds, pairMind

LEMMA GoTurn ==
    ASSUME PairInv, NEW t \in Putters, NEW place \in PairPlaces, UNCHANGED inputs,
           PairGoto(t, place), pairPc[t] # "idle", Minds(t)
    PROVE  /\ Turn(t, place) /\ pairPc'[t] = place
           /\ UNCHANGED <<acked, known, pairLock, pairFaults>>
           /\ sameStore' = sameStore /\ doc' = doc /\ (sameStore => pairLock' = t)
  <1>1. pairLock \in Putters \cup {Nothing} /\ pairResult = [s \in Putters |-> pairResult[s]]
        BY DEF PairInv, PairTypes, PairTypeOK
  <1>2. Turn(t, place)
        BY <1>1, PairTyped DEF Turn, PairGoto, Minds
  <1> QED BY <1>2, PairTyped DEF PairGoto, inputs, PairInv, PutterInv, HasStore

LEMMA EndTurn ==
    ASSUME PairInv, NEW t \in Putters, NEW outcome, UNCHANGED inputs, PairReturn(t, outcome),
           UNCHANGED pairMind, pairPc[t] # "idle", Gentle(t),
           pairFaults' \in Nat, pairFaults' = 0 => pairFaults = 0,
           pairFaults' = 0 => \A k \in Kinds : Temp(t, k) \notin now',
           acked' \in Docs \cup {Nothing}, known' \subseteq Docs, StoredIsDurable', KnownStays'
    PROVE  PairInv'
  <1>1. pairLock \in Putters \cup {Nothing} /\ pairResult = [s \in Putters |-> pairResult[s]]
        BY DEF PairInv, PairTypes, PairTypeOK
  <1>2. Minds(t)
        BY SameMinds
  <1>3. Turn(t, "idle") /\ pairPc'[t] = "idle"
        BY <1>1, <1>2, PairTyped DEF Turn, PairReturn, Minds
  <1>4. PutterInv(t)'
        BY <1>3, PutterIdle
  <1>5. "idle" \in PairPlaces
        BY DEF PairPlaces
  <1> QED BY <1>3, <1>4, <1>5, GentleTurn

(* A call that raises before it has a temporary name.                      *)
LEMMA Raises ==
    ASSUME PairInv, NEW t \in Putters, NEW outcome, UNCHANGED inputs, PairRaise(t, outcome),
           UNCHANGED <<pairMind, pairFaults>>, pairPc[t] # "idle", Gentle(t),
           pairFaults = 0 => \A k \in Kinds : Temp(t, k) \notin now'
    PROVE  PairInv'
  <1>1. StoredIsDurable' /\ KnownStays'
        BY GentleWorld DEF PairRaise
  <1> QED BY <1>1, PairTyped, EndTurn DEF PairRaise

LEMMA NoTempOf ==
    ASSUME PairInv, NEW t \in Putters, pairPc[t] \notin WithTemp, pairFaults = 0
    PROVE  \A k \in Kinds : Temp(t, k) \notin now
  BY DEF PairInv, PutterInv, KeepsTidy

LEMMA OpeningStep ==
    ASSUME PairInv, NEW t \in Putters, UNCHANGED inputs,
           (\E name \in {"put", "read"} : Call(t, name)) \/ OpenScope(t) \/ SyncPairParent(t)
    PROVE  PairInv'
  <1> USE DEF PutSteps, Inside, Recovered, Publication, WithTemp, WithFinal, Unclaimed
  <1>1. sameStore' = sameStore /\ doc' = doc
        BY DEF inputs
  <1>2. PutterInv(t) /\ pairPc[t] \notin WithTemp
        BY DEF PairInv, Call, OpenScope, SyncPairParent
  <1>3. ASSUME NEW name \in {"put", "read"}, Call(t, name) PROVE PairInv'
    <2>1. Gentle(t) /\ now' = now
          BY <1>3, GentleSame DEF Call
    <2>2. Turn(t, "open") /\ pairPc'[t] = "open" /\ pairFaults' = pairFaults
      <3>1. Minds(t)
            BY <1>3, PairTyped DEF Call, Minds, Kinds
      <3>2. pairResult' = [s \in Putters |-> pairResult'[s]] /\ pairLock' \in Putters \cup {Nothing}
            BY <1>3 DEF Call, PairInv, PairTypes, PairTypeOK
      <3> QED BY <1>3, <3>1, <3>2, PairTyped DEF Call, Turn, Minds
    <2>3. PutterInv(t)'
          BY <1>1, <1>2, <1>3, <2>1, <2>2
             DEF Call, PutterInv, HasStore, NotMine, KnowsFiles, KeepsTidy, KnowsTemps
    <2>4. StoredIsDurable' /\ KnownStays'
          BY <1>3, <2>1, GentleWorld DEF Call
    <2> QED BY <2>1, <2>2, <2>3, <2>4, GentleTurn DEF PairPlaces
  <1>4. CASE OpenScope(t)
    <2>1. pairPc[t] = "open" /\ UNCHANGED <<pairMind, ino, owner, names, now>> /\ pairOp' = pairOp
          BY <1>4 DEF OpenScope, names, pairMind
    <2>2. CASE PairRaise(t, "absent") /\ UNCHANGED <<pairDir, pairFaults>>
      <3>1. Gentle(t) /\ now' = now
            BY <2>1, <2>2, GentleSame DEF pairDisk
      <3> QED BY <1>2, <2>1, <2>2, <3>1, NoTempOf, Raises
    <2>3. CASE /\ ~(pairOp[t] = "read" /\ pairDir = "absent")
               /\ pairDir' = IF pairDir = "absent" THEN "made" ELSE pairDir
               /\ PairGoto(t, IF pairOp[t] = "put" THEN "syncParent" ELSE "scan")
      <3>1. PICK place \in {"syncParent", "scan"} :
               /\ PairGoto(t, place)
               /\ place = "syncParent" <=> pairOp[t] = "put"
            BY <2>3
      <3>2. Gentle(t)
            BY <2>1, <2>3, PairTyped DEF Gentle, Visible, names
      <3>3. place \in PairPlaces
            BY DEF PairPlaces
      <3>4. /\ Turn(t, place) /\ pairPc'[t] = place /\ (sameStore => pairLock' = t)
            /\ UNCHANGED <<acked, known, pairFaults>>
            BY <2>1, <3>1, <3>3, SameMinds, GoTurn
      <3>5. PutterInv(t)'
            BY <1>1, <1>2, <2>1, <3>1, <3>4
               DEF PutterInv, HasStore, NotMine, KnowsFiles, KeepsTidy, KnowsTemps
      <3>6. StoredIsDurable' /\ KnownStays'
            BY <3>2, <3>4, GentleWorld
      <3> QED BY <3>2, <3>3, <3>4, <3>5, <3>6, GentleTurn
    <2> QED BY <1>4, <2>2, <2>3 DEF OpenScope
  <1>5. CASE SyncPairParent(t)
    <2>1. /\ pairPc[t] = "syncParent" /\ UNCHANGED <<pairMind, ino, owner, names, now>>
          /\ pairOp' = pairOp /\ pairDir' = "synced" /\ PairGoto(t, "scan")
          BY <1>5 DEF SyncPairParent, names, pairMind
    <2>2. Gentle(t)
          BY <2>1, PairTyped DEF Gentle, Visible, names
    <2>3. "scan" \in PairPlaces
          BY DEF PairPlaces
    <2>4. /\ Turn(t, "scan") /\ pairPc'[t] = "scan" /\ (sameStore => pairLock' = t)
          /\ UNCHANGED <<acked, known, pairFaults>>
          BY <2>1, <2>3, SameMinds, GoTurn
    <2>5. PutterInv(t)'
          BY <1>1, <1>2, <2>1, <2>4
             DEF PutterInv, HasStore, NotMine, KnowsFiles, KeepsTidy, KnowsTemps
    <2>6. StoredIsDurable' /\ KnownStays'
          BY <2>2, <2>4, GentleWorld
    <2> QED BY <2>2, <2>3, <2>4, <2>5, <2>6, GentleTurn
  <1> QED BY <1>3, <1>4, <1>5

(* A step to another place: what the thread finds there.                   *)
LEMMA Goes ==
    ASSUME PairInv, NEW t \in Putters, NEW place \in PairPlaces, UNCHANGED inputs,
           PairGoto(t, place), pairPc[t] # "idle", Minds(t), Gentle(t)
    PROVE  /\ pairPc'[t] = place /\ sameStore' = sameStore /\ doc' = doc
           /\ pairFaults' = pairFaults /\ (sameStore => pairLock' = t)
           /\ \A k \in Kinds : /\ Visible(k)' <=> Visible(k)
                               /\ Mine(t, k)' <=> Mine(t, k)
                               /\ Final(k) \in sure => Final(k) \in sure'
                               /\ Visible(k) => DocOf(k)' = DocOf(k)
           /\ PutterInv(t)' => PairInv'
  <1>1. /\ Turn(t, place) /\ pairPc'[t] = place /\ (sameStore => pairLock' = t)
        /\ UNCHANGED <<acked, known, pairFaults>> /\ sameStore' = sameStore /\ doc' = doc
        BY GoTurn
  <1>2. StoredIsDurable' /\ KnownStays' /\ \A k \in Kinds : Visible(k) => DocOf(k)' = DocOf(k)
        BY <1>1, GentleWorld
  <1>3. PutterInv(t)' => PairInv'
        BY <1>1, <1>2, GentleTurn
  <1> QED BY <1>1, <1>2, <1>3 DEF Gentle, Mine

LEMMA PairPlacesAre ==
    /\ \A place \in Inside : place \in PairPlaces
    /\ "content" \in Kinds /\ "metadata" \in Kinds /\ \A k \in Kinds : k = "content" \/ k = "metadata"
  BY DEF PairPlaces, Kinds

LEMMA ScanStep ==
    ASSUME PairInv, NEW t \in Putters, UNCHANGED inputs, Scan(t)
    PROVE  PairInv'
  <1>1. pairPc[t] = "scan" /\ pairPc[t] \notin WithTemp /\ PutterInv(t)
        BY DEF Scan, PairInv, WithTemp, Unclaimed
  <1>2. CASE Corrupted(t)
    <2>1. Gentle(t) /\ now' = now
          BY <1>2, GentleSame DEF Corrupted
    <2> QED BY <1>1, <1>2, <2>1, NoTempOf, Raises DEF Corrupted
  <1>3. CASE ~\E k \in Kinds : Orphan(k)
    <2> DEFINE place == IF plan'[t] = {} THEN "committed" ELSE "recover"
    <2>1. /\ plan' = [plan EXCEPT ![t] = {k \in Kinds : Temps(k) # {}}]
          /\ PairGoto(t, place) /\ UNCHANGED <<pairOp, kind, linked, pairDisk>>
          BY <1>3 DEF Scan
    <2>2. /\ Gentle(t) /\ UNCHANGED <<now, sure, maybe, owner, pairDir>>
          /\ \A k \in Kinds : Temps(k)' = Temps(k)
          BY <2>1, GentleSame DEF pairDisk
    <2>3. Minds(t) /\ plan'[t] = {k \in Kinds : Temps(k) # {}}
          BY <2>1, PairTyped DEF Minds
    <2>4. place \in {"committed", "recover"} /\ place \in PairPlaces
          BY PairPlacesAre DEF Inside, Recovered
    <2>5. pairPc'[t] = place /\ sameStore' = sameStore /\ pairFaults' = pairFaults
          /\ (sameStore => pairLock' = t) /\ (PutterInv(t)' => PairInv')
      <3> HIDE DEF place
      <3> QED BY <1>1, <2>1, <2>2, <2>3, <2>4, Goes
    <2>6. sameStore => \A k \in Kinds : ~Orphan(k)' /\ (k \in plan'[t] <=> Temps(k)' # {})
                       /\ (place = "committed" => Temps(k)' = {})
          BY <1>3, <2>2, <2>3 DEF Orphan, Visible
    <2> HIDE DEF place
    <2>7. PutterInv(t)'
      <3>1. HasStore(t)'
            BY <1>1, <2>1, <2>2, <2>4, <2>5
               DEF PutterInv, HasStore, PutSteps, Publication, WithTemp, Unclaimed,
               Inside, Recovered
      <3>2. NotMine(t)' /\ KnowsFiles(t)'
            BY <2>4, <2>5 DEF NotMine, KnowsFiles, Publication, WithTemp, WithFinal, Unclaimed
      <3>3. KeepsTidy(t)'
            BY <1>1, <2>2, <2>4, <2>5, NoTempOf DEF KeepsTidy, Unclaimed
      <3>4. KnowsTemps(t)'
            BY <2>4, <2>5, <2>6 DEF KnowsTemps, Recovered, WithTemp, Unclaimed
      <3> QED BY <3>1, <3>2, <3>3, <3>4 DEF PutterInv
    <2> QED BY <2>5, <2>7
  <1> QED BY <1>2, <1>3 DEF Scan

LEMMA RecoverAliasStep ==
    ASSUME PairInv, NEW t \in Putters, NEW k \in Kinds, UNCHANGED inputs, RecoverAlias(t, k)
    PROVE  PairInv'
  <1>1. pairPc[t] = "recover" /\ pairPc[t] \notin WithTemp /\ PutterInv(t)
        BY DEF RecoverAlias, PairInv, WithTemp, Unclaimed
  <1>2. CASE Corrupted(t)
    <2>1. Gentle(t) /\ now' = now
          BY <1>2, GentleSame DEF Corrupted
    <2> QED BY <1>1, <1>2, <2>1, NoTempOf, Raises DEF Corrupted
  <1>3. CASE Visible(k) /\ Temps(k) = {owner[k]}
    <2>1. /\ DropName(Temp(owner[k], k)) /\ plan' = [plan EXCEPT ![t] = @ \ {k}]
          /\ PairGoto(t, "syncAlias")
          /\ UNCHANGED <<pairOp, kind, linked, pairDir, ino, owner>>
          BY <1>3 DEF RecoverAlias
    <2>2. owner[k] \in Putters
          BY <1>3, PairTyped
    <2>3. /\ Gentle(t) /\ now' \subseteq now
          /\ \A j \in Kinds : Temps(j)' = IF j = k THEN Temps(j) \ {owner[k]} ELSE Temps(j)
          BY <2>1, <2>2, GentleDrop DEF DropName
    <2>4. Minds(t) /\ plan'[t] = plan[t] \ {k}
          BY <2>1, PairTyped DEF Minds
    <2>5. "syncAlias" \in PairPlaces
          BY PairPlacesAre DEF Inside
    <2>6. /\ pairPc'[t] = "syncAlias" /\ sameStore' = sameStore /\ pairFaults' = pairFaults
          /\ (sameStore => pairLock' = t) /\ (PutterInv(t)' => PairInv')
          /\ \A j \in Kinds : Visible(j)' <=> Visible(j)
          BY <1>1, <2>1, <2>3, <2>4, <2>5, Goes
    <2>7. sameStore => \A j \in Kinds : ~Orphan(j)' /\ (j \in plan'[t] <=> Temps(j)' # {})
      <3>1. sameStore => \A j \in Kinds : ~Orphan(j) /\ (j \in plan[t] <=> Temps(j) # {})
            BY <1>1 DEF PutterInv, KnowsTemps
      <3>2. Temps(k)' = {}
            BY <1>3, <2>3
      <3> QED BY <2>1, <2>3, <2>4, <2>6, <3>1, <3>2 DEF Orphan
    <2>8. PutterInv(t)'
      <3>1. HasStore(t)'
            BY <1>1, <2>1, <2>6 DEF PutterInv, HasStore, PutSteps, Publication, WithTemp, Unclaimed,
               Inside, Recovered
      <3>2. NotMine(t)' /\ KnowsFiles(t)'
            BY <2>6 DEF NotMine, KnowsFiles, Publication, WithTemp, WithFinal, Unclaimed
      <3>3. KeepsTidy(t)'
            BY <1>1, <2>3, <2>6, NoTempOf DEF KeepsTidy, Unclaimed
      <3>4. KnowsTemps(t)'
            BY <2>6, <2>7 DEF KnowsTemps, Recovered, WithTemp, Unclaimed
      <3> QED BY <3>1, <3>2, <3>3, <3>4 DEF PutterInv
    <2> QED BY <2>6, <2>8
  <1> QED BY <1>2, <1>3 DEF RecoverAlias

LEMMA SyncAliasStep ==
    ASSUME PairInv, NEW t \in Putters, UNCHANGED inputs, SyncAlias(t)
    PROVE  PairInv'
  <1> DEFINE place == IF plan[t] = {} THEN "committed" ELSE "recover"
  <1>1. pairPc[t] = "syncAlias" /\ pairPc[t] \notin WithTemp /\ PutterInv(t)
        BY DEF SyncAlias, PairInv, WithTemp, Unclaimed
  <1>2. /\ SyncPairDir /\ PairGoto(t, place) /\ UNCHANGED <<pairMind, pairDir, ino, owner>>
        /\ UNCHANGED <<now, pairOp, plan, kind, linked>>
        BY DEF SyncAlias, SyncPairDir, pairMind
  <1>3. Gentle(t) /\ \A j \in Kinds : Temps(j)' = Temps(j)
        BY <1>2, GentleSync
  <1>4. place \in {"committed", "recover"} /\ place \in PairPlaces
        BY PairPlacesAre DEF Inside, Recovered
  <1>5. /\ pairPc'[t] = place /\ sameStore' = sameStore /\ pairFaults' = pairFaults
        /\ (sameStore => pairLock' = t) /\ (PutterInv(t)' => PairInv')
        /\ \A j \in Kinds : Visible(j)' <=> Visible(j)
    <2> HIDE DEF place
    <2> QED BY <1>1, <1>2, <1>3, <1>4, SameMinds, Goes
  <1>6. sameStore => \A j \in Kinds : /\ ~Orphan(j)' /\ (j \in plan'[t] <=> Temps(j)' # {})
                                      /\ place = "committed" => Temps(j)' = {}
    <2>1. sameStore => \A j \in Kinds : ~Orphan(j) /\ (j \in plan[t] <=> Temps(j) # {})
          BY <1>1 DEF PutterInv, KnowsTemps
    <2> QED BY <1>2, <1>3, <1>5, <2>1 DEF Orphan
  <1> HIDE DEF place
  <1>7. PutterInv(t)'
    <2>1. HasStore(t)'
          BY <1>1, <1>2, <1>4, <1>5 DEF PutterInv, HasStore, PutSteps, Publication, WithTemp, Unclaimed,
             Inside, Recovered
    <2>2. NotMine(t)' /\ KnowsFiles(t)'
          BY <1>4, <1>5 DEF NotMine, KnowsFiles, Publication, WithTemp, WithFinal, Unclaimed
    <2>3. KeepsTidy(t)'
          BY <1>1, <1>2, <1>4, <1>5, NoTempOf DEF KeepsTidy, Unclaimed
    <2>4. KnowsTemps(t)'
          BY <1>4, <1>5, <1>6 DEF KnowsTemps, Recovered, WithTemp, Unclaimed
    <2> QED BY <2>1, <2>2, <2>3, <2>4 DEF PutterInv
  <1> QED BY <1>5, <1>7

LEMMA ReadCommittedStep ==
    ASSUME PairInv, NEW t \in Putters, UNCHANGED inputs, ReadCommitted(t)
    PROVE  PairInv'
  <1>1. /\ pairPc[t] = "committed" /\ pairPc[t] \notin WithTemp /\ PutterInv(t)
        /\ pairOp[t] \in {"put", "read"}
        BY PairTyped DEF ReadCommitted, PairInv, WithTemp, Unclaimed
  <1>2. ASSUME UNCHANGED pairDisk PROVE Gentle(t) /\ UNCHANGED <<now, sure, maybe, owner, pairDir, ino>>
        BY <1>2, GentleSame DEF pairDisk
  <1>3. CASE PairRaise(t, "absent") /\ UNCHANGED <<pairMind, pairDisk, pairFaults>>
        BY <1>1, <1>2, <1>3, NoTempOf, Raises
  <1>4. CASE Corrupted(t)
        BY <1>1, <1>2, <1>4, NoTempOf, Raises DEF Corrupted
  <1>5. CASE /\ ~Visible("metadata") /\ pairOp[t] = "put"
             /\ PairGoto(t, "content") /\ UNCHANGED <<pairMind, pairDisk>>
    <2>1. "content" \in PairPlaces
          BY PairPlacesAre DEF Inside, Recovered
    <2>2. /\ pairPc'[t] = "content" /\ sameStore' = sameStore /\ pairFaults' = pairFaults
          /\ (sameStore => pairLock' = t) /\ (PutterInv(t)' => PairInv')
          /\ \A j \in Kinds : Visible(j)' <=> Visible(j)
          BY <1>1, <1>2, <1>5, <2>1, SameMinds, Goes
    <2>3. /\ UNCHANGED <<now, sure, maybe, owner, pairDir, ino, pairOp>>
          /\ \A k \in Kinds : Temps(k)' = Temps(k)
          BY <1>2, <1>5 DEF Temps, pairMind
    <2>4. HasStore(t)'
          BY <1>1, <1>5, <2>2, <2>3 DEF PutterInv, HasStore, Inside, Recovered
    <2>5. NotMine(t)' /\ KnowsFiles(t)'
          BY <1>5, <2>2, PairPlacesAre
             DEF NotMine, KnowsFiles, Mine, Publication, WithTemp, WithFinal, Unclaimed
    <2>6. KeepsTidy(t)'
          BY <1>1, <2>2, <2>3, NoTempOf DEF KeepsTidy, Unclaimed
    <2>7. KnowsTemps(t)'
          BY <1>1, <2>2, <2>3 DEF PutterInv, KnowsTemps, Recovered, WithTemp, Unclaimed
    <2> QED BY <2>2, <2>4, <2>5, <2>6, <2>7 DEF PutterInv
  <1>6. CASE /\ Visible("metadata") /\ Committed /\ pairOp[t] = "read"
             /\ PairReturn(t, "read") /\ known' = known \cup {DocOf("content")}
             /\ UNCHANGED <<pairMind, pairDisk, acked, pairFaults>>
    <2>1. Gentle(t) /\ UNCHANGED <<now, sure, maybe, owner, pairDir, ino>> /\ doc' = doc
          BY <1>2, <1>6 DEF inputs
    <2>2. owner["content"] \in Putters /\ DocOf("content") \in Docs
          BY <1>6, PairTyped, PairPlacesAre DEF Committed, Readable, DocOf
    <2>3. Final("content") \in sure
          BY <1>6 DEF PairInv, MetadataCommits
    <2>4. StoredIsDurable'
          BY <1>6, <2>1 DEF PairInv, StoredIsDurable, DocOf
    <2>5. KnownStays'
          BY <1>6, <2>1, <2>3 DEF PairInv, KnownStays, DocOf
    <2>6. pairFaults = 0 => \A k \in Kinds : Temp(t, k) \notin now
          BY <1>1, NoTempOf
    <2> QED BY <1>1, <1>6, <2>1, <2>2, <2>4, <2>5, <2>6, PairTyped, EndTurn
  <1>7. CASE /\ Visible("metadata") /\ Committed /\ pairOp[t] = "put"
             /\ ino' = [s \in Putters |-> [k \in Kinds |->
                            IF s = owner[k] THEN "durable" ELSE ino[s][k]]]
             /\ PairGoto(t, "syncCommitted") /\ UNCHANGED <<pairMind, pairDir, owner, names>>
    <2>1. UNCHANGED <<now, sure, maybe, owner, pairDir, pairOp>> /\ \A k \in Kinds : Temps(k)' = Temps(k)
          BY <1>7 DEF names, Temps, pairMind
    <2>2. Gentle(t)
      <3>1. ino' \in [Putters -> [Kinds -> {"none", "partial", "whole", "durable"}]]
            BY <1>7, PairTyped
      <3>2. \A k \in Kinds, s \in Putters : ino'[s][k] = ino[s][k] \/ ino'[s][k] = "durable"
            BY <1>7
      <3> QED BY <2>1, <3>1, <3>2, PairTyped DEF Gentle, Visible
    <2>3. "syncCommitted" \in PairPlaces
          BY PairPlacesAre DEF Inside, Recovered
    <2>4. /\ pairPc'[t] = "syncCommitted" /\ sameStore' = sameStore /\ pairFaults' = pairFaults
          /\ (sameStore => pairLock' = t) /\ (PutterInv(t)' => PairInv')
          /\ \A j \in Kinds : Visible(j)' <=> Visible(j)
          BY <1>1, <1>7, <2>2, <2>3, SameMinds, Goes
    <2>5. HasStore(t)'
          BY <1>1, <1>7, <2>1, <2>4 DEF PutterInv, HasStore, Inside, Recovered
    <2>6. NotMine(t)' /\ KnowsFiles(t)'
          BY <1>7, <2>4, PairPlacesAre
             DEF NotMine, KnowsFiles, Publication, WithTemp, WithFinal, Unclaimed
    <2>7. KeepsTidy(t)'
          BY <1>1, <2>1, <2>4, NoTempOf DEF KeepsTidy, Unclaimed
    <2>8. KnowsTemps(t)'
          BY <1>1, <2>1, <2>4 DEF PutterInv, KnowsTemps, Recovered, WithTemp, Unclaimed
    <2> QED BY <2>4, <2>5, <2>6, <2>7, <2>8 DEF PutterInv
  <1> QED BY <1>3, <1>4, <1>5, <1>6, <1>7 DEF ReadCommitted

(* The names are synced: everything that can be seen stays.                *)
LEMMA StoresPair ==
    ASSUME PairInv, NEW t \in Putters, UNCHANGED inputs, SyncPairDir, Stored(t),
           UNCHANGED <<pairMind, pairDir, ino, owner>>, pairPc[t] \notin WithTemp \cup {"idle"},
           Visible("metadata"), DocOf("content") = doc[t] \/ DocOf("metadata") = doc[t]
    PROVE  PairInv'
  <1>1. Gentle(t) /\ \A j \in Kinds : Visible(j) => Final(j) \in sure'
        BY GentleSync
  <1>2. now' = now /\ doc' = doc /\ sure \subseteq now
        BY PairTyped DEF SyncPairDir, inputs
  <1>3. Visible("content") /\ DocOf("content") = DocOf("metadata")
        BY <1>2 DEF PairInv, MetadataCommits, Visible
  <1>4. acked' = doc[t] /\ known' = known \cup {doc[t]} /\ pairFaults' = pairFaults /\ doc[t] \in Docs
        BY PairTyped DEF Stored
  <1>5. \A k \in Kinds : Visible(k) /\ DocOf(k) = doc[t]
        BY <1>3, PairPlacesAre
  <1>6. StoredIsDurable'
        BY <1>1, <1>2, <1>4, <1>5, PairTyped DEF StoredIsDurable, DocOf
  <1>7. KnownStays'
    <2>1. \A d \in known : DocOf("content") = d
          BY DEF PairInv, KnownStays
    <2>2. Final("content") \in sure' /\ DocOf("content")' = DocOf("content")
          BY <1>1, <1>2, <1>3, PairPlacesAre DEF DocOf
    <2> QED BY <1>4, <1>5, <2>1, <2>2, PairPlacesAre DEF KnownStays
  <1>8. pairFaults = 0 => \A k \in Kinds : Temp(t, k) \notin now
        BY NoTempOf
  <1> QED BY <1>1, <1>2, <1>4, <1>6, <1>7, <1>8, PairTyped, EndTurn DEF Stored

LEMMA SyncCommittedStep ==
    ASSUME PairInv, NEW t \in Putters, UNCHANGED inputs, SyncCommitted(t)
    PROVE  PairInv'
  <1>1. /\ pairPc[t] = "syncCommitted" /\ pairPc[t] \notin WithTemp \cup {"idle"} /\ PutterInv(t)
        /\ SyncPairDir /\ UNCHANGED <<pairMind, pairDir, ino, owner>>
        BY DEF SyncCommitted, PairInv, WithTemp, Unclaimed
  <1>2. Visible("metadata")
        BY <1>1 DEF PutterInv, KnowsFiles
  <1>3. CASE DocOf("content") = doc[t] /\ Stored(t)
        BY <1>1, <1>2, <1>3, StoresPair
  <1>4. CASE PairRaise(t, "corrupted") /\ UNCHANGED pairFaults
    <2>1. Gentle(t) /\ now' = now
          BY <1>1, GentleSync DEF SyncPairDir
    <2> QED BY <1>1, <1>4, <2>1, NoTempOf, Raises
  <1> QED BY <1>3, <1>4 DEF SyncCommitted

LEMMA ResumeContentStep ==
    ASSUME PairInv, NEW t \in Putters, UNCHANGED inputs, ResumeContent(t)
    PROVE  PairInv'
  <1>1. pairPc[t] = "content" /\ pairPc[t] \notin WithTemp \cup {"idle"} /\ PutterInv(t)
        BY DEF ResumeContent, PairInv, WithTemp, Unclaimed
  <1>2. pairOp[t] = "put" /\ pairDir = "synced"
        BY <1>1 DEF PutterInv, HasStore, PutSteps, Inside, Recovered
  <1>3. CASE Corrupted(t)
    <2>1. Gentle(t) /\ now' = now
          BY <1>3, GentleSame DEF Corrupted
    <2> QED BY <1>1, <1>3, <2>1, NoTempOf, Raises DEF Corrupted
  <1>4. CASE /\ ~Visible("content")
             /\ kind' = [kind EXCEPT ![t] = "content"]
             /\ PairGoto(t, "temp") /\ UNCHANGED <<pairOp, plan, linked, pairDisk>>
    <2>1. /\ Gentle(t) /\ UNCHANGED <<now, sure, maybe, owner, pairDir>>
          /\ \A k \in Kinds : Temps(k)' = Temps(k)
          BY <1>4, GentleSame DEF pairDisk
    <2>2. Minds(t) /\ kind'[t] = "content"
          BY <1>4, PairTyped, PairPlacesAre DEF Minds
    <2>3. "temp" \in PairPlaces
          BY PairPlacesAre DEF Inside, Recovered
    <2>4. /\ pairPc'[t] = "temp" /\ sameStore' = sameStore /\ pairFaults' = pairFaults
          /\ (sameStore => pairLock' = t) /\ (PutterInv(t)' => PairInv')
          /\ \A j \in Kinds : (Visible(j)' <=> Visible(j)) /\ (Mine(t, j)' <=> Mine(t, j))
          BY <1>1, <1>4, <2>1, <2>2, <2>3, Goes
    <2>5. HasStore(t)'
          BY <1>2, <1>4, <2>1, <2>4 DEF HasStore
    <2>6. NotMine(t)' /\ KnowsFiles(t)'
      <3>1. ~Mine(t, "content")' /\ ~Mine(t, "metadata")'
            BY <1>1, <1>4, <2>4, PairPlacesAre DEF PutterInv, NotMine, Mine
      <3> QED BY <2>2, <2>4, <3>1 DEF NotMine, KnowsFiles, WithFinal
    <2>7. KeepsTidy(t)'
          BY <1>1, <2>1, <2>4, NoTempOf DEF KeepsTidy, Unclaimed
    <2>8. KnowsTemps(t)'
          BY <1>1, <2>1, <2>4 DEF PutterInv, KnowsTemps, Recovered, WithTemp, Unclaimed
    <2> QED BY <2>4, <2>5, <2>6, <2>7, <2>8 DEF PutterInv
  <1>5. CASE /\ Visible("content") /\ Readable("content") /\ DocOf("content") = doc[t]
             /\ FsyncFile("content")
             /\ kind' = [kind EXCEPT ![t] = "metadata"]
             /\ PairGoto(t, "syncContent") /\ UNCHANGED <<pairOp, plan, linked, pairDir, owner, names>>
    <2>1. UNCHANGED <<now, sure, maybe, owner, pairDir>> /\ \A k \in Kinds : Temps(k)' = Temps(k)
          BY <1>5 DEF names, Temps
    <2>2. Gentle(t)
      <3>1. ino' \in [Putters -> [Kinds -> {"none", "partial", "whole", "durable"}]]
            BY <1>5, PairTyped DEF FsyncFile
      <3>2. \A k \in Kinds, s \in Putters : ino'[s][k] = ino[s][k] \/ ino'[s][k] = "durable"
            BY <1>5, PairTyped DEF FsyncFile
      <3> QED BY <2>1, <3>1, <3>2, PairTyped DEF Gentle, Visible
    <2>3. Minds(t) /\ kind'[t] = "metadata"
          BY <1>5, PairTyped, PairPlacesAre DEF Minds
    <2>4. "syncContent" \in PairPlaces
          BY PairPlacesAre DEF Inside, Recovered
    <2>5. /\ pairPc'[t] = "syncContent" /\ sameStore' = sameStore /\ pairFaults' = pairFaults
          /\ (sameStore => pairLock' = t) /\ (PutterInv(t)' => PairInv') /\ doc' = doc
          /\ \A j \in Kinds : /\ (Visible(j)' <=> Visible(j)) /\ (Mine(t, j)' <=> Mine(t, j))
                              /\ Visible(j) => DocOf(j)' = DocOf(j)
          BY <1>1, <1>5, <2>2, <2>3, <2>4, Goes
    <2>6. HasStore(t)'
          BY <1>2, <1>5, <2>1, <2>5 DEF HasStore
    <2>7. NotMine(t)' /\ KnowsFiles(t)'
      <3>1. ~Mine(t, "metadata")'
            BY <1>1, <2>5, PairPlacesAre DEF PutterInv, NotMine
      <3> QED BY <1>5, <2>3, <2>5, <3>1, PairPlacesAre
              DEF NotMine, KnowsFiles, WithFinal, Publication, WithTemp, Unclaimed
    <2>8. KeepsTidy(t)'
          BY <1>1, <2>1, <2>5, NoTempOf DEF KeepsTidy, Unclaimed
    <2>9. KnowsTemps(t)'
          BY <1>1, <2>1, <2>5 DEF PutterInv, KnowsTemps, Recovered, WithTemp, Unclaimed
    <2> QED BY <2>5, <2>6, <2>7, <2>8, <2>9 DEF PutterInv
  <1> QED BY <1>3, <1>4, <1>5 DEF ResumeContent

LEMMA SyncContentStep ==
    ASSUME PairInv, NEW t \in Putters, UNCHANGED inputs, SyncContent(t)
    PROVE  PairInv'
  <1>1. pairPc[t] = "syncContent" /\ pairPc[t] \notin WithTemp \cup {"idle"} /\ PutterInv(t)
        BY DEF SyncContent, PairInv, WithTemp, Unclaimed
  <1>2. /\ SyncPairDir /\ PairGoto(t, "temp") /\ UNCHANGED <<pairMind, pairDir, ino, owner>>
        /\ UNCHANGED <<now, pairOp, kind>>
        BY DEF SyncContent, SyncPairDir, pairMind
  <1>3. Gentle(t) /\ \A j \in Kinds : Temps(j)' = Temps(j) /\ (Visible(j) => Final(j) \in sure')
        BY <1>2, GentleSync
  <1>4. "temp" \in PairPlaces
        BY PairPlacesAre DEF Inside, Recovered
  <1>5. /\ pairPc'[t] = "temp" /\ sameStore' = sameStore /\ pairFaults' = pairFaults
        /\ (sameStore => pairLock' = t) /\ (PutterInv(t)' => PairInv') /\ doc' = doc
        /\ \A j \in Kinds : /\ (Visible(j)' <=> Visible(j)) /\ (Mine(t, j)' <=> Mine(t, j))
                            /\ Visible(j) => DocOf(j)' = DocOf(j)
        BY <1>1, <1>2, <1>3, <1>4, SameMinds, Goes
  <1>6. /\ pairOp[t] = "put" /\ pairDir = "synced" /\ ~Mine(t, "metadata") /\ kind[t] = "metadata"
        /\ Visible("content") /\ DocOf("content") = doc[t]
        BY <1>1 DEF PutterInv, HasStore, NotMine, KnowsFiles, PutSteps, Inside, Recovered
  <1>7. HasStore(t)'
        BY <1>2, <1>5, <1>6 DEF HasStore
  <1>8. NotMine(t)' /\ KnowsFiles(t)'
        BY <1>2, <1>3, <1>5, <1>6, PairPlacesAre
           DEF NotMine, KnowsFiles, WithFinal, Publication, WithTemp, Unclaimed
  <1>9. KeepsTidy(t)'
        BY <1>1, <1>2, <1>5, NoTempOf DEF KeepsTidy, Unclaimed
  <1>10. KnowsTemps(t)'
        BY <1>1, <1>3, <1>5 DEF PutterInv, KnowsTemps, Recovered, WithTemp, Unclaimed
  <1> QED BY <1>5, <1>7, <1>8, <1>9, <1>10 DEF PutterInv

LEMMA OpenTempStep ==
    ASSUME PairInv, NEW t \in Putters, UNCHANGED inputs, OpenTemp(t)
    PROVE  PairInv'
  <1>1. /\ pairPc[t] = "temp" /\ pairPc[t] \notin WithTemp \cup {"idle"} /\ PutterInv(t)
        /\ kind[t] \in Kinds
        BY PairTyped DEF OpenTemp, PairInv, WithTemp, Unclaimed
  <1>2. /\ AddName(Temp(t, kind[t])) /\ ino' = [ino EXCEPT ![t][kind[t]] = "partial"]
        /\ linked' = [linked EXCEPT ![t] = FALSE]
        /\ PairGoto(t, "write") /\ UNCHANGED <<pairOp, plan, kind, pairDir, owner>>
        BY DEF OpenTemp
  <1>3. pairOp[t] = "put" /\ pairDir = "synced" /\ ~Mine(t, kind[t])
        BY <1>1 DEF PutterInv, HasStore, NotMine, PutSteps, Publication, Inside, Recovered
  <1>4. Gentle(t)
    <2>1. \A j : Temp(t, kind[t]) # Final(j)
          BY TempIsNotFinal
    <2>2. ino' \in [Putters -> [Kinds -> {"none", "partial", "whole", "durable"}]]
          BY <1>1, <1>2, PairTyped
    <2>3. \A k \in Kinds, s \in Putters \ {t} : ino'[s][k] = ino[s][k]
          BY <1>1, <1>2, PairTyped
    <2>4. \A k \in Kinds : Visible(k) => ino'[owner[k]][k] = "durable"
          BY <1>1, <1>2, <1>3, PairTyped DEF Mine
    <2>5. \A s \in Putters \ {t}, k \in Kinds : Temp(s, k) # Temp(t, kind[t])
          BY DEF Temp
    <2>6. Temp(t, kind[t]) \in Names
          BY <1>1 DEF Temp, Names
    <2>7. /\ now' = now \cup {Temp(t, kind[t])} /\ maybe' = maybe \cup {Temp(t, kind[t])}
          /\ sure' = sure /\ owner' = owner /\ pairDir' = pairDir
          BY <1>2 DEF AddName
    <2>8. \A k \in Kinds : Visible(k)' <=> Visible(k)
          BY <2>1, <2>7 DEF Visible
    <2>9. sure' \subseteq now' /\ now' \subseteq maybe' /\ maybe' \subseteq Names
          BY <2>6, <2>7, PairTyped
    <2>10. \A k \in Kinds : Final(k) \in maybe' => Final(k) \in now'
          BY <2>1, <2>7, PairTyped
    <2> QED BY <2>2, <2>3, <2>4, <2>5, <2>7, <2>8, <2>9, <2>10, PairTyped DEF Gentle
  <1>5. Minds(t) /\ ~linked'[t]
        BY <1>2, PairTyped DEF Minds
  <1>6. "write" \in PairPlaces
        BY PairPlacesAre DEF Inside, WithTemp, Unclaimed
  <1>7. /\ pairPc'[t] = "write" /\ sameStore' = sameStore /\ pairFaults' = pairFaults
        /\ (sameStore => pairLock' = t) /\ (PutterInv(t)' => PairInv') /\ doc' = doc
        /\ \A j \in Kinds : /\ (Visible(j)' <=> Visible(j)) /\ (Mine(t, j)' <=> Mine(t, j))
                            /\ Visible(j) => DocOf(j)' = DocOf(j)
        BY <1>1, <1>2, <1>4, <1>5, <1>6, Goes
  <1>8. HasStore(t)'
        BY <1>2, <1>3, <1>7 DEF HasStore
  <1>9. NotMine(t)' /\ KnowsFiles(t)'
    <2>1. kind[t] = "content" => ~Mine(t, "metadata")
          BY <1>1 DEF PutterInv, NotMine, Publication
    <2>2. kind[t] = "metadata" => /\ Visible("content")
                                  /\ Final("content") \in sure
                                  /\ DocOf("content") = doc[t]
          BY <1>1, PairTyped DEF PutterInv, KnowsFiles, Publication, Visible
    <2> QED BY <1>1, <1>2, <1>3, <1>7, <2>1, <2>2, PairPlacesAre
            DEF NotMine, KnowsFiles, WithFinal, AddName
  <1>10. KeepsTidy(t)'
    <2>1. \A k \in Kinds : Temp(t, k) = Temp(t, kind[t]) => k = kind[t]
          BY DEF Temp
    <2> QED BY <1>1, <1>2, <1>5, <1>7, <2>1, NoTempOf DEF KeepsTidy, WithTemp, Unclaimed, AddName
  <1>11. KnowsTemps(t)'
    <2>1. \A k \in Kinds : Temps(k)' = IF k = kind[t] THEN Temps(k) \cup {t} ELSE Temps(k)
          BY <1>2 DEF Temps, AddName, Temp
    <2>2. sameStore => \A k \in Kinds : Temps(k) = {}
          BY <1>1 DEF PutterInv, KnowsTemps, Recovered
    <2> QED BY <1>2, <1>7, <2>1, <2>2 DEF KnowsTemps, Recovered, WithTemp, Unclaimed
  <1> QED BY <1>7, <1>8, <1>9, <1>10, <1>11 DEF PutterInv

LEMMA FileStep ==
    ASSUME PairInv, NEW t \in Putters, UNCHANGED inputs, WritePairFile(t) \/ Fsync(t)
    PROVE  PairInv'
  <1> DEFINE place == IF pairPc[t] = "write" THEN "fsync" ELSE "claim"
             holds == IF pairPc[t] = "write" THEN "whole" ELSE "durable"
  <1>1. /\ pairPc[t] \in {"write", "fsync"} /\ pairPc[t] # "idle" /\ PutterInv(t)
        /\ kind[t] \in Kinds
        BY PairTyped DEF WritePairFile, Fsync, PairInv
  <1>2. /\ ino' = [ino EXCEPT ![t][kind[t]] = holds]
        /\ PairGoto(t, place) /\ UNCHANGED <<pairMind, pairDir, owner, names>>
        BY DEF WritePairFile, Fsync
  <1>3. holds \in {"whole", "durable"} /\ place \in {"fsync", "claim"} /\ place \in PairPlaces
        /\ (place = "claim" => holds = "durable")
        BY <1>1, PairPlacesAre DEF Inside, WithTemp, Unclaimed
  <1> HIDE DEF place, holds
  <1>4. pairOp[t] = "put" /\ pairDir = "synced" /\ ~Mine(t, kind[t]) /\ ~linked[t]
        BY <1>1
           DEF PutterInv, HasStore, NotMine, KeepsTidy, PutSteps, Publication, Inside, WithTemp, Unclaimed
  <1>5. UNCHANGED <<now, sure, maybe, pairOp, plan, kind, linked, pairDir, owner>>
        /\ \A k \in Kinds : Temps(k)' = Temps(k)
        BY <1>2 DEF names, pairMind, Temps
  <1>6. Gentle(t)
    <2>1. ino' \in [Putters -> [Kinds -> {"none", "partial", "whole", "durable"}]]
          BY <1>1, <1>2, <1>3, PairTyped
    <2>2. \A k \in Kinds, s \in Putters \ {t} : ino'[s][k] = ino[s][k]
          BY <1>1, <1>2, PairTyped
    <2>3. \A k \in Kinds : Visible(k) => ino'[owner[k]][k] = "durable"
          BY <1>1, <1>2, <1>4, PairTyped DEF Mine
    <2> QED BY <1>5, <2>1, <2>2, <2>3, PairTyped DEF Gentle, Visible
  <1>7. /\ pairPc'[t] = place /\ sameStore' = sameStore /\ pairFaults' = pairFaults
        /\ (sameStore => pairLock' = t) /\ (PutterInv(t)' => PairInv') /\ doc' = doc
        /\ \A j \in Kinds : /\ (Visible(j)' <=> Visible(j)) /\ (Mine(t, j)' <=> Mine(t, j))
                            /\ Visible(j) => DocOf(j)' = DocOf(j)
        BY <1>1, <1>2, <1>3, <1>6, SameMinds, Goes
  <1>8. HasStore(t)'
        BY <1>1, <1>2, <1>3, <1>4, <1>5, <1>7, PairTyped DEF HasStore
  <1>9. NotMine(t)' /\ KnowsFiles(t)'
    <2>1. kind[t] = "content" => ~Mine(t, "metadata")
          BY <1>1 DEF PutterInv, NotMine, Publication, WithTemp, Unclaimed
    <2>2. kind[t] = "metadata" => /\ Visible("content")
                                  /\ Final("content") \in sure
                                  /\ DocOf("content") = doc[t]
          BY <1>1, PairTyped DEF PutterInv, KnowsFiles, Publication, WithTemp, Unclaimed, Visible
    <2> QED BY <1>1, <1>3, <1>4, <1>5, <1>7, <2>1, <2>2, PairPlacesAre
            DEF NotMine, KnowsFiles, WithFinal
  <1>10. KeepsTidy(t)'
        BY <1>1, <1>3, <1>4, <1>5, <1>7 DEF PutterInv, KeepsTidy, WithTemp, Unclaimed
  <1>11. KnowsTemps(t)'
        BY <1>1, <1>3, <1>5, <1>7 DEF PutterInv, KnowsTemps, Recovered, WithTemp, Unclaimed
  <1> QED BY <1>7, <1>8, <1>9, <1>10, <1>11 DEF PutterInv

(* The link: the final name is new, and its file is durable.               *)
LEMMA LinkStep ==
    ASSUME PairInv, NEW t \in Putters, UNCHANGED inputs, pairPc[t] = "claim", ~Visible(kind[t]),
           owner' = [owner EXCEPT ![kind[t]] = t], AddName(Final(kind[t])),
           linked' = [linked EXCEPT ![t] = TRUE],
           PairGoto(t, "inspect"), UNCHANGED <<pairOp, plan, kind, pairDir, ino>>
    PROVE  PairInv'
  <1>1. PutterInv(t) /\ kind[t] \in Kinds /\ pairPc[t] # "idle"
        BY PairTyped DEF PairInv
  <1>2. pairOp[t] = "put" /\ pairDir = "synced" /\ ino[t][kind[t]] = "durable"
        BY <1>1 DEF PutterInv, HasStore, PutSteps, Publication, Inside, WithTemp, Unclaimed
  <1>3. /\ now' = now \cup {Final(kind[t])} /\ maybe' = maybe \cup {Final(kind[t])} /\ sure' = sure
        /\ Final(kind[t]) \in Names
        BY <1>1 DEF AddName, Names
  <1>4. \A k \in Kinds : /\ Final(k) = Final(kind[t]) => k = kind[t]
                         /\ owner'[k] = IF k = kind[t] THEN t ELSE owner[k]
                         /\ Visible(k)' <=> (Visible(k) \/ k = kind[t])
                         /\ Temps(k)' = Temps(k)
    <2>1. \A k \in Kinds : Final(k) = Final(kind[t]) => k = kind[t]
          BY DEF Final
    <2>2. \A k \in Kinds, s \in Putters : Temp(s, k) # Final(kind[t])
          BY TempIsNotFinal
    <2> QED BY <1>1, <1>3, <2>1, <2>2, PairTyped DEF Visible, Temps
  <1>5. doc' = doc /\ sameStore' = sameStore /\ rereads' = rereads
        BY DEF inputs
  <1>6. \A k \in Kinds : Visible(k) => k # kind[t] /\ owner'[k] = owner[k] /\ DocOf(k)' = DocOf(k)
        BY <1>4, <1>5 DEF DocOf
  <1>7. \A k \in Kinds : Final(k) \in sure => Visible(k)
        BY PairTyped DEF Visible
  <1>8. Minds(t)
        BY PairTyped DEF Minds
  <1>9. "inspect" \in PairPlaces
        BY PairPlacesAre DEF Inside, WithTemp
  <1>10. /\ Turn(t, "inspect") /\ pairPc'[t] = "inspect" /\ (sameStore => pairLock' = t)
         /\ UNCHANGED <<acked, known, pairFaults>>
        BY <1>1, <1>8, <1>9, GoTurn
  <1>11. PairTypes'
    <2>1. owner' \in [Kinds -> Putters \cup {Nothing}]
          BY <1>1, PairTyped
    <2>2. sure' \subseteq now' /\ now' \subseteq maybe' /\ maybe' \subseteq Names
          BY <1>3, PairTyped
    <2> QED BY <1>9, <1>10, <2>1, <2>2 DEF PairInv, PairTypes, PairTypeOK, Turn, inputs
  <1>12. InPlace'
    <2>1. \A k \in Kinds : Final(k) \in maybe' => Final(k) \in now'
          BY <1>3, PairTyped
    <2>2. \A k \in Kinds : Visible(k)' => owner'[k] \in Putters /\ ino'[owner'[k]][k] = "durable"
          BY <1>2, <1>4, PairTyped
    <2> QED BY <1>2, <2>1, <2>2 DEF InPlace
  <1>13. MetadataCommits'
    <2>1. CASE kind[t] = "metadata"
      <3>1. Final("content") \in sure /\ DocOf("content") = doc[t]
            BY <1>1, <2>1 DEF PutterInv, KnowsFiles, Publication, WithTemp, Unclaimed
      <3>2. Visible("content") /\ owner'["content"] = owner["content"] /\ owner'["metadata"] = t
            /\ ino[owner["content"]]["content"] = "durable"
            BY <1>4, <1>6, <1>7, <2>1, <3>1, PairTyped, PairPlacesAre
      <3> QED BY <1>3, <1>5, <3>1, <3>2 DEF MetadataCommits, DocOf
    <2>2. CASE kind[t] = "content"
      <3>1. ~Visible("metadata")
            BY <1>7, <2>2, PairPlacesAre DEF PairInv, MetadataCommits
      <3> QED BY <1>4, <2>2, <3>1, PairPlacesAre DEF MetadataCommits
    <2> QED BY <1>1, <2>1, <2>2, PairPlacesAre
  <1>14. StoredIsDurable'
        BY <1>1, <1>7, <1>10 DEF PairInv, StoredIsDurable
  <1>15. KnownStays'
        BY <1>3, <1>6, <1>7, <1>10, PairPlacesAre DEF PairInv, KnownStays
  <1>16. PutterInv(t)'
    <2>1. HasStore(t)'
          BY <1>2, <1>5, <1>10 DEF HasStore
    <2>2. NotMine(t)'
      <3>1. kind[t] = "content" => ~Mine(t, "metadata")'
            BY <1>1, <1>4, PairPlacesAre DEF PutterInv, NotMine, Publication, WithTemp, Unclaimed, Mine
      <3> QED BY <1>10, <3>1 DEF NotMine, Unclaimed
    <2>3. KnowsFiles(t)'
      <3>1. kind[t] = "metadata" => Final("content") \in sure /\ DocOf("content") = doc[t]
            BY <1>1 DEF PutterInv, KnowsFiles, Publication, WithTemp, Unclaimed
      <3>2. Visible(kind[t])' /\ DocOf(kind[t])' = doc[t]
            BY <1>1, <1>4, <1>5 DEF DocOf
      <3>3. kind[t] = "metadata" => DocOf("content")' = doc[t]
            BY <1>6, <1>7, <3>1, PairPlacesAre
      <3> QED BY <1>3, <1>5, <1>10, <3>1, <3>2, <3>3 DEF KnowsFiles
    <2>4. KeepsTidy(t)'
      <3>1. \A k \in Kinds : Temp(t, k) \in now' => Temp(t, k) \in now
            BY <1>3, TempIsNotFinal
      <3> QED BY <1>1, <1>10, <3>1 DEF PutterInv, KeepsTidy, WithTemp, Unclaimed
    <2>5. KnowsTemps(t)'
          BY <1>1, <1>4, <1>5, <1>10 DEF PutterInv, KnowsTemps, WithTemp, Unclaimed, Recovered
    <2> QED BY <2>1, <2>2, <2>3, <2>4, <2>5 DEF PutterInv
  <1>17. ASSUME NEW s \in Putters \ {t} PROVE PutterInv(s)'
    <2>1. pairPc'[s] = pairPc[s]
          BY <1>10 DEF Turn, PairInv, PairTypes
    <2>2. sameStore => pairPc[s] = "idle"
          BY <1>1, TakesTurns
    <2>3. \A k \in Kinds : /\ Mine(s, k)' => Mine(s, k)
                           /\ Temp(s, k) \in now' => Temp(s, k) \in now
          BY <1>3, <1>4, TempIsNotFinal DEF Mine
    <2>4. \A k \in Kinds : Visible(k) => Visible(k)'
          BY <1>4
    <2>5. Stays(s)
          BY <1>3, <1>6, <1>10, <2>1, <2>2, <2>3, <2>4 DEF Stays, Turn
    <2> QED BY <2>5, PutterKept DEF PairInv
  <1> QED BY <1>11, <1>12, <1>13, <1>14, <1>15, <1>16, <1>17 DEF PairInv

(* A thread that has not linked its file removes it when it fails.         *)
LEMMA ClaimTempStep ==
    ASSUME PairInv, NEW t \in Putters, UNCHANGED inputs, ClaimTemp(t)
    PROVE  PairInv'
  <1>1. pairPc[t] = "claim" /\ pairPc[t] # "idle" /\ PutterInv(t) /\ kind[t] \in Kinds
        BY PairTyped DEF ClaimTemp, PairInv
  <1>2. pairOp[t] = "put" /\ pairDir = "synced" /\ ~linked[t]
        BY <1>1 DEF PutterInv, HasStore, KeepsTidy, PutSteps, Publication, Inside, WithTemp, Unclaimed
  <1>3. CASE /\ ~Visible(kind[t]) /\ owner' = [owner EXCEPT ![kind[t]] = t]
             /\ AddName(Final(kind[t])) /\ linked' = [linked EXCEPT ![t] = TRUE]
             /\ PairGoto(t, "inspect") /\ UNCHANGED <<pairOp, plan, kind, pairDir, ino>>
        BY <1>1, <1>3, LinkStep
  <1>4. CASE /\ Visible(kind[t]) /\ Readable(kind[t]) /\ DocOf(kind[t]) = doc[t]
             /\ PairGoto(t, "unlink") /\ UNCHANGED <<pairMind, pairDisk>>
    <2>1. /\ Gentle(t) /\ UNCHANGED <<now, sure, maybe, owner, pairDir, kind, pairOp>>
          /\ \A k \in Kinds : Temps(k)' = Temps(k)
          BY <1>4, GentleSame DEF pairDisk, pairMind
    <2>2. "unlink" \in PairPlaces
          BY PairPlacesAre DEF Inside, WithTemp
    <2>3. /\ pairPc'[t] = "unlink" /\ sameStore' = sameStore /\ pairFaults' = pairFaults
          /\ (sameStore => pairLock' = t) /\ (PutterInv(t)' => PairInv') /\ doc' = doc
          /\ \A j \in Kinds : /\ (Visible(j)' <=> Visible(j)) /\ (Mine(t, j)' <=> Mine(t, j))
                              /\ Visible(j) => DocOf(j)' = DocOf(j)
          BY <1>1, <1>4, <2>1, <2>2, SameMinds, Goes
    <2>4. HasStore(t)'
          BY <1>2, <2>1, <2>3 DEF HasStore
    <2>5. NotMine(t)' /\ KnowsFiles(t)'
      <3>1. kind[t] = "content" => ~Mine(t, "metadata")
            BY <1>1 DEF PutterInv, NotMine, Publication, WithTemp, Unclaimed
      <3>2. kind[t] = "metadata" => /\ Visible("content")
                                    /\ Final("content") \in sure
                                    /\ DocOf("content") = doc[t]
            BY <1>1, PairTyped DEF PutterInv, KnowsFiles, Publication, WithTemp, Unclaimed, Visible
      <3> QED BY <1>1, <1>4, <2>1, <2>3, <3>1, <3>2, PairPlacesAre DEF NotMine, KnowsFiles, Unclaimed
    <2>6. KeepsTidy(t)'
          BY <1>1, <2>1, <2>3 DEF PutterInv, KeepsTidy, WithTemp, Unclaimed
    <2>7. KnowsTemps(t)'
          BY <1>1, <2>1, <2>3 DEF PutterInv, KnowsTemps, Recovered, WithTemp, Unclaimed
    <2> QED BY <2>3, <2>4, <2>5, <2>6, <2>7 DEF PutterInv
  <1>5. CASE Abandon(t, "corrupted") /\ UNCHANGED pairFaults
    <2>1. /\ DropName(Temp(t, kind[t])) /\ PairRaise(t, "corrupted")
          /\ UNCHANGED <<pairMind, pairDir, ino, owner>>
          BY <1>2, <1>5 DEF Abandon
    <2>2. Gentle(t) /\ Temp(t, kind[t]) \notin now' /\ now' \subseteq now
          BY <1>1, <2>1, GentleDrop DEF DropName
    <2>3. pairFaults = 0 => \A k \in Kinds : Temp(t, k) \notin now'
          BY <1>1, <2>2 DEF PutterInv, KeepsTidy
    <2> QED BY <1>1, <1>5, <2>1, <2>2, <2>3, Raises
  <1> QED BY <1>3, <1>4, <1>5 DEF ClaimTemp

LEMMA InspectLinkedStep ==
    ASSUME PairInv, NEW t \in Putters, UNCHANGED inputs, InspectLinked(t)
    PROVE  PairInv'
  <1>1. pairPc[t] = "inspect" /\ pairPc[t] # "idle" /\ PutterInv(t) /\ kind[t] \in Kinds
        BY PairTyped DEF InspectLinked, PairInv
  <1>2. pairOp[t] = "put" /\ pairDir = "synced"
        BY <1>1 DEF PutterInv, HasStore, PutSteps, Publication, Inside, WithTemp, Unclaimed
  <1>3. CASE Temp(t, kind[t]) \in now
    <2>1. PairGoto(t, "unlink") /\ UNCHANGED <<pairMind, pairDisk>>
          BY <1>3 DEF InspectLinked
    <2>2. /\ Gentle(t) /\ UNCHANGED <<now, sure, maybe, owner, pairDir, kind, pairOp>>
          /\ \A k \in Kinds : Temps(k)' = Temps(k)
          BY <2>1, GentleSame DEF pairDisk, pairMind
    <2>3. "unlink" \in PairPlaces
          BY PairPlacesAre DEF Inside, WithTemp
    <2>4. /\ pairPc'[t] = "unlink" /\ sameStore' = sameStore /\ pairFaults' = pairFaults
          /\ (sameStore => pairLock' = t) /\ (PutterInv(t)' => PairInv') /\ doc' = doc
          /\ \A j \in Kinds : /\ (Visible(j)' <=> Visible(j)) /\ (Mine(t, j)' <=> Mine(t, j))
                              /\ Visible(j) => DocOf(j)' = DocOf(j)
          BY <1>1, <2>1, <2>2, <2>3, SameMinds, Goes
    <2>5. HasStore(t)'
          BY <1>2, <2>2, <2>4 DEF HasStore
    <2>6. NotMine(t)' /\ KnowsFiles(t)'
      <3>1. kind[t] = "content" => ~Mine(t, "metadata")
            BY <1>1 DEF PutterInv, NotMine, Publication, WithTemp
      <3>2. /\ kind[t] = "metadata" => /\ Visible("content")
                                       /\ Final("content") \in sure
                                       /\ DocOf("content") = doc[t]
            /\ Visible(kind[t]) /\ DocOf(kind[t]) = doc[t]
            BY <1>1, PairTyped DEF PutterInv, KnowsFiles, Publication, WithTemp, WithFinal, Visible
      <3> QED BY <1>1, <2>2, <2>4, <3>1, <3>2, PairPlacesAre DEF NotMine, KnowsFiles, Unclaimed
    <2>7. KeepsTidy(t)'
          BY <1>1, <2>2, <2>4 DEF PutterInv, KeepsTidy, WithTemp, Unclaimed
    <2>8. KnowsTemps(t)'
          BY <1>1, <2>2, <2>4 DEF PutterInv, KnowsTemps, Recovered, WithTemp, Unclaimed
    <2> QED BY <2>4, <2>5, <2>6, <2>7, <2>8 DEF PutterInv
  <1>4. CASE Temp(t, kind[t]) \notin now
    <2>1. Corrupted(t)
          BY <1>4 DEF InspectLinked
    <2>2. Gentle(t) /\ now' = now
          BY <2>1, GentleSame DEF Corrupted
    <2>3. pairFaults = 0 => \A k \in Kinds : Temp(t, k) \notin now'
          BY <1>1, <1>4, <2>2 DEF PutterInv, KeepsTidy
    <2> QED BY <1>1, <2>1, <2>2, <2>3, Raises DEF Corrupted
  <1> QED BY <1>3, <1>4

LEMMA UnlinkOwnedStep ==
    ASSUME PairInv, NEW t \in Putters, UNCHANGED inputs, UnlinkOwned(t)
    PROVE  PairInv'
  <1>1. pairPc[t] = "unlink" /\ pairPc[t] # "idle" /\ PutterInv(t) /\ kind[t] \in Kinds
        BY PairTyped DEF UnlinkOwned, PairInv
  <1>2. pairOp[t] = "put" /\ pairDir = "synced"
        BY <1>1 DEF PutterInv, HasStore, PutSteps, Publication, Inside, WithTemp, Unclaimed
  <1>3. /\ DropName(Temp(t, kind[t])) /\ PairGoto(t, "syncDir")
        /\ UNCHANGED <<pairMind, pairDir, ino, owner, pairOp, kind>>
        BY DEF UnlinkOwned, pairMind
  <1>4. /\ Gentle(t) /\ Temp(t, kind[t]) \notin now' /\ now' \subseteq now
        /\ \A j \in Kinds : Temps(j)' = IF j = kind[t] THEN Temps(j) \ {t} ELSE Temps(j)
        BY <1>1, <1>3, GentleDrop DEF DropName
  <1>5. "syncDir" \in PairPlaces
        BY PairPlacesAre DEF Inside, Recovered
  <1>6. /\ pairPc'[t] = "syncDir" /\ sameStore' = sameStore /\ pairFaults' = pairFaults
        /\ (sameStore => pairLock' = t) /\ (PutterInv(t)' => PairInv') /\ doc' = doc
        /\ \A j \in Kinds : /\ (Visible(j)' <=> Visible(j)) /\ (Mine(t, j)' <=> Mine(t, j))
                            /\ Final(j) \in sure => Final(j) \in sure'
                            /\ Visible(j) => DocOf(j)' = DocOf(j)
        BY <1>1, <1>3, <1>4, <1>5, SameMinds, Goes
  <1>7. HasStore(t)'
        BY <1>2, <1>3, <1>6 DEF HasStore
  <1>8. NotMine(t)' /\ KnowsFiles(t)'
    <2>1. kind[t] = "content" => ~Mine(t, "metadata")
          BY <1>1 DEF PutterInv, NotMine, Publication, WithTemp
    <2>2. /\ kind[t] = "metadata" => /\ Visible("content")
                                     /\ Final("content") \in sure
                                     /\ DocOf("content") = doc[t]
          /\ Visible(kind[t]) /\ DocOf(kind[t]) = doc[t]
          BY <1>1, PairTyped DEF PutterInv, KnowsFiles, Publication, WithTemp, WithFinal, Visible
    <2> QED BY <1>1, <1>3, <1>6, <2>1, <2>2, PairPlacesAre DEF NotMine, KnowsFiles, Unclaimed
  <1>9. KeepsTidy(t)'
        BY <1>1, <1>4, <1>6 DEF PutterInv, KeepsTidy, WithTemp, Unclaimed
  <1>10. KnowsTemps(t)'
        BY <1>1, <1>4, <1>6 DEF PutterInv, KnowsTemps, Recovered, WithTemp, Unclaimed
  <1> QED BY <1>6, <1>7, <1>8, <1>9, <1>10 DEF PutterInv

LEMMA SyncPublishedStep ==
    ASSUME PairInv, NEW t \in Putters, UNCHANGED inputs, SyncPublished(t)
    PROVE  PairInv'
  <1>1. /\ pairPc[t] = "syncDir" /\ pairPc[t] \notin WithTemp \cup {"idle"} /\ PutterInv(t)
        /\ kind[t] \in Kinds
        BY PairTyped DEF SyncPublished, PairInv, WithTemp, Unclaimed
  <1>2. pairOp[t] = "put" /\ pairDir = "synced" /\ Visible(kind[t]) /\ DocOf(kind[t]) = doc[t]
        BY <1>1 DEF PutterInv, HasStore, KnowsFiles, PutSteps, Publication, Inside, Recovered, WithFinal
  <1>3. SyncPairDir /\ UNCHANGED <<pairOp, plan, linked, pairDir, ino, owner, now>>
        BY DEF SyncPublished, SyncPairDir
  <1>4. Gentle(t) /\ \A j \in Kinds : Temps(j)' = Temps(j) /\ (Visible(j) => Final(j) \in sure')
        BY <1>3, GentleSync
  <1>5. ASSUME NEW place \in {"temp", "committed"}, PairGoto(t, place), Minds(t),
               place = "temp" => kind[t] = "content" /\ kind'[t] = "metadata"
        PROVE  PairInv'
    <2>1. place \in PairPlaces
          BY PairPlacesAre DEF Inside, Recovered
    <2>2. /\ pairPc'[t] = place /\ sameStore' = sameStore /\ pairFaults' = pairFaults
          /\ (sameStore => pairLock' = t) /\ (PutterInv(t)' => PairInv') /\ doc' = doc
          /\ \A j \in Kinds : /\ (Visible(j)' <=> Visible(j)) /\ (Mine(t, j)' <=> Mine(t, j))
                              /\ Visible(j) => DocOf(j)' = DocOf(j)
          BY <1>1, <1>4, <1>5, <2>1, Goes
    <2>3. HasStore(t)'
          BY <1>2, <1>3, <1>5, <2>2 DEF HasStore
    <2>4. NotMine(t)' /\ KnowsFiles(t)'
      <3>1. place = "temp" => ~Mine(t, "metadata")
            BY <1>1, <1>5 DEF PutterInv, NotMine, Publication
      <3> QED BY <1>2, <1>4, <1>5, <2>2, <3>1, PairPlacesAre
              DEF NotMine, KnowsFiles, Publication, WithTemp, WithFinal, Unclaimed
    <2>5. KeepsTidy(t)'
          BY <1>1, <1>3, <2>2, NoTempOf DEF KeepsTidy, Unclaimed
    <2>6. KnowsTemps(t)'
          BY <1>1, <1>4, <2>2 DEF PutterInv, KnowsTemps, Recovered, WithTemp, Unclaimed
    <2> QED BY <2>2, <2>3, <2>4, <2>5, <2>6 DEF PutterInv
  <1>6. CASE /\ kind[t] = "content" /\ kind' = [kind EXCEPT ![t] = "metadata"] /\ PairGoto(t, "temp")
    <2>1. Minds(t) /\ kind'[t] = "metadata"
          BY <1>3, <1>6, PairTyped, PairPlacesAre DEF Minds
    <2> QED BY <1>5, <1>6, <2>1
  <1>7. CASE kind[t] = "metadata" /\ UNCHANGED kind /\ PairGoto(t, "committed")
    <2>1. Minds(t)
          BY <1>3, <1>7, PairTyped DEF Minds
    <2> QED BY <1>5, <1>7, <2>1
  <1>8. CASE kind[t] = "metadata" /\ UNCHANGED kind /\ Stored(t)
    <2>1. UNCHANGED pairMind
          BY <1>3, <1>8 DEF pairMind
    <2> QED BY <1>1, <1>2, <1>3, <1>8, <2>1, StoresPair
  <1> QED BY <1>6, <1>7, <1>8 DEF SyncPublished

(* A call that fails leaves what it has done.                              *)
LEMMA PairFailStep ==
    ASSUME PairInv, NEW t \in Putters, UNCHANGED inputs, PairFail(t)
    PROVE  PairInv'
  <1>1. /\ pairPc[t] # "idle" /\ kind[t] \in Kinds /\ pairFaults' \in Nat /\ pairFaults' # 0
        /\ PairRaise(t, "failed") /\ UNCHANGED pairMind
        BY PairTyped DEF PairFail, PairFault, Abandon
  <1>2. UNCHANGED pairDisk \/ (DropName(Temp(t, kind[t])) /\ UNCHANGED <<pairDir, ino, owner>>)
        BY DEF PairFail, Abandon, pairDisk
  <1>3. Gentle(t)
        BY <1>1, <1>2, GentleSame, GentleDrop
  <1>4. StoredIsDurable' /\ KnownStays'
        BY <1>1, <1>3, GentleWorld DEF PairRaise
  <1> QED BY <1>1, <1>3, <1>4, PairTyped, EndTurn DEF PairRaise

(* A process dies, and with it the threads of its store.                   *)
LEMMA PairCrashStep ==
    ASSUME PairInv, NEW t \in Putters, UNCHANGED inputs, PairCrash(t)
    PROVE  PairInv'
  <1> DEFINE gone == IF sameStore THEN Putters ELSE {t}
  <1>1. /\ pairFaults' \in Nat /\ pairFaults' # 0 /\ Dead(gone)
        /\ UNCHANGED <<pairDir, ino, owner, now, sure, maybe, acked, known>>
        BY PairTyped DEF PairCrash, PairFault, pairDisk, names, Dead
  <1>2. UNCHANGED <<pairOp, plan, kind, linked, sameStore, rereads, doc>>
        BY <1>1 DEF Dead, pairMind, inputs
  <1>3. PairTypes'
    <2>1. pairPc' \in [Putters -> PairPlaces]
          BY <1>1, PairTyped DEF Dead, PairPlaces
    <2>2. pairLock' \in Putters \cup {Nothing} /\ pairResult' = [s \in Putters |-> pairResult'[s]]
          BY <1>1 DEF Dead, PairInv, PairTypes, PairTypeOK
    <2> QED BY <1>1, <1>2, <2>1, <2>2 DEF PairInv, PairTypes, PairTypeOK
  <1>4. InPlace' /\ MetadataCommits' /\ StoredIsDurable' /\ KnownStays'
        BY <1>1, <1>2 DEF PairInv, InPlace, MetadataCommits, StoredIsDurable, KnownStays, Visible, DocOf
  <1>5. ASSUME NEW s \in Putters PROVE PutterInv(s)'
    <2>1. CASE s \in gone
          BY <1>1, <2>1, PutterIdle DEF Dead
    <2>2. CASE s \notin gone
      <3>1. ~sameStore /\ pairPc'[s] = pairPc[s]
            BY <1>1, <2>2 DEF Dead
      <3>2. Stays(s)
            BY <1>1, <1>2, <3>1 DEF Stays, Visible, Mine, inputs
      <3> QED BY <3>2, PutterKept DEF PairInv
    <2> QED BY <2>1, <2>2
  <1> QED BY <1>3, <1>4, <1>5 DEF PairInv

(* The power is lost, and with it what was not synced.                     *)
LEMMA PairPowerLossStep ==
    ASSUME PairInv, UNCHANGED inputs, PairPowerLoss
    PROVE  PairInv'
  <1>1. /\ pairFaults' \in Nat /\ pairFaults' # 0 /\ Dead(Putters)
        /\ owner' = owner /\ UNCHANGED <<acked, known>>
        BY PairTyped DEF PairPowerLoss, PairFault, Dead
  <1>2. UNCHANGED <<pairOp, plan, kind, linked, sameStore, rereads, doc>>
        BY <1>1 DEF Dead, pairMind, inputs
  <1>3. /\ now' = sure' /\ maybe' = sure' /\ sure' \subseteq maybe
        /\ pairDir = "synced" => sure \subseteq sure' /\ pairDir' = "synced"
        /\ pairDir' \in {"absent", "made", "synced"}
        BY PairTyped DEF PairPowerLoss
  <1>4. /\ ino' \in [Putters -> [Kinds -> {"none", "partial", "whole", "durable"}]]
        /\ \A s \in Putters, k \in Kinds : ino[s][k] = "durable" => ino'[s][k] = "durable"
        BY PairTyped DEF PairPowerLoss
  <1>5. \A k \in Kinds : /\ Visible(k)' => Visible(k)
                         /\ Visible(k) => owner[k] \in Putters /\ ino'[owner[k]][k] = "durable"
                                          /\ pairDir = "synced"
                         /\ Final(k) \in sure => Visible(k)
        BY <1>3, <1>4, PairTyped DEF Visible
  <1>6. PairTypes'
    <2>1. pairPc' \in [Putters -> PairPlaces]
          BY <1>1, PairTyped DEF Dead, PairPlaces
    <2>2. pairLock' \in Putters \cup {Nothing} /\ pairResult' = [s \in Putters |-> pairResult'[s]]
          BY <1>1 DEF Dead, PairInv, PairTypes, PairTypeOK
    <2>3. maybe' \subseteq Names
          BY <1>3, PairTyped
    <2> QED BY <1>1, <1>2, <1>3, <1>4, <2>1, <2>2, <2>3 DEF PairInv, PairTypes, PairTypeOK
  <1>7. InPlace'
        BY <1>1, <1>3, <1>5 DEF InPlace
  <1>8. MetadataCommits' /\ StoredIsDurable' /\ KnownStays'
        BY <1>1, <1>2, <1>3, <1>5, PairPlacesAre
           DEF PairInv, MetadataCommits, StoredIsDurable, KnownStays, DocOf
  <1>9. ASSUME NEW s \in Putters PROVE PutterInv(s)'
        BY <1>1, PutterIdle DEF Dead
  <1> QED BY <1>6, <1>7, <1>8, <1>9 DEF PairInv

LEMMA PairNothing ==
    ASSUME PairInv, UNCHANGED pairsVars PROVE PairInv'
  <1> USE DEF pairsVars, inputs, names, pairDisk, pairMind
  <1>1. PairTypes' /\ InPlace' /\ MetadataCommits' /\ StoredIsDurable' /\ KnownStays'
        BY DEF PairInv, PairTypes, PairTypeOK, InPlace, MetadataCommits, StoredIsDurable,
               KnownStays, Visible, DocOf
  <1>2. ASSUME NEW t \in Putters PROVE PutterInv(t)'
    <2>1. PutterInv(t)
          BY DEF PairInv
    <2>2. HasStore(t)' /\ NotMine(t)' /\ KnowsFiles(t)' /\ KeepsTidy(t)'
          BY <2>1 DEF PutterInv, HasStore, NotMine, KnowsFiles, KeepsTidy, Mine, Visible, DocOf
    <2>3. \A k \in Kinds : Temps(k)' = Temps(k) /\ (Orphan(k)' <=> Orphan(k))
          BY DEF Temps, Orphan, Visible
    <2>4. KnowsTemps(t)'
          BY <2>1, <2>3 DEF PutterInv, KnowsTemps
    <2> QED BY <2>2, <2>4 DEF PutterInv
  <1> QED BY <1>1, <1>2 DEF PairInv

LEMMA PairStepKeeps == PairInv /\ [PairNext]_pairsVars => PairInv'
  <1> SUFFICES ASSUME PairInv, PairNext PROVE PairInv'
      BY PairNothing
  <1>1. UNCHANGED inputs
        BY DEF PairNext
  <1>2. ASSUME NEW t \in Putters, Call(t, "put") \/ Call(t, "read") \/ OpenScope(t) \/ SyncPairParent(t)
        PROVE  PairInv'
        BY <1>1, <1>2, OpeningStep
  <1>3. ASSUME NEW t \in Putters, PairStep(t) PROVE PairInv'
    <2>1. CASE OpenScope(t) \/ SyncPairParent(t)
          BY <1>2, <2>1
    <2>2. CASE Scan(t)
          BY <1>1, <2>2, ScanStep
    <2>3. CASE \E k \in Kinds : RecoverAlias(t, k)
          BY <1>1, <2>3, RecoverAliasStep
    <2>4. CASE SyncAlias(t)
          BY <1>1, <2>4, SyncAliasStep
    <2>5. CASE ReadCommitted(t)
          BY <1>1, <2>5, ReadCommittedStep
    <2>6. CASE SyncCommitted(t)
          BY <1>1, <2>6, SyncCommittedStep
    <2>7. CASE ResumeContent(t)
          BY <1>1, <2>7, ResumeContentStep
    <2>8. CASE SyncContent(t)
          BY <1>1, <2>8, SyncContentStep
    <2>9. CASE OpenTemp(t)
          BY <1>1, <2>9, OpenTempStep
    <2>10. CASE WritePairFile(t) \/ Fsync(t)
          BY <1>1, <2>10, FileStep
    <2>11. CASE ClaimTemp(t)
          BY <1>1, <2>11, ClaimTempStep
    <2>12. CASE InspectLinked(t)
          BY <1>1, <2>12, InspectLinkedStep
    <2>13. CASE UnlinkOwned(t)
          BY <1>1, <2>13, UnlinkOwnedStep
    <2>14. CASE SyncPublished(t)
          BY <1>1, <2>14, SyncPublishedStep
    <2> QED BY <1>3, <2>1, <2>2, <2>3, <2>4, <2>5, <2>6, <2>7, <2>8, <2>9, <2>10, <2>11, <2>12,
               <2>13, <2>14 DEF PairStep
  <1>4. ASSUME NEW t \in Putters, PairFail(t) \/ PairCrash(t) PROVE PairInv'
        BY <1>1, <1>4, PairFailStep, PairCrashStep
  <1>5. CASE PairPowerLoss
        BY <1>1, <1>5, PairPowerLossStep
  <1> QED BY <1>2, <1>3, <1>4, <1>5 DEF PairNext

-----------------------------------------------------------------------------
(* What the invariant promises.                                            *)

LEMMA OneIsKnown == PairInv => OneDocument
  <1> SUFFICES ASSUME PairInv PROVE OneDocument
      OBVIOUS
  <1>1. known \subseteq {DocOf("content")}
        BY DEF PairInv, KnownStays
  <1>2. IsFiniteSet({DocOf("content")}) /\ Cardinality({DocOf("content")}) = 1
        BY FS_Singleton
  <1>3. IsFiniteSet(known) /\ Cardinality(known) <= 1
        BY <1>1, <1>2, FS_Subset
  <1> QED BY <1>3 DEF OneDocument

LEMMA TidyWhenIdle == PairInv => Tidy
  <1> SUFFICES ASSUME PairInv, \A t \in Putters : pairPc[t] = "idle", pairFaults = 0
               PROVE  \A k \in Kinds : Temps(k) = {}
      BY DEF Tidy
  <1>1. \A t \in Putters, k \in Kinds : Temp(t, k) \notin now
        BY DEF PairInv, PutterInv, KeepsTidy, WithTemp, Unclaimed
  <1> QED BY <1>1 DEF Temps

(* In its own store, a thread that finds something wrong found the name of *)
(* an unlinked file or another document.                                   *)
Cause(t) ==
    \/ \E k \in Kinds : Orphan(k)
    \/ pairOp[t] = "put" /\ \E k \in Kinds : Visible(k) /\ DocOf(k) # doc[t]

LEMMA StepHasACause ==
    ASSUME PairInv, NEW t \in Putters, sameStore, PairStep(t),
           pairResult'[t] = "corrupted", pairResult[t] = Nothing
    PROVE  Cause(t)
  <1>1. PutterInv(t) /\ pairResult = [s \in Putters |-> pairResult[s]] /\ kind[t] \in Kinds
        BY PairTyped DEF PairInv, PairTypes
  <1>2. ASSUME NEW place, PairGoto(t, place) PROVE FALSE
        BY <1>2, PairAssumptions DEF PairGoto
  <1>3. ASSUME NEW outcome, PairReturn(t, outcome) PROVE outcome = "corrupted"
        BY <1>1, <1>3 DEF PairReturn
  <1>4. ASSUME NEW k \in Kinds, Visible(k), Temps(k) = {} PROVE Readable(k)
    <2>1. owner[k] \in Putters /\ ino[owner[k]][k] = "durable"
          BY <1>4, PairTyped
    <2> QED BY <1>4, <2>1 DEF Readable, Temps
  <1>5. CASE Scan(t)
        BY <1>2, <1>5 DEF Scan, Cause
  <1>6. ASSUME NEW k \in Kinds, RecoverAlias(t, k) PROVE Cause(t)
    <2>1. Temps(k) # {}
          BY <1>1, <1>6 DEF PutterInv, KnowsTemps, RecoverAlias
    <2> QED BY <1>2, <1>6, <2>1 DEF RecoverAlias, Orphan, Cause
  <1>7. CASE ReadCommitted(t)
    <2>1. \A k \in Kinds : Temps(k) = {}
          BY <1>1, <1>7 DEF PutterInv, KnowsTemps, ReadCommitted, Recovered
    <2>2. Visible("metadata") => Committed
      <3>1. Visible("metadata") => Visible("content") /\ DocOf("content") = DocOf("metadata")
            BY PairTyped DEF PairInv, MetadataCommits, Visible
      <3> QED BY <1>4, <2>1, <3>1, PairPlacesAre DEF Committed
    <2>3. ~PairRaise(t, "absent") /\ ~PairReturn(t, "read")
          BY <1>3 DEF PairRaise
    <2> QED BY <1>2, <1>7, <2>2, <2>3 DEF ReadCommitted
  <1>8. CASE SyncCommitted(t)
    <2>1. pairOp[t] = "put" /\ Visible("metadata")
          BY <1>1, <1>8 DEF PutterInv, HasStore, KnowsFiles, SyncCommitted, PutSteps
    <2>2. ~Stored(t)
          BY <1>3 DEF Stored
    <2>3. Visible("content")
          BY <2>1, PairTyped DEF PairInv, MetadataCommits, Visible
    <2> QED BY <1>8, <2>1, <2>2, <2>3, PairPlacesAre DEF SyncCommitted, Cause
  <1>9. CASE ResumeContent(t)
    <2>1. pairOp[t] = "put" /\ \A k \in Kinds : Temps(k) = {}
          BY <1>1, <1>9 DEF PutterInv, HasStore, KnowsTemps, ResumeContent, PutSteps, Recovered
    <2>2. Visible("content") => Readable("content")
          BY <1>4, <2>1, PairPlacesAre
    <2> QED BY <1>2, <1>9, <2>1, <2>2, PairPlacesAre DEF ResumeContent, Cause
  <1>10. CASE ClaimTemp(t)
    <2>1. pairPc[t] = "claim" /\ pairOp[t] = "put"
          BY <1>1, <1>10 DEF PutterInv, HasStore, ClaimTemp, PutSteps, Publication, WithTemp, Unclaimed
    <2>2. Visible(kind[t]) /\ ~(Readable(kind[t]) /\ DocOf(kind[t]) = doc[t])
          BY <1>2, <1>10 DEF ClaimTemp
    <2>3. ~Mine(t, kind[t]) /\ Temps(kind[t]) = {t}
          BY <1>1, <2>1 DEF PutterInv, NotMine, KnowsTemps, WithTemp, Unclaimed
    <2>4. Orphan(kind[t])
          BY <2>2, <2>3 DEF Orphan, Mine
    <2> QED BY <1>1, <2>4 DEF Cause
  <1>11. CASE InspectLinked(t)
    <2>1. pairPc[t] = "inspect" /\ t \in Temps(kind[t])
          BY <1>1, <1>11 DEF PutterInv, KnowsTemps, InspectLinked, WithTemp
    <2> QED BY <1>2, <1>11, <2>1 DEF InspectLinked, Temps
  <1>12. CASE SyncPublished(t)
        BY <1>2, <1>3, <1>12 DEF SyncPublished, Stored
  <1>13. CASE OpenScope(t)
        BY <1>2, <1>3, <1>13 DEF OpenScope, PairRaise
  <1>14. CASE SyncPairParent(t) \/ SyncAlias(t) \/ SyncContent(t) \/ OpenTemp(t) \/ WritePairFile(t)
              \/ Fsync(t) \/ UnlinkOwned(t)
        BY <1>2, <1>14
           DEF SyncPairParent, SyncAlias, SyncContent, OpenTemp, WritePairFile, Fsync, UnlinkOwned
  <1> QED BY <1>5, <1>6, <1>7, <1>8, <1>9, <1>10, <1>11, <1>12, <1>13, <1>14 DEF PairStep

LEMMA ResultIsOwn ==
    ASSUME NEW t \in Putters, PairStep(t)
    PROVE  pairResult' = pairResult \/ \E outcome : pairResult' = [pairResult EXCEPT ![t] = outcome]
  <1>1. ASSUME NEW place, PairGoto(t, place) PROVE pairResult' = pairResult
        BY <1>1 DEF PairGoto
  <1>2. ASSUME NEW outcome, PairReturn(t, outcome)
        PROVE  \E o : pairResult' = [pairResult EXCEPT ![t] = o]
        BY <1>2 DEF PairReturn
  <1>3. CASE OpenScope(t) \/ SyncPairParent(t) \/ Scan(t) \/ (\E k \in Kinds : RecoverAlias(t, k))
             \/ SyncAlias(t)
        BY <1>1, <1>2, <1>3
           DEF OpenScope, SyncPairParent, Scan, RecoverAlias, SyncAlias, Corrupted, PairRaise
  <1>4. CASE ReadCommitted(t)
        BY <1>1, <1>2, <1>4 DEF ReadCommitted, Corrupted, PairRaise
  <1>5. CASE SyncCommitted(t) \/ ResumeContent(t) \/ SyncContent(t)
        BY <1>1, <1>2, <1>5 DEF SyncCommitted, ResumeContent, SyncContent, Stored, Corrupted, PairRaise
  <1>6. CASE OpenTemp(t) \/ WritePairFile(t) \/ Fsync(t) \/ UnlinkOwned(t)
        BY <1>1, <1>6 DEF OpenTemp, WritePairFile, Fsync, UnlinkOwned
  <1>7. CASE ClaimTemp(t) \/ InspectLinked(t) \/ SyncPublished(t)
        BY <1>1, <1>2, <1>7
           DEF ClaimTemp, InspectLinked, SyncPublished, Abandon, Stored, Corrupted, PairRaise
  <1> QED BY <1>3, <1>4, <1>5, <1>6, <1>7 DEF PairStep

LEMMA AlarmHasACause ==
    ASSUME PairInv, [PairNext]_pairsVars, NEW t \in Putters, sameStore,
           pairResult'[t] = "corrupted", pairResult[t] = Nothing
    PROVE  Cause(t)
  <1>1. pairResult = [s \in Putters |-> pairResult[s]] /\ "corrupted" # Nothing
        BY PairAssumptions DEF PairInv, PairTypes
  <1>2. pairResult' # pairResult /\ PairNext
        BY <1>1 DEF pairsVars
  <1>3. ASSUME NEW gone, Dead(gone) PROVE FALSE
        BY <1>1, <1>3 DEF Dead
  <1>4. ASSUME NEW s \in Putters, Call(s, "put") \/ Call(s, "read") PROVE FALSE
        BY <1>1, <1>4 DEF Call
  <1>5. ASSUME NEW s \in Putters, PairFail(s) PROVE FALSE
        BY <1>1, <1>5 DEF PairFail, Abandon, PairRaise, PairReturn
  <1>6. ASSUME NEW s \in Putters, PairStep(s) PROVE s = t
        BY <1>1, <1>2, <1>6, ResultIsOwn
  <1>7. PairStep(t)
        BY <1>2, <1>3, <1>4, <1>5, <1>6 DEF PairNext, PairCrash, PairPowerLoss
  <1> QED BY <1>7, StepHasACause

\* A pair that was stored survives every failure of a call, every crash and every loss
\* of power, the metadata is never there without its content, and one document only is
\* ever stored or read (PairIsDurable): for any threads, in one store or in stores that
\* do not know of each other, any documents, and any number of faults.
THEOREM PairDurable == PairSpec => PairIsDurable
  <1>1. PairSpec => []PairInv
        BY PairInitially, PairStepKeeps, PTL DEF PairSpec
  <1>2. PairInv => PairTypeOK /\ StoredIsDurable /\ MetadataCommits /\ OneDocument /\ Tidy
        BY OneIsKnown, TidyWhenIdle DEF PairInv, PairTypes
  <1>3. PairInv /\ [PairNext]_pairsVars =>
           [\A t \in Putters : pairResult'[t] = "corrupted" /\ pairResult[t] = Nothing /\ sameStore =>
               \/ \E k \in Kinds : Orphan(k)
               \/ pairOp[t] = "put" /\ \E k \in Kinds : Visible(k) /\ DocOf(k) # doc[t]]_pairsVars
        BY AlarmHasACause DEF Cause
  <1> QED BY <1>1, <1>2, <1>3, PTL DEF PairSpec, PairIsDurable, CorruptedHasACause
=============================================================================
