------------------------------- MODULE InputCas --------------------------------
(***************************************************************************)
(* store_style of workflow/_production_input_cas.py: publishers, in        *)
(* processes that share no lock, store one normalized style under its      *)
(* digest.  The file has no name until it is whole and synced; one link    *)
(* gives it the digest's name, directly or, where the system refuses that  *)
(* (direct = FALSE), through /proc/self/fd.  A link that fails is          *)
(* reconciled with what bears the name.                                    *)
(*                                                                         *)
(* Another program of the user may put a bad file under the name           *)
(* (bounded by MaxBadFiles) or another directory in the place of the      *)
(* prefix directory (bounded by MaxSwaps): "swaps" numbers the directory   *)
(* that bears the prefix now, and a publisher goes on in the one it        *)
(* opened.  Calls fail, processes die and the machine loses power          *)
(* (bounded by MaxCasFaults).                                              *)
(***************************************************************************)
EXTENDS Naturals, FiniteSets

CONSTANTS
    Publishers,
    MaxBadFiles, MaxSwaps, MaxCasFaults,  \* bounds
    Nil                                   \* no outcome, no publisher

ASSUME CasAssumptions == MaxSwaps \in Nat /\ Nil \notin Publishers \cup {"stored", "failed"}

VARIABLES
    direct,      \* linkat of a descriptor is allowed
    casPc, then, \* what a publisher does; where a reconciliation returns to
    opened,      \* the prefix directory it opened
    tmp,         \* its nameless file: "none", "partial", "whole", "durable"
    casResult,   \* what its last call answered
    dir,         \* the first prefix directory: "absent", "made", "synced"
    obj, by,     \* the file under the digest in each directory, and who linked it
    named,       \* directories whose entry of the file survives a power loss
    stored,      \* a publisher reported success
    swaps, casTampered, casFaults

Dirs == 0 .. MaxSwaps
disk == <<dir, obj, by, named>>
world == <<swaps, casTampered, casFaults>>
casVars == <<direct, casPc, then, opened, tmp, casResult, disk, stored, world>>

CasInit ==
    /\ direct \in BOOLEAN
    /\ casPc = [t \in Publishers |-> "idle"] /\ then = [t \in Publishers |-> "prepare"]
    /\ opened = [t \in Publishers |-> 0]
    /\ tmp = [t \in Publishers |-> "none"]
    /\ casResult = [t \in Publishers |-> Nil]
    /\ dir = "absent"
    /\ obj = [d \in Dirs |-> "absent"] /\ by = [d \in Dirs |-> Nil] /\ named = {}
    /\ stored = FALSE
    /\ swaps = 0 /\ casTampered = 0 /\ casFaults = 0

-----------------------------------------------------------------------------
(* Helpers *)

Advance(t, step) == casPc' = [casPc EXCEPT ![t] = step] /\ UNCHANGED <<casResult, stored>>
ReturnOutcome(t, outcome) ==
    /\ casPc' = [casPc EXCEPT ![t] = "idle"]
    /\ casResult' = [casResult EXCEPT ![t] = outcome]
    /\ tmp' = [tmp EXCEPT ![t] = "none"]
Failed(t) ==
    /\ ReturnOutcome(t, "failed") /\ UNCHANGED <<direct, then, opened, disk, stored>>
Refused(t) == Failed(t) /\ UNCHANGED world
Succeed(t) ==
    /\ ReturnOutcome(t, "stored") /\ stored' = TRUE
    /\ UNCHANGED <<direct, then, opened, disk, world>>

\* The file under the digest in the directory the publisher opened.
Object(t) == obj[opened[t]]
Good(o) == o \in {"whole", "durable"}
Stable(t) == opened[t] = swaps

\* A step that only looks, and refuses what it sees or goes on.
Look(t, from, ok, to) ==
    /\ casPc[t] = from
    /\ IF ok THEN Advance(t, to) /\ UNCHANGED <<direct, then, opened, tmp, disk, world>>
       ELSE Refused(t)

-----------------------------------------------------------------------------
(* Directories *)

\* _open_component: only the publisher whose mkdir made the directory syncs its parent.
OpenPrefix(t) ==
    /\ casPc[t] = "idle"
    /\ opened' = [opened EXCEPT ![t] = swaps]
    /\ then' = [then EXCEPT ![t] = "prepare"]
    /\ dir' = IF dir = "absent" THEN "made" ELSE dir
    /\ casPc' = [casPc EXCEPT ![t] = IF dir = "absent" THEN "syncParent" ELSE "reconcile"]
    /\ casResult' = [casResult EXCEPT ![t] = Nil]
    /\ UNCHANGED <<direct, tmp, obj, by, named, stored, world>>
SyncParent(t) ==
    /\ casPc[t] = "syncParent"
    /\ dir' = "synced"
    /\ Advance(t, "reconcile")
    /\ UNCHANGED <<direct, then, opened, tmp, obj, by, named, world>>

-----------------------------------------------------------------------------
(* _reconcile *)

ReconcileOpen(t) ==
    Look(t, "reconcile", Object(t) \in {"absent", "whole", "durable"},
         IF Object(t) = "absent" THEN then[t] ELSE "syncFound")

SyncFound(t) ==
    /\ casPc[t] = "syncFound"
    /\ obj' = [obj EXCEPT ![opened[t]] = IF @ = "whole" THEN "durable" ELSE @]
    /\ named' = IF Object(t) = "absent" THEN named ELSE named \cup {opened[t]}
    /\ Advance(t, "readback")
    /\ UNCHANGED <<direct, then, opened, tmp, dir, by, world>>

-----------------------------------------------------------------------------
(* _prepare_tmp *)

OpenTmp(t) ==
    /\ casPc[t] = "prepare"
    /\ tmp' = [tmp EXCEPT ![t] = "partial"]
    /\ Advance(t, "write") /\ UNCHANGED <<direct, then, opened, disk, world>>
WriteAll(t) ==
    /\ casPc[t] = "write"
    /\ tmp' = [tmp EXCEPT ![t] = "whole"]
    /\ Advance(t, "fsync") /\ UNCHANGED <<direct, then, opened, disk, world>>
LinkUnsynced(t) ==  \* mutant: the file is linked before it was synced
    /\ casPc[t] = "fsync"
    /\ Advance(t, "link") /\ UNCHANGED <<direct, then, opened, tmp, disk, world>>
FsyncTmp(t) ==
    /\ casPc[t] = "fsync"
    /\ IF Stable(t)
       THEN /\ tmp' = [tmp EXCEPT ![t] = "durable"]
            /\ Advance(t, "link") /\ UNCHANGED <<direct, then, opened, disk, world>>
       ELSE Refused(t)

-----------------------------------------------------------------------------
(* _publish *)

\* The name is given, unless something bears it.
Linked(t) ==
    /\ Object(t) = "absent"
    /\ obj' = [obj EXCEPT ![opened[t]] = tmp[t]]
    /\ by' = [by EXCEPT ![opened[t]] = t]
    /\ named' = named \ {opened[t]}
    /\ UNCHANGED dir

\* A failure of the system, as long as the bound allows one.
CasFault ==
    /\ casFaults < MaxCasFaults /\ casFaults' = casFaults + 1
    /\ UNCHANGED <<swaps, casTampered>>

\* A call that failed may be reconciled, and when nothing bears the name it is an error
\* or, for an error that only says this way is closed, the other way is tried.
ReconcileThen(t, next) ==
    /\ then' = [then EXCEPT ![t] = next]
    /\ Advance(t, "reconcile")

DirectLink(t) ==
    /\ casPc[t] = "link" /\ UNCHANGED <<direct, opened, tmp>>
    /\ \/ /\ direct /\ Linked(t)
          /\ Advance(t, "inspect") /\ UNCHANGED <<then, world>>
       \/ /\ direct /\ Object(t) # "absent"
          /\ ReconcileThen(t, "fail") /\ UNCHANGED <<disk, world>>
       \/ /\ ~direct
          /\ ReconcileThen(t, "fallback") /\ UNCHANGED <<disk, world>>
       \* An error that leaves open whether the name was given.
       \/ /\ CasFault
          /\ ReconcileThen(t, "fail")
          /\ Linked(t) \/ UNCHANGED disk

NothingBearsIt(t) == Refused(t) /\ casPc[t] = "fail"

\* Before the fallback the name must still be free.
EnsureAbsent(t) == Look(t, "fallback", Stable(t) /\ Object(t) = "absent", "proc")
\* _fallback opens /proc/self/fd, verifies it, and looks at the name once more.
EnsureStillAbsent(t) == Look(t, "proc", Stable(t) /\ Object(t) = "absent", "procLink")

ProcLink(t) ==
    /\ casPc[t] = "procLink" /\ UNCHANGED <<direct, opened, tmp>>
    /\ \/ /\ Linked(t) /\ Advance(t, "inspect") /\ UNCHANGED <<then, world>>
       \/ /\ Object(t) # "absent"
          /\ ReconcileThen(t, "fail") /\ UNCHANGED <<disk, world>>
       \/ /\ CasFault
          /\ ReconcileThen(t, "fail")
          /\ Linked(t) \/ UNCHANGED disk

-----------------------------------------------------------------------------
(* _finalize *)

InspectFinal(t) ==
    Look(t, "inspect", by[opened[t]] = t /\ Good(Object(t)) /\ Stable(t), "syncDir")

SyncDir(t) ==
    /\ casPc[t] = "syncDir"
    /\ named' = IF Object(t) = "absent" THEN named ELSE named \cup {opened[t]}
    /\ Advance(t, "readback") /\ UNCHANGED <<direct, then, opened, tmp, dir, obj, by, world>>

\* _fresh_readback, and then _bindings_stable.
Readback(t) == Look(t, "readback", Good(Object(t)), "stable")

CheckBindings(t) ==
    /\ casPc[t] = "stable"
    /\ IF Stable(t) THEN Succeed(t) ELSE Refused(t)

-----------------------------------------------------------------------------
(* The world *)

Fail(t) == casPc[t] # "idle" /\ CasFault /\ Failed(t)

Crash(t) ==
    /\ casPc[t] # "idle" /\ CasFault
    /\ ReturnOutcome(t, Nil) /\ UNCHANGED <<direct, then, opened, disk, stored>>

CasPowerLoss ==
    /\ CasFault
    /\ casPc' = [t \in Publishers |-> "idle"] /\ tmp' = [t \in Publishers |-> "none"]
    /\ casResult' = [t \in Publishers |-> Nil]
    /\ \E lost \in SUBSET {d \in Dirs : d \notin named \/ (d = 0 /\ dir = "made")} :
          /\ obj' = [d \in Dirs |-> IF d \in lost THEN "absent"
                                    ELSE IF obj[d] = "whole" THEN "bad" ELSE obj[d]]
          /\ by' = [d \in Dirs |-> IF d \in lost THEN Nil ELSE by[d]]
          /\ named' = named \ lost
          /\ dir' \in (IF 0 \in lost /\ dir = "made" THEN {"absent", "made"} ELSE {dir})
    /\ UNCHANGED <<direct, then, opened, stored>>

\* Another program puts a bad file under the name.
Tamper ==
    /\ casTampered < MaxBadFiles /\ casTampered' = casTampered + 1
    /\ dir # "absent"
    /\ obj' = [obj EXCEPT ![swaps] = "bad"] /\ by' = [by EXCEPT ![swaps] = Nil]
    /\ UNCHANGED <<direct, casPc, then, opened, tmp, casResult, dir, named, stored, swaps,
                   casFaults>>
\* Another program moves the prefix directory away and makes another.
Swap ==
    /\ swaps < MaxSwaps /\ swaps' = swaps + 1
    /\ dir # "absent"
    /\ UNCHANGED <<direct, casPc, then, opened, tmp, casResult, disk, stored, casTampered,
                   casFaults>>

CasStep(t) ==
    \/ OpenPrefix(t) \/ SyncParent(t) \/ ReconcileOpen(t) \/ SyncFound(t)
    \/ OpenTmp(t) \/ WriteAll(t) \/ FsyncTmp(t)
    \/ DirectLink(t) \/ NothingBearsIt(t)
    \/ EnsureAbsent(t) \/ EnsureStillAbsent(t) \/ ProcLink(t)
    \/ InspectFinal(t) \/ SyncDir(t) \/ Readback(t) \/ CheckBindings(t)

CasNext ==
    \/ \E t \in Publishers : CasStep(t) \/ Fail(t) \/ Crash(t)
    \/ CasPowerLoss \/ Tamper \/ Swap

CasSpec == CasInit /\ [][CasNext]_casVars

-----------------------------------------------------------------------------
(* Properties *)

\* The variables stay in their types.
CasTypeOK ==
    /\ tmp \in [Publishers -> {"none", "partial", "whole", "durable"}]
    /\ then \in [Publishers -> {"prepare", "fallback", "fail"}]
    /\ opened \in [Publishers -> Dirs]
    /\ casResult \in [Publishers -> {Nil, "stored", "failed"}]
    /\ dir \in {"absent", "made", "synced"}
    /\ obj \in [Dirs -> {"absent", "bad", "whole", "durable"}]
    /\ by \in [Dirs -> Publishers \cup {Nil}] /\ named \in SUBSET Dirs

\* What bears the digest is whole and on the disk from the first moment, whatever
\* stops; only another program makes it bad.
VisibleIsDurable == casTampered = 0 => \A d \in Dirs : obj[d] \in {"absent", "durable"}

\* A publisher that reports success is in the directory that bears the prefix at that
\* moment, and the digest's content is there unless another program wrote.
SuccessIsHere ==
    [][\A t \in Publishers : casResult'[t] = "stored" /\ casResult[t] = Nil =>
           opened[t] = swaps /\ (obj[swaps] = "durable" \/ casTampered > 0)]_casVars

\* No publisher replaces or removes what bears the name.
NeverReplaced ==
    [][\A d \in Dirs : obj[d] # "absent" /\ by'[d] # by[d] =>
           casTampered' # casTampered \/ casFaults' # casFaults]_casVars

\* Who was told that the style is stored has it under a synced name, whichever of the
\* ways to the name was taken.
StoredHasAName ==
    casTampered = 0 /\ swaps = 0 =>
        \A t \in Publishers : casResult[t] = "stored" => 0 \in named /\ obj[0] = "durable"

Undisturbed == swaps = 0 /\ casTampered = 0 /\ casFaults = 0

\* Publishers of the same style converge on one winner: nobody is told that the store
\* is unavailable.
Converge == Undisturbed => \A t \in Publishers : casResult[t] # "failed"
ConvergeDirectly == direct => Converge

\* A style is seen under its digest only when a power loss cannot change it, it has
\* its name after a success, and publishers who are left alone all succeed. A publisher
\* succeeds in the directory that bears the prefix, and nothing of ours is ever replaced.
StyleIsDurable ==
    /\ [](CasTypeOK /\ VisibleIsDurable /\ StoredHasAName /\ ConvergeDirectly)
    /\ SuccessIsHere /\ NeverReplaced
=============================================================================
