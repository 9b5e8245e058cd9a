-------------------------- MODULE JobStore_proofs --------------------------
(***************************************************************************)
(* The job store.  Its transactions: durability of acknowledged calls, for *)
(* every MaxGeneration and any number of calls.  Its namespace: closing    *)
(* and listing, for any number of threads, of stores, jobs and commits.    *)
(***************************************************************************)
EXTENDS JobTransaction, JobStoreNamespace, FiniteSetTheorems, TLAPS

Creation == {"mkdir", "genesisWrite", "genesisRename", "genesisSync"}
Boot     == {"bootWrite", "bootRename", "bootSync"}

(* With the parent's fsync assumed, a directory that exists is durable. *)
EntryDurable == entry # "volatile"

(* Nothing happens to the files between an acknowledgement and a call. *)
Settled == ~doubt => pc = "idle" /\ live = disk /\ Read(live) = acked

(* What a creating call has put in place by the step it is about to take. *)
CreationInv ==
    pc # "idle" /\ call.creating /\ pc \in Creation \cup Boot =>
        /\ call.target.events = NoFile
        /\ live["events"] = NoFile
        /\ pc # "bootSync" => live["marker"] = NoFile
        /\ pc \in {"mkdir", "genesisWrite", "genesisRename"} => live["snapshot"] = NoFile
        /\ pc = "genesisRename" =>
              data["snapshot"][Slot("snapshot")] = call.target.snapshot
        /\ pc \in {"genesisSync"} \cup Boot =>
              live["snapshot"] # NoFile /\ Bytes(live, "snapshot") = call.target.snapshot

CreatingOnly == pc \in Creation => call.creating

(* The first marker vouches for what is stored. *)
BootInv ==
    /\ pc \in {"bootWrite", "bootRename"} => Legacy(live) /\ Read(live) \in Value
    /\ pc = "bootRename" =>
          data["marker"][Slot("marker")] = MarkerBytes("CLEAN", 0, Stored(live))
    /\ pc = "bootSync" =>
          live["marker"] # NoFile /\ Vouches(Bytes(live, "marker"), live)

Vouched(m) == [snapshot |-> m.snapshot, events |-> m.events]

(* A marker about to be published names the target. *)
SwapInv ==
    pc \in {"pendingSwap", "cleanSwap"} =>
        /\ data["marker"][Slot("marker")] # Torn
        /\ Vouched(data["marker"][Slot("marker")]) = call.target

(* Contents are named by calls that have begun. *)
NamesBegun ==
    /\ \A f \in {"snapshot", "events"}, i \in Inodes :
          data[f][i] # Torn => data[f][i] <= calls
    /\ pc # "idle" =>
          /\ call.target.snapshot <= calls
          /\ call.target.events # NoFile => call.target.events <= calls

(* Every marker a reader may find, now or after a power loss, names        *)
(* contents at least as new as the acknowledged ones.                      *)
MarkersRecent ==
    /\ pc # "idle" => AtLeast(call.target, acked)
    /\ \A d \in {live, disk} :
          /\ acked # Absent => d["marker"] # NoFile
          /\ d["marker"] # NoFile /\ Bytes(d, "marker") # Torn =>
                AtLeast(Vouched(Bytes(d, "marker")), acked)

(* A call without a log runs over a directory without one. *)
LogKept == pc # "idle" /\ call.target.events = NoFile => live["events"] = NoFile

IInv == /\ TypeOK /\ EntryDurable /\ Settled /\ LogKept
        /\ CreationInv /\ CreatingOnly /\ BootInv /\ SwapInv
        /\ NamesBegun /\ MarkersRecent

-----------------------------------------------------------------------------
(* The slot is always one of the two inodes. *)
LEMMA SlotType ==
    ASSUME FilesOK, NEW f \in Files
    PROVE  Slot(f) \in Inodes /\ Slot(f) # live[f]
BY SentinelAssumption DEF FilesOK, Slot, Inodes

(* write_slot keeps the files well typed. *)
LEMMA WriteSlotType ==
    ASSUME FilesOK, NEW f \in Files, NEW bytes \in Contents(f), WriteSlot(f, bytes)
    PROVE  FilesOK'
BY SlotType DEF FilesOK, WriteSlot, Inodes

(* So does a rename. *)
LEMMA RenameType ==
    ASSUME FilesOK, NEW f \in Files, Rename(f)
    PROVE  FilesOK'
BY SlotType DEF FilesOK, Rename

(* A read yields a value or one of the two sentinels. *)
LEMMA ReadType ==
    ASSUME FilesOK, NEW d \in [Files -> Inodes \cup {NoFile}]
    PROVE  /\ Read(d) \in Value \cup {Absent, Broken}
           /\ Read(d) \in Value => Read(d) = Stored(d)
           /\ Read(d) = Absent => \A f \in Files : d[f] = NoFile
           /\ Read(d) \in Value /\ ~Legacy(d) =>
                 /\ Bytes(d, "marker") \in Marker
                 /\ Vouches(Bytes(d, "marker"), d)
<1>1. CASE d["marker"] = NoFile
  BY <1>1, SentinelAssumption DEF Read, Legacy, Files
<1>2. CASE d["marker"] # NoFile
  <2>1. ASSUME Vouches(Bytes(d, "marker"), d), d["snapshot"] # NoFile
        PROVE  Stored(d) \in Value
    <3>1. Bytes(d, "snapshot") \in Nat /\ Bytes(d, "events") \in Nat \cup {NoFile}
      BY <2>1, <1>2 DEF Vouches, Marker
    <3> QED BY <3>1 DEF Stored, Value
  <2> QED BY <2>1, <1>2, SentinelAssumption DEF Read, Legacy, Vouches
<1> QED BY <1>1, <1>2

-----------------------------------------------------------------------------
(* Type correctness. *)

(* A failed call leaves every variable its type. *)
LEMMA FailType ==
    ASSUME TypeOK, FilesOK', Fail
    PROVE  TypeOK'
BY SentinelAssumption DEF TypeOK, Fail, history, Steps

(* So does going on to another step, *)
LEMMA GotoType ==
    ASSUME TypeOK, pc # "idle", FilesOK', NEW step \in Steps \ {"idle"}, Goto(step)
    PROVE  TypeOK'
BY DEF TypeOK, Goto, history

(* returning a result, *)
LEMMA AcknowledgeType ==
    ASSUME TypeOK, pc # "idle", FilesOK', Acknowledge
    PROVE  TypeOK'
BY DEF TypeOK, Acknowledge, Steps, Call

(* writing a file slot, *)
LEMMA WriteStepType ==
    ASSUME TypeOK, NEW step \in Steps \ {"idle"}, NEW f \in Files,
           NEW bytes \in Contents(f), NEW next \in Steps \ {"idle"},
           WriteStep(step, f, bytes, next)
    PROVE  TypeOK'
<1>1. Torn \in Contents(f) /\ pc # "idle" /\ FilesOK
  BY DEF Contents, WriteStep, TypeOK
<1>2. FilesOK'
  BY <1>1, WriteSlotType DEF WriteStep
<1> QED BY <1>1, <1>2, GotoType, FailType DEF WriteStep

(* renaming a slot over a file, *)
LEMMA RenameStepType ==
    ASSUME TypeOK, NEW step \in Steps \ {"idle"}, NEW f \in Files,
           NEW next \in Steps \ {"idle"},
           RenameStep(step, f, next) \/ CheckedRenameStep(step, f, next)
    PROVE  TypeOK'
<1>1. FilesOK /\ pc # "idle"
  BY DEF TypeOK, RenameStep, CheckedRenameStep
<1>2. FilesOK'
  BY <1>1, RenameType DEF RenameStep, CheckedRenameStep, files, FilesOK
<1> QED BY <1>1, <1>2, GotoType, FailType DEF RenameStep, CheckedRenameStep

(* and fsyncing the directory. *)
LEMMA SyncStepType ==
    ASSUME TypeOK, NEW step \in Steps \ {"idle"}, NEW next \in Steps \ {"idle"},
           SyncStep(step, next)
    PROVE  TypeOK'
<1>1. FilesOK' /\ pc # "idle"
  BY DEF TypeOK, SyncStep, SyncDirectory, files, FilesOK
<1> QED BY <1>1, GotoType, FailType DEF SyncStep

(* The target and the generation a call starts with. *)
LEMMA StartType ==
    ASSUME TypeOK, NEW step \in Steps \ {"idle"}, NEW target \in Value,
           NEW generation \in 0 .. MaxGeneration, NEW creating \in BOOLEAN,
           Read(live) \in Value \cup {Absent},
           Start(step, target, generation, creating)
    PROVE  TypeOK'
BY BoundsAssumption DEF TypeOK, Start, files, FilesOK, Call

(* Starting a commit keeps the types; its generation stays in bounds. *)
LEMMA CommitType ==
    ASSUME TypeOK, Read(live) \in Value, NEW target \in Value, Commit(target)
    PROVE  TypeOK'
<1>1. live \in [Files -> Inodes \cup {NoFile}] /\ FilesOK
  BY DEF TypeOK, FilesOK
<1>2. CASE Legacy(live)
  <2>1. 1 \in 0 .. MaxGeneration
    BY BoundsAssumption
  <2>2. Start("bootWrite", target, 1, FALSE)
    BY <1>2 DEF Commit
  <2> QED BY <2>1, <2>2, StartType DEF Steps
<1>3. CASE ~Legacy(live)
  <2> DEFINE g == Bytes(live, "marker").generation
  <2>1. g \in 0 .. MaxGeneration /\ g # MaxGeneration
    BY <1>1, <1>3, ReadType DEF Commit, Marker
  <2>2. g + 1 \in 0 .. MaxGeneration
    BY <2>1, BoundsAssumption
  <2> QED BY <1>3, <2>2, StartType DEF Commit, Steps
<1> QED BY <1>2, <1>3

(* Every step preserves the types. *)
LEMMA TypeStep ==
    ASSUME TypeOK, BootInv, LogKept, [Next]_vars
    PROVE  TypeOK'
<1> USE DEF Steps
<1>0. FilesOK /\ live \in [Files -> Inodes \cup {NoFile}]
  BY DEF TypeOK, FilesOK
<1>1. CASE Create
  <2>1. calls + 1 \in Nat
    BY BoundsAssumption DEF TypeOK
  <2>2. [snapshot |-> calls + 1, events |-> NoFile] \in Value
    BY <2>1 DEF Value
  <2>3. 0 \in 0 .. MaxGeneration /\ Read(live) = Absent
    BY <1>1, BoundsAssumption DEF Create
  <2> QED BY <1>1, <2>2, <2>3, StartType DEF Create
<1>2. CASE SaveSnapshot
  <2>1. PICK content \in {calls + 1, Read(live).snapshot} :
             Read(live) \in Value /\ Commit([Read(live) EXCEPT !.snapshot = content])
    BY <1>2 DEF SaveSnapshot
  <2>2. content \in Nat
    BY <2>1, BoundsAssumption DEF TypeOK, Value
  <2>3. [Read(live) EXCEPT !.snapshot = content] \in Value
    BY <2>1, <2>2 DEF Value
  <2> QED BY <2>1, <2>3, CommitType
<1>3. CASE AppendEvent
  <2>1. calls + 1 \in Nat
    BY BoundsAssumption DEF TypeOK
  <2>2. Read(live) \in Value /\ [Read(live) EXCEPT !.events = calls + 1] \in Value
    BY <1>3, <2>1 DEF AppendEvent, Value
  <2> QED BY <1>3, <2>2, CommitType DEF AppendEvent
<1>4. CASE OpenOrCreateDirectory
  <2>1. FilesOK' /\ pc # "idle"
    BY <1>0, <1>4, MkdirAssumption DEF OpenOrCreateDirectory, FilesOK
  <2> QED BY <1>4, <2>1, GotoType, FailType DEF OpenOrCreateDirectory
<1>5. CASE GenesisWrite \/ StateWrite
  <2>1. call.target \in Value
    BY <1>5 DEF GenesisWrite, StateWrite, WriteStep, TypeOK, Call
  <2>2. CASE GenesisWrite
    BY <2>1, <2>2, WriteStepType DEF GenesisWrite, Value, Contents, Files
  <2>3. CASE StateWrite
    <3>1. PICK f \in Changed : WriteStep("stateWrite", f, call.target[f], "stateSwap")
      BY <2>3 DEF StateWrite
    <3>2. call.target[f] # NoFile
      <4>1. CASE f = "events"
        BY <3>1, <4>1 DEF LogKept, Changed, Bytes, WriteStep
      <4>2. CASE f = "snapshot"
        BY <2>1, <4>2, SentinelAssumption DEF Value
      <4> QED BY <3>1, <4>1, <4>2 DEF Changed
    <3>3. f \in Files /\ call.target[f] \in Contents(f)
      BY <3>1, <3>2, <2>1 DEF Changed, Value, Contents, Files
    <3> QED BY <3>1, <3>3, WriteStepType
  <2> QED BY <1>5, <2>2, <2>3
<1>6. CASE BootWrite \/ PendingWrite \/ CleanWrite
  <2>1. pc # "idle" /\ call.target \in Value /\ call.generation \in 0 .. MaxGeneration
    BY <1>6 DEF BootWrite, PendingWrite, CleanWrite, WriteStep, TypeOK, Call
  <2>2. \A phase \in {"CLEAN", "PENDING"}, g \in 0 .. MaxGeneration, v \in Value :
            MarkerBytes(phase, g, v) \in Contents("marker")
    BY DEF MarkerBytes, Marker, Value, Contents
  <2>3. CASE BootWrite
    <3>1. Read(live) \in Value /\ 0 \in 0 .. MaxGeneration
      BY <2>3, BoundsAssumption DEF BootInv, BootWrite, WriteStep
    <3> QED BY <2>3, <3>1, <2>2, WriteStepType DEF BootWrite, Files
  <2>4. CASE PendingWrite
    BY <2>4, <2>1, <2>2, WriteStepType DEF PendingWrite, Files
  <2>5. CASE CleanWrite
    BY <2>5, <2>1, <2>2, WriteStepType DEF CleanWrite, Files
  <2> QED BY <1>6, <2>3, <2>4, <2>5
<1>7. CASE GenesisRename \/ BootRename \/ PendingSwap \/ StateSwap
  BY <1>7, RenameStepType
     DEF GenesisRename, BootRename, PendingSwap, StateSwap, Changed, Files
<1>8. CASE GenesisSync \/ PendingSync \/ StateSync
  BY <1>8, SyncStepType DEF GenesisSync, PendingSync, StateSync
<1>9. CASE CleanSwap
  <2>1. CASE CheckedRenameStep("cleanSwap", "marker", "cleanSync")
    BY <2>1, RenameStepType DEF Files
  <2>2. CASE pc = "cleanSwap" /\ Rename("marker") /\ Goto("cleanResync")
    BY <1>0, <2>2, RenameType, GotoType DEF Files
  <2> QED BY <1>9, <2>1, <2>2 DEF CleanSwap
<1>10. CASE BootSync \/ CleanSync \/ CleanResync
  <2>1. FilesOK' /\ pc # "idle"
    BY <1>0, <1>10 DEF BootSync, CleanSync, CleanResync, SyncDirectory, files, FilesOK
  <2> QED BY <1>10, <2>1, GotoType, FailType, AcknowledgeType
          DEF BootSync, CleanSync, CleanResync
<1>11. CASE StateDone
  <2>1. FilesOK' /\ pc # "idle"
    BY <1>0, <1>11 DEF StateDone, files, FilesOK
  <2> QED BY <1>11, <2>1, GotoType DEF StateDone
<1>12. CASE WriteBack
  BY <1>0, <1>12 DEF WriteBack, FilesOK, TypeOK, history
<1>13. CASE ProcessCrash \/ PowerLoss
  <2>1. FilesOK'
    BY <1>0, <1>13 DEF ProcessCrash, PowerLoss, files, FilesOK, NoFiles
  <2> QED BY <1>13, <2>1, FailType DEF ProcessCrash, PowerLoss
<1>14. CASE UNCHANGED vars
  BY <1>0, <1>14 DEF vars, files, history, TypeOK, FilesOK
<1> QED
  BY <1>1, <1>2, <1>3, <1>4, <1>5, <1>6, <1>7, <1>8, <1>9, <1>10, <1>11, <1>12, <1>13,
     <1>14 DEF Next

-----------------------------------------------------------------------------
(* Progress of a call: what each step finds in place. *)

(* What is known of a job being created: its first files, and that no log is lost. *)
LEMMA CreationStep ==
    ASSUME IInv, Next
    PROVE  CreationInv' /\ CreatingOnly' /\ LogKept'
<1> USE DEF IInv, TypeOK, FilesOK, CreationInv, CreatingOnly, LogKept, Creation, Boot
<1>1. CASE Create
  <2>1. live["marker"] = NoFile /\ live["events"] = NoFile /\ live["snapshot"] = NoFile
    BY <1>1, ReadType DEF Create, Files
  <2> QED BY <1>1, <2>1 DEF Create, Start, files
<1>2. CASE SaveSnapshot \/ AppendEvent
  <2>1. PICK target : Read(live) \in Value /\ Commit(target)
    BY <1>2 DEF SaveSnapshot, AppendEvent
  <2>2. target.events = NoFile => live["events"] = NoFile
    <3>1. SUFFICES ASSUME Read(live).events = NoFile  PROVE live["events"] = NoFile
      BY <2>1 DEF Commit
    <3>2. Bytes(live, "events") = NoFile
      BY <2>1, <3>1, ReadType DEF Stored
    <3> QED BY <3>2, SentinelAssumption DEF Bytes, Contents, Files
  <2>3. ~call'.creating /\ call'.target = target /\ live' = live
        /\ pc' \in {"bootWrite", "pendingWrite"}
    BY <2>1 DEF Commit, Start, files
  <2> QED BY <2>2, <2>3
<1>3. CASE OpenOrCreateDirectory
  BY <1>3 DEF OpenOrCreateDirectory, Goto, Fail, Slot
<1>4. CASE GenesisWrite
  BY <1>4, SlotType DEF GenesisWrite, WriteStep, WriteSlot, Goto, Fail, Slot, Files
<1>5. CASE GenesisRename
  BY <1>5, SlotType, SentinelAssumption
     DEF GenesisRename, CheckedRenameStep, Rename, files, Goto, Fail, Files, Inodes, Bytes
<1>6. CASE GenesisSync \/ PendingSync \/ StateSync
  BY <1>6 DEF GenesisSync, PendingSync, StateSync, SyncStep, SyncDirectory, files, Goto, Fail, Bytes
<1>7. CASE BootWrite
  BY <1>7 DEF BootWrite, WriteStep, WriteSlot, Goto, Fail, Slot, Bytes, Files
<1>8. CASE BootRename
  BY <1>8 DEF BootRename, CheckedRenameStep, Rename, files, Goto, Fail, Bytes, Files
<1>9. CASE BootSync
  BY <1>9 DEF BootSync, SyncDirectory, files, Goto, Acknowledge, Fail, Bytes
<1>10. CASE PendingWrite \/ StateWrite \/ CleanWrite
  BY <1>10 DEF PendingWrite, StateWrite, CleanWrite, WriteStep, WriteSlot, Goto, Fail
<1>11. CASE PendingSwap \/ CleanSwap
  BY <1>11 DEF PendingSwap, CleanSwap, RenameStep, CheckedRenameStep, Rename, files, Goto, Fail, Files
<1>12. CASE StateSwap
  <2>1. PICK f \in Changed : RenameStep("stateSwap", f, "stateWrite")
    BY <1>12 DEF StateSwap
  <2>2. f = "events" => call.target.events # NoFile
    BY <2>1 DEF Changed, Bytes, RenameStep
  <2> QED BY <2>1, <2>2 DEF Changed, RenameStep, Rename, files, Goto, Fail, Files
<1>13. CASE StateDone \/ CleanSync \/ CleanResync
  BY <1>13 DEF StateDone, CleanSync, CleanResync, SyncDirectory, files, Goto, Acknowledge, Fail
<1>14. CASE WriteBack
  BY <1>14 DEF WriteBack, Bytes, Slot
<1>15. CASE ProcessCrash \/ PowerLoss
  BY <1>15 DEF ProcessCrash, PowerLoss, Fail
<1> QED
  BY <1>1, <1>2, <1>3, <1>4, <1>5, <1>6, <1>7, <1>8, <1>9, <1>10, <1>11, <1>12, <1>13,
     <1>14, <1>15 DEF Next

(* What is known of the markers, of a bootstrap and of the slot swapped in. *)
LEMMA MarkerStep ==
    ASSUME IInv, Next
    PROVE  BootInv' /\ SwapInv'
<1> USE DEF IInv, TypeOK, FilesOK, BootInv, SwapInv
<1>1. CASE Create
  BY <1>1 DEF Create, Start
<1>2. CASE SaveSnapshot \/ AppendEvent
  <2>1. PICK target : Read(live) \in Value /\ Commit(target)
    BY <1>2 DEF SaveSnapshot, AppendEvent
  <2>2. Read(live)' = Read(live) /\ Legacy(live)' = Legacy(live)
    BY <2>1 DEF Commit, Start, files, Read, Stored, Vouches, Bytes, Legacy
  <2> QED BY <2>1, <2>2 DEF Commit, Start
<1>3. CASE OpenOrCreateDirectory
  BY <1>3 DEF OpenOrCreateDirectory, Goto, Fail
<1>4. CASE GenesisWrite \/ GenesisRename
  BY <1>4 DEF GenesisWrite, GenesisRename, WriteStep, CheckedRenameStep, Goto, Fail
<1>5. CASE GenesisSync
  <2>1. CASE Goto("bootWrite")
    <3>1. /\ live' = live /\ data' = data
          /\ live["marker"] = NoFile /\ live["snapshot"] # NoFile
          /\ Bytes(live, "snapshot") = call.target.snapshot /\ live["events"] = NoFile
          /\ call.target.snapshot \in Nat
      BY <1>5, <2>1 DEF GenesisSync, SyncStep, SyncDirectory, files, CreationInv,
            CreatingOnly, Creation, Boot, Goto, Call, Value
    <3>2. Stored(live) \in Value
      BY <3>1 DEF Stored, Value, Bytes
    <3>3. Read(live) \in Value
      BY <3>1, <3>2 DEF Read
    <3>4. Read(live)' = Read(live)
      BY <3>1 DEF Read, Stored, Vouches, Bytes
    <3> QED BY <2>1, <3>1, <3>3, <3>4 DEF Goto, Legacy
  <2>2. CASE Fail
    BY <2>2 DEF Fail
  <2> QED BY <1>5, <2>1, <2>2 DEF GenesisSync, SyncStep
<1>6. CASE BootWrite
  <2>1. CASE Goto("bootRename")
    <3>1. WriteSlot("marker", MarkerBytes("CLEAN", 0, Read(live))) /\ live' = live
      BY <1>6, <2>1 DEF BootWrite, WriteStep, WriteSlot, Goto, Fail
    <3>2. Slot("marker") \in Inodes /\ Slot("marker")' = Slot("marker")
      BY <3>1, SlotType DEF Slot, Files
    <3>3. data'["marker"][Slot("marker")] = MarkerBytes("CLEAN", 0, Read(live))
      BY <3>1, <3>2 DEF WriteSlot, Files, Inodes
    <3>4. Legacy(live) /\ Read(live) \in Value /\ Legacy(live)'
      BY <1>6, <3>1 DEF BootWrite, WriteStep, Legacy
    <3>5. Read(live)' = Read(live) /\ Stored(live)' = Stored(live)
      BY <3>1, <3>4 DEF WriteSlot, Read, Stored, Bytes, Legacy, Files
    <3>6. Read(live) = Stored(live)
      BY <3>4, ReadType
    <3> QED BY <2>1, <3>2, <3>3, <3>4, <3>5, <3>6 DEF Goto
  <2>2. CASE Fail
    BY <2>2 DEF Fail
  <2> QED BY <1>6, <2>1, <2>2 DEF BootWrite, WriteStep
<1>7. CASE BootRename
  <2>1. CASE Goto("bootSync")
    <3>1. Rename("marker") /\ pc = "bootRename"
      BY <1>7, <2>1 DEF BootRename, CheckedRenameStep, Goto, Fail
    <3>2. Slot("marker") \in Inodes /\ Slot("marker") # NoFile /\ live'["marker"] = Slot("marker")
      BY <3>1, SlotType, SentinelAssumption DEF Rename, Files, Inodes
    <3>3. Stored(live)' = Stored(live)
      BY <3>1 DEF Rename, Stored, Bytes, Files
    <3>4. Bytes(live, "marker")' = MarkerBytes("CLEAN", 0, Stored(live))
      BY <3>1, <3>2 DEF Rename, Bytes
    <3>5. Stored(live) \in Value
      BY <3>1, ReadType
    <3>6. MarkerBytes("CLEAN", 0, Stored(live)) \in Marker
      BY <3>5, BoundsAssumption DEF MarkerBytes, Marker, Value
    <3>7. Vouches(Bytes(live, "marker"), live)'
      BY <3>3, <3>4, <3>6 DEF Vouches, Stored, MarkerBytes
    <3> QED BY <2>1, <3>2, <3>7 DEF Goto
  <2>2. CASE Fail
    BY <2>2 DEF Fail
  <2> QED BY <1>7, <2>1, <2>2 DEF BootRename, CheckedRenameStep
<1>8. CASE BootSync
  BY <1>8 DEF BootSync, Goto, Acknowledge, Fail
<1>9. CASE PendingWrite \/ CleanWrite
  <2>1. CASE pc' \in {"pendingSwap", "cleanSwap"}
    <3>1. PICK phase \in {"PENDING", "CLEAN"} :
              WriteSlot("marker", MarkerBytes(phase, call.generation, call.target))
      BY <1>9, <2>1 DEF PendingWrite, CleanWrite, WriteStep, Fail
    <3>2. Slot("marker") \in Inodes /\ Slot("marker")' = Slot("marker")
      BY <3>1, SlotType DEF WriteSlot, Slot, Files
    <3>3. data'["marker"][Slot("marker")] = MarkerBytes(phase, call.generation, call.target)
      BY <3>1, <3>2 DEF WriteSlot, Files
    <3>4. call' = call /\ call.target \in Value /\ call.generation \in 0 .. MaxGeneration
      BY <1>9, <2>1 DEF PendingWrite, CleanWrite, WriteStep, Fail, Goto, Call
    <3>5. MarkerBytes(phase, call.generation, call.target) \in Marker
      BY <3>4 DEF MarkerBytes, Marker, Value
    <3>6. Vouched(MarkerBytes(phase, call.generation, call.target)) = call.target
      BY <3>4 DEF Vouched, MarkerBytes, Value
    <3> QED BY <2>1, <3>2, <3>3, <3>4, <3>5, <3>6, SentinelAssumption
  <2>2. CASE pc' = "idle"
    BY <2>2
  <2> QED BY <1>9, <2>1, <2>2 DEF PendingWrite, CleanWrite, WriteStep, Goto, Fail
<1>10. CASE PendingSwap \/ PendingSync \/ StateSync \/ CleanSwap \/ CleanSync \/ CleanResync
  BY <1>10 DEF PendingSwap, PendingSync, StateSync, CleanSwap, CleanSync, CleanResync,
       RenameStep, CheckedRenameStep, SyncStep, Goto, Fail, Acknowledge
<1>11. CASE StateWrite \/ StateSwap \/ StateDone
  BY <1>11 DEF StateWrite, StateSwap, StateDone, WriteStep, RenameStep, Goto, Fail
<1>12. CASE WriteBack
  BY <1>12 DEF WriteBack, Slot, Legacy, Read, Stored, Vouches, Bytes
<1>13. CASE ProcessCrash \/ PowerLoss
  BY <1>13 DEF ProcessCrash, PowerLoss, Fail
<1> QED
  BY <1>1, <1>2, <1>3, <1>4, <1>5, <1>6, <1>7, <1>8, <1>9, <1>10, <1>11, <1>12, <1>13
     DEF Next

-----------------------------------------------------------------------------
(* How new the contents are. *)

(* A readable directory holds contents some call has begun to write, and   *)
(* never anything older than the acknowledged value.                       *)
LEMMA ReadRecent ==
    ASSUME IInv, NEW d \in {live, disk}, Read(d) # Broken
    PROVE  /\ AtLeast(Read(d), acked)
           /\ Read(d) \in Value =>
                 /\ Read(d).snapshot <= calls
                 /\ Read(d).events # NoFile => Read(d).events <= calls
<1>0. FilesOK /\ d \in [Files -> Inodes \cup {NoFile}]
  BY DEF IInv, TypeOK, FilesOK
<1>1. CASE Read(d) = Absent
  <2>1. d["marker"] = NoFile
    BY <1>0, <1>1, ReadType DEF Files
  <2>2. acked = Absent
    BY <2>1 DEF IInv, MarkersRecent
  <2> QED BY <1>1, <2>2, SentinelAssumption DEF AtLeast
<1>2. CASE Read(d) \in Value
  <2>1. Read(d) = Stored(d)
    BY <1>0, <1>2, ReadType
  <2>2. ASSUME acked # Absent  PROVE AtLeast(Read(d), acked)
    <3>1. d["marker"] # NoFile /\ ~Legacy(d)
      BY <2>2 DEF IInv, MarkersRecent, Legacy
    <3>2. Bytes(d, "marker") \in Marker /\ Vouches(Bytes(d, "marker"), d)
      BY <1>0, <1>2, <3>1, ReadType
    <3>3. Bytes(d, "marker") # Torn
      BY <3>2, SentinelAssumption
    <3>4. AtLeast(Vouched(Bytes(d, "marker")), acked)
      BY <3>1, <3>3 DEF IInv, MarkersRecent
    <3>5. Vouched(Bytes(d, "marker")) = Read(d)
      BY <2>1, <3>2 DEF Vouched, Vouches, Stored
    <3> QED BY <3>4, <3>5
  <2>3. /\ Read(d).snapshot = Bytes(d, "snapshot") /\ Read(d).snapshot \in Nat
        /\ Read(d).events = Bytes(d, "events") /\ Read(d).events \in Nat \cup {NoFile}
    BY <1>2, <2>1 DEF Stored, Value
  <2>4. Read(d).snapshot <= calls
    BY <1>0, <2>3, SentinelAssumption DEF IInv, NamesBegun, Bytes, Files
  <2>5. Read(d).events # NoFile => Read(d).events <= calls
    BY <1>0, <2>3, SentinelAssumption DEF IInv, NamesBegun, Bytes, Files
  <2> QED BY <2>2, <2>4, <2>5 DEF AtLeast
<1> QED BY <1>0, <1>1, <1>2, ReadType

(* The target of a new call is newer than what the call has read. *)
LEMMA StartRecent ==
    ASSUME IInv, Create \/ SaveSnapshot \/ AppendEvent
    PROVE  /\ AtLeast(call'.target, acked)
           /\ call'.target \in Value
           /\ call'.target.snapshot <= calls'
           /\ call'.target.events # NoFile => call'.target.events <= calls'
           /\ calls' = calls + 1
           /\ UNCHANGED <<files, acked>>
           /\ pc = "idle"
<1>0. calls \in Nat /\ calls + 1 \in Nat /\ Read(live) # Broken
  <2>1. calls \in Nat /\ calls + 1 \in Nat
    BY BoundsAssumption DEF IInv, TypeOK
  <2>2. Read(live) \in Value \cup {Absent}
    BY DEF Create, SaveSnapshot, AppendEvent
  <2> QED BY <2>1, <2>2, SentinelAssumption
<1>1. AtLeast(Read(live), acked) /\ acked \in Value \cup {Absent}
  BY <1>0, ReadRecent DEF IInv, TypeOK
<1>2. CASE Create
  <2>1. call'.target = [snapshot |-> calls + 1, events |-> NoFile] /\ Read(live) = Absent
    BY <1>2 DEF Create, Start
  <2>2. acked = Absent
    BY <1>1, <2>1, SentinelAssumption DEF AtLeast
  <2>3. calls' = calls + 1 /\ UNCHANGED <<files, acked>> /\ pc = "idle"
    BY <1>2 DEF Create, Start
  <2>4. AtLeast(call'.target, acked)
    BY <2>2 DEF AtLeast
  <2> QED BY <1>0, <2>1, <2>3, <2>4 DEF Value
<1>3. CASE SaveSnapshot
  <2>1. PICK content \in {calls + 1, Read(live).snapshot} :
             Read(live) \in Value /\ Commit([Read(live) EXCEPT !.snapshot = content])
    BY <1>3 DEF SaveSnapshot
  <2>2. /\ call'.target = [Read(live) EXCEPT !.snapshot = content]
        /\ calls' = calls + 1 /\ UNCHANGED <<files, acked>> /\ pc = "idle"
    BY <2>1 DEF Commit, Start
  <2>3. content \in Nat /\ Read(live).snapshot <= content /\ content <= calls'
    BY <1>0, <2>1, <2>2, ReadRecent DEF Value
  <2>4. Read(live).events # NoFile => Read(live).events <= calls'
    BY <1>0, <2>1, <2>2, ReadRecent DEF Value
  <2>5. /\ call'.target \in Value /\ call'.target.snapshot = content
        /\ call'.target.events = Read(live).events
    BY <2>1, <2>2, <2>3 DEF Value
  <2>6. AtLeast(call'.target, acked)
    BY <1>1, <2>1, <2>3, <2>5 DEF AtLeast, Value
  <2> QED BY <2>2, <2>3, <2>4, <2>5, <2>6
<1>4. CASE AppendEvent
  <2>1. Read(live) \in Value /\ Commit([Read(live) EXCEPT !.events = calls + 1])
    BY <1>4 DEF AppendEvent
  <2>2. /\ call'.target = [Read(live) EXCEPT !.events = calls + 1]
        /\ calls' = calls + 1 /\ UNCHANGED <<files, acked>> /\ pc = "idle"
    BY <2>1 DEF Commit, Start
  <2>3. /\ call'.target \in Value /\ call'.target.snapshot = Read(live).snapshot
        /\ call'.target.events = calls + 1 /\ call'.target.events # NoFile
    BY <1>0, <2>1, <2>2, SentinelAssumption DEF Value
  <2>4. Read(live).snapshot <= calls /\ (Read(live).events # NoFile => Read(live).events <= calls)
    BY <1>0, <2>1, ReadRecent
  <2>5. Read(live).snapshot \in Nat /\ Read(live).events \in Nat \cup {NoFile}
    BY <2>1 DEF Value
  <2>6. AtLeast(call'.target, acked)
    BY <1>0, <1>1, <2>3, <2>4, <2>5, SentinelAssumption DEF AtLeast, Value
  <2> QED BY <1>0, <2>2, <2>3, <2>4, <2>5, <2>6
<1> QED BY <1>2, <1>3, <1>4

(* Every other step leaves the names of the call alone. *)
LEMMA NamesStep ==
    ASSUME IInv, Next
    PROVE  NamesBegun'
<1> USE DEF IInv, TypeOK, FilesOK
<1>0. calls \in Nat /\ Torn \notin Nat
  BY BoundsAssumption, SentinelAssumption
<1>1. CASE Create \/ SaveSnapshot \/ AppendEvent
  <2>1. calls' = calls + 1 /\ data' = data
    BY <1>1, StartRecent DEF files
  <2>2. \A f \in {"snapshot", "events"}, i \in Inodes : data[f][i] \in Nat \cup {Torn}
    BY DEF Files, Contents
  <2>3. ASSUME NEW f \in {"snapshot", "events"}, NEW i \in Inodes, data'[f][i] # Torn
        PROVE  data'[f][i] <= calls'
    <3>1. data[f][i] \in Nat /\ data[f][i] <= calls
      BY <2>1, <2>2, <2>3 DEF NamesBegun
    <3> HIDE DEF IInv, TypeOK, FilesOK
    <3> QED BY <1>0, <2>1, <3>1
  <2> QED BY <1>1, <2>3, StartRecent DEF NamesBegun
<1>2. CASE /\ calls' = calls
           /\ pc' # "idle" => pc # "idle" /\ call' = call
           /\ data' = data
  BY <1>2 DEF NamesBegun
<1>3. CASE GenesisWrite \/ StateWrite \/ BootWrite \/ PendingWrite \/ CleanWrite
  <2>0. PICK f \in Files :
            \E bytes : /\ WriteSlot(f, bytes)
                       /\ f \in {"snapshot", "events"} => bytes \in {call.target[f], Torn}
    BY <1>3 DEF GenesisWrite, StateWrite, BootWrite, PendingWrite, CleanWrite, WriteStep,
          Changed, Files
  <2>1. PICK bytes : /\ WriteSlot(f, bytes)
                     /\ f \in {"snapshot", "events"} => bytes \in {call.target[f], Torn}
    BY <2>0
  <2>2. calls' = calls /\ pc # "idle" /\ (pc' # "idle" => call' = call)
    BY <1>3 DEF GenesisWrite, StateWrite, BootWrite, PendingWrite, CleanWrite, WriteStep,
          Goto, Fail
  <2>3. ASSUME NEW g \in {"snapshot", "events"}, NEW i \in Inodes, data'[g][i] # Torn
        PROVE  data'[g][i] <= calls
    <3>1. g \in Files
      BY DEF Files
    <3>2. CASE data'[g][i] = data[g][i]
      BY <2>3, <3>2 DEF NamesBegun
    <3>3. CASE data'[g][i] # data[g][i]
      <4>1. g = f /\ data'[g][i] = bytes
        BY <2>1, <3>1, <3>3 DEF WriteSlot
      <4>2. bytes = call.target[g] /\ call.target[g] # NoFile
        <5>1. bytes = call.target[g]
          BY <2>1, <2>3, <4>1
        <5>2. g = "snapshot" => call.target[g] # NoFile
          BY <2>2, SentinelAssumption DEF Call, Value
        <5>3. g = "events" => call.target[g] # NoFile
          <6>1. CASE StateWrite
            BY <3>1, <3>3, <6>1 DEF StateWrite, WriteStep, WriteSlot, Changed, LogKept, Bytes
          <6>2. CASE ~StateWrite
            BY <1>3, <3>1, <3>3, <6>2 DEF GenesisWrite, BootWrite, PendingWrite, CleanWrite,
                  WriteStep, WriteSlot
          <6> QED BY <6>1, <6>2
        <5> QED BY <5>1, <5>2, <5>3
      <4> QED BY <2>2, <4>1, <4>2 DEF NamesBegun
    <3> QED BY <3>2, <3>3
  <2> QED BY <2>2, <2>3 DEF NamesBegun
<1>4. CASE \/ OpenOrCreateDirectory \/ GenesisRename \/ GenesisSync
           \/ BootRename \/ BootSync \/ PendingSwap \/ PendingSync
           \/ StateSwap \/ StateDone \/ StateSync
           \/ CleanSwap \/ CleanSync \/ CleanResync
           \/ WriteBack \/ ProcessCrash \/ PowerLoss
  BY <1>2, <1>4
     DEF OpenOrCreateDirectory, GenesisRename, GenesisSync, BootRename, BootSync, PendingSwap,
         PendingSync, StateSwap, StateDone, StateSync, CleanSwap, CleanSync, CleanResync,
         WriteBack, ProcessCrash, PowerLoss, RenameStep, CheckedRenameStep, SyncStep, Rename,
         SyncDirectory, files, Goto, Fail, Acknowledge
<1> QED BY <1>1, <1>3, <1>4 DEF Next

(* A commit that is read back has its target vouched for. *)
LEMMA AcceptedVouches ==
    ASSUME IInv, pc # "idle", Accepted
    PROVE  /\ live["marker"] # NoFile /\ Bytes(live, "marker") # Torn
           /\ Vouched(Bytes(live, "marker")) = call.target
<1>1. FilesOK /\ live \in [Files -> Inodes \cup {NoFile}] /\ call.target \in Value
  BY DEF IInv, TypeOK, FilesOK, Call
<1>2. /\ live["marker"] # NoFile /\ Bytes(live, "marker") \in Marker
      /\ Vouches(Bytes(live, "marker"), live) /\ Stored(live) = call.target
  BY <1>1, ReadType DEF Accepted, Legacy
<1> QED BY <1>2, SentinelAssumption DEF Vouched, Vouches, Stored

(* Markers are only ever replaced by markers at least as new. *)
LEMMA RecentStep ==
    ASSUME IInv, Next
    PROVE  MarkersRecent'
<1> DEFINE Recent(m) == m # Torn => AtLeast(Vouched(m), acked)
           Find(d)   == /\ acked # Absent => d["marker"] # NoFile
                        /\ d["marker"] # NoFile => Recent(Bytes(d, "marker"))
<1>0. /\ FilesOK /\ FilesOK' /\ Find(live) /\ Find(disk)
      /\ pc # "idle" => AtLeast(call.target, acked) /\ call \in Call
  BY TypeStep DEF IInv, TypeOK, MarkersRecent
<1>2. CASE Create \/ SaveSnapshot \/ AppendEvent
  <2>1. Find(live)' /\ Find(disk)'
    BY <1>0, <1>2, StartRecent DEF files, Bytes
  <2> QED BY <1>2, <2>1, StartRecent DEF MarkersRecent
<1>3. ASSUME NEW f \in Files \ {"marker"}, NEW bytes,
             WriteSlot(f, bytes) \/ Rename(f), acked' = acked,
             pc' # "idle" => pc # "idle" /\ call' = call
      PROVE  MarkersRecent'
  <2>1. /\ live'["marker"] = live["marker"] /\ disk' = disk
        /\ data'["marker"] = data["marker"]
    BY <1>0, <1>3 DEF WriteSlot, Rename, FilesOK, Files
  <2>2. Find(live)' /\ Find(disk)'
    BY <1>0, <1>3, <2>1 DEF Bytes
  <2> QED BY <1>0, <1>3, <2>2 DEF MarkersRecent
<1>4. ASSUME NEW m, WriteSlot("marker", m), Recent(m), acked' = acked,
             pc' # "idle" => pc # "idle" /\ call' = call
      PROVE  MarkersRecent'
  <2>1. /\ live' = live /\ disk' = disk
        /\ \A i \in Inodes : data'["marker"][i] \in {m, data["marker"][i]}
    BY <1>0, <1>4 DEF WriteSlot, FilesOK, Files
  <2>2. \A d \in {live, disk} : d["marker"] \in Inodes \cup {NoFile}
    BY <1>0 DEF FilesOK, Files
  <2>3. Find(live)' /\ Find(disk)'
    BY <1>0, <1>4, <2>1, <2>2 DEF Bytes
  <2> QED BY <1>0, <1>4, <2>1, <2>3 DEF MarkersRecent
<1>5. ASSUME Rename("marker"), Recent(data["marker"][Slot("marker")]), acked' = acked,
             pc' # "idle" => pc # "idle" /\ call' = call
      PROVE  MarkersRecent'
  <2>1. /\ live'["marker"] = Slot("marker") /\ disk' = disk /\ data' = data
        /\ live'["marker"] # NoFile
    BY <1>0, <1>5, SlotType, SentinelAssumption DEF Rename, FilesOK, Files, Inodes
  <2>2. Find(live)' /\ Find(disk)'
    BY <1>0, <1>5, <2>1 DEF Bytes
  <2> QED BY <1>0, <1>5, <2>2 DEF MarkersRecent
<1>6. ASSUME data' = data, acked' = acked,
             live' \in {live, disk}, disk'["marker"] \in {live["marker"], disk["marker"]},
             pc' # "idle" => pc # "idle" /\ call' = call
      PROVE  MarkersRecent'
  <2>1. Find(live)' /\ Find(disk)'
    BY <1>0, <1>6 DEF Bytes
  <2> QED BY <1>0, <1>6, <2>1 DEF MarkersRecent
<1>7. CASE GenesisWrite \/ StateWrite
  <2>1. PICK f \in Files \ {"marker"} : \E bytes : WriteSlot(f, bytes)
    BY <1>7 DEF GenesisWrite, StateWrite, WriteStep, Changed, Files
  <2> QED BY <1>3, <1>7, <2>1 DEF GenesisWrite, StateWrite, WriteStep, Goto, Fail, history
<1>8. CASE GenesisRename \/ StateSwap
  <2>1. CASE \E f \in Files \ {"marker"} : Rename(f)
    BY <1>3, <1>8, <2>1
       DEF GenesisRename, StateSwap, RenameStep, CheckedRenameStep, Goto, Fail, history
  <2>2. CASE UNCHANGED files
    BY <1>6, <1>8, <2>2
       DEF GenesisRename, StateSwap, RenameStep, CheckedRenameStep, Goto, Fail, history, files
  <2> QED BY <1>8, <2>1, <2>2
          DEF GenesisRename, StateSwap, RenameStep, CheckedRenameStep, Changed, Files
<1>9. CASE BootWrite
  <2>1. acked = Absent
    BY <1>9 DEF BootWrite, WriteStep, IInv, BootInv, MarkersRecent, Legacy
  <2>2. PICK m : WriteSlot("marker", m) /\ Recent(m)
    BY <1>9, <2>1 DEF BootWrite, WriteStep, AtLeast
  <2> QED BY <1>4, <1>9, <2>2 DEF BootWrite, WriteStep, Goto, Fail, history
<1>10. CASE PendingWrite \/ CleanWrite
  <2>1. \A phase \in {"PENDING", "CLEAN"} :
            Vouched(MarkerBytes(phase, call.generation, call.target)) = call.target
    BY <1>0, <1>10 DEF Vouched, MarkerBytes, Call, Value, PendingWrite, CleanWrite, WriteStep
  <2>2. PICK m : WriteSlot("marker", m) /\ Recent(m)
    BY <1>0, <1>10, <2>1 DEF PendingWrite, CleanWrite, WriteStep
  <2> QED BY <1>4, <1>10, <2>2 DEF PendingWrite, CleanWrite, WriteStep, Goto, Fail, history
<1>11. CASE BootRename \/ PendingSwap \/ CleanSwap
  <2>1. Recent(data["marker"][Slot("marker")])
    <3>1. CASE BootRename
      BY <3>1 DEF BootRename, CheckedRenameStep, IInv, BootInv, MarkersRecent, Legacy, AtLeast
    <3>2. CASE PendingSwap \/ CleanSwap
      BY <1>0, <3>2 DEF PendingSwap, CleanSwap, RenameStep, CheckedRenameStep, IInv, SwapInv
    <3> QED BY <1>11, <3>1, <3>2
  <2>2. CASE Rename("marker")
    BY <1>5, <1>11, <2>1, <2>2
       DEF BootRename, PendingSwap, CleanSwap, RenameStep, CheckedRenameStep, Goto, Fail, history
  <2>3. CASE UNCHANGED files
    BY <1>6, <1>11, <2>3
       DEF BootRename, PendingSwap, CleanSwap, RenameStep, CheckedRenameStep, Goto, Fail,
           history, files
  <2> QED BY <1>11, <2>2, <2>3
          DEF BootRename, PendingSwap, CleanSwap, RenameStep, CheckedRenameStep
<1>12. CASE OpenOrCreateDirectory \/ GenesisSync \/ PendingSync \/ StateSync \/ StateDone
  BY <1>6, <1>12
     DEF OpenOrCreateDirectory, GenesisSync, PendingSync, StateSync, StateDone, SyncStep,
         SyncDirectory, files, Goto, Fail, history
<1>13. CASE BootSync \/ CleanSync \/ CleanResync
  <2>1. CASE Goto("pendingWrite") \/ Goto("cleanResync") \/ Fail
    BY <1>6, <1>13, <2>1
       DEF BootSync, CleanSync, CleanResync, SyncDirectory, files, Goto, Fail, history,
           Acknowledge
  <2>2. CASE SyncDirectory /\ Acknowledge
    <3>1. /\ pc # "idle" /\ acked' = call.target /\ pc' = "idle"
          /\ data' = data /\ live' = live /\ disk' = live
      BY <1>13, <2>2 DEF BootSync, CleanSync, CleanResync, SyncDirectory, Acknowledge
    <3>2. live["marker"] # NoFile /\ Bytes(live, "marker") # Torn
          /\ Vouched(Bytes(live, "marker")) = call.target
      <4>0. ~Fail /\ ~Goto("pendingWrite") /\ ~Goto("cleanResync")
        BY <1>13, <2>2
           DEF BootSync, CleanSync, CleanResync, IInv, Settled, TypeOK, Acknowledge, Fail, Goto,
               history
      <4>1. CASE BootSync /\ call.creating
        <5>1. /\ live["marker"] # NoFile /\ Vouches(Bytes(live, "marker"), live)
              /\ Bytes(live, "snapshot") = call.target.snapshot
              /\ Bytes(live, "events") = call.target.events
          BY <4>1 DEF BootSync, IInv, BootInv, CreationInv, Creation, Boot, Bytes
        <5>2. Bytes(live, "marker") # Torn /\ call.target \in Value
          BY <1>0, <3>1, <5>1, SentinelAssumption DEF Vouches, Call
        <5> QED BY <5>1, <5>2 DEF Vouches, Vouched, Value
      <4>2. CASE CleanSync \/ CleanResync
        BY <3>1, <4>0, <4>2, AcceptedVouches DEF CleanSync, CleanResync
      <4>3. CASE BootSync /\ ~call.creating
        BY <4>0, <4>3 DEF BootSync
      <4> QED BY <1>13, <4>1, <4>2, <4>3
    <3>3. AtLeast(call.target, call.target)
      BY <1>0, <3>1 DEF AtLeast, Call, Value
    <3>4. Find(live)' /\ Find(disk)'
      BY <3>1, <3>2, <3>3 DEF Bytes
    <3> QED BY <3>1, <3>4 DEF MarkersRecent
  <2> QED BY <1>13, <2>1, <2>2 DEF BootSync, CleanSync, CleanResync
<1>14. CASE WriteBack
  BY <1>0, <1>6, <1>14 DEF WriteBack, FilesOK, Files, history
<1>15. CASE ProcessCrash \/ PowerLoss
  BY <1>6, <1>15 DEF ProcessCrash, PowerLoss, Fail, history, files, IInv, EntryDurable
<1> QED
  BY <1>2, <1>7, <1>8, <1>9, <1>10, <1>11, <1>12, <1>13, <1>14, <1>15 DEF Next

-----------------------------------------------------------------------------
(* A commit is acknowledged only over a directory that is written back. *)
LEMMA SettledStep ==
    ASSUME IInv, Next
    PROVE  Settled'
<1>1. CASE Create \/ SaveSnapshot \/ AppendEvent
  BY <1>1 DEF Create, SaveSnapshot, AppendEvent, Commit, Start, Settled
<1>2. CASE pc # "idle" /\ (Fail \/ \E step \in Steps : Goto(step))
  BY <1>2 DEF IInv, TypeOK, Settled, Fail, Goto, history
<1>3. CASE SyncDirectory /\ Acknowledge /\ Read(live) = call.target
  BY <1>3 DEF Settled, SyncDirectory, Acknowledge, Read, Stored, Vouches, Bytes
<1>4. CASE BootSync
  <2>1. CASE call.creating /\ SyncDirectory /\ Acknowledge
    <3>1. /\ live["marker"] # NoFile /\ live["snapshot"] # NoFile
          /\ Vouches(Bytes(live, "marker"), live)
          /\ Bytes(live, "snapshot") = call.target.snapshot
          /\ Bytes(live, "events") = call.target.events
          /\ call.target \in Value
      BY <1>4, <2>1
         DEF BootSync, IInv, TypeOK, Call, BootInv, CreationInv, Creation, Boot, Bytes
    <3>2. Read(live) = call.target
      BY <3>1 DEF Read, Stored, Value
    <3> QED BY <1>3, <2>1, <3>2
  <2> QED BY <1>2, <1>4, <2>1 DEF BootSync, Steps
<1>5. CASE CleanSync \/ CleanResync
  BY <1>2, <1>3, <1>5 DEF CleanSync, CleanResync, Accepted, Steps
<1>6. CASE WriteBack
  <2>1. doubt
    BY <1>6 DEF WriteBack, IInv, Settled, TypeOK
  <2> QED BY <1>6, <2>1 DEF WriteBack, Settled, history
<1>7. CASE ProcessCrash \/ PowerLoss
  <2>1. doubt /\ doubt' = doubt
    BY <1>7 DEF ProcessCrash, PowerLoss, Fail, history, IInv, Settled, EntryDurable, TypeOK
  <2> QED BY <2>1 DEF Settled
<1>8. CASE OpenOrCreateDirectory \/ StateDone
  BY <1>2, <1>8 DEF OpenOrCreateDirectory, StateDone, Steps
<1>9. CASE \/ GenesisWrite \/ GenesisRename \/ GenesisSync \/ BootWrite \/ BootRename
           \/ PendingWrite \/ PendingSwap \/ PendingSync
           \/ StateWrite \/ StateSwap \/ StateSync \/ CleanWrite \/ CleanSwap
  BY <1>2, <1>9
     DEF GenesisWrite, GenesisRename, GenesisSync, BootWrite, BootRename, PendingWrite,
         PendingSwap, PendingSync, StateWrite, StateSwap, StateSync, CleanWrite, CleanSwap,
         WriteStep, RenameStep, CheckedRenameStep, SyncStep, Steps
<1> QED
  BY <1>1, <1>4, <1>5, <1>6, <1>7, <1>8, <1>9 DEF Next

(* The directory entry of an acknowledged job is durable. *)
LEMMA EntryStep ==
    ASSUME MkdirDurable, IInv, Next
    PROVE  EntryDurable'
<1>1. CASE Create \/ SaveSnapshot \/ AppendEvent
  BY <1>1, StartRecent DEF IInv, EntryDurable, files
<1>2. CASE OpenOrCreateDirectory \/ PowerLoss \/ WriteBack \/ ProcessCrash
  BY <1>2 DEF OpenOrCreateDirectory, PowerLoss, WriteBack, ProcessCrash, IInv, EntryDurable, files
<1>3. CASE GenesisWrite \/ StateWrite \/ BootWrite \/ PendingWrite \/ CleanWrite
  BY <1>3 DEF GenesisWrite, StateWrite, BootWrite, PendingWrite, CleanWrite, WriteStep,
     WriteSlot, IInv, EntryDurable
<1>4. CASE GenesisRename \/ BootRename \/ PendingSwap \/ StateSwap \/ CleanSwap
  BY <1>4 DEF GenesisRename, BootRename, PendingSwap, StateSwap, CleanSwap, RenameStep,
     CheckedRenameStep, Rename, files, IInv, EntryDurable
<1>5. CASE GenesisSync \/ BootSync \/ PendingSync \/ StateSync \/ CleanSync \/ CleanResync
  BY <1>5 DEF GenesisSync, BootSync, PendingSync, StateSync, CleanSync, CleanResync, SyncStep,
     SyncDirectory, files, IInv, EntryDurable
<1>6. CASE StateDone
  BY <1>6 DEF StateDone, files, IInv, EntryDurable
<1> QED
  BY <1>1, <1>2, <1>3, <1>4, <1>5, <1>6 DEF Next

-----------------------------------------------------------------------------
(* The invariant holds initially. *)
LEMMA InitInv == Init => IInv
<1> SUFFICES ASSUME Init  PROVE IInv
  OBVIOUS
<1> USE DEF Init
<1>1. TypeOK
  <2>1. FilesOK
    BY DEF FilesOK, Contents, NoFiles
  <2>2. calls \in 0 .. MaxCalls
    BY BoundsAssumption
  <2> QED BY <2>1, <2>2 DEF TypeOK, Steps
<1>2. Settled /\ EntryDurable
  BY DEF Settled, EntryDurable, Read, NoFiles, Files
<1>3. CreationInv /\ CreatingOnly /\ LogKept /\ BootInv /\ SwapInv
  BY DEF CreationInv, CreatingOnly, LogKept, BootInv, SwapInv, Creation
<1>4. NamesBegun /\ MarkersRecent
  BY DEF NamesBegun, MarkersRecent, NoFiles, Files
<1> QED BY <1>1, <1>2, <1>3, <1>4 DEF IInv

(* Every step preserves the invariant. *)
LEMMA StepInv == MkdirDurable /\ IInv /\ [Next]_vars => IInv'
<1> SUFFICES ASSUME MkdirDurable, IInv, [Next]_vars  PROVE IInv'
  OBVIOUS
<1>1. CASE Next
  BY <1>1, TypeStep, CreationStep, MarkerStep, NamesStep, RecentStep, SettledStep, EntryStep
     DEF IInv
<1>2. CASE UNCHANGED vars
  <2> USE <1>2 DEF vars, files, history
  <2>1. TypeOK'
    BY TypeStep DEF IInv
  <2>2. Settled' /\ EntryDurable' /\ LogKept'
    BY DEF IInv, Settled, EntryDurable, LogKept, Read, Stored, Vouches, Bytes
  <2>3. CreationInv' /\ CreatingOnly' /\ SwapInv'
    BY DEF IInv, CreationInv, CreatingOnly, SwapInv, Bytes, Slot
  <2>4. BootInv'
    BY DEF IInv, BootInv, Read, Stored, Vouches, Bytes, Legacy, Slot
  <2>5. NamesBegun' /\ MarkersRecent'
    BY DEF IInv, NamesBegun, MarkersRecent, Bytes
  <2> QED BY <2>1, <2>2, <2>3, <2>4, <2>5 DEF IInv
<1> QED BY <1>1, <1>2

(* The invariant holds in every state. *)
LEMMA AlwaysInv == ASSUME MkdirDurable PROVE Spec => []IInv
<1>1. IInv /\ [Next]_vars => IInv'
  BY StepInv
<1> QED BY <1>1, InitInv, PTL DEF Spec

(* The job store's variables keep their types: in particular no marker     *)
(* carries a generation above MAX_GENERATION.                              *)
THEOREM TypeCorrect == ASSUME MkdirDurable PROVE Spec => []TypeOK
<1>1. IInv => TypeOK
  BY DEF IInv
<1> QED BY <1>1, AlwaysInv, PTL

(* What append_event and save_snapshot acknowledged is what readers see,   *)
(* and would still see after a power loss, until the next call begins.     *)
THEOREM Durability == ASSUME MkdirDurable PROVE Spec => []DurableOnceAcknowledged
<1>1. IInv => DurableOnceAcknowledged
  BY DEF IInv, Settled, EntryDurable, DurableOnceAcknowledged, Remains, Read, Stored, Vouches,
     Bytes
<1> QED BY <1>1, AlwaysInv, PTL

(* No interrupted call, retry or crash ever lets a reader see something    *)
(* older than the last acknowledged value.                                 *)
THEOREM NothingOlder == ASSUME MkdirDurable PROVE Spec => []NeverOlderThanAcknowledged
<1>1. IInv => NeverOlderThanAcknowledged
  <2> SUFFICES ASSUME IInv  PROVE NeverOlderThanAcknowledged
    OBVIOUS
  <2>1. Remains = Read(disk)
    BY DEF IInv, EntryDurable, Remains
  <2> QED BY <2>1, ReadRecent DEF NeverOlderThanAcknowledged
<1> QED BY <1>1, AlwaysInv, PTL
-----------------------------------------------------------------------------
(* The register.  What a power loss would leave is told by the markers of  *)
(* the directory and of the disk: the marker in place is CLEAN, or else    *)
(* the disk keeps either the same marker or the files the call began with. *)

IsClean(d) ==
    /\ d["marker"] # NoFile
    /\ Bytes(d, "marker") \in Marker
    /\ Bytes(d, "marker").phase = "CLEAN"

(* Neither the directory nor the disk can be read any more. *)
Stuck == live["marker"] # NoFile /\ disk["marker"] = live["marker"] /\ ~IsClean(live)

SameFiles == disk["snapshot"] = live["snapshot"] /\ disk["events"] = live["events"]

(* What the disk holds of the directory, between two fsyncs. *)
DiskFollows ==
    /\ \A f \in Files : live[f] = NoFile => disk[f] = NoFile
    /\ Stuck \/ (disk["events"] = live["events"] /\ disk["snapshot"] \in {live["snapshot"], NoFile})
    /\ IsClean(live) /\ disk["marker"] # live["marker"] => Read(live) \in Value /\ ~IsClean(disk)
    /\ live["marker"] # NoFile /\ ~IsClean(live) /\ ~Stuck => base = Stored(live)

(* What a commit has made of it by the step it is about to take. *)
CommitInv ==
    /\ pc \in Boot /\ ~call.creating => base = Stored(live)
    /\ pc \in {"pendingWrite", "pendingSwap"} => IsClean(live) /\ base = Stored(live)
    /\ pc = "pendingSwap" => data["marker"][Slot("marker")].phase = "PENDING"
    /\ pc = "pendingSync" => live["marker"] # NoFile /\ ~IsClean(live)
    /\ pc \in {"stateWrite", "stateSwap", "stateSync", "cleanWrite", "cleanSwap"} => Stuck
    /\ pc \in {"cleanWrite", "cleanSwap", "cleanSync", "cleanResync"} => SameFiles
    /\ pc \in {"stateSync", "cleanWrite", "cleanSwap"} => Stored(live) = call.target
    /\ pc = "cleanSwap" => data["marker"][Slot("marker")].phase = "CLEAN"

RInv == IInv /\ DiskFollows /\ CommitInv

(* A slot is not the file: nothing that is read changes with it. *)
LEMMA WriteSlotReads ==
    ASSUME FilesOK, NEW f \in Files, NEW bytes, WriteSlot(f, bytes)
    PROVE  /\ live' = live /\ disk' = disk
           /\ \A g \in Files : Bytes(live, g)' = Bytes(live, g) /\ Slot(g)' = Slot(g)
           /\ Stored(live)' = Stored(live) /\ Read(live)' = Read(live)
           /\ IsClean(live)' = IsClean(live)
           /\ f # "marker" => Bytes(disk, "marker")' = Bytes(disk, "marker")
           /\ data'[f][Slot(f)] = bytes
           /\ \A g \in Files : g # f => data'[g] = data[g]
<1>1. live' = live /\ disk' = disk /\ Slot(f) \in Inodes /\ Slot(f) # live[f]
  BY SlotType DEF WriteSlot
<1>2. /\ data'[f][Slot(f)] = bytes
      /\ \A i \in Inodes : i # Slot(f) => data'[f][i] = data[f][i]
      /\ \A g \in Files : g # f => data'[g] = data[g]
  BY <1>1 DEF WriteSlot, FilesOK
<1>3. \A g \in Files : Bytes(live, g)' = Bytes(live, g)
  BY <1>1, <1>2 DEF Bytes, FilesOK
<1>4. \A g \in Files : Slot(g)' = Slot(g)
  BY <1>1 DEF Slot
<1>5. Stored(live)' = Stored(live) /\ Read(live)' = Read(live) /\ IsClean(live)' = IsClean(live)
  BY <1>1, <1>3 DEF Stored, Read, Vouches, IsClean, Files
<1>6. f # "marker" => Bytes(disk, "marker")' = Bytes(disk, "marker")
  BY <1>1, <1>2 DEF Bytes, Files
<1> QED BY <1>1, <1>2, <1>3, <1>4, <1>5, <1>6

(* Files that are not written are read as before. *)
LEMMA SameReads ==
    ASSUME UNCHANGED <<live, data>>
    PROVE  /\ Stored(live)' = Stored(live) /\ Read(live)' = Read(live)
           /\ IsClean(live)' = IsClean(live) /\ Slot("marker")' = Slot("marker")
           /\ \A f \in Files : Bytes(live, f)' = Bytes(live, f)
BY DEF Stored, Read, Vouches, IsClean, Slot, Bytes

(* The name of a file is given to its slot. *)
LEMMA RenameReads ==
    ASSUME FilesOK, NEW f \in Files, Rename(f)
    PROVE  /\ live'[f] = Slot(f) /\ live'[f] # NoFile /\ disk' = disk /\ data' = data
           /\ \A g \in Files : g # f => live'[g] = live[g] /\ Bytes(live, g)' = Bytes(live, g)
           /\ Bytes(live, f)' = data[f][Slot(f)]
           /\ IsClean(disk)' = IsClean(disk)
           /\ f = "marker" => Stored(live)' = Stored(live)
           /\ f # "marker" => IsClean(live)' = IsClean(live)
<1>1. /\ live'[f] = Slot(f) /\ live'[f] # NoFile /\ disk' = disk /\ data' = data
      /\ \A g \in Files : g # f => live'[g] = live[g]
  BY SlotType, SentinelAssumption DEF Rename, FilesOK, Inodes
<1>2. \A g \in Files : g # f => Bytes(live, g)' = Bytes(live, g)
  BY <1>1 DEF Bytes
<1>3. Bytes(live, f)' = data[f][Slot(f)] /\ IsClean(disk)' = IsClean(disk)
  BY <1>1 DEF Bytes, IsClean
<1>4. f = "marker" => Stored(live)' = Stored(live)
  BY <1>2 DEF Stored, Files
<1>5. f # "marker" => IsClean(live)' = IsClean(live)
  BY <1>1, <1>2 DEF IsClean, Files
<1> QED BY <1>1, <1>2, <1>3, <1>4, <1>5

(* A job that can be read has a CLEAN marker, or none yet. *)
LEMMA ReadClean ==
    ASSUME FilesOK, NEW d \in [Files -> Inodes \cup {NoFile}], Read(d) \in Value
    PROVE  Read(d) = Stored(d) /\ (Legacy(d) \/ IsClean(d)) /\ d["snapshot"] # NoFile
<1>1. Read(d) = Stored(d)
  BY ReadType
<1>2. ~Legacy(d) => IsClean(d)
  BY ReadType DEF Legacy, IsClean, Vouches
<1>3. d["snapshot"] # NoFile
  BY <1>1, SentinelAssumption DEF Stored, Bytes, Value
<1> QED BY <1>1, <1>2, <1>3

(* Every step keeps what is known of the disk and of the commit. *)
LEMMA FollowStep ==
    ASSUME MkdirDurable, RInv, Next
    PROVE  DiskFollows' /\ CommitInv'
<1>0. /\ FilesOK /\ SentinelAssumption /\ "marker" \in Files
      /\ live \in [Files -> Inodes \cup {NoFile}] /\ disk \in [Files -> Inodes \cup {NoFile}]
      /\ IInv /\ DiskFollows /\ CommitInv
  BY SentinelAssumption DEF RInv, IInv, TypeOK, FilesOK, Files
<1>1. ASSUME pc' = "idle" PROVE CommitInv'
  BY <1>1 DEF CommitInv, Boot
<1>2. CASE Create \/ SaveSnapshot \/ AppendEvent
  <2>1. UNCHANGED <<live, disk, data>> /\ base' = Read(live)
    BY <1>2 DEF Create, SaveSnapshot, AppendEvent, Commit, Start, files
  <2>2. Read(live)' = Read(live) /\ Stored(live)' = Stored(live)
        /\ IsClean(live)' = IsClean(live) /\ IsClean(disk)' = IsClean(disk) /\ Stuck' = Stuck
    BY <2>1 DEF Read, Stored, Vouches, Bytes, IsClean, Stuck
  <2>3. CASE Create
    <3>1. \A f \in Files : live[f] = NoFile
      BY <1>0, <2>3, ReadType DEF Create
    <3>2. pc' = "mkdir"
      BY <2>3 DEF Create, Start
    <3> QED BY <1>0, <2>1, <2>2, <3>1, <3>2 DEF DiskFollows, CommitInv, Boot
  <2>4. CASE SaveSnapshot \/ AppendEvent
    <3>1. /\ Read(live) \in Value
          /\ \/ Legacy(live) /\ pc' = "bootWrite"
             \/ ~Legacy(live) /\ pc' = "pendingWrite"
      BY <2>4 DEF SaveSnapshot, AppendEvent, Commit, Start
    <3>2. Read(live) = Stored(live) /\ (Legacy(live) \/ IsClean(live))
      BY <1>0, <3>1, ReadClean
    <3>3. live["marker"] # NoFile => IsClean(live)
      BY <3>2 DEF Legacy
    <3> QED BY <1>0, <2>1, <2>2, <3>1, <3>2, <3>3 DEF DiskFollows, CommitInv, Boot, Legacy
  <2> QED BY <1>2, <2>3, <2>4
<1>3. ASSUME UNCHANGED <<live, disk, data, base>>
      PROVE  /\ DiskFollows' /\ Stuck' = Stuck /\ SameFiles' = SameFiles
             /\ Stored(live)' = Stored(live) /\ IsClean(live)' = IsClean(live)
             /\ Slot("marker")' = Slot("marker")
  <2>1. /\ Read(live)' = Read(live) /\ Stored(live)' = Stored(live)
        /\ IsClean(live)' = IsClean(live) /\ IsClean(disk)' = IsClean(disk) /\ Stuck' = Stuck
        /\ SameFiles' = SameFiles /\ Slot("marker")' = Slot("marker")
    BY <1>3 DEF Read, Stored, Vouches, Bytes, IsClean, Stuck, SameFiles, Slot
  <2> QED BY <1>0, <1>3, <2>1 DEF DiskFollows
<1>4. CASE OpenOrCreateDirectory \/ ProcessCrash
  <2>1. UNCHANGED <<live, disk, data, base>> /\ pc' \in {"idle", "genesisWrite"}
    BY <1>4 DEF OpenOrCreateDirectory, ProcessCrash, files, Goto, Fail, history
  <2> QED BY <1>3, <2>1 DEF CommitInv, Boot
<1>5. CASE StateDone
  <2>1. /\ UNCHANGED <<live, disk, data, base, call>> /\ pc = "stateWrite" /\ pc' = "stateSync"
        /\ Changed = {}
    BY <1>5 DEF StateDone, files, Goto, history
  <2>2. call.target \in Value
    BY <1>0, <2>1 DEF IInv, TypeOK, Call
  <2>3. Stored(live) = call.target
    BY <2>1, <2>2 DEF Changed, Stored, Value
  <2> QED BY <1>0, <1>3, <2>1, <2>3 DEF CommitInv, Boot
<1>6. ASSUME NEW f \in Files, NEW bytes, WriteSlot(f, bytes), base' = base,
             f = "marker" => Stuck \/ bytes = Torn \/ ~(bytes \in Marker /\ bytes.phase = "CLEAN")
                             \/ live["marker"] = NoFile
      PROVE  /\ DiskFollows' /\ Stuck' = Stuck /\ SameFiles' = SameFiles
             /\ Stored(live)' = Stored(live) /\ IsClean(live)' = IsClean(live)
             /\ Slot("marker")' = Slot("marker") /\ UNCHANGED <<live, disk>>
             /\ data'[f][Slot(f)] = bytes
  <2>1. /\ live' = live /\ disk' = disk
        /\ Stored(live)' = Stored(live) /\ Read(live)' = Read(live)
        /\ IsClean(live)' = IsClean(live) /\ Slot("marker")' = Slot("marker")
        /\ f # "marker" => Bytes(disk, "marker")' = Bytes(disk, "marker")
        /\ data'[f][Slot(f)] = bytes
    BY <1>0, <1>6, WriteSlotReads
  <2>2. Stuck' = Stuck /\ SameFiles' = SameFiles
    BY <2>1 DEF Stuck, SameFiles
  <2>3. disk["marker"] # live["marker"] /\ IsClean(live) /\ ~IsClean(disk) => ~IsClean(disk)'
    <3>1. CASE f # "marker"
      BY <2>1, <3>1 DEF IsClean
    <3>2. CASE f = "marker" /\ IsClean(live)
      <4>1. bytes = Torn \/ ~(bytes \in Marker /\ bytes.phase = "CLEAN")
        BY <1>6, <3>2 DEF Stuck, IsClean
      <4>2. \A i \in Inodes : i # Slot("marker") => data'["marker"][i] = data["marker"][i]
        BY <1>0, <1>6, <3>2 DEF WriteSlot, FilesOK
      <4>3. disk["marker"] \in Inodes \cup {NoFile}
        BY <1>0
      <4> QED BY <2>1, <3>2, <4>1, <4>2, <4>3, SentinelAssumption DEF IsClean, Bytes
    <3> QED BY <3>1, <3>2
  <2> QED BY <1>0, <1>6, <2>1, <2>2, <2>3 DEF DiskFollows
<1>7. CASE GenesisWrite
  <2>1. PICK bytes : WriteSlot("snapshot", bytes) /\ base' = base
    BY <1>7 DEF GenesisWrite, WriteStep, Goto, Fail, history
  <2>2. DiskFollows'
    BY <1>6, <2>1 DEF Files
  <2>3. pc' \in {"genesisRename", "idle"}
    BY <1>7 DEF GenesisWrite, WriteStep, Goto, Fail
  <2> QED BY <2>2, <2>3 DEF CommitInv, Boot
<1>8. CASE BootWrite
  <2>1. PICK bytes : WriteSlot("marker", bytes) /\ base' = base
    BY <1>8 DEF BootWrite, WriteStep, Goto, Fail, history
  <2>2. live["marker"] = NoFile /\ pc = "bootWrite"
    BY <1>0, <1>8 DEF BootWrite, WriteStep, IInv, BootInv, Legacy
  <2>3. DiskFollows' /\ Stored(live)' = Stored(live)
    BY <1>0, <1>6, <2>1, <2>2
  <2>4. pc' = "idle" \/ (pc' = "bootRename" /\ call' = call)
    BY <1>8 DEF BootWrite, WriteStep, Goto, Fail
  <2> QED BY <1>0, <1>1, <2>1, <2>2, <2>3, <2>4 DEF CommitInv, Boot
<1>9. CASE PendingWrite
  <2>1. PICK bytes \in {MarkerBytes("PENDING", call.generation, call.target), Torn} :
          /\ WriteSlot("marker", bytes) /\ base' = base
          /\ pc' = "idle" \/ (bytes # Torn /\ pc' = "pendingSwap")
    <3>1. MarkerBytes("PENDING", call.generation, call.target) # Torn
      <4>1. call.target \in Value /\ call.generation \in 0 .. MaxGeneration
        BY <1>0, <1>9 DEF PendingWrite, WriteStep, IInv, TypeOK, Call
      <4> QED BY <4>1, SentinelAssumption DEF MarkerBytes, Marker, Value
    <3> QED BY <1>9, <3>1 DEF PendingWrite, WriteStep, Goto, Fail, history
  <2>2. bytes = Torn \/ bytes.phase = "PENDING"
    BY <2>1 DEF MarkerBytes
  <2>3. /\ DiskFollows' /\ Stored(live)' = Stored(live) /\ IsClean(live)' = IsClean(live)
        /\ Slot("marker")' = Slot("marker") /\ data'["marker"][Slot("marker")] = bytes
    BY <1>0, <1>6, <2>1, <2>2
  <2>4. pc = "pendingWrite"
    BY <1>9 DEF PendingWrite, WriteStep
  <2> QED BY <1>0, <1>1, <2>1, <2>2, <2>3, <2>4 DEF CommitInv, Boot
<1>10. CASE StateWrite
  <2>1. PICK f \in Files \ {"marker"} : \E bytes : WriteSlot(f, bytes)
    BY <1>10 DEF StateWrite, WriteStep, Changed, Files
  <2>2. /\ base' = base /\ pc = "stateWrite" /\ pc' \in {"idle", "stateSwap"}
    BY <1>10 DEF StateWrite, WriteStep, Goto, Fail, history
  <2>3. DiskFollows' /\ Stuck' = Stuck
    BY <1>6, <2>1, <2>2
  <2> QED BY <1>0, <1>1, <2>2, <2>3 DEF CommitInv, Boot
<1>11. CASE CleanWrite
  <2>1. PICK bytes \in {MarkerBytes("CLEAN", call.generation, call.target), Torn} :
          /\ WriteSlot("marker", bytes) /\ base' = base
          /\ pc' = "idle" \/ (bytes # Torn /\ pc' = "cleanSwap" /\ call' = call)
    <3>1. MarkerBytes("CLEAN", call.generation, call.target) # Torn
      <4>1. call.target \in Value /\ call.generation \in 0 .. MaxGeneration
        BY <1>0, <1>11 DEF CleanWrite, WriteStep, IInv, TypeOK, Call
      <4> QED BY <4>1, SentinelAssumption DEF MarkerBytes, Marker, Value
    <3> QED BY <1>11, <3>1 DEF CleanWrite, WriteStep, Goto, Fail, history
  <2>2. pc = "cleanWrite" /\ Stuck
    BY <1>0, <1>11 DEF CleanWrite, WriteStep, CommitInv
  <2>3. /\ DiskFollows' /\ Stored(live)' = Stored(live) /\ Stuck' = Stuck
        /\ SameFiles' = SameFiles
        /\ Slot("marker")' = Slot("marker") /\ data'["marker"][Slot("marker")] = bytes
    BY <1>0, <1>6, <2>1, <2>2
  <2>4. bytes # Torn => bytes.phase = "CLEAN"
    BY <2>1 DEF MarkerBytes
  <2> QED BY <1>0, <1>1, <2>1, <2>2, <2>3, <2>4 DEF CommitInv, Boot
<1>12. CASE GenesisRename
  <2>1. pc = "genesisRename" /\ pc' \in {"idle", "genesisSync"} /\ base' = base
    BY <1>12 DEF GenesisRename, CheckedRenameStep, Goto, Fail, history
  <2>2. CASE Rename("snapshot")
    <3>1. live["marker"] = NoFile /\ live["snapshot"] = NoFile
      BY <1>0, <2>1 DEF IInv, CreatingOnly, CreationInv, Creation, Boot
    <3>2. /\ live'["marker"] = NoFile /\ live'["events"] = live["events"] /\ disk' = disk
          /\ live'["snapshot"] # NoFile /\ disk["snapshot"] = NoFile
      BY <1>0, <2>2, <3>1, RenameReads DEF Files, DiskFollows
    <3>3. DiskFollows'
      BY <1>0, <3>1, <3>2 DEF DiskFollows, Stuck, IsClean, Files
    <3> QED BY <2>1, <3>3 DEF CommitInv, Boot
  <2>3. CASE UNCHANGED files
    BY <1>3, <2>1, <2>3 DEF files, CommitInv, Boot
  <2> QED BY <1>12, <2>2, <2>3 DEF GenesisRename, CheckedRenameStep
<1>13. CASE BootRename
  <2>1. pc = "bootRename" /\ base' = base
    BY <1>13 DEF BootRename, CheckedRenameStep, Goto, Fail, history
  <2>2. CASE Rename("marker") /\ Goto("bootSync")
    <3>1. live["marker"] = NoFile /\ disk["marker"] = NoFile /\ Read(live) \in Value
      BY <1>0, <2>1 DEF IInv, BootInv, Legacy, DiskFollows
    <3>2. /\ live'["marker"] # NoFile /\ disk' = disk /\ Stored(live)' = Stored(live)
          /\ \A g \in {"snapshot", "events"} : live'[g] = live[g]
      BY <1>0, <2>2, RenameReads DEF Files
    <3>3. Vouches(Bytes(live, "marker"), live)' /\ live'["snapshot"] # NoFile
      BY <1>0, <1>13, <2>2, <3>1, <3>2, MarkerStep, ReadClean DEF BootInv, Goto
    <3>4. IsClean(live)' /\ Read(live)' = Stored(live) /\ ~IsClean(disk)'
      BY <3>1, <3>2, <3>3 DEF IsClean, Vouches, Read
    <3>5. Stored(live) \in Value
      BY <1>0, <3>1, ReadClean
    <3>6. ~Stuck' /\ ~Stuck
      BY <3>1, <3>4 DEF Stuck
    <3>7. DiskFollows'
      BY <1>0, <3>1, <3>2, <3>4, <3>5, <3>6 DEF DiskFollows, Files
    <3> QED BY <1>0, <2>1, <2>2, <3>2, <3>7 DEF CommitInv, Boot, Goto
  <2>3. CASE UNCHANGED files /\ Fail
    BY <1>1, <1>3, <2>1, <2>3 DEF files, Fail
  <2> QED BY <1>13, <2>2, <2>3 DEF BootRename, CheckedRenameStep
<1>14. CASE PendingSwap
  <2>1. pc = "pendingSwap" /\ pc' \in {"idle", "pendingSync"} /\ base' = base
        /\ IsClean(live) /\ base = Stored(live)
        /\ data["marker"][Slot("marker")].phase = "PENDING"
    BY <1>0, <1>14 DEF PendingSwap, RenameStep, Goto, Fail, history, CommitInv
  <2>2. CASE Rename("marker")
    <3>1. /\ live'["marker"] # NoFile /\ disk' = disk /\ Stored(live)' = Stored(live)
          /\ \A g \in {"snapshot", "events"} : live'[g] = live[g]
          /\ Bytes(live, "marker")' = data["marker"][Slot("marker")]
      BY <1>0, <2>2, RenameReads DEF Files
    <3>2. ~IsClean(live)' /\ ~Stuck
      BY <2>1, <3>1 DEF IsClean, Stuck
    <3>3. DiskFollows'
      BY <1>0, <2>1, <3>1, <3>2 DEF DiskFollows, Files
    <3> QED BY <2>1, <3>1, <3>2, <3>3 DEF CommitInv, Boot
  <2>3. CASE UNCHANGED files /\ Fail
    BY <1>1, <1>3, <2>1, <2>3 DEF files, Fail
  <2> QED BY <1>14, <2>2, <2>3 DEF PendingSwap, RenameStep
<1>15. CASE StateSwap
  <2>1. pc = "stateSwap" /\ pc' \in {"idle", "stateWrite"} /\ base' = base /\ Stuck
    BY <1>0, <1>15 DEF StateSwap, RenameStep, Goto, Fail, history, CommitInv
  <2>2. CASE \E f \in Files \ {"marker"} : Rename(f)
    <3>1. PICK f \in Files \ {"marker"} : Rename(f)
      BY <2>2
    <3>2. /\ live'["marker"] = live["marker"] /\ disk' = disk /\ live'[f] # NoFile
          /\ \A g \in Files : g # f => live'[g] = live[g]
          /\ IsClean(live)' = IsClean(live)
      BY <1>0, <3>1, RenameReads
    <3>3. Stuck'
      BY <2>1, <3>2 DEF Stuck
    <3>4. DiskFollows'
      BY <1>0, <3>2, <3>3 DEF DiskFollows, Stuck
    <3> QED BY <2>1, <3>3, <3>4 DEF CommitInv, Boot
  <2>3. CASE UNCHANGED files /\ Fail
    BY <1>1, <1>3, <2>1, <2>3 DEF files, Fail
  <2> QED BY <1>15, <2>2, <2>3 DEF StateSwap, RenameStep, Changed, Files
<1>16. CASE CleanSwap
  <2>1. /\ pc = "cleanSwap" /\ base' = base /\ Stuck /\ SameFiles
        /\ Stored(live) = call.target /\ call.target \in Value
        /\ data["marker"][Slot("marker")].phase = "CLEAN"
    BY <1>0, <1>16
       DEF CleanSwap, CheckedRenameStep, Goto, Fail, history, CommitInv, IInv, TypeOK, Call
  <2>2. CASE Rename("marker") /\ pc' \in {"cleanSync", "cleanResync"}
    <3>1. /\ live'["marker"] = Slot("marker") /\ live'["marker"] # NoFile /\ disk' = disk
          /\ Stored(live)' = Stored(live) /\ IsClean(disk)' = IsClean(disk)
          /\ \A g \in {"snapshot", "events"} :
                live'[g] = live[g] /\ Bytes(live, g)' = Bytes(live, g)
          /\ Bytes(live, "marker")' = data["marker"][Slot("marker")]
      BY <1>0, <2>2, RenameReads DEF Files
    <3>2. data["marker"][Slot("marker")] \in Marker
          /\ Vouched(data["marker"][Slot("marker")]) = call.target
      <4>1. Slot("marker") \in Inodes
        BY <1>0, SlotType
      <4>2. data["marker"][Slot("marker")] \in Marker \cup {Torn}
        BY <1>0, <4>1 DEF FilesOK, Contents
      <4> QED BY <1>0, <2>1, <4>2 DEF IInv, SwapInv
    <3>3. IsClean(live)'
      BY <2>1, <3>1, <3>2 DEF IsClean
    <3>4. Bytes(live, "snapshot") = call.target.snapshot /\ Bytes(live, "events") = call.target.events
      BY <2>1 DEF Stored
    <3>5. live["snapshot"] # NoFile
      BY <2>1, <3>4, SentinelAssumption DEF Bytes, Value
    <3>6. Vouches(Bytes(live, "marker"), live)'
      BY <2>1, <3>1, <3>2, <3>4 DEF Vouches, Vouched
    <3>7. Read(live)' = call.target
      BY <2>1, <3>1, <3>5, <3>6 DEF Read
    <3>8. ~IsClean(disk)'
      BY <2>1, <3>1 DEF Stuck, IsClean, Bytes
    <3>9. DiskFollows'
      BY <1>0, <2>1, <3>1, <3>3, <3>7, <3>8 DEF DiskFollows, SameFiles, Files
    <3> QED BY <2>1, <2>2, <3>1, <3>9 DEF CommitInv, Boot, SameFiles
  <2>3. CASE UNCHANGED files /\ Fail
    BY <1>1, <1>3, <2>1, <2>3 DEF files, Fail
  <2> QED BY <1>16, <2>2, <2>3 DEF CleanSwap, CheckedRenameStep, Goto
<1>17. ASSUME UNCHANGED <<live, data, base>>, disk' = live
       PROVE  /\ DiskFollows' /\ SameFiles' /\ Stored(live)' = Stored(live)
              /\ IsClean(live)' = IsClean(live)
              /\ live["marker"] # NoFile /\ ~IsClean(live) => Stuck'
  <2>1. Stored(live)' = Stored(live) /\ IsClean(live)' = IsClean(live)
    BY <1>17, SameReads
  <2> QED BY <1>17, <2>1 DEF DiskFollows, SameFiles, Stuck
<1>18. CASE GenesisSync \/ PendingSync \/ StateSync
  <2>1. base' = base
    BY <1>18 DEF GenesisSync, PendingSync, StateSync, SyncStep, Goto, Fail, history
  <2>2. CASE SyncDirectory /\ pc' # "idle" /\ call' = call
    <3>1. UNCHANGED <<live, data, base>> /\ disk' = live
      BY <2>1, <2>2 DEF SyncDirectory
    <3>2. \/ pc = "genesisSync" /\ pc' = "bootWrite" /\ call.creating
          \/ pc = "pendingSync" /\ pc' = "stateWrite"
          \/ pc = "stateSync" /\ pc' = "cleanWrite"
      BY <1>0, <1>18, <2>2
         DEF GenesisSync, PendingSync, StateSync, SyncStep, Goto, Fail, IInv, CreatingOnly, Creation
    <3>3. pc \in {"pendingSync", "stateSync"} => Stuck'
      BY <1>0, <1>17, <3>1 DEF CommitInv, Stuck
    <3> QED BY <1>0, <1>17, <2>2, <3>1, <3>2, <3>3 DEF CommitInv, Boot
  <2>3. CASE UNCHANGED files /\ Fail
    BY <1>1, <1>3, <2>1, <2>3 DEF files, Fail
  <2> QED BY <1>18, <2>2, <2>3 DEF GenesisSync, PendingSync, StateSync, SyncStep, Goto
<1>19. CASE BootSync
  <2>1. pc = "bootSync"
    BY <1>19 DEF BootSync
  <2>2. CASE SyncDirectory /\ Goto("pendingWrite") /\ ~call.creating
    <3>1. UNCHANGED <<live, data, base>> /\ disk' = live /\ pc' = "pendingWrite"
      BY <2>2 DEF SyncDirectory, Goto, history
    <3>2. IsClean(live) /\ base = Stored(live)
      BY <1>0, <2>1, <2>2 DEF IInv, BootInv, CommitInv, Boot, Vouches, IsClean
    <3> QED BY <1>17, <3>1, <3>2 DEF CommitInv, Boot
  <2>3. CASE SyncDirectory /\ Acknowledge
    <3>1. /\ live' = live /\ data' = data /\ disk' = live /\ pc' = "idle"
          /\ live["marker"] # NoFile /\ IsClean(live)
      BY <1>0, <2>1, <2>3 DEF SyncDirectory, Acknowledge, IInv, BootInv, Vouches, IsClean
    <3>2. IsClean(live)'
      BY <3>1, SameReads
    <3> QED BY <1>1, <3>1, <3>2 DEF DiskFollows
  <2>4. CASE UNCHANGED files /\ Fail
    BY <1>1, <1>3, <2>4 DEF files, Fail, history
  <2> QED BY <1>19, <2>2, <2>3, <2>4 DEF BootSync
<1>20. CASE CleanSync \/ CleanResync
  <2>1. pc \in {"cleanSync", "cleanResync"} /\ SameFiles
    BY <1>0, <1>20 DEF CleanSync, CleanResync, CommitInv
  <2>2. CASE SyncDirectory /\ Accepted /\ Acknowledge
    <3>1. live' = live /\ data' = data /\ disk' = live /\ pc' = "idle"
      BY <2>2 DEF SyncDirectory, Acknowledge
    <3>2. IsClean(live)
      <4>1. Read(live) \in Value /\ ~Legacy(live)
        BY <1>0, <2>1, <2>2 DEF Accepted, IInv, TypeOK, Call
      <4> QED BY <1>0, <4>1, ReadClean
    <3>3. IsClean(live)'
      BY <3>1, <3>2, SameReads
    <3> QED BY <1>1, <3>1, <3>3 DEF DiskFollows
  <2>3. CASE UNCHANGED files /\ (Goto("cleanResync") \/ Fail)
    <3>1. UNCHANGED <<live, disk, data, base>> /\ pc' \in {"idle", "cleanResync"}
      BY <2>3 DEF files, Goto, Fail, history
    <3> QED BY <1>3, <2>1, <3>1 DEF CommitInv, Boot
  <2> QED BY <1>20, <2>2, <2>3 DEF CleanSync, CleanResync
<1>21. CASE WriteBack
  <2>1. PICK f \in Files : disk' = [disk EXCEPT ![f] = live[f]]
    BY <1>21 DEF WriteBack
  <2>2. UNCHANGED <<live, data, pc, call, base>>
    BY <1>21 DEF WriteBack, history
  <2>3. /\ disk'[f] = live[f]
        /\ \A g \in Files : g # f => disk'[g] = disk[g]
    BY <1>0, <2>1
  <2>4. /\ Stored(live)' = Stored(live) /\ IsClean(live)' = IsClean(live) /\ Read(live)' = Read(live)
        /\ Slot("marker")' = Slot("marker")
    BY <2>2, SameReads
  <2>5. (Stuck => Stuck') /\ (SameFiles => SameFiles')
    BY <2>2, <2>3, <2>4 DEF Stuck, SameFiles, Files
  <2>6. disk'["marker"] # live["marker"] => disk'["marker"] = disk["marker"]
        /\ IsClean(disk)' = IsClean(disk) /\ Stuck' = Stuck
    BY <2>2, <2>3, <2>4 DEF IsClean, Bytes, Stuck, Files
  <2>7. disk'["marker"] = live["marker"] /\ live["marker"] # NoFile /\ ~IsClean(live) => Stuck'
    BY <2>2, <2>4 DEF Stuck
  <2>8. DiskFollows'
    BY <1>0, <2>2, <2>3, <2>4, <2>5, <2>6, <2>7 DEF DiskFollows, Files
  <2> QED BY <1>0, <2>2, <2>4, <2>5, <2>8 DEF CommitInv
<1>22. CASE PowerLoss
  <2>1. live' = disk /\ disk' = disk /\ data' = data /\ pc' = "idle"
    BY <1>0, <1>22 DEF PowerLoss, Fail, IInv, EntryDurable
  <2> QED BY <1>1, <2>1 DEF DiskFollows, Stuck
<1> QED
  BY <1>2, <1>4, <1>5, <1>7, <1>8, <1>9, <1>10, <1>11, <1>12, <1>13, <1>14, <1>15, <1>16, <1>18,
     <1>19, <1>20, <1>21, <1>22 DEF Next

LEMMA RInvAlways == ASSUME MkdirDurable PROVE Spec => []RInv
<1>1. Init => RInv
  <2>1. Init => DiskFollows /\ CommitInv
    BY DEF Init, NoFiles, Files, DiskFollows, CommitInv, IsClean, Boot
  <2> QED BY <2>1, InitInv DEF RInv
<1>2. RInv /\ [Next]_vars => RInv'
  <2> SUFFICES ASSUME RInv, [Next]_vars  PROVE RInv'
    OBVIOUS
  <2>1. CASE Next
    BY <2>1, StepInv, FollowStep DEF RInv
  <2>2. CASE UNCHANGED vars
    <3>1. DiskFollows'
      BY <2>2 DEF RInv, DiskFollows, IsClean, Stuck, Read, Stored, Vouches, Bytes, vars, files, history
    <3>2. CommitInv'
      BY <2>2 DEF RInv, CommitInv, IsClean, Stuck, SameFiles, Stored, Slot, Bytes, vars, files, history
    <3> QED BY <2>2, <3>1, <3>2, StepInv DEF RInv
  <2> QED BY <2>1, <2>2
<1> QED BY <1>1, <1>2, PTL DEF Spec

(* A read shows what is stored, or nothing. *)
LEMMA ReadCases ==
    ASSUME NEW d
    PROVE  /\ Read(d) \in {Stored(d), Broken, Absent}
           /\ Read(d) = Broken \/ IsClean(d) \/ d["marker"] = NoFile
           /\ d["marker"] # NoFile /\ d["snapshot"] = NoFile => Read(d) = Broken
           /\ d["marker"] = NoFile /\ d["snapshot"] # NoFile /\ Stored(d) \in Value => Read(d) = Stored(d)
           /\ d["marker"] = NoFile /\ d["snapshot"] = NoFile => Read(d) \in {Absent, Broken}
<1>1. d["snapshot"] = NoFile => Stored(d) \notin Value
  BY SentinelAssumption DEF Stored, Bytes, Value
<1> QED BY <1>1, SentinelAssumption DEF Read, Vouches, IsClean

(* A power loss leaves what readers see, or what the last call has read,   *)
(* or nothing readable; only a job never acknowledged may vanish. *)
LEMMA DiskReads ==
    ASSUME RInv
    PROVE  /\ Read(live) # Broken =>
                 Read(disk) \in {Read(live), Broken} \/ (acked = Absent /\ Read(disk) = Absent)
           /\ Read(disk) \in {Read(live), base, Broken} \/ (acked = Absent /\ Read(disk) = Absent)
<1>0. /\ DiskFollows /\ FilesOK
      /\ live \in [Files -> Inodes \cup {NoFile}] /\ disk \in [Files -> Inodes \cup {NoFile}]
      /\ \A d \in {live, disk} : d["marker"] = NoFile => acked = Absent
  BY DEF RInv, IInv, TypeOK, FilesOK, MarkersRecent
<1>1. CASE Stuck
  <2>1. ~IsClean(disk) /\ disk["marker"] # NoFile
    BY <1>1 DEF Stuck, IsClean, Bytes
  <2> QED BY <2>1, ReadCases
<1>2. CASE ~Stuck /\ disk["snapshot"] # live["snapshot"]
  <2>1. disk["snapshot"] = NoFile
    BY <1>0, <1>2 DEF DiskFollows
  <2>2. Read(disk) = Broken \/ (disk["marker"] = NoFile /\ Read(disk) = Absent)
    BY <2>1, ReadCases
  <2> QED BY <1>0, <2>2
<1>3. CASE ~Stuck /\ SameFiles
  <2>1. Stored(disk) = Stored(live)
    BY <1>3 DEF SameFiles, Stored, Bytes
  <2>2. CASE disk["marker"] = live["marker"]
    <3>1. Read(disk) = Read(live)
      BY <1>3, <2>1, <2>2 DEF SameFiles, Read, Vouches, Bytes
    <3> QED BY <3>1
  <2>3. CASE disk["marker"] # live["marker"] /\ IsClean(live)
    <3>1. Read(live) \in Value /\ ~IsClean(disk)
      BY <1>0, <2>3 DEF DiskFollows
    <3>2. Read(live) = Stored(live)
      BY <1>0, <3>1, ReadClean
    <3>3. Read(disk) = Broken \/ disk["marker"] = NoFile
      BY <3>1, ReadCases
    <3>4. disk["marker"] = NoFile => Read(disk) \in {Stored(disk), Broken, Absent} /\ acked = Absent
      BY <1>0, ReadCases
    <3> QED BY <2>1, <3>2, <3>3, <3>4
  <2>4. CASE disk["marker"] # live["marker"] /\ ~IsClean(live)
    <3>1. live["marker"] # NoFile
      BY <1>0, <2>4 DEF DiskFollows, Files
    <3>2. Read(live) = Broken /\ base = Stored(live)
      BY <1>0, <1>3, <2>4, <3>1, ReadCases DEF DiskFollows
    <3>3. Read(disk) \in {base, Broken, Absent}
      BY <2>1, <3>2, ReadCases
    <3>4. Read(disk) = Absent => disk["marker"] = NoFile
      BY <1>0, ReadType DEF Files
    <3> QED BY <1>0, <3>2, <3>3, <3>4
  <2> QED BY <2>2, <2>3, <2>4
<1> QED BY <1>0, <1>1, <1>2, <1>3 DEF DiskFollows, SameFiles

-----------------------------------------------------------------------------
(* The refinement. *)

Target == IF pc = "idle" THEN NoCall ELSE call.target

LEMMA TargetType ==
    ASSUME IInv
    PROVE  /\ pc # "idle" => Target = call.target /\ Target \in Value /\ Target # NoCall /\ doubt
           /\ pc = "idle" => Target = NoCall
BY SentinelAssumption DEF IInv, TypeOK, Call, Target, Settled

(* What each renaming makes readable: the target, or nothing. *)
LEMMA SwapReads ==
    ASSUME RInv
    PROVE  /\ GenesisRename /\ Rename("snapshot") => Read(live)' = call.target
           /\ BootRename /\ Rename("marker") => Read(live)' = Read(live)
           /\ PendingSwap /\ Rename("marker") => Read(live)' = Broken
           /\ StateSwap /\ (\E f \in Changed : Rename(f)) => Read(live)' = Broken /\ Read(live) = Broken
           /\ CleanSwap /\ Rename("marker") => Read(live)' \in {call.target, Broken}
<1>0. /\ FilesOK /\ live \in [Files -> Inodes \cup {NoFile}] /\ IInv /\ CommitInv
      /\ pc # "idle" => call.target \in Value
  BY DEF RInv, IInv, TypeOK, FilesOK, Call
<1>1. ASSUME GenesisRename, Rename("snapshot") PROVE Read(live)' = call.target
  <2>1. /\ live["marker"] = NoFile /\ live["events"] = NoFile /\ call.target.events = NoFile
        /\ data["snapshot"][Slot("snapshot")] = call.target.snapshot /\ call.target \in Value
    BY <1>0, <1>1 DEF GenesisRename, CheckedRenameStep, IInv, CreatingOnly, CreationInv, Creation, Boot
  <2>2. /\ Bytes(live, "snapshot")' = call.target.snapshot /\ live'["marker"] = NoFile
        /\ live'["events"] = NoFile /\ live'["snapshot"] # NoFile
    BY <1>0, <1>1, <2>1, RenameReads DEF Files
  <2>3. Stored(live)' = call.target
    BY <2>1, <2>2 DEF Stored, Bytes, Value
  <2> QED BY <2>1, <2>2, <2>3 DEF Read
<1>2. ASSUME BootRename, Rename("marker") PROVE Read(live)' = Read(live)
  <2>1. pc = "bootRename" /\ Read(live) \in Value
    BY <1>0, <1>2 DEF BootRename, CheckedRenameStep, IInv, BootInv
  <2>2. Read(live) = Stored(live) /\ live["snapshot"] # NoFile
    BY <1>0, <2>1, ReadClean
  <2>3. data["marker"][Slot("marker")] = MarkerBytes("CLEAN", 0, Stored(live))
    BY <1>0, <2>1 DEF IInv, BootInv
  <2>4. /\ Bytes(live, "marker")' = MarkerBytes("CLEAN", 0, Stored(live))
        /\ live'["marker"] # NoFile /\ live'["snapshot"] # NoFile
        /\ \A g \in {"snapshot", "events"} : Bytes(live, g)' = Bytes(live, g)
        /\ Stored(live)' = Stored(live)
    BY <1>0, <1>2, <2>2, <2>3, RenameReads DEF Files
  <2>5. MarkerBytes("CLEAN", 0, Stored(live)) \in Marker
    BY <2>1, <2>2, BoundsAssumption DEF MarkerBytes, Marker, Value
  <2>6. Vouches(Bytes(live, "marker"), live)'
    BY <2>4, <2>5 DEF Vouches, MarkerBytes, Stored
  <2> QED BY <2>2, <2>4, <2>6 DEF Read
<1>3. ASSUME PendingSwap, Rename("marker") PROVE Read(live)' = Broken
  <2>1. data["marker"][Slot("marker")].phase = "PENDING"
    BY <1>0, <1>3 DEF PendingSwap, RenameStep, CommitInv
  <2>2. live'["marker"] # NoFile /\ Bytes(live, "marker")' = data["marker"][Slot("marker")]
    BY <1>0, <1>3, RenameReads DEF Files
  <2> QED BY <2>1, <2>2 DEF Read, Vouches
<1>4. ASSUME StateSwap, NEW f \in Changed, Rename(f) PROVE Read(live)' = Broken /\ Read(live) = Broken
  <2>1. Stuck /\ f \in Files \ {"marker"}
    BY <1>0, <1>4 DEF StateSwap, RenameStep, CommitInv, Changed, Files
  <2>2. IsClean(live)' = IsClean(live) /\ live'["marker"] = live["marker"]
    BY <1>0, <1>4, <2>1, RenameReads DEF Files
  <2>3. ~IsClean(live) /\ ~IsClean(live)' /\ live["marker"] # NoFile
    BY <2>1, <2>2 DEF Stuck
  <2> QED BY <2>2, <2>3 DEF Read, Vouches, IsClean
<1>5. ASSUME CleanSwap, Rename("marker") PROVE Read(live)' \in {call.target, Broken}
  <2>1. Vouched(data["marker"][Slot("marker")]) = call.target /\ call.target \in Value
    BY <1>0, <1>5 DEF CleanSwap, CheckedRenameStep, IInv, SwapInv
  <2>2. live'["marker"] # NoFile /\ Bytes(live, "marker")' = data["marker"][Slot("marker")]
    BY <1>0, <1>5, RenameReads DEF Files
  <2>3. Vouches(Bytes(live, "marker"), live)' => Stored(live)' = call.target
    BY <2>1, <2>2 DEF Vouches, Vouched, Stored
  <2> QED BY <2>2, <2>3 DEF Read
<1> QED BY <1>1, <1>2, <1>3, <1>4, <1>5

(* The steps of the register, by what happens to the value. *)
LEMMA RegisterSteps ==
    ASSUME RInv, RInv'
    PROVE  /\ Goto(pc') /\ pc # "idle" /\ pc' # "idle" /\ Read(live)' \in {Read(live), Target, Broken}
                 => [Register!Next]_(Register!vars)
           /\ Fail /\ pc # "idle" /\ Read(live)' \in {Read(live), Broken} => Register!Next
           /\ Acknowledge /\ pc # "idle" /\ UNCHANGED <<live, data>> => Register!Next
<1> USE DEF Register!Next, Register!vars
<1>0. IInv /\ IInv'
  BY DEF RInv
<1>1. ASSUME Goto(pc'), pc # "idle", pc' # "idle", Read(live)' \in {Read(live), Target, Broken}
      PROVE  [Register!Next]_(Register!vars)
  <2>1. Target' = Target /\ Target = call.target /\ Target # NoCall /\ UNCHANGED history
    BY <1>0, <1>1, TargetType DEF Goto, Target
  <2> QED BY <1>1, <2>1 DEF Register!Install, Target, history
<1>2. ASSUME Fail, pc # "idle", Read(live)' \in {Read(live), Broken}
      PROVE  Register!Next
  <2>1. Target' = NoCall /\ Target # NoCall /\ doubt /\ UNCHANGED history
    BY <1>0, <1>2, TargetType DEF Fail, Target
  <2> QED BY <1>2, <2>1 DEF Register!Fail, Register!Crash, Target, history
<1>3. ASSUME Acknowledge, pc # "idle", UNCHANGED <<live, data>>
      PROVE  Register!Next
  <2>1. Target' = NoCall /\ Target # NoCall /\ Target = call.target
    BY <1>0, <1>3, TargetType DEF Acknowledge, Target
  <2>2. Read(live)' = Read(live) /\ Read(live)' = acked'
    BY <1>0, <1>3, SameReads DEF Acknowledge, IInv, Settled
  <2> QED BY <1>3, <2>1, <2>2 DEF Register!Acknowledge, Acknowledge, Target
<1> QED BY <1>1, <1>2, <1>3

(* A call that starts reads the value it starts from. *)
LEMMA StartRefines ==
    ASSUME RInv, RInv', Create \/ SaveSnapshot \/ AppendEvent
    PROVE  Register!Begin /\ base' = Read(live) /\ Read(live) # Broken
<1>1. /\ UNCHANGED <<live, data, acked>> /\ base' = Read(live) /\ doubt' = TRUE
      /\ pc = "idle" /\ pc' # "idle"
  BY DEF Create, SaveSnapshot, AppendEvent, Commit, Start, files
<1>2. Read(live) # Broken
  BY SentinelAssumption DEF Create, SaveSnapshot, AppendEvent
<1>3. Read(live)' = Read(live)
  BY <1>1, SameReads
<1>4. Target = NoCall /\ Target' \in Value
  BY <1>1, TargetType DEF RInv, IInv, TypeOK, Call, Target
<1> QED BY <1>1, <1>2, <1>3, <1>4 DEF Register!Begin, Target

(* Every step of the protocol is one of the register, or none. *)
LEMMA StepRefines ==
    ASSUME RInv, RInv', [Next]_vars
    PROVE  [Register!Next]_(Register!vars)
<1>0. IInv /\ FilesOK
  BY DEF RInv, IInv, TypeOK
<1>1. CASE Create \/ SaveSnapshot \/ AppendEvent
  BY <1>1, StartRefines DEF Register!Next
<1>2. ASSUME UNCHANGED <<live, data>>, pc # "idle",
             (Goto(pc') /\ pc' # "idle") \/ Fail \/ Acknowledge
      PROVE  [Register!Next]_(Register!vars)
  BY <1>2, SameReads, RegisterSteps
<1>3. CASE OpenOrCreateDirectory \/ StateDone \/ ProcessCrash
  BY <1>2, <1>3 DEF OpenOrCreateDirectory, StateDone, ProcessCrash, files, Goto
<1>4. CASE GenesisSync \/ BootSync \/ PendingSync \/ StateSync \/ CleanSync \/ CleanResync
  BY <1>2, <1>4
     DEF GenesisSync, BootSync, PendingSync, StateSync, CleanSync, CleanResync, SyncStep,
         SyncDirectory, files, Goto
<1>5. CASE GenesisWrite \/ BootWrite \/ PendingWrite \/ StateWrite \/ CleanWrite
  <2>1. PICK f \in Files : \E bytes : WriteSlot(f, bytes)
    BY <1>5 DEF GenesisWrite, BootWrite, PendingWrite, StateWrite, CleanWrite, WriteStep,
          Changed, Files
  <2>2. Read(live)' = Read(live)
    BY <1>0, <2>1, WriteSlotReads
  <2>3. pc # "idle" /\ ((Goto(pc') /\ pc' # "idle") \/ Fail)
    BY <1>5 DEF GenesisWrite, BootWrite, PendingWrite, StateWrite, CleanWrite, WriteStep, Goto
  <2> QED BY <2>2, <2>3, RegisterSteps
<1>6. CASE GenesisRename \/ BootRename \/ PendingSwap \/ StateSwap \/ CleanSwap
  <2>1. pc # "idle" /\ ((Goto(pc') /\ pc' # "idle") \/ Fail)
    BY <1>6 DEF GenesisRename, BootRename, PendingSwap, StateSwap, CleanSwap, RenameStep,
          CheckedRenameStep, Goto
  <2>2. Target = call.target
    BY <1>0, <2>1, TargetType
  <2>3. CASE UNCHANGED files
    BY <1>2, <2>1, <2>3 DEF files
  <2>4. CASE ~UNCHANGED files
    <3>1. \/ GenesisRename /\ Rename("snapshot") /\ ~Fail
          \/ BootRename /\ Rename("marker") /\ ~Fail
          \/ PendingSwap /\ Rename("marker")
          \/ StateSwap /\ \E f \in Changed : Rename(f)
          \/ CleanSwap /\ Rename("marker") /\ ~Fail
      BY <1>6, <2>4 DEF GenesisRename, BootRename, PendingSwap, StateSwap, CleanSwap, RenameStep,
            CheckedRenameStep, Goto, Fail
    <3>2. /\ Read(live)' \in {Read(live), Target, Broken}
          /\ Fail => Read(live)' = Broken
      BY <2>2, <3>1, SwapReads
    <3> QED BY <2>1, <3>2, RegisterSteps
  <2> QED BY <2>3, <2>4
<1>7. CASE WriteBack
  <2>1. UNCHANGED <<live, data, pc, call, history>>
    BY <1>7 DEF WriteBack
  <2>2. Read(live)' = Read(live)
    BY <2>1, SameReads
  <2> QED BY <2>1, <2>2 DEF Register!vars, history
<1>8. CASE PowerLoss
  <2>1. live' = disk /\ data' = data /\ Fail
    BY <1>0, <1>8 DEF PowerLoss, IInv, EntryDurable
  <2>2. Read(live)' = Read(disk) /\ Target' = NoCall /\ UNCHANGED history
    BY <2>1 DEF Read, Stored, Vouches, Bytes, Fail, Target
  <2>3. doubt
    BY <1>0, <1>8 DEF PowerLoss, IInv, Settled, EntryDurable
  <2> QED BY <2>2, <2>3, DiskReads DEF Register!Next, Register!Crash, Target, history
<1>9. CASE UNCHANGED vars
  <2>1. Read(live)' = Read(live)
    BY <1>9, SameReads DEF vars, files
  <2> QED BY <1>9, <2>1 DEF Register!vars, vars, history
<1> QED BY <1>1, <1>3, <1>4, <1>5, <1>6, <1>7, <1>8, <1>9 DEF Next

(* The marker protocol implements the register: a call lands whole or not  *)
(* at all, a crash leaves what the call began with, what it meant to       *)
(* install or an unreadable directory, and what has been acknowledged      *)
(* stands until the next call. *)
THEOREM Refinement == ASSUME MkdirDurable PROVE Spec => ImplementsRegister
<1>1. Init => Register!Init
  BY DEF Init, Register!Init, Read, NoFiles, Files
<1>2. RInv /\ RInv' /\ [Next]_vars => [Register!Next]_(Register!vars)
  BY StepRefines
<1> QED BY <1>1, <1>2, RInvAlways, PTL DEF Spec, Register!Spec, ImplementsRegister

-----------------------------------------------------------------------------
(* Readers never go back. *)

(* The running call means to install something newer than what it began    *)
(* with, and so is whatever an acknowledged job shows.                     *)
Forward ==
    /\ pc # "idle" => AtLeast(call.target, base)
    /\ acked # Absent /\ Read(live) # Broken => AtLeast(Read(live), base)

LEMMA AtLeastItself ==
    ASSUME NEW v \in Value \cup {Absent}
    PROVE  AtLeast(v, v)
BY DEF AtLeast, Value

(* Only a call that starts leaves the idle step, and what it means to      *)
(* install is newer than what it has read. *)
LEMMA StartAhead ==
    ASSUME IInv, Next, pc = "idle", pc' # "idle"
    PROVE  AtLeast(call'.target, base')
<1>0. calls \in Nat /\ NoFile \notin Nat /\ Absent \notin Value
  BY BoundsAssumption, SentinelAssumption DEF IInv, TypeOK
<1>1. Create \/ SaveSnapshot \/ AppendEvent
  <2>1. ASSUME NEW f \in Files, NEW bytes, NEW step \in Steps \ {"idle"}, NEW next
        PROVE  /\ ~WriteStep(step, f, bytes, next) /\ ~SyncStep(step, next)
               /\ ~RenameStep(step, f, next) /\ ~CheckedRenameStep(step, f, next)
    BY DEF WriteStep, SyncStep, RenameStep, CheckedRenameStep
  <2>2. ~StateWrite /\ ~StateSwap
    BY DEF StateWrite, StateSwap, WriteStep, RenameStep
  <2>3. /\ ~GenesisWrite /\ ~GenesisRename /\ ~GenesisSync /\ ~BootWrite /\ ~BootRename
        /\ ~PendingWrite /\ ~PendingSwap /\ ~PendingSync /\ ~StateSync /\ ~CleanWrite /\ ~CleanSwap
    BY DEF GenesisWrite, GenesisRename, GenesisSync, BootWrite, BootRename, PendingWrite, PendingSwap,
           PendingSync, StateSync, CleanWrite, CleanSwap, WriteStep, SyncStep, RenameStep,
           CheckedRenameStep
  <2>4. /\ ~OpenOrCreateDirectory /\ ~BootSync /\ ~StateDone /\ ~CleanSync /\ ~CleanResync
        /\ ~WriteBack /\ ~ProcessCrash /\ ~PowerLoss
    BY DEF OpenOrCreateDirectory, BootSync, StateDone, CleanSync, CleanResync, WriteBack, ProcessCrash,
           PowerLoss, Fail
  <2> QED BY <2>2, <2>3, <2>4 DEF Next
<1>2. CASE Create
  BY <1>2 DEF Create, Start, AtLeast
<1>3. CASE SaveSnapshot
  <2>1. PICK content \in {calls + 1, Read(live).snapshot} :
             Read(live) \in Value /\ Commit([Read(live) EXCEPT !.snapshot = content])
    BY <1>3 DEF SaveSnapshot
  <2>2. /\ call'.target = [Read(live) EXCEPT !.snapshot = content] /\ base' = Read(live)
    BY <2>1 DEF Commit, Start
  <2>3. Read(live).snapshot \in Nat /\ Read(live).snapshot <= calls
    BY <1>0, <2>1, SentinelAssumption, ReadRecent DEF Value
  <2>4. content \in Nat /\ content >= Read(live).snapshot
    BY <1>0, <2>1, <2>3
  <2> QED BY <2>1, <2>2, <2>4 DEF AtLeast, Value
<1>4. CASE AppendEvent
  <2>1. Read(live) \in Value /\ Commit([Read(live) EXCEPT !.events = calls + 1])
    BY <1>4 DEF AppendEvent
  <2>2. call'.target = [Read(live) EXCEPT !.events = calls + 1] /\ base' = Read(live)
    BY <2>1 DEF Commit, Start
  <2>3. Read(live).events # NoFile => Read(live).events \in Nat /\ Read(live).events <= calls
    BY <2>1, SentinelAssumption, ReadRecent DEF Value
  <2> QED BY <1>0, <2>1, <2>2, <2>3 DEF AtLeast, Value
<1> QED BY <1>1, <1>2, <1>3, <1>4

(* A call begins with what the last one has left, which the register       *)
(* allows to be nothing older than what that one began with. *)
LEMMA ForwardStep ==
    ASSUME RInv, RInv', Forward, [Next]_vars
    PROVE  Forward' /\ (acked # Absent => AtLeast(base', base))
<1>0. /\ IInv /\ IInv' /\ base \in Value \cup {Absent} /\ base' \in Value \cup {Absent}
      /\ acked' \in Value \cup {Absent} /\ Absent # Broken /\ NoCall \notin Value
  BY SentinelAssumption DEF RInv, IInv, TypeOK
<1>1. /\ pc # "idle" => Target = call.target /\ Target \in Value
      /\ pc = "idle" => Target = NoCall
      /\ pc' # "idle" => Target' = call'.target /\ Target' \in Value
      /\ pc' = "idle" => Target' = NoCall
  BY <1>0, TargetType DEF RInv, IInv, TypeOK, Call, Target
<1>2. AtLeast(base, base) /\ AtLeast(base', base')
  BY <1>0, AtLeastItself
<1>3. [Register!Next]_(Register!vars)
  BY StepRefines
<1>4. CASE Register!Begin
  <2>1. Target = NoCall /\ Target' \in Value /\ base' = Read(live) /\ Read(live)' = Read(live)
        /\ Read(live) # Broken /\ acked' = acked
    BY <1>4 DEF Register!Begin, Target
  <2>2. pc = "idle" /\ pc' # "idle"
    BY <1>0, <1>1, <2>1
  <2>3. Next
    BY <2>2 DEF vars
  <2>4. AtLeast(call'.target, base')
    BY <1>0, <2>2, <2>3, StartAhead
  <2> QED BY <1>2, <2>1, <2>4 DEF Forward
<1>5. CASE Register!Install
  <2>1. Target # NoCall /\ Target' = Target /\ base' = base /\ acked' = acked
        /\ Read(live)' \in {Broken, Target}
    BY <1>5 DEF Register!Install, Target
  <2>2. AtLeast(Target, base)
    BY <1>1, <2>1 DEF Forward
  <2> QED BY <1>1, <1>2, <2>1, <2>2 DEF Forward
<1>6. CASE Register!Acknowledge
  <2>1. Target # NoCall /\ Target' = NoCall /\ base' = Target /\ Read(live)' = Target
    BY <1>6 DEF Register!Acknowledge, Target
  <2>2. AtLeast(Target, base)
    BY <1>1, <2>1 DEF Forward
  <2> QED BY <1>0, <1>1, <1>2, <2>1, <2>2 DEF Forward
<1>7. CASE Register!Fail \/ Register!Crash
  <2>1. /\ Target' = NoCall /\ base' = base /\ acked' = acked
        /\ Read(live)' \in {Read(live), base, Broken} \/ acked = Absent
    BY <1>7 DEF Register!Fail, Register!Crash, Target
  <2> QED BY <1>0, <1>1, <1>2, <2>1 DEF Forward
<1>8. CASE UNCHANGED Register!vars
  <2>1. Target' = Target /\ base' = base /\ acked' = acked /\ Read(live)' = Read(live)
    BY <1>8 DEF Register!vars, Target
  <2> QED BY <1>0, <1>1, <1>2, <2>1 DEF Forward
<1> QED BY <1>3, <1>4, <1>5, <1>6, <1>7, <1>8 DEF Register!Next

(* What readers of an acknowledged job have seen a power loss never takes  *)
(* back, and no call reads anything older than an earlier call has read.   *)
THEOREM NoReaderGoesBack == ASSUME MkdirDurable PROVE Spec => NothingGoesBack
<1>1. RInv => NeverTakenBack
  <2> SUFFICES ASSUME RInv, acked # Absent, Read(live) # Broken
               PROVE  Remains \in {Read(live), Broken}
    BY DEF NeverTakenBack
  <2>1. Remains = Read(disk)
    BY DEF RInv, IInv, EntryDurable, Remains
  <2> QED BY <2>1, DiskReads
<1>2. Init => Forward
  BY DEF Init, Forward
<1>3. RInv /\ RInv' /\ Forward /\ [Next]_vars => Forward'
  BY ForwardStep
<1>4. RInv /\ RInv' /\ Forward /\ [Next]_vars => [acked # Absent => AtLeast(base', base)]_vars
  BY ForwardStep
<1> QED BY <1>1, <1>2, <1>3, <1>4, RInvAlways, PTL DEF Spec, NothingGoesBack, ReadersNeverGoBack

-----------------------------------------------------------------------------
(* The namespace, for any number of threads, of stores, jobs and commits.  *)

Writing == JobSteps \cup {"mutate"} \cup Mutations

(* The counter of mutations counts the threads in the middle of one.       *)
Mutating == {t \in Threads : namePc[t] \in Mutations}
CountsMutations == IsFiniteSet(Mutating) /\ Cardinality(Mutating) = mutations

(* There is nothing in a jobs directory that is not there.                 *)
Rooted ==
    /\ bound => jobsDir
    /\ \A t \in Threads : seen[t] \/ namePc[t] \in {"makeJob", "commit"} => jobsDir
    /\ \A j \in Jobs : dir[j] # "none" => jobsDir

(* A close that drains has stopped new leases, and drained there are none. *)
Drained(t) ==
    /\ namePc[t] \in {"closeDrain", "closeRoot"} =>
          store[t] \in Stores /\ lifecycle[store[t]] # "OPEN"
    /\ namePc[t] = "closeRoot" => Leased(store[t]) = {}
Drains == \A t \in Threads : Drained(t)

(* No mutation since the listing looked at the epoch, and none under way:  *)
(* what it has seen is what is there.                                      *)
Undisturbed(t) == epoch = since[t] /\ mutations = 0
SeesTheDisk(t) ==
    /\ namePc[t] = "listBind" => seen[t] = jobsDir
    /\ namePc[t] = "listAbsent" => ~jobsDir
    /\ namePc[t] = "listEntry" =>
          /\ names[t] = Named /\ todo[t] \subseteq Named
          /\ listed[t] = StoredJobs \ todo[t]
    /\ namePc[t] = "listCheck" => listed[t] = StoredJobs
    /\ namePc[t] \in {"listChanged", "listBad"} => \E j \in Jobs : Corrupt(j)
Lists(t) ==
    /\ since[t] <= epoch
    /\ namePc[t] \in {"listOpen", "listBind", "listAbsent", "listNames"} => listed[t] = {}
    /\ Undisturbed(t) => SeesTheDisk(t)

NamespaceInv ==
    /\ NamespaceTypeOK /\ CountsMutations /\ Rooted /\ ClosedIsUnused /\ Drains
    /\ \A t \in Threads : namePc[t] \in Writing => job[t] \in Jobs
    /\ \A t \in Threads : Lists(t)

(* What a step of one thread leaves alone, and how it uses the counters:   *)
(* directories change only in the middle of a mutation.                    *)
Others(t) ==
    \A u \in Threads : u # t =>
        /\ namePc'[u] = namePc[u] /\ store'[u] = store[u] /\ job'[u] = job[u]
        /\ seen'[u] = seen[u] /\ names'[u] = names[u] /\ todo'[u] = todo[u]
        /\ listed'[u] = listed[u] /\ since'[u] = since[u]
Announced(t) ==
    \/ /\ UNCHANGED <<mutations, epoch>>
       /\ namePc[t] \in Mutations /\ namePc'[t] \in Mutations
    \/ /\ UNCHANGED <<mutations, epoch, jobsDir, dir>>
       /\ namePc[t] \notin Mutations /\ namePc'[t] \notin Mutations
    \/ /\ mutations' = mutations + 1 /\ UNCHANGED <<epoch, jobsDir, dir>>
       /\ namePc[t] \notin Mutations /\ namePc'[t] \in Mutations
    \/ /\ mutations' = mutations - 1 /\ epoch' = epoch + 1 /\ UNCHANGED <<jobsDir, dir>>
       /\ namePc[t] \in Mutations /\ namePc'[t] \notin Mutations

LEMMA EnterFrame ==
    ASSUME NamespaceTypeOK, NEW t \in Threads, Enter(t)
    PROVE  NamespaceTypeOK' /\ Others(t) /\ Announced(t)
  <1> USE DEF Lease, MayLease, GoesTo, CallSteps, JobSteps, Mutations, ListSteps, CloseSteps,
          directory, shared, locals, listing
  <1>1. PICK s \in Stores : BeginJob(t, s) \/ BeginList(t, s) \/ BeginClose(t, s) \/ Refused(t, s)
        BY DEF Enter
  <1>2. CASE BeginJob(t, s)
    <2>1. PICK j \in Jobs, step \in {"readLock", "writeLock"} : Lease(t, s, j, step)
          BY <1>2 DEF BeginJob
    <2>2. NamespaceTypeOK'
          BY <2>1 DEF NamespaceTypeOK
    <2>3. Others(t) /\ Announced(t)
          BY <2>1 DEF NamespaceTypeOK, Others, Announced
    <2> QED BY <2>2, <2>3
  <1>3. CASE BeginList(t, s)
    <2>1. NamespaceTypeOK'
          BY <1>3 DEF BeginList, NamespaceTypeOK
    <2>2. Others(t) /\ Announced(t)
          BY <1>3 DEF BeginList, NamespaceTypeOK, Others, Announced
    <2> QED BY <2>1, <2>2
  <1>4. CASE BeginClose(t, s)
    <2>1. NamespaceTypeOK'
          BY <1>4 DEF BeginClose, NamespaceTypeOK
    <2>2. Others(t) /\ Announced(t)
          BY <1>4 DEF BeginClose, NamespaceTypeOK, Others, Announced
    <2> QED BY <2>1, <2>2
  <1>5. CASE Refused(t, s)
    <2>1. NamespaceTypeOK'
          BY <1>5 DEF Refused, NamespaceTypeOK
    <2>2. Others(t) /\ Announced(t)
          BY <1>5 DEF Refused, NamespaceTypeOK, Others, Announced
    <2> QED BY <2>1, <2>2
  <1> QED BY <1>1, <1>2, <1>3, <1>4, <1>5

LEMMA LeaveFrame ==
    ASSUME NamespaceTypeOK, NEW t \in Threads,
           NEW how \in {"found", "missing", "invalid", "failed", "corrupted", "listed", "closed"},
           Leave(t, how)
    PROVE  /\ namePc' \in [Threads -> CallSteps] /\ namePc'[t] = "idle"
           /\ store' \in [Threads -> Stores \cup {Nothing}] /\ store'[t] = Nothing
           /\ job' \in [Threads -> Jobs \cup {Nothing}]
           /\ holds' \subseteq Threads /\ seen' \in [Threads -> BOOLEAN] /\ ~seen'[t]
           /\ names' \in [Threads -> SUBSET Jobs] /\ todo' \in [Threads -> SUBSET Jobs]
           /\ listed' \in [Threads -> SUBSET Jobs] /\ since' \in [Threads -> Nat]
           /\ since'[t] = 0
           /\ outcome' \in [Threads -> {"none", "found", "missing", "invalid", "failed",
                                        "corrupted", "listed", "closed"}]
           /\ Others(t)
  <1>1. /\ namePc' \in [Threads -> CallSteps] /\ namePc'[t] = "idle"
        /\ store' \in [Threads -> Stores \cup {Nothing}] /\ store'[t] = Nothing
        /\ job' \in [Threads -> Jobs \cup {Nothing}]
        BY DEF NamespaceTypeOK, Leave, GoesTo, CallSteps
  <1>2. /\ holds' \subseteq Threads /\ seen' \in [Threads -> BOOLEAN] /\ ~seen'[t]
        /\ names' \in [Threads -> SUBSET Jobs] /\ todo' \in [Threads -> SUBSET Jobs]
        /\ listed' \in [Threads -> SUBSET Jobs] /\ since' \in [Threads -> Nat]
        /\ since'[t] = 0
        BY DEF NamespaceTypeOK, Leave
  <1>3. outcome' \in [Threads -> {"none", "found", "missing", "invalid", "failed",
                                  "corrupted", "listed", "closed"}]
        BY DEF NamespaceTypeOK, Leave
  <1>4. Others(t)
        BY DEF NamespaceTypeOK, Leave, GoesTo, Others
  <1> QED BY <1>1, <1>2, <1>3, <1>4

(* A thread in the middle of a mutation is counted. *)
LEMMA Counts ==
    ASSUME NamespaceTypeOK, CountsMutations, NEW t \in Mutating
    PROVE  mutations >= 1
  <1>1. Mutating # {}
        OBVIOUS
  <1>2. Cardinality(Mutating) # 0
        BY <1>1, FS_EmptySet DEF CountsMutations
  <1> QED BY <1>2 DEF CountsMutations, NamespaceTypeOK

LEMMA ContinueFrame ==
    ASSUME NamespaceInv, NEW t \in Threads, Continue(t)
    PROVE  NamespaceTypeOK' /\ Others(t) /\ Announced(t)
  <1> NamespaceTypeOK
      BY DEF NamespaceInv
  <1> USE DEF directory, shared, locals, listing
  <1>1. CASE Lock(t)
    <2>1. NamespaceTypeOK'
          BY <1>1 DEF Lock, NamespaceTypeOK, GoesTo, CallSteps, JobSteps, Mutations,
             ListSteps, CloseSteps
    <2>2. Others(t) /\ Announced(t)
          BY <1>1 DEF Lock, NamespaceTypeOK, GoesTo, Others, Announced, Mutations
    <2> QED BY <2>1, <2>2
  <1>2. CASE Open(t)
    <2>1. NamespaceTypeOK'
          BY <1>2 DEF Open, NamespaceTypeOK, GoesTo, CallSteps, JobSteps, Mutations,
             ListSteps, CloseSteps
    <2>2. Others(t) /\ Announced(t)
          BY <1>2 DEF Open, NamespaceTypeOK, GoesTo, Others, Announced, Mutations
    <2> QED BY <2>1, <2>2
  <1>3. CASE Mutate(t)
    <2>1. NamespaceTypeOK'
          BY <1>3 DEF Mutate, NamespaceTypeOK, GoesTo, CallSteps, JobSteps, Mutations,
             ListSteps, CloseSteps
    <2>2. Others(t) /\ Announced(t)
          BY <1>3 DEF Mutate, NamespaceTypeOK, GoesTo, Others, Announced, Mutations
    <2> QED BY <2>1, <2>2
  <1>4. CASE MakeJobsDir(t)
    <2>1. NamespaceTypeOK'
          BY <1>4 DEF MakeJobsDir, NamespaceTypeOK, GoesTo, CallSteps, JobSteps, Mutations,
             ListSteps, CloseSteps
    <2>2. Others(t) /\ Announced(t)
          BY <1>4 DEF MakeJobsDir, NamespaceTypeOK, GoesTo, Others, Announced, Mutations
    <2> QED BY <2>1, <2>2
  <1>5. CASE ListEpoch(t)
    <2>1. NamespaceTypeOK'
          BY <1>5 DEF ListEpoch, NamespaceTypeOK, GoesTo, CallSteps, JobSteps, Mutations,
             ListSteps, CloseSteps
    <2>2. Others(t) /\ Announced(t)
          BY <1>5 DEF ListEpoch, NamespaceTypeOK, GoesTo, Others, Announced, Mutations
    <2> QED BY <2>1, <2>2
  <1>6. CASE ListOpen(t)
    <2>1. NamespaceTypeOK'
          BY <1>6 DEF ListOpen, NamespaceTypeOK, GoesTo, CallSteps, JobSteps, Mutations,
             ListSteps, CloseSteps
    <2>2. Others(t) /\ Announced(t)
          BY <1>6 DEF ListOpen, NamespaceTypeOK, GoesTo, Others, Announced, Mutations
    <2> QED BY <2>1, <2>2
  <1>7. CASE ListBind(t)
    <2>1. NamespaceTypeOK'
          BY <1>7 DEF ListBind, NamespaceTypeOK, GoesTo, CallSteps, JobSteps, Mutations,
             ListSteps, CloseSteps
    <2>2. Others(t) /\ Announced(t)
          BY <1>7 DEF ListBind, NamespaceTypeOK, GoesTo, Others, Announced, Mutations
    <2> QED BY <2>1, <2>2
  <1>8. CASE ListAbsent(t)
    <2>1. NamespaceTypeOK'
          BY <1>8 DEF ListAbsent, NamespaceTypeOK, GoesTo, CallSteps, JobSteps, Mutations,
             ListSteps, CloseSteps
    <2>2. Others(t) /\ Announced(t)
          BY <1>8 DEF ListAbsent, NamespaceTypeOK, GoesTo, Others, Announced, Mutations
    <2> QED BY <2>1, <2>2
  <1>9. CASE ListNames(t)
    <2>0. Named \in SUBSET Jobs
          BY DEF Named
    <2>1. NamespaceTypeOK'
          BY <1>9, <2>0 DEF ListNames, NamespaceTypeOK, GoesTo, CallSteps, JobSteps, Mutations,
             ListSteps, CloseSteps
    <2>2. Others(t) /\ Announced(t)
          BY <1>9 DEF ListNames, NamespaceTypeOK, GoesTo, Others, Announced, Mutations
    <2> QED BY <2>1, <2>2
  <1>10. CASE ListEntry(t)
    <2>1. NamespaceTypeOK'
          BY <1>10 DEF ListEntry, NamespaceTypeOK, GoesTo, CallSteps, JobSteps, Mutations,
             ListSteps, CloseSteps
    <2>2. Others(t) /\ Announced(t)
          BY <1>10 DEF ListEntry, NamespaceTypeOK, GoesTo, Others, Announced, Mutations
    <2> QED BY <2>1, <2>2
  <1>11. CASE ListAgain(t)
    <2>1. NamespaceTypeOK'
          BY <1>11 DEF ListAgain, NamespaceTypeOK, GoesTo, CallSteps, JobSteps, Mutations,
             ListSteps, CloseSteps
    <2>2. Others(t) /\ Announced(t)
          BY <1>11 DEF ListAgain, NamespaceTypeOK, GoesTo, Others, Announced, Mutations
    <2> QED BY <2>1, <2>2
  <1>12. CASE CloseDrain(t)
    <2>1. NamespaceTypeOK'
          BY <1>12 DEF CloseDrain, NamespaceTypeOK, GoesTo, CallSteps, JobSteps, Mutations,
             ListSteps, CloseSteps
    <2>2. Others(t) /\ Announced(t)
          BY <1>12 DEF CloseDrain, NamespaceTypeOK, GoesTo, Others, Announced, Mutations
    <2> QED BY <2>1, <2>2
  <1>13. CASE Bind(t)
    <2>1. UNCHANGED <<lifecycle, jobsDir, dir, mutations, epoch>> /\ bound' \in BOOLEAN
          BY <1>13 DEF Bind, NamespaceTypeOK
    <2>2. ASSUME NEW how \in {"found", "missing", "invalid", "corrupted"}, Leave(t, how),
                 UNCHANGED writes
          PROVE  NamespaceTypeOK' /\ Others(t) /\ Announced(t)
          BY <1>13, <2>1, <2>2, LeaveFrame DEF Bind, NamespaceTypeOK, Announced, Mutations
    <2>3. ASSUME writes < MaxWrites, writes' = writes + 1, GoesTo(t, "mutate"),
                 UNCHANGED <<locals, outcome>>
          PROVE  NamespaceTypeOK' /\ Others(t) /\ Announced(t)
      <3>1. NamespaceTypeOK'
            BY <2>1, <2>3, NamespaceAssumptions DEF NamespaceTypeOK, GoesTo, CallSteps
      <3>2. Others(t) /\ Announced(t)
            BY <1>13, <2>1, <2>3 DEF Bind, NamespaceTypeOK, GoesTo, Others, Announced, Mutations
      <3> QED BY <3>1, <3>2
    <2> QED BY <1>13, <2>2, <2>3 DEF Bind
  <1>14. CASE MakeJobDir(t)
    <2>1. job[t] \in Jobs
          BY <1>14 DEF NamespaceInv, Writing, Mutations, MakeJobDir
    <2>2. dir' \in [Jobs -> {"none", "empty", "slot", "stored", "broken"}]
          BY <1>14, <2>1 DEF MakeJobDir, NamespaceTypeOK
    <2>3. NamespaceTypeOK'
          BY <1>14, <2>2 DEF MakeJobDir, NamespaceTypeOK, GoesTo, CallSteps, Mutations
    <2>4. Others(t) /\ Announced(t)
          BY <1>14 DEF MakeJobDir, NamespaceTypeOK, GoesTo, Others, Announced, Mutations
    <2> QED BY <2>3, <2>4
  <1>15. CASE CommitJob(t)
    <2>1. job[t] \in Jobs
          BY <1>15 DEF NamespaceInv, Writing, Mutations, CommitJob
    <2>2. dir' \in [Jobs -> {"none", "empty", "slot", "stored", "broken"}]
          BY <1>15, <2>1 DEF CommitJob, Leftovers, NamespaceTypeOK
    <2>3. NamespaceTypeOK'
          BY <1>15, <2>2 DEF CommitJob, NamespaceTypeOK, GoesTo, CallSteps, Mutations
    <2>4. Others(t) /\ Announced(t)
          BY <1>15 DEF CommitJob, NamespaceTypeOK, GoesTo, Others, Announced, Mutations
    <2> QED BY <2>3, <2>4
  <1>16. CASE EndMutation(t)
    <2>1. mutations >= 1
          BY <1>16, Counts DEF EndMutation, Mutating, Mutations, NamespaceInv
    <2>2. PICK how \in {"found", "failed"} : Leave(t, how)
          BY <1>16 DEF EndMutation
    <2>3. NamespaceTypeOK'
          BY <1>16, <2>1, <2>2, LeaveFrame DEF EndMutation, NamespaceTypeOK
    <2>4. Others(t) /\ Announced(t)
          BY <1>16, <2>2, LeaveFrame DEF EndMutation, Announced, Mutations
    <2> QED BY <2>3, <2>4
  <1>17. CASE ListCheck(t)
    <2>1. CASE GoesTo(t, "listEpoch") /\ UNCHANGED <<locals, outcome>>
      <3>1. NamespaceTypeOK'
            BY <1>17, <2>1 DEF ListCheck, NamespaceTypeOK, GoesTo, CallSteps, ListSteps
      <3>2. Others(t) /\ Announced(t)
            BY <1>17, <2>1 DEF ListCheck, NamespaceTypeOK, GoesTo, Others, Announced, Mutations
      <3> QED BY <3>1, <3>2
    <2>2. ASSUME NEW how \in {"listed", "corrupted"}, Leave(t, how)
          PROVE  NamespaceTypeOK' /\ Others(t) /\ Announced(t)
          BY <1>17, <2>2, LeaveFrame DEF ListCheck, NamespaceTypeOK, Announced, Mutations
    <2> QED BY <1>17, <2>1, <2>2 DEF ListCheck
  <1>18. CASE CloseWait(t)
        BY <1>18, LeaveFrame DEF CloseWait, NamespaceTypeOK, Announced, Mutations
  <1>19. CASE CloseRoot(t)
    <2>1. lifecycle' \in [Stores -> {"OPEN", "CLOSING", "CLOSED"}]
          BY <1>19 DEF CloseRoot, NamespaceTypeOK
    <2> QED BY <1>19, <2>1, LeaveFrame DEF CloseRoot, NamespaceTypeOK, Announced, Mutations
  <1> QED BY <1>1, <1>2, <1>3, <1>4, <1>5, <1>6, <1>7, <1>8, <1>9, <1>10, <1>11, <1>12,
             <1>13, <1>14, <1>15, <1>16, <1>17, <1>18, <1>19 DEF Continue, List

LEMMA CountsStep ==
    ASSUME NamespaceInv, NEW t \in Threads, Others(t), Announced(t)
    PROVE  CountsMutations'
  <1>1. IsFiniteSet(Mutating) /\ Cardinality(Mutating) = mutations
        BY DEF NamespaceInv, CountsMutations
  <1>2. CASE /\ mutations' = mutations
             /\ namePc[t] \in Mutations <=> namePc'[t] \in Mutations
    <2>1. Mutating' = Mutating
          BY <1>2 DEF Mutating, Others
    <2> QED BY <1>1, <1>2, <2>1 DEF CountsMutations
  <1>3. CASE /\ mutations' = mutations + 1
             /\ namePc[t] \notin Mutations /\ namePc'[t] \in Mutations
    <2>1. Mutating' = Mutating \cup {t} /\ t \notin Mutating
          BY <1>3 DEF Mutating, Others
    <2>2. IsFiniteSet(Mutating') /\ Cardinality(Mutating') = Cardinality(Mutating) + 1
          BY <1>1, <2>1, FS_AddElement
    <2> QED BY <1>1, <1>3, <2>2 DEF CountsMutations
  <1>4. CASE /\ mutations' = mutations - 1
             /\ namePc[t] \in Mutations /\ namePc'[t] \notin Mutations
    <2>1. Mutating' = Mutating \ {t} /\ t \in Mutating
          BY <1>4 DEF Mutating, Others
    <2>2. IsFiniteSet(Mutating') /\ Cardinality(Mutating') = Cardinality(Mutating) - 1
          BY <1>1, <2>1, FS_RemoveElement
    <2> QED BY <1>1, <1>4, <2>2 DEF CountsMutations
  <1> QED BY <1>2, <1>3, <1>4 DEF Announced

(* What a listing knows is not touched by another thread: a mutation that  *)
(* changes a directory is counted, and one that ends moves the epoch.      *)
LEMMA OtherLists ==
    ASSUME NamespaceInv, NEW t \in Threads, Others(t), Announced(t), NamespaceTypeOK',
           NEW u \in Threads, u # t
    PROVE  Lists(u)'
  <1>1. /\ namePc'[u] = namePc[u] /\ seen'[u] = seen[u] /\ names'[u] = names[u]
        /\ todo'[u] = todo[u] /\ listed'[u] = listed[u] /\ since'[u] = since[u]
        BY DEF Others
  <1>2. Lists(u) /\ epoch \in Nat /\ mutations \in Nat /\ since[u] \in Nat
        BY DEF NamespaceInv, NamespaceTypeOK
  <1>3. since'[u] <= epoch'
        BY <1>1, <1>2 DEF Lists, Announced
  <1>4. namePc[t] \in Mutations => mutations >= 1
        BY Counts DEF Mutating, NamespaceInv
  <1>5. Undisturbed(u)' => Undisturbed(u) /\ UNCHANGED <<jobsDir, dir>>
        BY <1>1, <1>2, <1>4 DEF Announced, Undisturbed, Lists
  <1>6. ASSUME Undisturbed(u)' PROVE SeesTheDisk(u)'
    <2>1. SeesTheDisk(u) /\ UNCHANGED <<jobsDir, dir>>
          BY <1>2, <1>5, <1>6 DEF Lists
    <2>2. Named' = Named /\ StoredJobs' = StoredJobs /\ \A j \in Jobs : Corrupt(j)' <=> Corrupt(j)
          BY <2>1 DEF Named, StoredJobs, Corrupt
    <2> QED BY <1>1, <2>1, <2>2 DEF SeesTheDisk
  <1> QED BY <1>1, <1>2, <1>3, <1>6 DEF Lists

(* What a thread sees of the directories is there; nothing is taken away. *)
LEMMA RootedStep ==
    ASSUME NamespaceInv, NEW t \in Threads, Enter(t) \/ Continue(t), Others(t)
    PROVE  Rooted'
  <1> NamespaceTypeOK /\ Rooted
      BY DEF NamespaceInv
  <1> USE DEF directory, shared, locals, listing
  <1>1. ASSUME UNCHANGED <<jobsDir, dir, bound>>, seen'[t] => seen[t] \/ jobsDir,
               namePc'[t] \notin {"makeJob", "commit"}
        PROVE  Rooted'
        BY <1>1 DEF Rooted, Others
  <1>2. ASSUME UNCHANGED <<jobsDir, dir>>, bound' = (bound \/ seen[t]), seen'[t] => seen[t],
               namePc'[t] \notin {"makeJob", "commit"}
        PROVE  Rooted'
        BY <1>2 DEF Rooted, Others
  <1>3. CASE Enter(t)
        BY <1>1, <1>3 DEF Enter, BeginJob, BeginList, BeginClose, Refused, Lease, MayLease, GoesTo,
           NamespaceTypeOK
  <1>4. CASE Lock(t) \/ Open(t) \/ Mutate(t)
        BY <1>1, <1>4 DEF Lock, Open, Mutate, GoesTo, NamespaceTypeOK
  <1>5. CASE EndMutation(t) \/ CloseWait(t) \/ CloseDrain(t) \/ CloseRoot(t)
        BY <1>1, <1>5 DEF EndMutation, CloseWait, CloseDrain, CloseRoot, Leave, GoesTo, NamespaceTypeOK
  <1>6. CASE ListEpoch(t) \/ ListOpen(t) \/ ListAbsent(t) \/ ListNames(t)
        BY <1>1, <1>6 DEF ListEpoch, ListOpen, ListAbsent, ListNames, GoesTo, NamespaceTypeOK
  <1>7. CASE ListEntry(t) \/ ListAgain(t) \/ ListCheck(t)
        BY <1>1, <1>7 DEF ListEntry, ListAgain, ListCheck, Leave, GoesTo, NamespaceTypeOK
  <1>8. CASE Bind(t)
        BY <1>2, <1>8 DEF Bind, Leave, GoesTo, NamespaceTypeOK
  <1>9. CASE ListBind(t)
        BY <1>2, <1>9 DEF ListBind, GoesTo, NamespaceTypeOK
  <1>10. CASE MakeJobsDir(t)
    <2>1. jobsDir => jobsDir'
          BY <1>10 DEF MakeJobsDir
    <2>2. seen'[t] \/ namePc'[t] \in {"makeJob", "commit"} => jobsDir'
          BY <1>10 DEF MakeJobsDir, GoesTo, NamespaceTypeOK
    <2>3. UNCHANGED <<dir, bound>>
          BY <1>10 DEF MakeJobsDir
    <2> QED BY <2>1, <2>2, <2>3 DEF Rooted, Others
  <1>11. CASE MakeJobDir(t) \/ CommitJob(t)
    <2>1. jobsDir /\ UNCHANGED <<jobsDir, seen>>
          BY <1>11 DEF MakeJobDir, CommitJob, Rooted
    <2> QED BY <2>1 DEF Rooted
  <1> QED BY <1>3, <1>4, <1>5, <1>6, <1>7, <1>8, <1>9, <1>10, <1>11 DEF Continue, List

(* Only a call that has the lease of its job writes to it. *)
LEMMA WriterStep ==
    ASSUME NamespaceInv, NEW t \in Threads, Enter(t) \/ Continue(t), namePc'[t] \in Writing
    PROVE  job'[t] \in Jobs
  <1> NamespaceTypeOK
      BY DEF NamespaceInv
  <1> USE DEF directory, shared, locals, listing, Writing, JobSteps, Mutations
  <1>1. ASSUME job'[t] = job[t], namePc[t] \in Writing
        PROVE  job'[t] \in Jobs
        BY <1>1 DEF NamespaceInv
  <1>2. CASE Enter(t)
    <2>1. CASE \E s \in Stores : BeginJob(t, s)
          BY <2>1 DEF BeginJob, Lease, MayLease, GoesTo, NamespaceTypeOK
    <2>2. CASE \E s \in Stores : BeginList(t, s) \/ BeginClose(t, s) \/ Refused(t, s)
          BY <2>2 DEF BeginList, BeginClose, Refused, Lease, MayLease, GoesTo, NamespaceTypeOK
    <2> QED BY <1>2, <2>1, <2>2 DEF Enter
  <1>3. CASE Lock(t) \/ Open(t) \/ Mutate(t) \/ MakeJobsDir(t)
        BY <1>1, <1>3 DEF Lock, Open, Mutate, MakeJobsDir, GoesTo, NamespaceTypeOK
  <1>4. CASE MakeJobDir(t) \/ CommitJob(t)
        BY <1>1, <1>4 DEF MakeJobDir, CommitJob, GoesTo, NamespaceTypeOK
  <1>5. CASE Bind(t)
        BY <1>1, <1>5 DEF Bind, Leave, GoesTo, NamespaceTypeOK
  <1>6. CASE EndMutation(t) \/ CloseWait(t) \/ CloseDrain(t) \/ CloseRoot(t)
        BY <1>6 DEF EndMutation, CloseWait, CloseDrain, CloseRoot, Leave, GoesTo, NamespaceTypeOK
  <1>7. CASE ListEpoch(t) \/ ListOpen(t) \/ ListBind(t) \/ ListAbsent(t)
        BY <1>7 DEF ListEpoch, ListOpen, ListBind, ListAbsent, GoesTo, NamespaceTypeOK
  <1>8. CASE ListNames(t) \/ ListEntry(t) \/ ListAgain(t) \/ ListCheck(t)
        BY <1>8 DEF ListNames, ListEntry, ListAgain, ListCheck, Leave, GoesTo, NamespaceTypeOK
  <1> QED BY <1>2, <1>3, <1>4, <1>5, <1>6, <1>7, <1>8 DEF Continue, List

(* A store that has begun to close gives no lease and does not open again. *)
Shuts(t) ==
    \A s \in Stores : lifecycle[s] # "OPEN" =>
        /\ lifecycle'[s] # "OPEN"
        /\ namePc'[t] \notin CloseSteps /\ store'[t] = s =>
              namePc[t] \notin CloseSteps /\ store[t] = s

LEMMA ShutsStep ==
    ASSUME NamespaceInv, NEW t \in Threads, Enter(t) \/ Continue(t)
    PROVE  Shuts(t)
  <1> NamespaceTypeOK
      BY DEF NamespaceInv
  <1> USE DEF directory, shared, locals, listing
  <1>1. ASSUME UNCHANGED lifecycle, store'[t] = Nothing PROVE Shuts(t)
        BY <1>1, NamespaceAssumptions DEF Shuts
  <1>2. ASSUME UNCHANGED lifecycle, store'[t] = store[t], namePc[t] \notin CloseSteps
        PROVE  Shuts(t)
        BY <1>2 DEF Shuts
  <1>3. ASSUME UNCHANGED lifecycle, namePc'[t] \in CloseSteps
        PROVE  Shuts(t)
        BY <1>3 DEF Shuts
  <1>4. CASE Enter(t)
    <2>1. PICK s \in Stores : BeginJob(t, s) \/ BeginList(t, s) \/ BeginClose(t, s) \/ Refused(t, s)
          BY <1>4 DEF Enter
    <2>2. CASE BeginJob(t, s) \/ BeginList(t, s)
          BY <2>2 DEF BeginJob, BeginList, Lease, MayLease, GoesTo, NamespaceTypeOK, Shuts
    <2>3. CASE BeginClose(t, s)
          BY <2>3 DEF BeginClose, GoesTo, NamespaceTypeOK, Shuts, CloseSteps
    <2>4. CASE Refused(t, s)
          BY <2>4 DEF Refused, Shuts
    <2> QED BY <2>1, <2>2, <2>3, <2>4
  <1>5. CASE Lock(t) \/ Open(t) \/ Mutate(t) \/ MakeJobsDir(t) \/ MakeJobDir(t) \/ CommitJob(t)
        BY <1>2, <1>5 DEF Lock, Open, Mutate, MakeJobsDir, MakeJobDir, CommitJob, CloseSteps
  <1>6. CASE Bind(t)
        BY <1>1, <1>2, <1>6 DEF Bind, Leave, NamespaceTypeOK, CloseSteps
  <1>7. CASE EndMutation(t) \/ CloseWait(t)
        BY <1>1, <1>7 DEF EndMutation, CloseWait, Leave, NamespaceTypeOK
  <1>8. CASE ListEpoch(t) \/ ListOpen(t) \/ ListBind(t) \/ ListAbsent(t) \/ ListNames(t)
             \/ ListEntry(t) \/ ListAgain(t)
        BY <1>2, <1>8 DEF ListEpoch, ListOpen, ListBind, ListAbsent, ListNames, ListEntry, ListAgain,
           CloseSteps
  <1>9. CASE ListCheck(t)
        BY <1>1, <1>2, <1>9 DEF ListCheck, Leave, NamespaceTypeOK, CloseSteps
  <1>10. CASE CloseDrain(t)
        BY <1>3, <1>10 DEF CloseDrain, GoesTo, NamespaceTypeOK, CloseSteps
  <1>11. CASE CloseRoot(t)
        BY <1>11, NamespaceAssumptions DEF CloseRoot, Leave, NamespaceTypeOK, Shuts
  <1> QED BY <1>4, <1>5, <1>6, <1>7, <1>8, <1>9, <1>10, <1>11 DEF Continue, List

LEMMA DrainsStep ==
    ASSUME NamespaceInv, NEW t \in Threads, Enter(t) \/ Continue(t), Others(t)
    PROVE  ClosedIsUnused' /\ Drains'
  <1> NamespaceTypeOK /\ Drains /\ ClosedIsUnused
      BY DEF NamespaceInv
  <1> USE DEF directory, shared, locals, listing
  <1>1. \A s \in Stores : lifecycle[s] # "OPEN" =>
           lifecycle'[s] # "OPEN" /\ Leased(s)' \subseteq Leased(s)
        BY ShutsStep DEF Shuts, Leased, Others
  <1>2. \A s \in Stores : lifecycle'[s] = "CLOSED" =>
           lifecycle[s] # "OPEN" /\ Leased(s) = {}
    <2>1. ASSUME UNCHANGED lifecycle
          PROVE  \A s \in Stores : lifecycle'[s] = "CLOSED" =>
                    lifecycle[s] # "OPEN" /\ Leased(s) = {}
          BY <2>1 DEF ClosedIsUnused
    <2>2. CASE Enter(t)
      <3>1. CASE \E s \in Stores : BeginJob(t, s) \/ BeginList(t, s) \/ Refused(t, s)
            BY <2>1, <3>1 DEF BeginJob, BeginList, Refused, Lease
      <3>2. CASE \E s \in Stores : BeginClose(t, s)
            BY <3>2 DEF BeginClose, NamespaceTypeOK, ClosedIsUnused
      <3> QED BY <2>2, <3>1, <3>2 DEF Enter
    <2>3. CASE CloseRoot(t)
          BY <2>3 DEF CloseRoot, Drains, Drained, ClosedIsUnused, NamespaceTypeOK
    <2>4. CASE Continue(t) /\ ~CloseRoot(t)
      <3>1. UNCHANGED lifecycle
            BY <2>4 DEF Continue, List, Lock, Open, Bind, Mutate, MakeJobsDir, MakeJobDir, CommitJob,
               EndMutation, ListEpoch, ListOpen, ListBind, ListAbsent, ListNames, ListEntry,
               ListAgain, ListCheck, CloseWait, CloseDrain
      <3> QED BY <2>1, <3>1
    <2> QED BY <2>2, <2>3, <2>4
  <1>3. ClosedIsUnused'
        BY <1>1, <1>2 DEF ClosedIsUnused
  <1>4. Drained(t)'
    <2>1. ASSUME namePc'[t] \notin {"closeDrain", "closeRoot"} PROVE Drained(t)'
          BY <2>1 DEF Drained
    <2>2. CASE Enter(t)
      <3>1. CASE \E s \in Stores : BeginJob(t, s) \/ BeginList(t, s) \/ Refused(t, s)
            BY <2>1, <3>1 DEF BeginJob, BeginList, Refused, Lease, MayLease, GoesTo, NamespaceTypeOK
      <3>2. CASE \E s \in Stores : BeginClose(t, s)
            BY <3>2 DEF BeginClose, GoesTo, NamespaceTypeOK, Drained
      <3> QED BY <2>2, <3>1, <3>2 DEF Enter
    <2>3. CASE CloseDrain(t)
      <3>1. /\ namePc[t] = "closeDrain" /\ namePc'[t] = "closeRoot" /\ store'[t] = store[t]
            /\ Leased(store[t]) = {} /\ UNCHANGED lifecycle
            BY <2>3 DEF CloseDrain, GoesTo, NamespaceTypeOK
      <3>2. store[t] \in Stores /\ lifecycle[store[t]] # "OPEN"
            BY <3>1 DEF Drains, Drained
      <3>3. Leased(store[t])' = {}
            BY <1>1, <3>1, <3>2 DEF Leased
      <3> QED BY <3>1, <3>2, <3>3 DEF Drained
    <2>4. CASE Lock(t) \/ Open(t) \/ Mutate(t) \/ MakeJobsDir(t) \/ MakeJobDir(t) \/ CommitJob(t)
          BY <2>1, <2>4 DEF Lock, Open, Mutate, MakeJobsDir, MakeJobDir, CommitJob, GoesTo,
             NamespaceTypeOK
    <2>5. CASE Bind(t) \/ EndMutation(t) \/ CloseWait(t) \/ CloseRoot(t) \/ ListCheck(t)
          BY <2>1, <2>5 DEF Bind, EndMutation, CloseWait, CloseRoot, ListCheck, Leave,
             GoesTo, NamespaceTypeOK
    <2>6. CASE ListEpoch(t) \/ ListOpen(t) \/ ListBind(t) \/ ListAbsent(t)
          BY <2>1, <2>6 DEF ListEpoch, ListOpen, ListBind, ListAbsent, GoesTo, NamespaceTypeOK
    <2>7. CASE ListNames(t) \/ ListEntry(t) \/ ListAgain(t)
          BY <2>1, <2>7 DEF ListNames, ListEntry, ListAgain, GoesTo, NamespaceTypeOK
    <2> QED BY <2>2, <2>3, <2>4, <2>5, <2>6, <2>7 DEF Continue, List
  <1>5. ASSUME NEW u \in Threads, u # t PROVE Drained(u)'
    <2>1. Drained(u) /\ namePc'[u] = namePc[u] /\ store'[u] = store[u]
          BY <1>5 DEF Others, Drains
    <2>2. CASE namePc[u] \in {"closeDrain", "closeRoot"}
      <3>1. PICK s \in Stores : s = store[u] /\ lifecycle[s] # "OPEN"
            BY <2>1, <2>2 DEF Drained
      <3>2. lifecycle'[s] # "OPEN" /\ Leased(s)' \subseteq Leased(s)
            BY <1>1, <3>1
      <3>3. Leased(store[u])' = Leased(s)'
            BY <2>1, <3>1 DEF Leased
      <3>4. namePc[u] = "closeRoot" => Leased(s) = {}
            BY <2>1, <3>1 DEF Drained
      <3> QED BY <2>1, <3>1, <3>2, <3>3, <3>4 DEF Drained
    <2>3. CASE namePc[u] \notin {"closeDrain", "closeRoot"}
          BY <2>1, <2>3 DEF Drained
    <2> QED BY <2>2, <2>3
  <1> QED BY <1>3, <1>4, <1>5 DEF Drains

(* A listing looks at the directory in steps; each of them finds what the  *)
(* steps before it found, as long as no mutation came between.             *)
LEMMA OwnLists ==
    ASSUME NamespaceInv, NEW t \in Threads, Enter(t) \/ Continue(t), Announced(t), NamespaceTypeOK'
    PROVE  Lists(t)'
  <1> NamespaceTypeOK /\ Lists(t) /\ Rooted
      BY DEF NamespaceInv
  <1> USE DEF directory, shared, locals, listing
  <1>e. epoch \in Nat /\ since[t] \in Nat /\ epoch' \in Nat /\ epoch' >= epoch
        BY DEF NamespaceTypeOK, Announced
  <1>1. ASSUME since'[t] \in {0, since[t], epoch}, namePc'[t] \notin ListSteps \ {"listEpoch"}
        PROVE  Lists(t)'
    <2>1. since'[t] <= epoch'
          BY <1>e, <1>1 DEF Lists
    <2> QED BY <1>1, <2>1 DEF Lists, SeesTheDisk, ListSteps
  <1>2. CASE Enter(t)
    <2>1. PICK s \in Stores : BeginJob(t, s) \/ BeginList(t, s) \/ BeginClose(t, s) \/ Refused(t, s)
          BY <1>2 DEF Enter
    <2>2. CASE BeginJob(t, s)
      <3>1. PICK j \in Jobs, step \in {"readLock", "writeLock"} : Lease(t, s, j, step)
            BY <2>2 DEF BeginJob
      <3> QED BY <1>1, <3>1 DEF Lease, GoesTo, NamespaceTypeOK, ListSteps
    <2>4. CASE BeginList(t, s)
          BY <1>1, <2>4 DEF BeginList, Lease, GoesTo, NamespaceTypeOK, ListSteps
    <2>3. CASE BeginClose(t, s)
      <3>1. namePc'[t] \in {"closeDrain", "closeWait"} /\ since'[t] = since[t]
            BY <2>3 DEF BeginClose, GoesTo, NamespaceTypeOK
      <3> QED BY <1>1, <3>1 DEF ListSteps
    <2>5. CASE Refused(t, s)
      <3>1. namePc'[t] = "idle" /\ since'[t] = since[t]
            BY <2>5 DEF Refused
      <3> QED BY <1>1, <3>1 DEF ListSteps
    <2> QED BY <2>1, <2>2, <2>3, <2>4, <2>5
  <1>3. CASE Lock(t) \/ Open(t) \/ Mutate(t) \/ MakeJobsDir(t) \/ MakeJobDir(t) \/ CommitJob(t)
    <2>1. since'[t] = since[t]
          BY <1>3 DEF Lock, Open, Mutate, MakeJobsDir, MakeJobDir, CommitJob
    <2>2. \A step : GoesTo(t, step) => namePc'[t] = step
          BY DEF GoesTo, NamespaceTypeOK
    <2>3. CASE Lock(t)
      <3>1. namePc'[t] \in {"readOpen", "writeOpen"}
            BY <2>2, <2>3 DEF Lock
      <3> QED BY <1>1, <2>1, <3>1 DEF ListSteps
    <2>4. CASE Open(t)
      <3>1. namePc'[t] \in {"readBind", "writeBind"}
            BY <2>2, <2>4 DEF Open
      <3> QED BY <1>1, <2>1, <3>1 DEF ListSteps
    <2>5. CASE Mutate(t) \/ MakeJobsDir(t) \/ MakeJobDir(t) \/ CommitJob(t)
      <3>1. namePc'[t] \in Mutations
            BY <2>2, <2>5 DEF Mutate, MakeJobsDir, MakeJobDir, CommitJob, Mutations
      <3> QED BY <1>1, <2>1, <3>1 DEF ListSteps, Mutations
    <2> QED BY <1>3, <2>3, <2>4, <2>5
  <1>4. CASE Bind(t) \/ EndMutation(t) \/ CloseWait(t) \/ CloseDrain(t) \/ CloseRoot(t) \/ ListCheck(t)
    <2>1. since'[t] \in {0, since[t]}
          BY <1>4 DEF Bind, EndMutation, CloseWait, CloseDrain, CloseRoot, ListCheck, Leave,
             NamespaceTypeOK
    <2>2. namePc'[t] \in {"idle", "mutate", "closeRoot", "listEpoch"}
          BY <1>4 DEF Bind, EndMutation, CloseWait, CloseDrain, CloseRoot, ListCheck, Leave, GoesTo,
             NamespaceTypeOK
    <2> QED BY <1>1, <2>1, <2>2 DEF ListSteps
  <1>5. CASE ListEpoch(t)
    <2>1. since'[t] = epoch /\ epoch' = epoch /\ listed'[t] = {} /\ namePc'[t] = "listOpen"
          BY <1>5 DEF ListEpoch, GoesTo, NamespaceTypeOK
    <2> QED BY <1>e, <2>1 DEF Lists, SeesTheDisk
  <1>6. ASSUME UNCHANGED <<mutations, epoch, since>>
        PROVE  (Undisturbed(t)' => Undisturbed(t)) /\ since'[t] <= epoch'
        BY <1>6 DEF Undisturbed, Lists
  <1>7. CASE ListOpen(t)
    <2>1. /\ namePc[t] = "listOpen" /\ namePc'[t] = "listBind" /\ seen'[t] = jobsDir
          /\ UNCHANGED <<jobsDir, dir, mutations, epoch, since, listed>>
          BY <1>7 DEF ListOpen, GoesTo, NamespaceTypeOK
    <2> QED BY <1>6, <2>1 DEF Lists, SeesTheDisk
  <1>8. CASE ListBind(t)
    <2>1. /\ namePc[t] = "listBind" /\ UNCHANGED <<jobsDir, dir, mutations, epoch, since, listed>>
          /\ namePc'[t] = IF ~MayBind(t) THEN "listBad"
                          ELSE IF seen[t] THEN "listNames" ELSE "listAbsent"
          BY <1>8 DEF ListBind, GoesTo, NamespaceTypeOK
    <2>2. Undisturbed(t)' => seen[t] = jobsDir
          BY <1>6, <2>1 DEF Lists, SeesTheDisk
    <2>3. Undisturbed(t)' => namePc'[t] # "listBad"
          BY <2>1, <2>2 DEF MayBind, Rooted
    <2>4. Undisturbed(t)' /\ namePc'[t] = "listAbsent" => ~jobsDir'
          BY <2>1, <2>2
    <2> QED BY <1>6, <2>1, <2>3, <2>4 DEF Lists, SeesTheDisk
  <1>9. CASE ListAbsent(t)
    <2>1. /\ namePc[t] = "listAbsent" /\ UNCHANGED <<jobsDir, dir, mutations, epoch, since, listed>>
          /\ namePc'[t] = IF jobsDir THEN "listBad" ELSE "listCheck"
          BY <1>9 DEF ListAbsent, GoesTo, NamespaceTypeOK
    <2>2. Undisturbed(t)' => ~jobsDir
          BY <1>6, <2>1 DEF Lists, SeesTheDisk
    <2>3. ~jobsDir => StoredJobs = {}
          BY DEF StoredJobs, Rooted
    <2>4. listed'[t] = {} /\ StoredJobs' = StoredJobs
          BY <2>1 DEF Lists, StoredJobs
    <2> QED BY <1>6, <2>1, <2>2, <2>3, <2>4 DEF Lists, SeesTheDisk
  <1>10. CASE ListNames(t)
    <2>1. /\ namePc[t] = "listNames" /\ namePc'[t] = "listEntry"
          /\ names'[t] = Named /\ todo'[t] = Named
          /\ UNCHANGED <<jobsDir, dir, mutations, epoch, since, listed>>
          BY <1>10 DEF ListNames, GoesTo, NamespaceTypeOK
    <2>2. Named' = Named /\ StoredJobs' = StoredJobs /\ StoredJobs \subseteq Named
          BY <2>1 DEF Named, StoredJobs
    <2>3. listed'[t] = {}
          BY <2>1 DEF Lists
    <2> QED BY <1>6, <2>1, <2>2, <2>3 DEF Lists, SeesTheDisk
  <1>11. CASE ListEntry(t)
    <2>1. PICK j \in todo[t] :
             /\ todo' = [todo EXCEPT ![t] = @ \ {j}]
             /\ listed' = [listed EXCEPT ![t] = IF dir[j] = "stored" THEN @ \cup {j} ELSE @]
             /\ GoesTo(t, IF Corrupt(j) THEN "listBad" ELSE "listEntry")
          BY <1>11 DEF ListEntry
    <2>2. namePc[t] = "listEntry" /\ UNCHANGED <<jobsDir, dir, mutations, epoch, since, names>>
          BY <1>11 DEF ListEntry
    <2>3. /\ todo'[t] = todo[t] \ {j} /\ j \in Jobs
          /\ listed'[t] = IF dir[j] = "stored" THEN listed[t] \cup {j} ELSE listed[t]
          /\ namePc'[t] = IF Corrupt(j) THEN "listBad" ELSE "listEntry"
          BY <2>1 DEF GoesTo, NamespaceTypeOK
    <2>4. Named' = Named /\ StoredJobs' = StoredJobs
          BY <2>2 DEF Named, StoredJobs
    <2>5. ASSUME Undisturbed(t)' PROVE SeesTheDisk(t)'
      <3>1. names[t] = Named /\ todo[t] \subseteq Named /\ listed[t] = StoredJobs \ todo[t]
            BY <1>6, <2>2, <2>5 DEF Lists, SeesTheDisk
      <3>2. CASE Corrupt(j)
            BY <2>2, <2>3, <3>2 DEF SeesTheDisk, Corrupt
      <3>3. CASE ~Corrupt(j)
        <4>1. listed'[t] = StoredJobs \ todo'[t]
              BY <2>3, <3>1 DEF StoredJobs
        <4> QED BY <2>2, <2>3, <2>4, <3>1, <3>3, <4>1 DEF SeesTheDisk
      <3> QED BY <3>2, <3>3
    <2> QED BY <1>6, <2>2, <2>3, <2>5 DEF Lists
  <1>12. CASE ListAgain(t)
    <2>1. /\ namePc[t] = "listEntry" /\ todo[t] = {}
          /\ UNCHANGED <<jobsDir, dir, mutations, epoch, since, listed>>
          /\ namePc'[t] = IF names[t] = Named THEN "listCheck" ELSE "listChanged"
          BY <1>12 DEF ListAgain, GoesTo, NamespaceTypeOK
    <2>2. StoredJobs' = StoredJobs
          BY <2>1 DEF StoredJobs
    <2>3. Undisturbed(t)' => names[t] = Named /\ listed[t] = StoredJobs
          BY <1>6, <2>1 DEF Lists, SeesTheDisk
    <2> QED BY <1>6, <2>1, <2>2, <2>3 DEF Lists, SeesTheDisk
  <1> QED BY <1>2, <1>3, <1>4, <1>5, <1>7, <1>8, <1>9, <1>10, <1>11, <1>12 DEF Continue, List

LEMMA StepKeepsNamespace ==
    ASSUME NamespaceInv, [NamespaceNext]_namespaceVars
    PROVE  NamespaceInv'
  <1>1. ASSUME NEW t \in Threads, Enter(t) \/ Continue(t) PROVE NamespaceInv'
    <2>1. NamespaceTypeOK' /\ Others(t) /\ Announced(t)
          BY <1>1, EnterFrame, ContinueFrame DEF NamespaceInv
    <2>2. CountsMutations' /\ Rooted'
          BY <1>1, <2>1, CountsStep, RootedStep
    <2>3. ClosedIsUnused' /\ Drains'
          BY <1>1, <2>1, DrainsStep
    <2>4. \A u \in Threads : namePc'[u] \in Writing => job'[u] \in Jobs
          BY <1>1, <2>1, WriterStep DEF Others, NamespaceInv
    <2>5. \A u \in Threads : Lists(u)'
          BY <1>1, <2>1, OtherLists, OwnLists
    <2> QED BY <2>1, <2>2, <2>3, <2>4, <2>5 DEF NamespaceInv
  <1>2. CASE UNCHANGED namespaceVars
    <2> USE <1>2 DEF namespaceVars, directory, shared, locals, listing
    <2>1. NamespaceTypeOK' /\ Rooted' /\ \A t \in Threads : namePc'[t] \in Writing => job'[t] \in Jobs
          BY DEF NamespaceInv, NamespaceTypeOK, Rooted
    <2>2. Mutating' = Mutating
          BY DEF Mutating
    <2>3. CountsMutations'
          BY <2>2 DEF NamespaceInv, CountsMutations
    <2>4. ClosedIsUnused' /\ Drains'
          BY DEF NamespaceInv, ClosedIsUnused, Drains, Drained, Leased
    <2>5. \A t \in Threads : Lists(t)'
          BY DEF NamespaceInv, Lists, Undisturbed, SeesTheDisk, Named, StoredJobs, Corrupt
    <2> QED BY <2>1, <2>3, <2>4, <2>5 DEF NamespaceInv
  <1> QED BY <1>1, <1>2 DEF NamespaceNext

LEMMA NamespaceInitially ==
    ASSUME NamespaceInit PROVE NamespaceInv
  <1> USE DEF NamespaceInit
  <1>1. NamespaceTypeOK
    <2>1. 0 \in 0 .. MaxWrites
          BY NamespaceAssumptions
    <2>2. "idle" \in CallSteps
          BY DEF CallSteps
    <2> QED BY <2>1, <2>2 DEF NamespaceTypeOK
  <1>2. Mutating = {}
        BY DEF Mutating, Mutations
  <1>3. CountsMutations
        BY <1>2, FS_EmptySet DEF CountsMutations
  <1>4. Rooted /\ ClosedIsUnused /\ Drains
        BY DEF Rooted, ClosedIsUnused, Drains, Drained
  <1>5. \A t \in Threads : Lists(t) /\ namePc[t] \notin Writing
    <2> SUFFICES ASSUME NEW t \in Threads
                 PROVE  Lists(t) /\ namePc[t] \notin Writing
        OBVIOUS
    <2>1. namePc[t] = "idle" /\ since[t] = 0 /\ epoch = 0
          OBVIOUS
    <2> QED BY <2>1 DEF Lists, SeesTheDisk, Writing, JobSteps, Mutations
  <1> QED BY <1>1, <1>3, <1>4, <1>5 DEF NamespaceInv

(* Only its own check ends a listing, with an epoch that has not moved and *)
(* while no thread is in the middle of a mutation.                         *)
LEMMA ListingEnds ==
    ASSUME NamespaceInv, [NamespaceNext]_namespaceVars, NEW t \in Threads,
           namePc[t] \in {"listCheck", "listChanged", "listBad"}, namePc'[t] = "idle"
    PROVE  SeesTheDisk(t) /\ \A u \in Threads : namePc[u] \notin Mutations
  <1>1. ~UNCHANGED namespaceVars
        BY DEF namespaceVars
  <1>2. PICK u \in Threads : Enter(u) \/ Continue(u)
        BY <1>1 DEF NamespaceNext
  <1>3. Others(u)
        BY <1>2, EnterFrame, ContinueFrame DEF NamespaceInv
  <1>4. u = t
        BY <1>3 DEF Others
  <1>5. CASE Enter(t)
        BY <1>5 DEF Enter, BeginJob, BeginList, BeginClose, Refused, Lease, MayLease
  <1>6. CASE Continue(t)
    <2>1. ListCheck(t)
          BY <1>6 DEF Continue, List, Lock, Open, Bind, Mutate, MakeJobsDir, MakeJobDir, CommitJob,
             EndMutation, ListEpoch, ListOpen, ListBind, ListAbsent, ListNames, ListEntry, ListAgain,
             CloseWait, CloseDrain, CloseRoot
    <2>2. Undisturbed(t)
          BY <2>1 DEF ListCheck, GoesTo, Undisturbed, NamespaceInv, NamespaceTypeOK
    <2>3. Mutating = {}
          BY <2>2, FS_EmptySet DEF Undisturbed, NamespaceInv, CountsMutations
    <2> QED BY <2>2, <2>3 DEF NamespaceInv, Lists, Mutating
  <1> QED BY <1>2, <1>4, <1>5, <1>6

(* A store is closed only when no call uses it, a listing is the set of    *)
(* stored jobs at one moment of the call, and it says that the store is    *)
(* corrupt only when a job of it is, or when a first commit has failed and *)
(* left the directory of its job empty (close, list_job_ids,               *)
(* _validated_state_from_fd and _namespace_mutation of                     *)
(* workflow/job_store.py).                                                 *)
THEOREM NamespaceSound ==
    NamespaceSpec => NamespaceIsSound
  <1>1. NamespaceInit => NamespaceInv
        BY NamespaceInitially
  <1>2. NamespaceInv /\ [NamespaceNext]_namespaceVars => NamespaceInv'
        BY StepKeepsNamespace
  <1>3. NamespaceInv => NamespaceTypeOK /\ ClosedIsUnused
        BY DEF NamespaceInv
  <1>4. NamespaceInv /\ [NamespaceNext]_namespaceVars =>
           [\A t \in Threads :
               namePc[t] = "listCheck" /\ namePc'[t] = "idle" => listed[t] = StoredJobs]_namespaceVars
        BY ListingEnds DEF SeesTheDisk
  <1>5. NamespaceInv /\ [NamespaceNext]_namespaceVars =>
           [\A t \in Threads : namePc[t] \in {"listChanged", "listBad"} /\ namePc'[t] = "idle" =>
               \E j \in Jobs : dir[j] = "broken" \/ LeftEmpty(j)]_namespaceVars
        BY ListingEnds DEF SeesTheDisk, Corrupt, LeftEmpty
  <1>6. NamespaceSpec => ListsOneMoment
        BY <1>1, <1>2, <1>4, PTL DEF NamespaceSpec, ListsOneMoment
  <1>7. NamespaceSpec => ListBlamesTheDisk
        BY <1>1, <1>2, <1>5, PTL DEF NamespaceSpec, ListBlamesTheDisk
  <1>8. NamespaceSpec => [](NamespaceTypeOK /\ ClosedIsUnused)
        BY <1>1, <1>2, <1>3, PTL DEF NamespaceSpec
  <1> QED BY <1>6, <1>7, <1>8 DEF NamespaceIsSound
=============================================================================
