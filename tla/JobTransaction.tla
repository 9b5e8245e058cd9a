--------------------------- MODULE JobTransaction ---------------------------
(***************************************************************************)
(* The fixed-slot marker protocol of workflow/_job_store_transaction.py    *)
(* for one job directory, one file-system step at a time.                  *)
(*                                                                         *)
(* Three files matter: snapshot.json, events.ndjson and the state marker.  *)
(* Each has a swap slot beside it.  A commit rewrites the slot, fsyncs its *)
(* bytes and exchanges the two names; the directory entry survives a power *)
(* loss only once it has been written back, at the latest by an fsync of   *)
(* the directory.  At most two inodes ever carry a file and its slot, so   *)
(* the slot's inode is the one the final name does not hold.               *)
(*                                                                         *)
(* The repository is "single-process" (job_store.py:227) and every call    *)
(* holds the job lock, so one call runs at a time and its reads see a      *)
(* directory nobody else changes.  Contents are named by the number of the *)
(* call that wrote them, so that a newer content is a larger number.       *)
(***************************************************************************)
EXTENDS Naturals

CONSTANTS
    MaxGeneration,  \* MAX_GENERATION, 2^63 - 1 in the code
    MaxCalls,       \* bound: calls that write
    NoFile,         \* a name the directory does not hold
    Torn,           \* bytes that neither parse nor match a hash
    Absent, Broken, \* outcomes of a read that yield no job
    NoCall,
    MkdirDurable    \* a new job directory is never left without its parent's fsync

Files  == {"snapshot", "events", "marker"}
Inodes == {0, 1}

Value  == [snapshot : Nat, events : Nat \cup {NoFile}]
Marker == [phase : {"CLEAN", "PENDING"}, generation : 0 .. MaxGeneration,
           snapshot : Nat, events : Nat \cup {NoFile}]

ASSUME BoundsAssumption == MaxGeneration \in Nat \ {0} /\ MaxCalls \in Nat
ASSUME MkdirAssumption == MkdirDurable \in BOOLEAN
ASSUME SentinelAssumption ==
    /\ NoFile \notin Nat \cup {Torn}
    /\ Torn \notin Nat \cup Marker
    /\ Absent \notin Value
    /\ Broken \notin Value \cup {Absent}
    /\ NoCall \notin Value

VARIABLES
    live,   \* the inode each final name holds, as every process sees it
    disk,   \* the inode each final name holds after a power loss
    data,   \* the bytes of each inode
    entry,  \* the job directory in its parent: "none", "volatile", "durable"
    pc,     \* the next step of the running call
    call,   \* [target, generation, creating] of the running call, or NoCall
    calls,  \* calls started so far
    \* History: what the register of CommitRegister remembers.
    base, acked, doubt

files   == <<live, disk, data, entry>>
history == <<base, acked, doubt>>
vars    == <<files, pc, call, calls, history>>

NoFiles     == [f \in Files |-> NoFile]
Slot(f)     == IF live[f] = NoFile THEN 0 ELSE 1 - live[f]
Bytes(d, f) == IF d[f] = NoFile THEN NoFile ELSE data[f][d[f]]

-----------------------------------------------------------------------------
(* Reading a directory. *)

Stored(d) == [snapshot |-> Bytes(d, "snapshot"), events |-> Bytes(d, "events")]

(* A marker vouches for exactly the contents whose hashes it carries. *)
Vouches(m, d) ==
    /\ m \in Marker
    /\ m.phase = "CLEAN"
    /\ m.snapshot = Bytes(d, "snapshot")
    /\ m.events = Bytes(d, "events")

Read(d) ==
    IF d["marker"] = NoFile
    THEN IF d["snapshot"] = NoFile /\ d["events"] = NoFile THEN Absent
         ELSE IF Stored(d) \in Value THEN Stored(d)   \* a directory of the old format
         ELSE Broken
    ELSE IF d["snapshot"] # NoFile /\ Vouches(Bytes(d, "marker"), d) THEN Stored(d)
         ELSE Broken

Legacy(d) == d["marker"] = NoFile

MarkerBytes(phase, generation, v) ==
    [phase |-> phase, generation |-> generation,
     snapshot |-> v.snapshot, events |-> v.events]

(* _accept_clean: the commit reads back what it meant to publish. *)
Accepted ==
    /\ Read(live) = call.target
    /\ ~Legacy(live)
    /\ Bytes(live, "marker").generation = call.generation

-----------------------------------------------------------------------------
Init ==
    /\ live = NoFiles
    /\ disk = NoFiles
    /\ data = [f \in Files |-> [i \in Inodes |-> Torn]]
    /\ entry = "none"
    /\ pc = "idle"
    /\ call = NoCall
    /\ calls = 0
    /\ base = Absent
    /\ acked = Absent
    /\ doubt = FALSE

Start(step, target, generation, creating) ==
    /\ pc = "idle"
    /\ calls < MaxCalls
    /\ calls' = calls + 1
    /\ pc' = step
    /\ call' = [target |-> target, generation |-> generation, creating |-> creating]
    /\ base' = Read(live)
    /\ doubt' = TRUE
    /\ UNCHANGED <<files, acked>>

(* save_snapshot of a job nobody has stored: commit turns into genesis. *)
Create ==
    /\ Read(live) = Absent
    /\ Start("mkdir", [snapshot |-> calls + 1, events |-> NoFile], 0, TRUE)

CommitUnbounded(target) ==  \* mutant: the generation is never exhausted
    IF Legacy(live)
    THEN Start("bootWrite", target, 1, FALSE)
    ELSE Start("pendingWrite", target, Bytes(live, "marker").generation + 1, FALSE)

(* commit of a target over a readable job, from save_snapshot and          *)
(* append_event: a log once written is never dropped, a directory without  *)
(* a marker is migrated first, and an exhausted generation refuses.        *)
Commit(target) ==
    /\ Read(live).events # NoFile => target.events # NoFile
    /\ IF Legacy(live)
       THEN Start("bootWrite", target, 1, FALSE)
       ELSE LET g == Bytes(live, "marker").generation
            IN  g # MaxGeneration /\ Start("pendingWrite", target, g + 1, FALSE)

(* A snapshot is saved anew or saved again. *)
SaveSnapshot ==
    /\ Read(live) \in Value
    /\ \E content \in {calls + 1, Read(live).snapshot} :
           Commit([Read(live) EXCEPT !.snapshot = content])

AppendEventStale ==  \* mutant: composed from what an earlier call read
    /\ Read(live) \in Value /\ base \in Value
    /\ Commit([base EXCEPT !.events = calls + 1])

AppendEvent ==
    /\ Read(live) \in Value
    /\ Commit([Read(live) EXCEPT !.events = calls + 1])

-----------------------------------------------------------------------------
(* The steps a call is built from. *)

Goto(step) == pc' = step /\ UNCHANGED <<call, calls, history>>

Fail == pc' = "idle" /\ call' = NoCall /\ UNCHANGED <<calls, history>>

Acknowledge ==
    /\ pc' = "idle"
    /\ call' = NoCall
    /\ base' = call.target
    /\ acked' = call.target
    /\ doubt' = FALSE
    /\ UNCHANGED calls

(* write_slot: the slot is truncated, rewritten and fsynced before it is   *)
(* renamed; an error or a crash half-way leaves it torn.                   *)
WriteSlot(f, bytes) ==
    /\ data' = [data EXCEPT ![f][Slot(f)] = bytes]
    /\ UNCHANGED <<live, disk, entry>>

(* rename_noreplace and rename_exchange: the final name gets the slot. *)
Rename(f) == live' = [live EXCEPT ![f] = Slot(f)] /\ UNCHANGED <<disk, data, entry>>

SyncForgotten == UNCHANGED files  \* mutant: fsync_directory does nothing

(* fsync_directory: every directory entry as it is now survives. *)
SyncDirectory == disk' = live /\ UNCHANGED <<live, data, entry>>

(* The files whose contents the commit replaces, one after the other. *)
Changed ==
    {f \in {"snapshot", "events"} : call.target[f] # Bytes(live, f)}

WriteStep(step, f, bytes, next) ==
    /\ pc = step
    /\ \/ WriteSlot(f, bytes) /\ Goto(next)
       \/ WriteSlot(f, Torn) /\ Fail

SyncStep(step, next) ==
    /\ pc = step
    /\ \/ SyncDirectory /\ Goto(next)
       \/ UNCHANGED files /\ Fail

(* RenameUncertain: the call fails and the rename may have been applied. *)
RenameStep(step, f, next) ==
    /\ pc = step
    /\ \/ Rename(f) /\ Goto(next)
       \/ (Rename(f) \/ UNCHANGED files) /\ Fail

(* RenameUncertain with a read that tells: applied, it counts as done. *)
CheckedRenameStep(step, f, next) ==
    /\ pc = step
    /\ \/ Rename(f) /\ Goto(next)
       \/ UNCHANGED files /\ Fail

-----------------------------------------------------------------------------
(* open_or_create_directory: a directory that exists is used as it is, so  *)
(* that only the call that made it ever fsyncs the parent.                 *)
OpenOrCreateDirectory ==
    /\ pc = "mkdir"
    /\ UNCHANGED <<live, disk, data>>
    /\ \/ entry # "none" /\ UNCHANGED entry /\ Goto("genesisWrite")
       \/ entry = "none" /\ entry' = "durable" /\ Goto("genesisWrite")
       \/ /\ entry = "none"
          /\ entry' \in {"none", IF MkdirDurable THEN "durable" ELSE "volatile"}
          /\ Fail

(* genesis: publish the first snapshot under the old format. *)
GenesisWrite  == WriteStep("genesisWrite", "snapshot", call.target.snapshot, "genesisRename")
GenesisRename == CheckedRenameStep("genesisRename", "snapshot", "genesisSync")
GenesisSync   == SyncStep("genesisSync", "bootWrite")

(* _bootstrap: give a directory of the old format its first marker. *)
BootWrite  == WriteStep("bootWrite", "marker", MarkerBytes("CLEAN", 0, Read(live)), "bootRename")
BootRename == CheckedRenameStep("bootRename", "marker", "bootSync")

BootSyncReturns ==  \* mutant: a migrating commit stops at the migration
    /\ pc = "bootSync"
    /\ \/ SyncDirectory /\ Acknowledge
       \/ UNCHANGED files /\ Fail

BootSync ==
    /\ pc = "bootSync"
    /\ \/ SyncDirectory /\ IF call.creating THEN Acknowledge ELSE Goto("pendingWrite")
       \/ UNCHANGED files /\ Fail

(* _commit_clean: the PENDING marker is durable before a file changes. *)
PendingWrite ==
    WriteStep("pendingWrite", "marker",
              MarkerBytes("PENDING", call.generation, call.target), "pendingSwap")
PendingSwap == RenameStep("pendingSwap", "marker", "pendingSync")
PendingSync == SyncStep("pendingSync", "stateWrite")

(* _publish_changed_state: a commit of what is stored already skips it. *)
StateWrite ==
    /\ pc = "stateWrite"
    /\ \E f \in Changed : WriteStep("stateWrite", f, call.target[f], "stateSwap")
StateSwap ==
    /\ pc = "stateSwap"
    /\ \E f \in Changed : RenameStep("stateSwap", f, "stateWrite")
StateDone == pc = "stateWrite" /\ Changed = {} /\ UNCHANGED files /\ Goto("stateSync")
StateSync == SyncStep("stateSync", "cleanWrite")

(* _publish_clean: the CLEAN marker makes the new contents readable. *)
CleanWrite ==
    WriteStep("cleanWrite", "marker",
              MarkerBytes("CLEAN", call.generation, call.target), "cleanSwap")

(* A rename in doubt that turns out applied still needs its fsync, with    *)
(* no second try: _confirm_uncertain_clean.                                *)
CleanSwap ==
    \/ CheckedRenameStep("cleanSwap", "marker", "cleanSync")
    \/ pc = "cleanSwap" /\ Rename("marker") /\ Goto("cleanResync")

(* An fsync that fails after the CLEAN marker is visible is tried once     *)
(* more: _compensate_clean_fsync.                                          *)
CleanSync ==
    /\ pc = "cleanSync"
    /\ \/ SyncDirectory /\ Accepted /\ Acknowledge
       \/ UNCHANGED files /\ Accepted /\ Goto("cleanResync")

CleanResyncIgnored ==  \* mutant: a second fsync failure is swallowed
    /\ pc = "cleanResync"
    /\ SyncDirectory \/ UNCHANGED files
    /\ Accepted
    /\ Acknowledge

CleanResync ==
    /\ pc = "cleanResync"
    /\ \/ SyncDirectory /\ Accepted /\ Acknowledge
       \/ UNCHANGED files /\ Fail

-----------------------------------------------------------------------------
(* The environment. *)

(* The kernel may write a directory entry back at any time. *)
WriteBack ==
    \E f \in Files :
        /\ disk[f] # live[f]
        /\ disk' = [disk EXCEPT ![f] = live[f]]
        /\ UNCHANGED <<live, data, entry, pc, call, calls, history>>

(* The process dies; the kernel keeps the directory. *)
ProcessCrash == pc # "idle" /\ UNCHANGED files /\ Fail

(* The machine dies: only what was written back remains. *)
PowerLoss ==
    /\ pc # "idle" \/ live # disk \/ entry = "volatile"
    /\ IF entry = "volatile"
       THEN entry' = "none" /\ live' = NoFiles /\ disk' = NoFiles
       ELSE live' = disk /\ UNCHANGED <<disk, entry>>
    /\ UNCHANGED data
    /\ Fail

Next ==
    \/ Create
    \/ SaveSnapshot
    \/ AppendEvent
    \/ OpenOrCreateDirectory \/ GenesisWrite \/ GenesisRename \/ GenesisSync
    \/ BootWrite \/ BootRename \/ BootSync
    \/ PendingWrite \/ PendingSwap \/ PendingSync
    \/ StateWrite \/ StateSwap \/ StateDone \/ StateSync
    \/ CleanWrite \/ CleanSwap \/ CleanSync \/ CleanResync
    \/ WriteBack \/ ProcessCrash \/ PowerLoss

Spec == Init /\ [][Next]_vars

-----------------------------------------------------------------------------
Steps == {"idle", "mkdir", "genesisWrite", "genesisRename", "genesisSync", "bootWrite",
          "bootRename", "bootSync", "pendingWrite", "pendingSwap", "pendingSync",
          "stateWrite", "stateSwap", "stateSync", "cleanWrite", "cleanSwap",
          "cleanSync", "cleanResync"}

Call == [target : Value, generation : 0 .. MaxGeneration, creating : BOOLEAN]

Contents(f) == IF f = "marker" THEN Marker \cup {Torn} ELSE Nat \cup {Torn}

FilesOK ==
    /\ live \in [Files -> Inodes \cup {NoFile}]
    /\ disk \in [Files -> Inodes \cup {NoFile}]
    /\ data = [f \in Files |-> [i \in Inodes |-> data[f][i]]]
    /\ \A f \in Files, i \in Inodes : data[f][i] \in Contents(f)
    /\ entry \in {"none", "volatile", "durable"}

(* The types of the variables: in particular generations stay within the   *)
(* marker's signed 63 bits.                                                *)
TypeOK ==
    /\ FilesOK
    /\ pc \in Steps
    /\ IF pc = "idle" THEN call = NoCall ELSE call \in Call
    /\ calls \in 0 .. MaxCalls
    /\ base \in Value \cup {Absent}
    /\ acked \in Value \cup {Absent}
    /\ doubt \in BOOLEAN

(* What a power loss would leave. *)
Remains == IF entry = "volatile" THEN Absent ELSE Read(disk)

(* Once append_event or save_snapshot has returned, readers see what it    *)
(* wrote, and still would after a power loss, until another call begins:   *)
(* no fsync is missing on any path to success, retries included.           *)
DurableOnceAcknowledged == ~doubt => Read(live) = acked /\ Remains = acked

(* v is w or holds newer contents. *)
AtLeast(v, w) ==
    \/ w = Absent
    \/ /\ v \in Value
       /\ v.snapshot >= w.snapshot
       /\ w.events # NoFile => v.events # NoFile /\ v.events >= w.events

(* Whatever interrupts later calls, a directory that can be read, now or   *)
(* after a power loss, never shows anything older than the last            *)
(* acknowledged value: an interrupted commit is not undone by mixing       *)
(* retired files back in.                                                  *)
NeverOlderThanAcknowledged ==
    \A v \in {Read(live), Remains} : v # Broken => AtLeast(v, acked)

(* What readers of an acknowledged job see, a power loss keeps or makes    *)
(* unreadable, but never takes back: not even the contents of a call that  *)
(* failed, so that what a caller did after reading them stands.            *)
NeverTakenBack ==
    acked # Absent /\ Read(live) # Broken => Remains \in {Read(live), Broken}

(* Every call starts from what it read.  Once a job has been acknowledged, *)
(* no call ever reads something older than an earlier call read, although  *)
(* a read may show a commit whose fsync failed and that a power loss can   *)
(* still take away.                                                        *)
ReadersNeverGoBack == [][acked # Absent => AtLeast(base', base)]_vars

(* Nothing goes back: neither what readers may see of a job, nor what a    *)
(* call begins from. *)
NothingGoesBack == []NeverTakenBack /\ ReadersNeverGoBack

Register == INSTANCE CommitRegister WITH
    value <- Read(live),
    target <- IF pc = "idle" THEN NoCall ELSE call.target

(* The protocol implements the register of CommitRegister: a call lands    *)
(* whole or not at all, only a directory in doubt can become unreadable,   *)
(* and an acknowledged one changes for nothing but the next call.          *)
ImplementsRegister == Register!Spec
=============================================================================
