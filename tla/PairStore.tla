------------------------------- MODULE PairStore -------------------------------
(***************************************************************************)
(* One directory of the artifact store (workflow/production_artifacts.py)  *)
(* or of the report store (workflow/production_reports.py).  Both keep a   *)
(* pair of files, the content and the metadata that commits it, and both   *)
(* follow one protocol: each file is written under a temporary name,       *)
(* synced, linked to its final name, and the temporary name is removed.    *)
(* A report is read again after it was stored (rereads).                   *)
(*                                                                         *)
(* Threads put or read, in one store, which serializes them by a lock per  *)
(* directory, or in stores of their own, which do not know of each other.  *)
(* Any call of the operating system may fail, a process may die and the    *)
(* machine may lose power (bounded by MaxPairFaults).                      *)
(*                                                                         *)
(* What a power loss leaves: the names that were there at the last fsync   *)
(* of the directory and were not removed since ("sure"), and any of those  *)
(* that were there at some time since ("maybe").                           *)
(***************************************************************************)
EXTENDS Naturals, FiniteSets

CONSTANTS
    Putters,        \* the threads
    Docs,           \* the documents they put
    MaxPairFaults,  \* bound
    Nothing         \* no thread, no document, no outcome

ASSUME PairAssumptions ==
    /\ "final" \notin Putters
    /\ Nothing \notin Putters \cup {"corrupted"}

Kinds == {"content", "metadata"}

VARIABLES
    sameStore,      \* the threads share a store
    rereads,        \* this is a report store
    doc,            \* what each thread puts
    pairOp, pairPc, \* its call, and what it does next
    plan,           \* the aliases its scan found
    kind, linked,   \* the file it publishes; its link made the final name
    pairLock,
    pairDir,        \* the directory: "absent", "made", "synced"
    ino,            \* what a thread's file of each kind holds
    owner,          \* whose file bears a final name
    now, sure, maybe,
    pairResult,
    acked, known,   \* the document of a put that returned; those put or read
    pairFaults

inputs == <<sameStore, rereads, doc>>
names == <<now, sure, maybe>>
pairDisk == <<pairDir, ino, owner, names>>
pairMind == <<pairOp, plan, kind, linked>>
pairsVars == <<inputs, pairMind, pairPc, pairLock, pairDisk, pairResult, acked, known, pairFaults>>

Final(k) == <<"final", k>>
Temp(t, k) == <<t, k>>
Names == {Final(k) : k \in Kinds} \cup (Putters \X Kinds)

PairInit ==
    /\ sameStore \in BOOLEAN /\ rereads \in BOOLEAN
    /\ doc \in [Putters -> Docs]
    /\ pairOp = [t \in Putters |-> "read"] /\ pairPc = [t \in Putters |-> "idle"]
    /\ plan = [t \in Putters |-> {}]
    /\ kind = [t \in Putters |-> "content"] /\ linked = [t \in Putters |-> FALSE]
    /\ pairLock = Nothing
    /\ pairDir = "absent"
    /\ ino = [t \in Putters |-> [k \in Kinds |-> "none"]]
    /\ owner = [k \in Kinds |-> Nothing]
    /\ now = {} /\ sure = {} /\ maybe = {}
    /\ pairResult = [t \in Putters |-> Nothing]
    /\ acked = Nothing /\ known = {} /\ pairFaults = 0

-----------------------------------------------------------------------------
(* The directory *)

Visible(k) == Final(k) \in now
Temps(k) == {t \in Putters : Temp(t, k) \in now}

\* A file that _read_file accepts: one name, and the bytes that were hashed.
Readable(k) ==
    /\ Visible(k) /\ Temp(owner[k], k) \notin now
    /\ ino[owner[k]][k] \in {"whole", "durable"}
DocOf(k) == doc[owner[k]]

\* A temporary name that is not the second name of the final file.
Orphan(k) == Temps(k) # {} /\ ~(Visible(k) /\ Temps(k) = {owner[k]})

AddName(n) == now' = now \cup {n} /\ maybe' = maybe \cup {n} /\ UNCHANGED sure
DropName(n) == now' = now \ {n} /\ sure' = sure \ {n} /\ UNCHANGED maybe
SyncPairDir == now' = now /\ sure' = now /\ maybe' = now

PairGoto(t, step) == pairPc' = [pairPc EXCEPT ![t] = step] /\ UNCHANGED <<pairLock, pairResult, acked, known, pairFaults>>

\* A call ends: the descriptors are closed and the lock is let go.
PairReturn(t, outcome) ==
    /\ pairPc' = [pairPc EXCEPT ![t] = "idle"]
    /\ pairLock' = IF pairLock = t THEN Nothing ELSE pairLock
    /\ pairResult' = [pairResult EXCEPT ![t] = outcome]
PairRaise(t, outcome) == PairReturn(t, outcome) /\ UNCHANGED <<acked, known>>
Corrupted(t) == PairRaise(t, "corrupted") /\ UNCHANGED <<pairMind, pairDisk, pairFaults>>

Stored(t) ==
    /\ PairReturn(t, "stored")
    /\ acked' = doc[t] /\ known' = known \cup {doc[t]}
    /\ UNCHANGED pairFaults

-----------------------------------------------------------------------------
(* The calls *)

Call(t, name) ==
    /\ pairPc[t] = "idle"
    /\ pairOp' = [pairOp EXCEPT ![t] = name]
    /\ plan' = [plan EXCEPT ![t] = {}] /\ linked' = [linked EXCEPT ![t] = FALSE]
    /\ kind' = [kind EXCEPT ![t] = "content"]
    /\ \/ ~sameStore /\ UNCHANGED pairLock
       \/ sameStore /\ pairLock = Nothing /\ pairLock' = t
    /\ pairPc' = [pairPc EXCEPT ![t] = "open"]
    /\ pairResult' = [pairResult EXCEPT ![t] = Nothing]
    /\ UNCHANGED <<pairDisk, acked, known, pairFaults>>

SyncIfMade(t) ==  \* mutant: the parent is synced only by the call that made the directory
    /\ pairPc[t] = "open"
    /\ UNCHANGED <<pairMind, ino, owner, names>>
    /\ IF pairOp[t] = "read" /\ pairDir = "absent"
       THEN PairRaise(t, "absent") /\ UNCHANGED <<pairDir, pairFaults>>
       ELSE /\ pairDir' = IF pairDir = "absent" THEN "made" ELSE pairDir
            /\ PairGoto(t, IF pairDir = "absent" THEN "syncParent" ELSE "scan")

\* _open_scope: a put makes the directory and syncs its parent, made or not.
OpenScope(t) ==
    /\ pairPc[t] = "open"
    /\ UNCHANGED <<pairMind, ino, owner, names>>
    /\ IF pairOp[t] = "read" /\ pairDir = "absent"
       THEN PairRaise(t, "absent") /\ UNCHANGED <<pairDir, pairFaults>>
       ELSE /\ pairDir' = IF pairDir = "absent" THEN "made" ELSE pairDir
            /\ PairGoto(t, IF pairOp[t] = "put" THEN "syncParent" ELSE "scan")

SyncPairParent(t) ==
    /\ pairPc[t] = "syncParent"
    /\ pairDir' = "synced"
    /\ PairGoto(t, "scan") /\ UNCHANGED <<pairMind, ino, owner, names>>

\* _namespace_stats and _alias_plans, looked at in one moment.
Scan(t) ==
    /\ pairPc[t] = "scan"
    /\ IF \E k \in Kinds : Orphan(k)
       THEN Corrupted(t)
       ELSE /\ plan' = [plan EXCEPT ![t] = {k \in Kinds : Temps(k) # {}}]
            /\ PairGoto(t, IF plan'[t] = {} THEN "committed" ELSE "recover")
            /\ UNCHANGED <<pairOp, kind, linked, pairDisk>>

\* _recover_alias removes the second name that an interrupted publication left.
RecoverAlias(t, k) ==
    /\ pairPc[t] = "recover" /\ k \in plan[t]
    /\ IF Visible(k) /\ Temps(k) = {owner[k]}
       THEN /\ DropName(Temp(owner[k], k))
            /\ plan' = [plan EXCEPT ![t] = @ \ {k}]
            /\ PairGoto(t, "syncAlias")
            /\ UNCHANGED <<pairOp, kind, linked, pairDir, ino, owner>>
       ELSE Corrupted(t)
SyncAlias(t) ==
    /\ pairPc[t] = "syncAlias"
    /\ SyncPairDir
    /\ PairGoto(t, IF plan[t] = {} THEN "committed" ELSE "recover")
    /\ UNCHANGED <<pairMind, pairDir, ino, owner>>

Committed == Readable("metadata") /\ Readable("content") /\ DocOf("metadata") = DocOf("content")

FsyncFile(k) == ino' = [ino EXCEPT ![owner[k]][k] = "durable"]

\* _read_committed: of a read, and before a put, which makes what it finds durable.
ReadCommitted(t) ==
    /\ pairPc[t] = "committed"
    /\ \/ /\ ~Visible("metadata") /\ pairOp[t] = "read"
          /\ PairRaise(t, "absent") /\ UNCHANGED <<pairMind, pairDisk, pairFaults>>
       \/ /\ ~Visible("metadata") /\ pairOp[t] = "put"
          /\ PairGoto(t, "content") /\ UNCHANGED <<pairMind, pairDisk>>
       \/ /\ Visible("metadata") /\ ~Committed /\ Corrupted(t)
       \/ /\ Visible("metadata") /\ Committed /\ pairOp[t] = "read"
          /\ PairReturn(t, "read") /\ known' = known \cup {DocOf("content")}
          /\ UNCHANGED <<pairMind, pairDisk, acked, pairFaults>>
       \/ /\ Visible("metadata") /\ Committed /\ pairOp[t] = "put"
          /\ ino' = [s \in Putters |-> [k \in Kinds |->
                        IF s = owner[k] THEN "durable" ELSE ino[s][k]]]
          /\ PairGoto(t, "syncCommitted") /\ UNCHANGED <<pairMind, pairDir, owner, names>>

\* The directory is synced, and what was found must be what is put.
SyncCommitted(t) ==
    /\ pairPc[t] = "syncCommitted"
    /\ SyncPairDir /\ UNCHANGED <<pairMind, pairDir, ino, owner>>
    /\ IF DocOf("content") = doc[t] THEN Stored(t)
       ELSE PairRaise(t, "corrupted") /\ UNCHANGED pairFaults

\* Content that an interrupted put left is kept when it is the same.
ResumeContent(t) ==
    /\ pairPc[t] = "content"
    /\ \/ /\ ~Visible("content")
          /\ kind' = [kind EXCEPT ![t] = "content"]
          /\ PairGoto(t, "temp") /\ UNCHANGED <<pairOp, plan, linked, pairDisk>>
       \/ /\ Visible("content") /\ Readable("content") /\ DocOf("content") = doc[t]
          /\ FsyncFile("content")
          /\ kind' = [kind EXCEPT ![t] = "metadata"]
          /\ PairGoto(t, "syncContent") /\ UNCHANGED <<pairOp, plan, linked, pairDir, owner, names>>
       \/ /\ Visible("content") /\ ~(Readable("content") /\ DocOf("content") = doc[t])
          /\ Corrupted(t)
SyncContent(t) ==
    /\ pairPc[t] = "syncContent"
    /\ SyncPairDir
    /\ PairGoto(t, "temp") /\ UNCHANGED <<pairMind, pairDir, ino, owner>>

-----------------------------------------------------------------------------
(* _atomic_publish *)

OpenTemp(t) ==
    /\ pairPc[t] = "temp"
    /\ AddName(Temp(t, kind[t]))
    /\ ino' = [ino EXCEPT ![t][kind[t]] = "partial"]
    /\ linked' = [linked EXCEPT ![t] = FALSE]
    /\ PairGoto(t, "write") /\ UNCHANGED <<pairOp, plan, kind, pairDir, owner>>

WritePairFile(t) ==
    /\ pairPc[t] = "write"
    /\ ino' = [ino EXCEPT ![t][kind[t]] = "whole"]
    /\ PairGoto(t, "fsync") /\ UNCHANGED <<pairMind, pairDir, owner, names>>

Fsync(t) ==
    /\ pairPc[t] = "fsync"
    /\ ino' = [ino EXCEPT ![t][kind[t]] = "durable"]
    /\ PairGoto(t, "claim") /\ UNCHANGED <<pairMind, pairDir, owner, names>>

\* An exception: a temporary name that was not linked is removed, if that works.
Abandon(t, outcome) ==
    /\ PairRaise(t, outcome) /\ UNCHANGED <<pairMind, pairDir, ino, owner>>
    /\ \/ linked[t] /\ UNCHANGED names
       \/ ~linked[t] /\ DropName(Temp(t, kind[t]))

\* _claim_temp: a final name that is taken must hold the same bytes.
ClaimTemp(t) ==
    /\ pairPc[t] = "claim"
    /\ \/ /\ ~Visible(kind[t])
          /\ owner' = [owner EXCEPT ![kind[t]] = t]
          /\ AddName(Final(kind[t]))
          /\ linked' = [linked EXCEPT ![t] = TRUE]
          /\ PairGoto(t, "inspect") /\ UNCHANGED <<pairOp, plan, kind, pairDir, ino>>
       \/ /\ Visible(kind[t]) /\ Readable(kind[t]) /\ DocOf(kind[t]) = doc[t]
          /\ PairGoto(t, "unlink") /\ UNCHANGED <<pairMind, pairDisk>>
       \/ /\ Visible(kind[t]) /\ ~(Readable(kind[t]) /\ DocOf(kind[t]) = doc[t])
          /\ Abandon(t, "corrupted") /\ UNCHANGED pairFaults

\* _inspect_open_file of the final name, which must have two names.
InspectLinked(t) ==
    /\ pairPc[t] = "inspect"
    /\ IF Temp(t, kind[t]) \in now
       THEN PairGoto(t, "unlink") /\ UNCHANGED <<pairMind, pairDisk>>
       ELSE Corrupted(t)

\* _unlink_owned: another store may have recovered the alias meanwhile.
UnlinkOwned(t) ==
    /\ pairPc[t] = "unlink"
    /\ DropName(Temp(t, kind[t]))
    /\ PairGoto(t, "syncDir") /\ UNCHANGED <<pairMind, pairDir, ino, owner>>

SyncPublished(t) ==
    /\ pairPc[t] = "syncDir"
    /\ SyncPairDir /\ UNCHANGED <<pairOp, plan, linked, pairDir, ino, owner>>
    /\ \/ /\ kind[t] = "content"
          /\ kind' = [kind EXCEPT ![t] = "metadata"]
          /\ PairGoto(t, "temp")
       \/ /\ kind[t] = "metadata" /\ UNCHANGED kind
          /\ IF rereads THEN PairGoto(t, "committed") ELSE Stored(t)

-----------------------------------------------------------------------------
(* Faults *)

PairFault == pairFaults < MaxPairFaults /\ pairFaults' = pairFaults + 1

\* A call of the operating system raises: outside of a publication, or in one.
Publishing(t) == pairPc[t] \in {"write", "fsync", "claim", "inspect", "unlink", "syncDir"}
PairFail(t) ==
    /\ pairPc[t] # "idle" /\ PairFault
    /\ \/ ~Publishing(t) /\ PairRaise(t, "failed") /\ UNCHANGED <<pairMind, pairDisk>>
       \/ Publishing(t) /\ Abandon(t, "failed")
       \/ Publishing(t) /\ PairRaise(t, "failed") /\ UNCHANGED <<pairMind, pairDisk>>

Dead(gone) ==
    /\ pairPc' = [t \in Putters |-> IF t \in gone THEN "idle" ELSE pairPc[t]]
    /\ pairResult' = [t \in Putters |-> IF t \in gone THEN Nothing ELSE pairResult[t]]
    /\ pairLock' = IF pairLock \in gone THEN Nothing ELSE pairLock
    /\ UNCHANGED <<pairMind, acked, known>>

PairCrash(t) ==
    /\ PairFault
    /\ Dead(IF sameStore THEN Putters ELSE {t})
    /\ UNCHANGED pairDisk

PairPowerLoss ==
    /\ PairFault /\ Dead(Putters)
    /\ \E left \in {n \in SUBSET maybe : sure \subseteq n},
          lost \in (IF pairDir = "made" THEN BOOLEAN ELSE {FALSE}) :
           LET kept == IF lost THEN {} ELSE left
           IN  /\ now' = kept /\ sure' = kept /\ maybe' = kept
               /\ pairDir' = IF lost THEN "absent" ELSE pairDir
    /\ ino' = [t \in Putters |-> [k \in Kinds |->
                  IF ino[t][k] = "whole" THEN "partial" ELSE ino[t][k]]]
    /\ UNCHANGED owner

PairStep(t) ==
    \/ OpenScope(t) \/ SyncPairParent(t) \/ Scan(t)
    \/ \E k \in Kinds : RecoverAlias(t, k)
    \/ SyncAlias(t)
    \/ ReadCommitted(t) \/ SyncCommitted(t) \/ ResumeContent(t) \/ SyncContent(t)
    \/ OpenTemp(t) \/ WritePairFile(t) \/ Fsync(t) \/ ClaimTemp(t) \/ InspectLinked(t)
    \/ UnlinkOwned(t) \/ SyncPublished(t)

PairNext ==
    /\ UNCHANGED inputs
    /\ \/ \E t \in Putters : Call(t, "put") \/ Call(t, "read") \/ PairStep(t) \/ PairFail(t) \/ PairCrash(t)
       \/ PairPowerLoss

PairSpec == PairInit /\ [][PairNext]_pairsVars

-----------------------------------------------------------------------------
(* Properties *)

\* The variables stay in their types.
PairTypeOK ==
    /\ plan \in [Putters -> SUBSET Kinds] /\ kind \in [Putters -> Kinds]
    /\ linked \in [Putters -> BOOLEAN]
    /\ pairLock \in Putters \cup {Nothing} /\ pairDir \in {"absent", "made", "synced"}
    /\ ino \in [Putters -> [Kinds -> {"none", "partial", "whole", "durable"}]]
    /\ owner \in [Kinds -> Putters \cup {Nothing}]
    /\ sure \subseteq now /\ now \subseteq maybe /\ maybe \subseteq Names
    /\ acked \in Docs \cup {Nothing} /\ known \subseteq Docs

\* What a put reported stored survives everything: both files have durable names,
\* in a directory that has one, and hold that document.
StoredIsDurable ==
    acked # Nothing =>
        /\ pairDir = "synced"
        /\ \A k \in Kinds : /\ Final(k) \in sure
                            /\ ino[owner[k]][k] = "durable" /\ DocOf(k) = acked

\* The metadata commits: whoever sees its name, after whatever stop, finds the whole
\* content it was written for, under a name that a power loss cannot take.
MetadataCommits ==
    Visible("metadata") =>
        /\ Final("content") \in sure /\ ino[owner["content"]]["content"] = "durable"
        /\ DocOf("content") = DocOf("metadata")

\* One directory, one document: no two calls, before and after any stop, put or read
\* different ones.
OneDocument == Cardinality(known) <= 1

\* Without a fault the directory is tidy when nobody works in it, even when two stores
\* that do not know of each other published into it.
Tidy == (\A t \in Putters : pairPc[t] = "idle") /\ pairFaults = 0 => \A k \in Kinds : Temps(k) = {}

\* Within one store "corrupted" is never a false alarm: either a name of an unlinked
\* file is left, or another document was put.  In particular a put that stopped after
\* its link can be put again.
CorruptedHasACause ==
    [][\A t \in Putters : pairResult'[t] = "corrupted" /\ pairResult[t] = Nothing /\ sameStore =>
           \/ \E k \in Kinds : Orphan(k)
           \/ pairOp[t] = "put" /\ \E k \in Kinds : Visible(k) /\ DocOf(k) # doc[t]]_pairsVars

\* A pair that was stored is there for good, metadata is never there without its
\* content, and one document only is ever stored or read. No temporary name is left
\* behind when nothing failed, and a store calls itself corrupted only after a fault
\* or beside a store of its own kind.
PairIsDurable ==
    /\ [](PairTypeOK /\ StoredIsDurable /\ MetadataCommits /\ OneDocument)
    /\ []Tidy /\ CorruptedHasACause
=============================================================================
