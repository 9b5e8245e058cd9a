-------------------------- MODULE BundlePublication --------------------------
(***************************************************************************)
(* The publication of one bundle name of exporting/bundle.py, from the     *)
(* threads of one process that stage, publish or inspect a bundle under    *)
(* that name (export_bundle, _stage_bundle with _commit_staged_bundle, and *)
(* _inspect_final_bundle).                                                 *)
(*                                                                         *)
(* A thread writes its documents into a staging tree of its own, reads     *)
(* them back, seals a snapshot of the tree, and renames the tree to the    *)
(* bundle's name, which replaces nothing.  Another program of the same     *)
(* user may write to any tree at any moment (bounded by MaxTampering): the *)
(* code does not prevent it, it detects it.  Every call of the operating   *)
(* system may fail, the process may die and the machine may lose power     *)
(* (bounded by MaxBundleFaults).                                           *)
(*                                                                         *)
(* A tree bears the name of the thread that staged it.  What a snapshot    *)
(* of inode numbers, sizes and times can tell is the number of changes     *)
(* made to the tree, "version".                                            *)
(***************************************************************************)
EXTENDS Naturals, FiniteSets

CONSTANTS
    Threads,
    Files,          \* the documents of a bundle, its manifest among them
    Exports,        \* the prepared exports that ask for this bundle name
    MaxTampering, MaxBundleFaults,   \* bounds
    None, Foreign   \* nothing; a bundle that no thread of ours staged

ASSUME BundleAssumptions ==
    /\ None # Foreign /\ {None, Foreign} \cap Threads = {}
    /\ None \notin {"published", "converged", "found", "missing", "exists", "closed", "error"}

VARIABLES
    pc, job,        \* what each thread does, and for which export
    converge,       \* accept_exact_existing of its commit
    tree,           \* the staging tree: what is in each file
    entries,        \* the files whose directory entry survives a power loss
    version,        \* the changes made to a tree
    sealed,         \* the version of _inventory_snapshot
    bundleSeen,     \* that of the last snapshot of an inspection
    final,          \* the tree that bears the bundle's name
    finalSynced,    \* fsync of the root followed the rename
    lock,           \* the name lock: its owner and how often it took it
    fds,            \* the descriptors a thread holds
    result,
    takenBack,      \* the threads that succeeded with a bundle a power loss took
    tampered, bundleFaults

held == <<lock, fds>>
bundleDisk == <<tree, entries, version, final, finalSynced>>
mind == <<job, converge, sealed, bundleSeen>>
bundleVars == <<pc, mind, bundleDisk, held, result, takenBack, tampered, bundleFaults>>

Free == [owner |-> None, depth |-> 0]
Content == {"absent", "partial", "good", "bad"}

BundleInit ==
    /\ pc = [t \in Threads |-> "idle"]
    /\ job \in [Threads -> Exports] /\ converge = [t \in Threads |-> FALSE]
    /\ tree = [t \in Threads |-> [f \in Files |-> "absent"]]
    /\ entries = [t \in Threads |-> {}]
    /\ version = [t \in Threads |-> 0]
    /\ sealed = [t \in Threads |-> 0] /\ bundleSeen = [t \in Threads |-> 0]
    /\ final \in {None, Foreign} /\ finalSynced = TRUE
    /\ lock = Free /\ fds = [t \in Threads |-> {}]
    /\ result = [t \in Threads |-> None] /\ takenBack = {}
    /\ tampered = 0 /\ bundleFaults = 0

-----------------------------------------------------------------------------
(* Helpers *)

CanLock(t) == lock.owner \in {None, t}
Lock(t) == CanLock(t) /\ lock' = [owner |-> t, depth |-> lock.depth + 1]

StepTo(t, step) == pc' = [pc EXCEPT ![t] = step]
BundleFault == bundleFaults < MaxBundleFaults /\ bundleFaults' = bundleFaults + 1

\* A thread that is done: it lets go of the name and of every descriptor.
Release(t) == lock' = IF lock.owner = t THEN Free ELSE lock
Finish(t, outcome) ==
    /\ StepTo(t, "done")
    /\ result' = [result EXCEPT ![t] = outcome]
    /\ fds' = [fds EXCEPT ![t] = {}]
    /\ Release(t)

Succeeded == {"published", "converged", "found"}
Winners == {t \in Threads : result[t] \in Succeeded} \ takenBack

\* A bundle is the prepared export, byte for byte.
Exact(x, t) == x \in Threads /\ job[x] = job[t] /\ \A f \in Files : tree[x][f] = "good"
Version(x) == IF x \in Threads THEN version[x] ELSE 0

\* An exception out of a step: stage or commit closes what it opened.
Mismatch(t) == Finish(t, "error") /\ UNCHANGED <<mind, bundleDisk, tampered, bundleFaults>>
Fails(t) == BundleFault /\ Finish(t, "error") /\ UNCHANGED <<mind, bundleDisk, tampered>>

MoveOn(t, step) == StepTo(t, step) /\ UNCHANGED <<result, tampered, bundleFaults>>

-----------------------------------------------------------------------------
(* _stage_bundle *)

\* _create_staging under the name lock: a new directory with a random name.
Begin(t) ==
    /\ pc[t] = "idle" /\ CanLock(t)
    /\ converge' \in {[converge EXCEPT ![t] = b] : b \in BOOLEAN}
    /\ fds' = [fds EXCEPT ![t] = {"root", "staging"}]
    /\ MoveOn(t, "write")
    /\ UNCHANGED <<job, sealed, bundleSeen, bundleDisk, lock>>

\* _write_file: the loop of writes, and then fsync of the file.
WriteFile(t, f) ==
    /\ pc[t] = "write" /\ tree[t][f] = "absent"
    /\ UNCHANGED <<mind, final, finalSynced, entries, tampered>>
    /\ \/ /\ tree' = [tree EXCEPT ![t][f] = "good"]
          /\ version' = [version EXCEPT ![t] = @ + 1]
          /\ UNCHANGED <<pc, held, result, bundleFaults>>
       \/ /\ tree' = [tree EXCEPT ![t][f] = "partial"]
          /\ version' = [version EXCEPT ![t] = @ + 1]
          /\ BundleFault /\ Finish(t, "error")

\* _fsync_dir of every directory of the tree.
SyncDirectories(t) ==
    /\ pc[t] = "write" /\ \A f \in Files : tree[t][f] # "absent"
    /\ UNCHANGED mind
    /\ \/ /\ entries' = [entries EXCEPT ![t] = Files]
          /\ MoveOn(t, "readback")
          /\ UNCHANGED <<tree, version, final, finalSynced, held>>
       \/ BundleFault /\ Finish(t, "error") /\ UNCHANGED <<bundleDisk, tampered>>

ReadsBack(t, x) == \A f \in Files : tree[x][f] = "good"

StageReadback(t) ==
    /\ pc[t] = "readback"
    /\ IF ReadsBack(t, t)
       THEN MoveOn(t, "seal") /\ UNCHANGED <<mind, bundleDisk, held>>
       ELSE Mismatch(t)

\* The snapshot commit will compare with, under the name lock.  Its layout is
\* checked, the bytes are not read again.
Seal(t) ==
    /\ pc[t] = "seal" /\ CanLock(t)
    /\ sealed' = [sealed EXCEPT ![t] = version[t]]
    /\ MoveOn(t, "open")
    /\ UNCHANGED <<job, converge, bundleSeen, bundleDisk, held>>

\* _StagedBundle.close, when the caller gives the export up.
CloseStaged(t) ==
    /\ pc[t] = "open"
    /\ Finish(t, "closed")
    /\ UNCHANGED <<mind, bundleDisk, tampered, bundleFaults>>

-----------------------------------------------------------------------------
(* _commit_staged_bundle *)

EnterCommit(t) ==
    /\ pc[t] = "open" /\ Lock(t)
    /\ MoveOn(t, "commit")
    /\ UNCHANGED <<mind, bundleDisk, fds>>

\* _verify_staged_for_commit: the snapshot, the bytes, and the snapshot again.
CheckSnapshot(t) ==
    /\ pc[t] = "commit"
    /\ IF version[t] = sealed[t]
       THEN MoveOn(t, "check") /\ UNCHANGED <<mind, bundleDisk, held>>
       ELSE Mismatch(t)
CheckBytes(t) ==
    /\ pc[t] = "check"
    /\ IF ReadsBack(t, t)
       THEN MoveOn(t, "recheck") /\ UNCHANGED <<mind, bundleDisk, held>>
       ELSE Mismatch(t)
CheckAgain(t) ==
    /\ pc[t] = "recheck"
    /\ IF version[t] = sealed[t]
       THEN MoveOn(t, "rename") /\ UNCHANGED <<mind, bundleDisk, held>>
       ELSE Mismatch(t)

\* _native_rename, which replaces nothing: when the name is taken, the caller may
\* accept a bundle that is exactly its own.
RenameBundle(t) ==
    /\ pc[t] = "rename"
    /\ UNCHANGED <<mind, tree, entries, version>>
    /\ \/ /\ final = None
          /\ final' = t /\ finalSynced' = FALSE
          /\ MoveOn(t, "opened") /\ UNCHANGED held
       \/ /\ final # None /\ UNCHANGED <<final, finalSynced>>
          /\ IF converge[t]
             THEN MoveOn(t, "enter") /\ UNCHANGED held
             ELSE Finish(t, "exists") /\ UNCHANGED <<tampered, bundleFaults>>

\* _open_published_final
OpenFinal(t) ==
    /\ pc[t] = "opened"
    /\ IF final = t
       THEN /\ fds' = [fds EXCEPT ![t] = @ \cup {"final"}]
            /\ MoveOn(t, "fsync") /\ UNCHANGED <<mind, bundleDisk, lock>>
       ELSE Mismatch(t)

FsyncRoot(t) ==
    /\ pc[t] = "fsync"
    /\ finalSynced' = TRUE
    /\ MoveOn(t, "look")
    /\ UNCHANGED <<mind, tree, entries, version, final, held>>

\* _verify_published_final, with the same three looks.
LookSnapshot(t) ==
    /\ pc[t] = "look"
    /\ IF version[t] = sealed[t]
       THEN MoveOn(t, "read") /\ UNCHANGED <<mind, bundleDisk, held>>
       ELSE Mismatch(t)
LookBytes(t) ==
    /\ pc[t] = "read"
    /\ IF ReadsBack(t, t)
       THEN MoveOn(t, "relook") /\ UNCHANGED <<mind, bundleDisk, held>>
       ELSE Mismatch(t)
LookAgain(t) ==
    /\ pc[t] = "relook"
    /\ IF version[t] = sealed[t] /\ final = t
       THEN Finish(t, "published") /\ UNCHANGED <<mind, bundleDisk, tampered, bundleFaults>>
       ELSE Mismatch(t)

-----------------------------------------------------------------------------
(* _inspect_final_bundle, of recovery and of a commit that lost the name *)

BeginInspect(t) ==
    /\ pc[t] = "idle"
    /\ fds' = [fds EXCEPT ![t] = {"root"}]
    /\ MoveOn(t, "enter")
    /\ UNCHANGED <<mind, bundleDisk, lock>>

EnterInspect(t) ==
    /\ pc[t] = "enter" /\ Lock(t)
    /\ MoveOn(t, "inspect")
    /\ UNCHANGED <<mind, bundleDisk, fds>>

\* What an inspection says: the bundle is ours, or there is none.
InspectionSays(t, outcome) ==
    /\ Finish(t, IF lock.depth = 1 THEN outcome
                 ELSE IF outcome = "found" THEN "converged" ELSE "error")
    /\ UNCHANGED <<mind, bundleDisk, tampered, bundleFaults>>

InspectSnapshot(t) ==
    /\ pc[t] = "inspect"
    /\ \/ final = None /\ InspectionSays(t, "missing")
       \/ /\ final # None
          /\ bundleSeen' = [bundleSeen EXCEPT ![t] = Version(final)]
          /\ fds' = [fds EXCEPT ![t] = @ \cup {"final"}]
          /\ MoveOn(t, "inspectRead")
          /\ UNCHANGED <<job, converge, sealed, bundleDisk, lock>>

InspectLayout(t) ==  \* mutant: any complete bundle is taken for ours
    /\ pc[t] = "inspectRead"
    /\ IF final \in Threads /\ \A f \in Files : tree[final][f] # "absent"
       THEN MoveOn(t, "inspectAgain") /\ UNCHANGED <<mind, bundleDisk, held>>
       ELSE Mismatch(t)

InspectBytes(t) ==
    /\ pc[t] = "inspectRead"
    /\ IF Exact(final, t)
       THEN MoveOn(t, "inspectAgain") /\ UNCHANGED <<mind, bundleDisk, held>>
       ELSE Mismatch(t)

InspectAgain(t) ==
    /\ pc[t] = "inspectAgain"
    /\ \/ Version(final) = bundleSeen[t] /\ InspectionSays(t, "found")
       \/ Version(final) # bundleSeen[t] /\ Mismatch(t)

-----------------------------------------------------------------------------
(* The world *)

\* Any call of the operating system raises.
CallRaises(t) == pc[t] \notin {"idle", "open", "done"} /\ Fails(t)

\* Another program of the user writes to a file of a tree.
TamperTree(x, f) ==
    /\ tampered < MaxTampering /\ tampered' = tampered + 1
    /\ tree[x][f] \notin {"absent", "bad"}
    /\ tree' = [tree EXCEPT ![x][f] = "bad"]
    /\ version' = [version EXCEPT ![x] = @ + 1]
    /\ UNCHANGED <<pc, mind, entries, final, finalSynced, held, result, bundleFaults>>

\* The process dies with everything it held; threads not yet started run in the next.
Died == [t \in Threads |-> IF pc[t] \in {"idle", "done"} THEN pc[t] ELSE "done"]
ProcessDies ==
    /\ BundleFault /\ pc' = Died
    /\ lock' = Free /\ fds' = [t \in Threads |-> {}]
    /\ UNCHANGED <<mind, bundleDisk, result, tampered>>

\* Names that were never synced may be gone, with what they named.
BundlePowerLoss ==
    /\ BundleFault /\ pc' = Died
    /\ lock' = Free /\ fds' = [t \in Threads |-> {}]
    /\ tree' = [t \in Threads |-> [f \in Files |->
                   IF f \in entries[t] \/ tree[t][f] = "absent" THEN tree[t][f] ELSE "absent"]]
    /\ \/ UNCHANGED <<final, finalSynced, takenBack>>
       \/ /\ ~finalSynced /\ final' = None /\ finalSynced' = TRUE
          /\ takenBack' = takenBack \cup Winners
    /\ UNCHANGED <<mind, entries, version, result, tampered>>

Proceed(t) ==
    \/ \E f \in Files : WriteFile(t, f)
    \/ SyncDirectories(t) \/ StageReadback(t) \/ Seal(t)
    \/ EnterCommit(t) \/ CheckSnapshot(t) \/ CheckBytes(t) \/ CheckAgain(t)
    \/ RenameBundle(t) \/ OpenFinal(t) \/ FsyncRoot(t)
    \/ LookSnapshot(t) \/ LookBytes(t) \/ LookAgain(t)
    \/ EnterInspect(t) \/ InspectSnapshot(t) \/ InspectBytes(t) \/ InspectAgain(t)

AllDone == (\A t \in Threads : pc[t] = "done") /\ UNCHANGED bundleVars

BundleNext ==
    \/ /\ \/ \E t \in Threads :
                Begin(t) \/ BeginInspect(t) \/ CloseStaged(t) \/ CallRaises(t) \/ Proceed(t)
          \/ \E x \in Threads, f \in Files : TamperTree(x, f)
          \/ ProcessDies
       /\ UNCHANGED takenBack
    \/ BundlePowerLoss
    \/ AllDone

BundleSpec == BundleInit /\ [][BundleNext]_bundleVars

-----------------------------------------------------------------------------
(* Properties *)

\* The variables stay in their types.
BundleTypeOK ==
    /\ job \in [Threads -> Exports] /\ converge \in [Threads -> BOOLEAN]
    /\ tree \in [Threads -> [Files -> Content]]
    /\ final \in Threads \cup {None, Foreign} /\ finalSynced \in BOOLEAN
    /\ lock \in {Free} \cup [owner : Threads, depth : {1, 2}]
    /\ \A t \in Threads : fds[t] \subseteq {"root", "staging", "final"}

\* A bundle is never torn: what bears the bundle's name holds every document,
\* whenever the process or the machine stopped, as long as nobody else wrote to it.
NeverTorn ==
    final \in Threads /\ tampered = 0 => \A f \in Files : tree[final][f] = "good"

\* A call that succeeds found under the name, at its last look, exactly the export
\* it asked for: not another one's, and not one that was written to meanwhile.
SuccessIsExact ==
    [][\A t \in Threads : result'[t] \in Succeeded /\ result[t] = None => Exact(final, t)]_bundleVars

\* One name, one export: threads that succeeded asked for the same documents, and at
\* most one of them published. An inspection syncs nothing: what it found may be taken
\* back by a power loss, what was published never is.
OneWinner ==
    /\ \A s, t \in Winners : job[s] = job[t]
    /\ \A t \in takenBack : result[t] # "published"
    /\ Cardinality({t \in Threads : result[t] = "published"}) <= 1

\* The name, once taken, is never given to another tree; only a power loss takes
\* back a name that was not synced.
NameKept == [][final # None => final' = final \/ (final' = None /\ ~finalSynced)]_bundleVars

\* Every path out of a call closes what it opened and lets go of the name.
NothingHeld ==
    \A t \in Threads : pc[t] \in {"idle", "done"} => fds[t] = {} /\ lock.owner # t

\* What bears a bundle's name is whole, it is the tree of one thread, and no thread
\* that has returned holds a lock or a descriptor. A thread reports success of exactly
\* its own documents, and a bundle that survived a power loss keeps its name.
BundleIsWhole ==
    /\ [](BundleTypeOK /\ NeverTorn /\ OneWinner /\ NothingHeld)
    /\ SuccessIsExact /\ NameKept
=============================================================================
