-------------------------- MODULE JobStoreNamespace --------------------------
(***************************************************************************)
(* workflow/job_store.py around its calls: the leases that keep a store    *)
(* open, the namespace that every store of one root directory shares, and  *)
(* list_job_ids, which reads the whole directory while jobs are created.   *)
(*                                                                         *)
(* A call takes a lease and the lock of its job, opens the jobs directory  *)
(* and binds its identity.  One that writes announces a mutation of the    *)
(* namespace for as long as it creates directories and commits; a listing  *)
(* is accepted only when no mutation has ended since it began.  Closing    *)
(* refuses new leases and waits for the old ones.                          *)
(*                                                                         *)
(* A job directory is empty when it is made, holds slots only once a first *)
(* commit has begun to write, and then one job ("stored"); it becomes      *)
(* unreadable ("broken") when a later commit fails, as CommitRegister      *)
(* allows.  A first commit that fails leaves it empty or with its slots.   *)
(***************************************************************************)
EXTENDS Naturals

CONSTANTS
    Threads,
    Stores,     \* JobStore objects pinned to the same root
    Jobs,
    MaxWrites,  \* bound: commits
    Nothing     \* no store, no job

ASSUME NamespaceAssumptions == MaxWrites \in Nat /\ Nothing \notin Stores

VARIABLES
    lifecycle,          \* each store: "OPEN", "CLOSING" or "CLOSED"
    jobsDir,            \* the jobs directory exists
    dir,                \* what each job directory holds
    bound,              \* namespace.jobs_identity is set
    mutations, epoch,   \* namespace.mutations, namespace.epoch
    writes,
    namePc, store, job, \* what each thread does next, on which store and job
    holds,              \* the threads that hold the lock of their job
    seen,               \* the thread found the jobs directory
    names, todo,        \* the names a listing has read, and not validated yet
    listed,             \* the jobs it has collected
    since,              \* the epoch it began with
    outcome             \* how the thread's last call has ended

directory == <<jobsDir, dir, writes>>
shared == <<bound, mutations, epoch>>
listing == <<names, todo, listed, since>>
locals == <<store, job, holds, seen, listing>>
namespaceVars == <<lifecycle, directory, shared, namePc, locals, outcome>>

StoredJobs == {j \in Jobs : dir[j] = "stored"}
Named == {j \in Jobs : dir[j] # "none"}

NamespaceInit ==
    /\ lifecycle = [s \in Stores |-> "OPEN"]
    /\ jobsDir = FALSE
    /\ dir = [j \in Jobs |-> "none"]
    /\ bound = FALSE
    /\ mutations = 0 /\ epoch = 0 /\ writes = 0
    /\ namePc = [t \in Threads |-> "idle"]
    /\ store = [t \in Threads |-> Nothing]
    /\ job = [t \in Threads |-> Nothing]
    /\ holds = {}
    /\ seen = [t \in Threads |-> FALSE]
    /\ names = [t \in Threads |-> {}] /\ todo = [t \in Threads |-> {}]
    /\ listed = [t \in Threads |-> {}]
    /\ since = [t \in Threads |-> 0]
    /\ outcome = [t \in Threads |-> "none"]

-----------------------------------------------------------------------------
GoesTo(t, step) == namePc' = [namePc EXCEPT ![t] = step]

CloseSteps == {"closeWait", "closeDrain", "closeRoot"}

(* _lease_count of store s: the calls that have begun and not finished. *)
Leased(s) == {t \in Threads : store[t] = s /\ namePc[t] \notin CloseSteps}

(* _finish_operation: the job lock and the lease are given back. *)
Leave(t, how) ==
    /\ GoesTo(t, "idle")
    /\ store' = [store EXCEPT ![t] = Nothing]
    /\ job' = [job EXCEPT ![t] = Nothing]
    /\ holds' = holds \ {t}
    /\ seen' = [seen EXCEPT ![t] = FALSE]
    /\ outcome' = [outcome EXCEPT ![t] = how]
    /\ names' = [names EXCEPT ![t] = {}]
    /\ todo' = [todo EXCEPT ![t] = {}]
    /\ since' = [since EXCEPT ![t] = 0]
    /\ UNCHANGED listed

(* _operation: only an open store gives a lease. *)
MayLease(t, s) == namePc[t] = "idle" /\ lifecycle[s] = "OPEN"

Lease(t, s, j, step) ==
    /\ MayLease(t, s)
    /\ GoesTo(t, step)
    /\ store' = [store EXCEPT ![t] = s]
    /\ job' = [job EXCEPT ![t] = j]
    /\ outcome' = [outcome EXCEPT ![t] = "none"]
    /\ listed' = [listed EXCEPT ![t] = {}]
    /\ UNCHANGED <<lifecycle, directory, shared, holds, seen, names, todo, since>>

Refused(t, s) ==
    /\ namePc[t] = "idle"
    /\ lifecycle[s] # "OPEN"
    /\ outcome' = [outcome EXCEPT ![t] = "closed"]
    /\ UNCHANGED <<lifecycle, directory, shared, namePc, locals>>

-----------------------------------------------------------------------------
(* load and get_snapshot read a job; save_snapshot and append_event read   *)
(* it and then commit.                                                     *)

BeginJob(t, s) == \E j \in Jobs, step \in {"readLock", "writeLock"} : Lease(t, s, j, step)

Free(j) == \A u \in holds : job[u] # j

Lock(t) ==
    /\ namePc[t] \in {"readLock", "writeLock"}
    /\ Free(job[t])
    /\ holds' = holds \cup {t}
    /\ GoesTo(t, IF namePc[t] = "readLock" THEN "readOpen" ELSE "writeOpen")
    /\ UNCHANGED <<lifecycle, directory, shared, store, job, seen, listing, outcome>>

(* _open_job looks for the jobs directory, then binds what it has found. *)
Open(t) ==
    /\ namePc[t] \in {"readOpen", "writeOpen"}
    /\ seen' = [seen EXCEPT ![t] = jobsDir]
    /\ GoesTo(t, IF namePc[t] = "readOpen" THEN "readBind" ELSE "writeBind")
    /\ UNCHANGED <<lifecycle, directory, shared, store, job, holds, listing, outcome>>

(* _bind_jobs_identity: a directory once bound must not be missing. *)
MayBind(t) == seen[t] \/ ~bound

Content(t) == IF seen[t] THEN dir[job[t]] ELSE "none"

Bind(t) ==
    /\ namePc[t] \in {"readBind", "writeBind"}
    /\ bound' = (bound \/ seen[t])
    /\ UNCHANGED <<lifecycle, jobsDir, dir, mutations, epoch>>
    /\ \/ /\ ~MayBind(t) \/ Content(t) = "broken"
          /\ Leave(t, "corrupted")
          /\ UNCHANGED writes
       \/ /\ MayBind(t) /\ Content(t) # "broken"
          /\ Leave(t, IF namePc[t] = "writeBind" THEN "invalid"
                      ELSE IF Content(t) = "stored" THEN "found" ELSE "missing")
          /\ UNCHANGED writes
       \/ /\ MayBind(t) /\ Content(t) # "broken"
          /\ namePc[t] = "writeBind"
          /\ writes < MaxWrites /\ writes' = writes + 1
          /\ GoesTo(t, "mutate")
          /\ UNCHANGED <<locals, outcome>>

-----------------------------------------------------------------------------
(* _commit: a mutation of the namespace around the directories it creates  *)
(* and the commit itself, each of which may fail.                          *)

Mutate(t) ==
    /\ namePc[t] = "mutate"
    /\ mutations' = mutations + 1
    /\ GoesTo(t, "makeJobs")
    /\ UNCHANGED <<lifecycle, directory, bound, epoch, locals, outcome>>

MakeJobsDir(t) ==
    /\ namePc[t] = "makeJobs"
    /\ \/ jobsDir' = TRUE /\ seen' = [seen EXCEPT ![t] = TRUE] /\ GoesTo(t, "makeJob")
       \/ jobsDir' \in {jobsDir, TRUE} /\ seen' = [seen EXCEPT ![t] = FALSE] /\ GoesTo(t, "fail")
    /\ UNCHANGED <<lifecycle, dir, writes, shared, store, job, holds, listing, outcome>>

MakeJobDir(t) ==
    /\ namePc[t] = "makeJob"
    /\ bound' = TRUE
    /\ \/ /\ dir' = [dir EXCEPT ![job[t]] = IF @ = "none" THEN "empty" ELSE @]
          /\ GoesTo(t, "commit")
       \/ /\ \/ UNCHANGED dir
             \/ dir[job[t]] = "none" /\ dir' = [dir EXCEPT ![job[t]] = "empty"]
          /\ GoesTo(t, "fail")
    /\ UNCHANGED <<lifecycle, jobsDir, writes, mutations, epoch, locals, outcome>>

(* What a commit that fails leaves: what was there, or the new job.  A     *)
(* first commit may have written its slots, a later one its marker.        *)
Leftovers(content) ==
    {content, "stored"} \cup (IF content = "stored" THEN {"broken"} ELSE {"slot"})

CommitJob(t) ==
    /\ namePc[t] = "commit"
    /\ \/ dir' = [dir EXCEPT ![job[t]] = "stored"] /\ GoesTo(t, "done")
       \/ \E content \in Leftovers(dir[job[t]]) :
             dir' = [dir EXCEPT ![job[t]] = content] /\ GoesTo(t, "fail")
    /\ UNCHANGED <<lifecycle, jobsDir, writes, shared, locals, outcome>>

EndMutation(t) ==
    /\ namePc[t] \in {"done", "fail"}
    /\ mutations' = mutations - 1
    /\ epoch' = epoch + 1
    /\ Leave(t, IF namePc[t] = "done" THEN "found" ELSE "failed")
    /\ UNCHANGED <<lifecycle, directory, bound>>

-----------------------------------------------------------------------------
(* list_job_ids. *)

BeginList(t, s) == Lease(t, s, Nothing, "listEpoch")

(* _stable_epoch: wait until no mutation is under way. *)
ListEpoch(t) ==
    /\ namePc[t] = "listEpoch"
    /\ mutations = 0
    /\ since' = [since EXCEPT ![t] = epoch]
    /\ listed' = [listed EXCEPT ![t] = {}]
    /\ GoesTo(t, "listOpen")
    /\ UNCHANGED <<lifecycle, directory, shared, store, job, holds, seen, names, todo, outcome>>

ListOpen(t) ==
    /\ namePc[t] = "listOpen"
    /\ seen' = [seen EXCEPT ![t] = jobsDir]
    /\ GoesTo(t, "listBind")
    /\ UNCHANGED <<lifecycle, directory, shared, store, job, holds, listing, outcome>>

ListBind(t) ==
    /\ namePc[t] = "listBind"
    /\ bound' = (bound \/ seen[t])
    /\ GoesTo(t, IF ~MayBind(t) THEN "listBad" ELSE IF seen[t] THEN "listNames" ELSE "listAbsent")
    /\ UNCHANGED <<lifecycle, directory, mutations, epoch, locals, outcome>>

(* A directory that was missing must be missing still. *)
ListAbsent(t) ==
    /\ namePc[t] = "listAbsent"
    /\ GoesTo(t, IF jobsDir THEN "listBad" ELSE "listCheck")
    /\ UNCHANGED <<lifecycle, directory, shared, locals, outcome>>

ListNames(t) ==
    /\ namePc[t] = "listNames"
    /\ names' = [names EXCEPT ![t] = Named]
    /\ todo' = [todo EXCEPT ![t] = Named]
    /\ GoesTo(t, "listEntry")
    /\ UNCHANGED <<lifecycle, directory, shared, store, job, holds, seen, listed, since, outcome>>

(* _validated_state_from_fd: an empty directory counts as corrupt, one     *)
(* that holds slots only does not.                                         *)
Corrupt(j) == dir[j] \in {"broken", "empty"}

(* _validated_listed_job reads one job under its lock; a directory with    *)
(* slots only is passed over.                                              *)
ListEntry(t) ==
    /\ namePc[t] = "listEntry"
    /\ \E j \in todo[t] :
          /\ Free(j)
          /\ todo' = [todo EXCEPT ![t] = @ \ {j}]
          /\ listed' = [listed EXCEPT ![t] = IF dir[j] = "stored" THEN @ \cup {j} ELSE @]
          /\ GoesTo(t, IF Corrupt(j) THEN "listBad" ELSE "listEntry")
    /\ UNCHANGED <<lifecycle, directory, shared, store, job, holds, seen, names, since, outcome>>

ListAgain(t) ==
    /\ namePc[t] = "listEntry"
    /\ todo[t] = {}
    /\ GoesTo(t, IF names[t] = Named THEN "listCheck" ELSE "listChanged")
    /\ UNCHANGED <<lifecycle, directory, shared, locals, outcome>>

ListAccept(t) ==  \* mutant: what was listed is not checked against the epoch
    /\ namePc[t] \in {"listCheck", "listChanged", "listBad"}
    /\ mutations = 0
    /\ Leave(t, IF namePc[t] = "listCheck" THEN "listed" ELSE "corrupted")
    /\ UNCHANGED <<lifecycle, directory, shared>>

(* What has been seen counts only if no mutation has ended meanwhile.      *)
ListCheck(t) ==
    /\ namePc[t] \in {"listCheck", "listChanged", "listBad"}
    /\ mutations = 0
    /\ UNCHANGED <<lifecycle, directory, shared>>
    /\ IF epoch # since[t]
       THEN GoesTo(t, "listEpoch") /\ UNCHANGED <<locals, outcome>>
       ELSE Leave(t, IF namePc[t] = "listCheck" THEN "listed" ELSE "corrupted")

List(t) ==
    \/ ListEpoch(t) \/ ListOpen(t) \/ ListBind(t) \/ ListAbsent(t) \/ ListNames(t)
    \/ ListEntry(t) \/ ListAgain(t) \/ ListCheck(t)

-----------------------------------------------------------------------------
(* close: the first caller waits for the leases, the others for the first. *)

BeginClose(t, s) ==
    /\ namePc[t] = "idle"
    /\ store' = [store EXCEPT ![t] = s]
    /\ outcome' = [outcome EXCEPT ![t] = "none"]
    /\ IF lifecycle[s] = "OPEN"
       THEN lifecycle' = [lifecycle EXCEPT ![s] = "CLOSING"] /\ GoesTo(t, "closeDrain")
       ELSE UNCHANGED lifecycle /\ GoesTo(t, "closeWait")
    /\ UNCHANGED <<directory, shared, job, holds, seen, listing>>

CloseWait(t) ==
    /\ namePc[t] = "closeWait"
    /\ lifecycle[store[t]] = "CLOSED"
    /\ Leave(t, "closed")
    /\ UNCHANGED <<lifecycle, directory, shared>>

CloseDrain(t) ==
    /\ namePc[t] = "closeDrain"
    /\ Leased(store[t]) = {}
    /\ GoesTo(t, "closeRoot")
    /\ UNCHANGED <<lifecycle, directory, shared, locals, outcome>>

CloseRoot(t) ==
    /\ namePc[t] = "closeRoot"
    /\ lifecycle' = [lifecycle EXCEPT ![store[t]] = "CLOSED"]
    /\ Leave(t, "closed")
    /\ UNCHANGED <<directory, shared>>

-----------------------------------------------------------------------------
Enter(t) ==
    \E s \in Stores : BeginJob(t, s) \/ BeginList(t, s) \/ BeginClose(t, s) \/ Refused(t, s)

Continue(t) ==
    \/ Lock(t) \/ Open(t) \/ Bind(t)
    \/ Mutate(t) \/ MakeJobsDir(t) \/ MakeJobDir(t) \/ CommitJob(t) \/ EndMutation(t)
    \/ List(t)
    \/ CloseWait(t) \/ CloseDrain(t) \/ CloseRoot(t)

NamespaceNext == \E t \in Threads : Enter(t) \/ Continue(t)

NamespaceSpec == NamespaceInit /\ [][NamespaceNext]_namespaceVars

(* A thread inside a call goes on; a lock or a condition it waits for that *)
(* is free again and again is its own sooner or later.                     *)
FairSpec == NamespaceSpec /\ \A t \in Threads : SF_namespaceVars(Continue(t))

-----------------------------------------------------------------------------
JobSteps == {"readLock", "writeLock", "readOpen", "writeOpen", "readBind", "writeBind"}
Mutations == {"makeJobs", "makeJob", "commit", "done", "fail"}
ListSteps == {"listEpoch", "listOpen", "listBind", "listAbsent", "listNames", "listEntry",
              "listCheck", "listChanged", "listBad"}
CallSteps == {"idle", "mutate"} \cup JobSteps \cup Mutations \cup ListSteps \cup CloseSteps

(* The types of the variables; the mutations announced are the threads in  *)
(* the middle of one.                                                      *)
NamespaceTypeOK ==
    /\ lifecycle \in [Stores -> {"OPEN", "CLOSING", "CLOSED"}]
    /\ jobsDir \in BOOLEAN /\ bound \in BOOLEAN
    /\ dir \in [Jobs -> {"none", "empty", "slot", "stored", "broken"}]
    /\ mutations \in Nat /\ epoch \in Nat /\ writes \in 0 .. MaxWrites
    /\ namePc \in [Threads -> CallSteps]
    /\ store \in [Threads -> Stores \cup {Nothing}]
    /\ job \in [Threads -> Jobs \cup {Nothing}]
    /\ holds \subseteq Threads
    /\ seen \in [Threads -> BOOLEAN]
    /\ names \in [Threads -> SUBSET Jobs] /\ todo \in [Threads -> SUBSET Jobs]
    /\ listed \in [Threads -> SUBSET Jobs]
    /\ since \in [Threads -> Nat]
    /\ outcome \in [Threads -> {"none", "found", "missing", "invalid", "failed", "corrupted",
                                "listed", "closed"}]

(* A store reports itself closed only when no call uses it any more, so no *)
(* call sees its root descriptor closed under it.                          *)
ClosedIsUnused ==
    \A s \in Stores : lifecycle[s] = "CLOSED" => Leased(s) = {}

(* What list_job_ids returns is the set of stored jobs at one moment of    *)
(* the call, the last time it looked at the epoch: no job is missed that   *)
(* was stored before another it reports.                                   *)
ListsOneMoment ==
    [][\A t \in Threads :
          namePc[t] = "listCheck" /\ namePc'[t] = "idle" => listed[t] = StoredJobs]_namespaceVars

(* The directory of job j is empty, and no commit is under way that will   *)
(* fill it: a first commit has made it and failed.                         *)
LeftEmpty(j) ==
    dir[j] = "empty" /\ \A u \in Threads : namePc[u] \in Mutations => job[u] # j

(* A listing is not disturbed by jobs being created: it reports a corrupt  *)
(* store only when a job of it is unreadable, or when the first commit of  *)
(* a job has failed after it made the directory.  The latter is no damage, *)
(* a load answers that there is no such job, but job_store.py:205 takes an *)
(* empty directory for a corrupt one, and so does the test of the listing  *)
(* (test_job_store.py:279).                                                *)
ListBlamesTheDisk ==
    [][\A t \in Threads :
          namePc[t] \in {"listChanged", "listBad"} /\ namePc'[t] = "idle" =>
              \E j \in Jobs : dir[j] = "broken" \/ LeftEmpty(j)]_namespaceVars

(* A store is closed only when no call uses it, a listing is the set of     *)
(* stored jobs at one moment of the call, and it says that the store is     *)
(* corrupt only when a job of it is, or has been left without any content.  *)
NamespaceIsSound ==
    /\ [](NamespaceTypeOK /\ ClosedIsUnused)
    /\ ListsOneMoment /\ ListBlamesTheDisk

(* Every call returns: a close waits for the calls that end before it, none *)
(* of them takes a lock that another waits for while it holds one, and a    *)
(* listing is not disturbed for ever.                                       *)
CallsReturn == \A t \in Threads : namePc[t] # "idle" ~> namePc[t] = "idle"
=============================================================================
