----------------------------- MODULE MCJobStore -------------------------------
(*****************************************************************************)
(* The job store in one model: the transaction of a job directory, the log   *)
(* of one job, and the namespace of all jobs with the leases of the store.   *)
(*                                                                           *)
(* Each of the three uses the one below it only through what that            *)
(* promises, so they share no variable: a behaviour takes the steps of one   *)
(* of them, and the others stay as they began.                               *)
(*****************************************************************************)
EXTENDS JobTransaction, JobStoreNamespace, TLC

CONSTANTS Specs, Names, MaxEvents, MaxTime

VARIABLES
    part,   \* the component whose steps this behaviour takes
    snapshot, log, view

Log == INSTANCE JobEventLog

logVars == <<snapshot, log, view>>
layerVars == <<part, vars, logVars, namespaceVars>>

LayerInit ==
    /\ part \in {"transaction", "log", "namespace"}
    /\ Init
    /\ Log!Init
    /\ NamespaceInit

LayerNext ==
    \/ part = "transaction" /\ Next /\ UNCHANGED <<part, logVars, namespaceVars>>
    \/ part = "log" /\ Log!Next /\ UNCHANGED <<part, vars, namespaceVars>>
    \/ part = "namespace" /\ NamespaceNext /\ UNCHANGED <<part, vars, logVars>>

LayerSpec == LayerInit /\ [][LayerNext]_layerVars

-----------------------------------------------------------------------------
(* What the store accepted it can load, and loading through a snapshot only *)
(* saves the replay of what is before it; a job that has ended stays ended, *)
(* and snapshots of its log only ever take in more of it.                   *)
LogIsSound ==
    /\ [](Log!TypeOK /\ Log!StoredAlwaysLoads /\ Log!SnapshotOnlySavesWork)
    /\ Log!TerminalIsFinal /\ Log!SnapshotsAdvance

\* Threads, hashes, names and jobs are interchangeable.
Symmetry == Permutations(Threads) \cup Permutations(Specs) \cup Permutations(Names)
            \cup Permutations(Jobs)
=============================================================================
