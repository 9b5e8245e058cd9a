----------------------------- MODULE MCProgress -------------------------------
(*****************************************************************************)
(* What the system always gets on with, in one model: a runtime that is      *)
(* opened or closed, a recovery of an export, the calls of a job store, a    *)
(* run of the interface, the rounds of a repair, the migrations of the       *)
(* context, and the installation of the Preview adapter.                     *)
(*                                                                           *)
(* They are the parts of the other models at bounds small enough for         *)
(* liveness, and share no variable: a behaviour takes the steps of one of    *)
(* them, and the others stay as they began.                                  *)
(*****************************************************************************)
EXTENDS RepairLoop, MCRepairPlans, TLC

CONSTANTS MaxLoads, RenameDurable, MaxWrites, BatchSize, MaxRuns, MaxJobs, Failures,
    Crashes, PowerLosses, Edits, PowerCuts, Faults, Stuck, Workers, Caller, None

VARIABLES
    part,   \* the component whose steps this behaviour takes
    closed, readiness, active, reason, event, runLock, pipe, open, loads, status,
    staging, lost, faults, closing, pc, job, at, checked, repaired,
    openingPc, kind, lease, control, openingPipe, loaded, context, verifier, fds,
    helping, openingLoads, openingFaults,
    exportStatus, readable, doubt, bundle, phase, op, seen, exportFaults,
    lifecycle, jobsDir, dir, bound, mutations, epoch, writes, namePc, store, nameJob,
    holds, nameSeen, names, todo, listed, since, outcome,
    uiPc, res, flight, uiActive, items, token, issued, gate, exec, jobs, lane, terminal,
    baseline, cpc, cjob, answered, rpc, uiSeen,
    ctx, disk, audit, temps, stages, lock, migrationPc, sub, migrationPlan,
    migrationSeen, fresh, answer, failures, crashes, losses, edits,
    adapterPc, current, temp, bytes, staged, listing, weight, config, adapterDisk,
    parents, adapterAnswer, reader, kills, cuts, adapterFaults, stuck

\* Where a component that does not move began.
RepairIdle ==
    /\ plan = TugOfWar /\ policy.rounds = 1
    /\ history[1].request.state.style = 1
    /\ history[1].report.other = CHOOSE o \in Others : TRUE
    /\ \A r \in plan : history[1].report.status[r.id] = "PASS"

\* The names that a repair begins with: they are only compared.
Named ==
    /\ history[1].request.attempt = CHOOSE a \in AttemptIds : TRUE
    /\ history[1].report.target = CHOOSE t \in ArtifactIds : TRUE

Working == AskHonestly \/ GenerateHonestly \/ Settled

Serving == INSTANCE ProductionRuntime WITH Callers <- Workers, Jobs <- {1},
    MaxFaults <- 1, NoCaller <- None, NoJob <- None
Opening == INSTANCE RuntimeOpening WITH Openers <- Workers, Encoders <- {"encoder"},
    Helped <- {"runtime"}, MaxOpeningFaults <- 1, Nobody <- None
Export == INSTANCE ProductionExport WITH MaxFaults <- 4, status <- exportStatus,
    faults <- exportFaults
Namespace == INSTANCE JobStoreNamespace WITH Threads <- Workers, Stores <- {"store"},
    Jobs <- {1}, Nothing <- None, job <- nameJob, seen <- nameSeen
Ui == INSTANCE ProductionUi WITH Callers <- {Caller}, Kinds <- {"single", "batch"},
    pc <- uiPc, active <- uiActive, seen <- uiSeen
Migration == INSTANCE ContextMigration WITH Migrators <- {1}, LastPlan <- 2,
    Rerun <- TRUE, pc <- migrationPc, plan <- migrationPlan, seen <- migrationSeen
Adapter == INSTANCE AdapterInstall WITH Installers <- {1}, MaxKills <- Crashes,
    ConfigDocuments <- {"models", "manifests"}, Names <- 1 .. 4, Missing <- None,
    faults <- adapterFaults

servingVars == <<closed, readiness, active, reason, event, runLock, pipe, open, loads,
        status, staging, lost, faults, closing, pc, job, at, checked, repaired>>
openingVars == <<openingPc, kind, lease, control, openingPipe, loaded, context,
        verifier, fds, helping, openingLoads, openingFaults>>
exportVars == <<exportStatus, readable, doubt, bundle, phase, op, seen, exportFaults>>
namespaceVars == <<lifecycle, jobsDir, dir, bound, mutations, epoch, writes, namePc,
        store, nameJob, holds, nameSeen, names, todo, listed, since, outcome>>
uiVars == <<uiPc, res, flight, uiActive, items, token, issued, gate, exec, jobs, lane,
        terminal, baseline, cpc, cjob, answered, rpc, uiSeen>>
migrationVars == <<ctx, disk, audit, temps, stages, lock, migrationPc, sub,
        migrationPlan, migrationSeen, fresh, answer, failures, crashes, losses, edits>>
adapterVars == <<adapterPc, current, temp, bytes, staged, listing, weight, config,
        adapterDisk, parents, adapterAnswer, reader, kills, cuts,
        adapterFaults, stuck>>
layerVars == <<part, repairVars, servingVars, openingVars, exportVars, namespaceVars, uiVars,
    migrationVars, adapterVars>>

LayerInit ==
    /\ part \in {"repair", "serving", "opening", "export", "namespace", "ui", "migration", "adapter"}
    /\ RepairInit /\ (part # "repair" => RepairIdle) /\ Named
    /\ Serving!Init
    /\ Opening!OpeningInit
    /\ Export!Init /\ (part # "export" => exportStatus = "REJECTED" /\ bundle = "none" /\ readable /\ ~doubt)
    /\ Namespace!NamespaceInit
    /\ Ui!Init
    /\ Migration!Init
    /\ Adapter!AdapterInit /\ (part # "adapter" => weight = "none" /\ config = None)

(* The variables of the other parts stay as they are.                       *)
Alone ==
    /\ UNCHANGED part
    /\ IF part = "repair" THEN TRUE ELSE UNCHANGED repairVars
    /\ IF part = "serving" THEN TRUE ELSE UNCHANGED servingVars
    /\ IF part = "opening" THEN TRUE ELSE UNCHANGED openingVars
    /\ IF part = "export" THEN TRUE ELSE UNCHANGED exportVars
    /\ IF part = "namespace" THEN TRUE ELSE UNCHANGED namespaceVars
    /\ IF part = "ui" THEN TRUE ELSE UNCHANGED uiVars
    /\ IF part = "migration" THEN TRUE ELSE UNCHANGED migrationVars
    /\ IF part = "adapter" THEN TRUE ELSE UNCHANGED adapterVars

\* bound: nobody asks the interface for the status, for which no thread waits.
NobodyReads == rpc' = "idle"

LayerNext ==
    /\ \/ part = "repair" /\ Working
       \/ part = "serving" /\ Serving!Next
       \/ part = "opening" /\ Opening!OpeningNext
       \/ part = "export" /\ Export!Next
       \/ part = "namespace" /\ Namespace!NamespaceNext
       \/ part = "ui" /\ Ui!Next /\ NobodyReads
       \/ part = "migration" /\ Migration!Next
       \/ part = "adapter" /\ Adapter!AdapterNext
    /\ Alone

(* What each part keeps doing, as its own module says: only one part moves, *)
(* so that the actions of several parts share one fairness condition.       *)
Going(k) ==
    /\ \/ part = "repair" /\ k = 1 /\ AskHonestly
       \/ part = "repair" /\ k = 2 /\ GenerateHonestly
       \/ part = "serving" /\ k \in Workers /\ Serving!Continue(k)
       \/ part = "export" /\ k = 1 /\ Export!Step
       \/ part = "ui" /\ k = 1 /\ Ui!Step(Caller)
       \/ part = "ui" /\ k = 2 /\ Ui!Cancelling
       \/ part = "ui" /\ k = 3 /\ lane = Ui!PreviewRun /\ Ui!Preview
       \/ part = "migration" /\ k = 1 /\ Migration!Step(1)
       \/ part = "adapter" /\ k = 1 /\ (Adapter!Installer(1) \/ Adapter!RunAgain(1) \/ Adapter!InstallAgain(1))
    /\ Alone

(* What a part gets in the end although others are served before it.        *)
Waiting(k) ==
    /\ \/ part = "serving" /\ k \in Workers /\ Serving!CloseLock(k)
       \/ part = "opening" /\ k \in Workers /\ Opening!Opening(k)
       \/ part = "opening" /\ k - 2 \in Workers /\ Opening!Help(k - 2)
       \/ part = "namespace" /\ k \in Workers /\ Namespace!Continue(k)
       \/ part = "ui" /\ k = 1 /\ Ui!AcquireLane(Caller)
       \/ part = "migration" /\ k \in Migration!PlanIds /\ Migration!Enter(1, k)
       \/ part = "migration" /\ k - 2 \in Migration!PlanIds /\ Migration!Capture(1, Migration!Source(k - 2))
          /\ migrationPlan[1] = k - 2
    /\ Alone

LayerSpec ==
    /\ LayerInit /\ [][LayerNext]_layerVars
    /\ \A k \in 1 .. 3 : WF_layerVars(Going(k))
    /\ \A k \in 1 .. 4 : SF_layerVars(Waiting(k))

-----------------------------------------------------------------------------
(* A runtime closes, an opening of one ends although its factory and a      *)
(* helper of that want the GPU too, and every call of a job store returns.  *)
CallsReturn ==
    Serving!CloseReturns /\ Opening!OpeningEnds /\ Namespace!CallsReturn

(* A recovery that meets no further failure settles its job.                *)
RecoveryConverges == Export!RecoveryConverges

(* A run of the interface ends, and a caller that follows the protocol of   *)
(* the repair loop comes to a decision.                                     *)
RunsEnd == Ui!Ends /\ (part = "repair" => Ends)

(* A migration that published its context is recorded as committed sooner   *)
(* or later, and the adapter is installed, whatever was killed or lost.     *)
SupplyConverges ==
    Migration!Recovers /\ (part = "adapter" => Adapter!EventuallyInstalled)
=============================================================================
