---------------------------- MODULE MCGeneration ------------------------------
(*****************************************************************************)
(* What makes an artifact and repairs it, in one model: the orchestrator     *)
(* of the fake backend, one generation on the pipeline of production, and    *)
(* the repair loop.                                                          *)
(*                                                                           *)
(* An orchestrator calls the loop as a function, which answers from what     *)
(* it is given, and the two orchestrators serve different backends: they     *)
(* share no variable, and a behaviour takes the steps of one of them while   *)
(* the others stay as they began.                                            *)
(*****************************************************************************)
EXTENDS FakeOrchestrator, AttemptPipeline, RepairLoop, MCRepairPlans, TLC

VARIABLE part   \* the component whose steps this behaviour takes

\* Where a component that does not move began.
RepairIdle ==
    /\ plan = TugOfWar /\ policy.rounds = 1
    /\ history[1].request.state.style = 1
    /\ history[1].report.other = CHOOSE o \in Others : TRUE
    /\ \A r \in plan : history[1].report.status[r.id] = "PASS"

layerVars == <<part, vars, attemptVars, repairVars>>

LayerInit ==
    /\ part \in {"orchestrator", "attempt", "repair"}
    /\ Init /\ (part # "orchestrator" => bundle = "none")
    /\ AttemptInit
    /\ RepairInit /\ (part # "repair" => RepairIdle)

LayerNext ==
    \/ part = "orchestrator" /\ Next /\ UNCHANGED <<part, attemptVars, repairVars>>
    \/ part = "attempt" /\ AttemptNext /\ UNCHANGED <<part, vars, repairVars>>
    \/ part = "repair" /\ RepairNext /\ UNCHANGED <<part, vars, attemptVars>>

LayerSpec == LayerInit /\ [][LayerNext]_layerVars

\* Names are interchangeable: RepairLoop only compares them.
Symmetry == Permutations(DecisionIds) \cup Permutations(AttemptIds) \cup Permutations(ArtifactIds)
=============================================================================
