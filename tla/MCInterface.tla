---------------------------- MODULE MCInterface -------------------------------
(*****************************************************************************)
(* What a user starts, in one model: the runs of the interface with their    *)
(* cancellation, the previews, and a formal batch.                           *)
(*                                                                           *)
(* All three take the GPU through one lane, which ProductionUi and           *)
(* PreviewWall each model with a step of the other ("preview", or another    *)
(* call) that holds it, and the batch runs outside the interface. They       *)
(* share no variable: a behaviour takes the steps of one of them, and the    *)
(* others stay as they began.                                                *)
(*****************************************************************************)
EXTENDS ProductionUi, ProductionBatch, PreviewWall, TLC

VARIABLE part   \* the component whose steps this behaviour takes

\* bound: a behaviour with a death, a loss of power or a second process has one of
\* them, and makes no call for one picture.
CrashBound ==
    /\ crashes' + intruders' > 0 => \A s \in Singles : previewPc'[s] = "idle"
    /\ crashes' + intruders' <= 1

\* bound: nobody asks for the status while a preview run has the GPU.
ReadBound == lane' = PreviewRun => rpc' = "idle"

layerVars == <<part, vars, wallVars, batchVars>>

LayerInit ==
    /\ part \in {"ui", "preview", "batch"}
    /\ Init
    /\ WallInit
    /\ BatchInit

LayerNext ==
    \/ part = "ui" /\ Next /\ ReadBound /\ UNCHANGED <<part, wallVars, batchVars>>
    \/ part = "preview" /\ WallNext /\ CrashBound /\ UNCHANGED <<part, vars, batchVars>>
    \/ part = "batch" /\ BatchNext /\ UNCHANGED <<part, vars, wallVars>>

LayerSpec == LayerInit /\ [][LayerNext]_layerVars

\* Callers, runs and cohorts are interchangeable.
Symmetry == Permutations(Callers) \cup Permutations(BatchRuns) \cup Permutations(Cohorts)
=============================================================================
