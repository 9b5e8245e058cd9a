------------------------ MODULE MCProductionRuntime ---------------------------
(*****************************************************************************)
(* A production runtime in one model: while it is opened or given back,      *)
(* and while it serves jobs.                                                 *)
(*                                                                           *)
(* A runtime serves only what its opening has handed over whole, and its     *)
(* closing is the last thing it is asked for, so the two share no            *)
(* variable: a behaviour takes the steps of one of them, and the other       *)
(* stays as it began.                                                        *)
(*****************************************************************************)
EXTENDS ProductionRuntime, RuntimeOpening, TLC

VARIABLE part   \* the component whose steps this behaviour takes

layerVars == <<part, vars, openingVars>>

LayerInit ==
    /\ part \in {"serving", "opening"}
    /\ Init
    /\ OpeningInit

LayerNext ==
    \/ part = "serving" /\ Next /\ UNCHANGED <<part, openingVars>>
    \/ part = "opening" /\ OpeningNext /\ UNCHANGED <<part, vars>>

LayerSpec == LayerInit /\ [][LayerNext]_layerVars

-----------------------------------------------------------------------------
\* Callers and jobs are interchangeable.
Symmetry == Permutations(Callers) \cup Permutations(Jobs)
=============================================================================
