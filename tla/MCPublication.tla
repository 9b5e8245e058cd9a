--------------------------- MODULE MCPublication ------------------------------
(*****************************************************************************)
(* What a job publishes, in one model: the lifecycle of its export, the      *)
(* bundle directory, the store of its input style, and the directory of an   *)
(* artifact or a report.                                                     *)
(*                                                                           *)
(* They meet only on disk, under names that no two of them write, so they    *)
(* share no variable: a behaviour takes the steps of one of them, and the    *)
(* others stay as they began.                                                *)
(*****************************************************************************)
EXTENDS ProductionExport, BundlePublication, InputCas, PairStore, TLC

VARIABLE part   \* the component whose steps this behaviour takes

layerVars == <<part, vars, bundleVars, casVars, pairsVars>>

\* Two threads share a name, and a third where a power loss took back what they found.
BundleBound == (\E t \in Threads : pc'[t] = "idle") \/ takenBack' # {}

LayerInit ==
    /\ part \in {"export", "bundle", "cas", "pair"}
    /\ Init /\ (part # "export" => status = "REJECTED" /\ bundle = "none")
    /\ BundleInit
    /\ part # "bundle" => final = None /\ job = [t \in Threads |-> CHOOSE e \in Exports : TRUE]
    /\ CasInit /\ (part # "cas" => direct)
    /\ PairInit /\ (part # "pair" => sameStore /\ rereads /\ \A s, t \in Putters : doc[s] = doc[t])

LayerNext ==
    \/ part = "export" /\ Next /\ UNCHANGED <<part, bundleVars, casVars, pairsVars>>
    \/ /\ part = "bundle" /\ BundleNext /\ BundleBound
       /\ UNCHANGED <<part, vars, casVars, pairsVars>>
    \/ part = "cas" /\ CasNext /\ UNCHANGED <<part, vars, bundleVars, pairsVars>>
    \/ part = "pair" /\ PairNext /\ UNCHANGED <<part, vars, bundleVars, casVars>>

LayerSpec == LayerInit /\ [][LayerNext]_layerVars

\* Threads and documents are interchangeable. Pairs of actors that never meet are
\* exchanged together, which keeps the group small.
Twins == {Putters, Publishers, Files}
Twin(x) == CHOOSE y \in UNION Twins : y # x /\ \E pair \in Twins : {x, y} = pair
Symmetry == Permutations(Threads) \cup Permutations(Docs) \cup {[x \in UNION Twins |-> Twin(x)]}
=============================================================================
