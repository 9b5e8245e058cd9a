------------------------------ MODULE MCSupply --------------------------------
(*****************************************************************************)
(* What production and Preview are supplied with, in one model: the          *)
(* migrations of the production context, and the installer of the Preview    *)
(* adapter.                                                                  *)
(*                                                                           *)
(* They write to directories of their own and share no variable: a           *)
(* behaviour takes the steps of one of them, and the other stays as it       *)
(* began.                                                                    *)
(*****************************************************************************)
EXTENDS AdapterInstall, TLC

CONSTANTS Migrators, LastPlan, MayRerun, Failures, Crashes, PowerLosses, Edits

VARIABLES
    part,   \* the component whose steps this behaviour takes
    ctx, disk, audit, temps, stages, lock, pc, sub, plan, seen, fresh, answer, failures,
    crashes, losses, edits

\* bound: a process is killed or the power is lost, and power is lost only where nobody
\* edited the context: with more than that the migrations do not keep their promises.
MigrationBound == crashes' + losses' <= 1 /\ (losses' = 0 \/ edits' = 0)

Migration == INSTANCE ContextMigration WITH Rerun <- MayRerun

migrationVars == <<ctx, disk, audit, temps, stages, lock, pc, sub, plan, seen, fresh,
        answer, failures, crashes, losses, edits>>
layerVars == <<part, migrationVars, adapterVars>>

LayerInit ==
    /\ part \in {"migration", "adapter"}
    /\ Migration!Init
    /\ AdapterInit /\ (part # "adapter" => weight = "none" /\ config = Missing)

LayerNext ==
    \/ part = "migration" /\ Migration!Next /\ MigrationBound /\ UNCHANGED <<part, adapterVars>>
    \/ part = "adapter" /\ AdapterNext /\ UNCHANGED <<part, migrationVars>>

LayerSpec == LayerInit /\ [][LayerNext]_layerVars

-----------------------------------------------------------------------------
(* One migration is at work at a time, it leaves no staging directory, and  *)
(* what it published has its backup and its record beside it. A commit that *)
(* is recorded, or reported to an operator, is there, and an edit of        *)
(* somebody else is seen before it would be overwritten.                    *)
MigrationIsAudited ==
    /\ [](Migration!TypeOK /\ Migration!OneAtWork /\ Migration!NoHiddenDirectory)
    /\ [](Migration!PublishedHasItsTrail /\ Migration!NoFalseCommit)
    /\ Migration!AnswerIsTrue /\ Migration!EditIsSeen

\* Installers, documents and temporary names are interchangeable.
Symmetry == Permutations(Installers) \cup Permutations(ConfigDocuments) \cup Permutations(Names)
=============================================================================
