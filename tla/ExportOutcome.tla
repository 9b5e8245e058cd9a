---------------------------- MODULE ExportOutcome ----------------------------
(***************************************************************************)
(* What publishing a decided job promises to its callers: the job is       *)
(* either exported or cancelled, never both.  The bundle appears only      *)
(* while the job is EXPORTING, the job completes only over its bundle, it  *)
(* is cancelled only before there is one, and nothing is ever undone.      *)
(***************************************************************************)
CONSTANTS Decided   \* the statuses a verified job may be exported from

VARIABLES
    status,     \* the job's recorded status
    bundle      \* what bears the bundle's name: "none", "foreign" or "ours"

vars == <<status, bundle>>

Init == status \in Decided /\ bundle \in {"none", "foreign"}

(* Another export takes the name. *)
Take     == bundle = "none" /\ bundle' = "foreign" /\ UNCHANGED status

Start    == status \in Decided /\ status' = "EXPORTING" /\ UNCHANGED bundle
Publish  == status = "EXPORTING" /\ bundle = "none" /\ bundle' = "ours" /\ UNCHANGED status
Complete == status = "EXPORTING" /\ bundle = "ours" /\ status' = "COMPLETED" /\ UNCHANGED bundle
Cancel   == /\ status \in Decided \cup {"EXPORTING"}
            /\ bundle # "ours"
            /\ status' = "CANCELLED"
            /\ UNCHANGED bundle

Next == Take \/ Start \/ Publish \/ Complete \/ Cancel

Spec == Init /\ [][Next]_vars
=============================================================================
