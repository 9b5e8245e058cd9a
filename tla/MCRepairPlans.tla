---------------------------- MODULE MCRepairPlans ----------------------------
(* Plans, policies and starts of the repair loop, small enough for TLC. *)

Rule(id, level, priority, required, onWarning, onUnverifiable, actions) ==
    [id |-> id, level |-> level, priority |-> priority, required |-> required,
     onWarning |-> onWarning, onUnverifiable |-> onUnverifiable, actions |-> actions]

Everything == {"INCREASE_STYLE_SCALE", "DECREASE_STYLE_SCALE", "REDUCE_DENOISE",
               "INCREASE_STRUCTURE", "RENDER_OUTPUT_PROFILE", "RETRY_SAMPLING"}

RuleRanks == [CONTENT_DRIFT |-> 1, OUTPUT_PROFILE_INVALID |-> 2, SAMPLING_DEFECT |-> 3,
              STYLE_LOW |-> 4, STYLE_OVERPOWERED |-> 5, l1_bundle |-> 6]

\* Two rules that pull the style scale both ways.
TugOfWar == {Rule("STYLE_LOW", "L2", 1, TRUE, "reject", "manual_review", Everything),
             Rule("STYLE_OVERPOWERED", "L2", 1, TRUE, "manual_review", "reject", Everything)}
\* An L1 rule before an L2 rule of a smaller priority.
Layered == {Rule("l1_bundle", "L1", 9, TRUE, "reject", "reject", Everything),
            Rule("CONTENT_DRIFT", "L2", 1, TRUE, "manual_review", "manual_review", {"INCREASE_STRUCTURE"})}
\* A required rule without an executable action, and an advisory one.
Unrepairable == {Rule("OUTPUT_PROFILE_INVALID", "L1", 1, TRUE, "manual_review", "manual_review", Everything),
                 Rule("SAMPLING_DEFECT", "L3", 1, FALSE, "continue", "manual_review", Everything)}

RepairPlans == {TugOfWar, Layered, Unrepairable}
RepairPolicies == {[rounds |-> 1, patience |-> 1], [rounds |-> 2, patience |-> 1], [rounds |-> 2, patience |-> 2]}
RepairStarts == {[style |-> 1, denoise |-> 0, structure |-> 2, variation |-> 1],
             [style |-> 2, denoise |-> 1, structure |-> 1, variation |-> 0]}
=============================================================================
