----------------------------- MODULE RepairLoop -----------------------------
(***************************************************************************)
(* The repair core (src/src/specstyle/repair/) with the routing of its     *)
(* reports (verification/routing.py), as its callers drive it              *)
(* (workflow/production_repair.py, workflow/orchestrator.py).              *)
(*                                                                         *)
(* An artifact whose required rules failed is generated again with ONE     *)
(* changed parameter or another sampling variation, up to the rounds the   *)
(* policy grants.  The core is pure: next_repair_step looks at a history   *)
(* and answers with the next generation or a terminal decision, and        *)
(* consume_repair_result returns a longer history, which its constructor   *)
(* replays from the first attempt.  What a caller may do wrong is part of  *)
(* the model: it may reuse an identifier, hand in a command that was       *)
(* already consumed, or report about another cohort.                       *)
(*                                                                         *)
(* Scales are counted in steps of 0.10 from 0 to ScaleTop; a request is    *)
(* its attempt, its parent and its repair state, everything else of it     *)
(* being copied from its parent.  A report is the cohort (the artifact     *)
(* under repair and the rest of the batch) and what each applicable rule   *)
(* says of the artifact under repair.                                      *)
(***************************************************************************)
EXTENDS Integers, Sequences, FiniteSets

CONSTANTS
    Plans,          \* sets of applicable rules, one for each specification
    IdRank,         \* the alphabetical order of the rule identifiers
    Policies,       \* [rounds, patience]: max_rounds, stop_after_no_improvement
    Starts,         \* the repair states a graph's defaults give
    ScaleTop,       \* the largest scale, in steps
    VariationTop,   \* the largest variation index
    DecisionIds, AttemptIds, ArtifactIds,
    Others,         \* the rest of the cohort
    Nothing, Raised    \* nothing; the outcome of an exception

VARIABLES
    plan, policy,   \* of the compiled specification, for good
    history,        \* the initial attempt and then the repair attempts
    command,        \* the last NextGeneration the caller was given
    consumed,       \* the last one a round was made of
    repairStep,     \* what the last next_repair_step answered
    broken          \* a caller that did nothing wrong was refused

repairVars == <<plan, policy, history, command, consumed, repairStep, broken>>

Statuses == {"PASS", "FAIL", "WARNING", "UNVERIFIABLE"}
\* One result of each applicable rule (VerificationReport).
Reports(rules) == [{r.id : r \in rules} -> Statuses]
Exhausted == {"NO_ACTION", "NO_IMPROVEMENT", "MAX_ROUNDS"}

-----------------------------------------------------------------------------
(* Rules in the order the core looks at them *)

Tier(level) == IF level = "L1" THEN 0 ELSE IF level = "L3" THEN 1 ELSE 2

Before(r, s) ==
    \/ Tier(r.level) < Tier(s.level)
    \/ Tier(r.level) = Tier(s.level) /\ r.priority < s.priority
    \/ Tier(r.level) = Tier(s.level) /\ r.priority = s.priority /\ IdRank[r.id] < IdRank[s.id]

IsBlocking(r, status) ==
    \/ status[r.id] = "FAIL"
    \/ status[r.id] = "WARNING" /\ r.onWarning = "reject"

BlockingRules(rules, status) == {r \in rules : r.required /\ IsBlocking(r, status)}

\* The one the core repairs; no two rules have the same place in the order.
FirstBlocking(rules, status) ==
    CHOOSE r \in BlockingRules(rules, status) :
        \A q \in BlockingRules(rules, status) : q = r \/ Before(r, q)

-----------------------------------------------------------------------------
(* Routing: what a report and a reason to stop say of the artifact *)

HasManualPolicy(rules, status) ==
    \E r \in rules : \/ status[r.id] = "WARNING" /\ r.onWarning = "manual_review"
                     \/ status[r.id] = "UNVERIFIABLE" /\ r.onUnverifiable = "manual_review"

\* _validate_stop_reason: a reason to stop that the report contradicts.
StopConflicts(required, status, stop) ==
    LET nonpass == \E r \in required : status[r.id] # "PASS"
    IN \/ stop = "PASS_ALL_REQUIRED" /\ nonpass
       \/ stop \in Exhausted /\ ~nonpass
       \/ stop = "UNVERIFIABLE" /\ \A r \in required : status[r.id] # "UNVERIFIABLE"

Verdict(s, why) == [status |-> s, reason |-> why]

\* decide_artifact
DecideArtifact(rules, status, stop) ==
    LET required == {r \in rules : r.required}
    IN IF required = {} \/ StopConflicts(required, status, stop)
       THEN Verdict(Raised, Nothing)
       ELSE IF \E r \in required : status[r.id] = "UNVERIFIABLE" /\ r.onUnverifiable = "reject"
       THEN Verdict("REJECTED", "REQUIRED_GATE_UNVERIFIABLE")
       ELSE IF stop \in Exhausted /\ \E r \in required : status[r.id] # "PASS"
       THEN Verdict("REJECTED", "REPAIR_EXHAUSTED")
       ELSE IF \E r \in required : IsBlocking(r, status)
       THEN Verdict("REJECTED", "REQUIRED_GATE_FAILED")
       ELSE IF stop = "MANUAL_REQUEST" \/ HasManualPolicy(rules, status)
       THEN Verdict("MANUAL_REVIEW", "MANUAL_POLICY")
       ELSE IF \A r \in required : status[r.id] = "PASS"
       THEN Verdict("APPROVED", "ALL_REQUIRED_PASS")
       ELSE Verdict(Raised, Nothing)

-----------------------------------------------------------------------------
(* Actions: one patch of one parameter, or another variation *)

PolicyActions ==
    [l1_bundle |-> <<"RETRY_SAMPLING">>, STYLE_LOW |-> <<"INCREASE_STYLE_SCALE">>,
     STYLE_OVERPOWERED |-> <<"DECREASE_STYLE_SCALE", "REDUCE_DENOISE">>,
     CONTENT_DRIFT |-> <<"REDUCE_DENOISE", "INCREASE_STRUCTURE">>,
     FACE_ID_LOW |-> <<"REDUCE_DENOISE">>,
     OUTPUT_PROFILE_INVALID |-> <<"RENDER_OUTPUT_PROFILE">>,
     SAMPLING_DEFECT |-> <<"RETRY_SAMPLING">>]

\* A rule without a policy has none.
ActionsOf(rule) == IF rule.id \in DOMAIN PolicyActions THEN PolicyActions[rule.id] ELSE <<>>

States == [style : 0 .. ScaleTop, denoise : 0 .. ScaleTop, structure : 0 .. ScaleTop,
           variation : 0 .. VariationTop]

Up(scale) == IF scale < ScaleTop THEN scale + 1 ELSE ScaleTop
Down(scale) == IF scale > 0 THEN scale - 1 ELSE 0

\* _patch_for: the repair state the action leads to.
Patched(action, s) ==
    CASE action = "INCREASE_STYLE_SCALE" -> [s EXCEPT !.style = Up(@)]
      [] action = "DECREASE_STYLE_SCALE" -> [s EXCEPT !.style = Down(@)]
      [] action = "REDUCE_DENOISE"       -> [s EXCEPT !.denoise = Down(@)]
      [] action = "INCREASE_STRUCTURE"   -> [s EXCEPT !.structure = Up(@)]
      [] action = "RETRY_SAMPLING"       -> [s EXCEPT !.variation = @ + 1]
      [] OTHER                           -> s

\* is_action_executable: a patch must change something and stay in range.
Executable(action, s) ==
    /\ Patched(action, s) # s
    /\ Patched(action, s).variation <= VariationTop

RepairDecision(id, rule, action, s) ==
    [id |-> id, trigger |-> rule.id, action |-> action, before |-> s,
     after |-> Patched(action, s)]

\* The places of the rule's own actions that may be taken.
Open(rule, s, seen) ==
    {i \in DOMAIN ActionsOf(rule) :
        /\ ActionsOf(rule)[i] \in rule.actions
        /\ Executable(ActionsOf(rule)[i], s)
        /\ Patched(ActionsOf(rule)[i], s) \notin seen}

FirstOf(places) == {i \in places : \A k \in places : i <= k}

\* select_repair is for a report that was rejected by a gate.
Selectable(rules, status) ==
    DecideArtifact(rules, status, Nothing) = Verdict("REJECTED", "REQUIRED_GATE_FAILED")

SelectAgain(rules, status, s, id, seen) ==  \* mutant: the states already tried are forgotten
    LET rule == FirstBlocking(rules, status)
    IN {RepairDecision(id, rule, ActionsOf(rule)[i], s) : i \in FirstOf(Open(rule, s, {}))}

\* Its answer: the first blocking rule decides, and only its own actions; the
\* empty set is NoAction.
SelectRepair(rules, status, s, id, seen) ==
    LET rule == FirstBlocking(rules, status)
    IN {RepairDecision(id, rule, ActionsOf(rule)[i], s) : i \in FirstOf(Open(rule, s, seen))}

\* is_repair_improvement: the trigger and what comes before it pass, and the first
\* required rule whose gate is another than before has come to pass.
Improves(rules, parent, child, trigger) ==
    LET required == {r \in rules : r.required}
        passed(status, r) == status[r.id] = "PASS"
    IN /\ child[trigger] = "PASS"
       /\ \A r, t \in required : t.id = trigger /\ Before(r, t) => passed(child, r)
       /\ \E r \in required :
             /\ passed(child, r) /\ ~passed(parent, r)
             /\ \A q \in required : Before(q, r) => passed(child, q) = passed(parent, q)

-----------------------------------------------------------------------------
(* Histories *)

Request(attempt, parent, s) == [attempt |-> attempt, parent |-> parent, state |-> s]

Current(h) == h[Len(h)]
Rounds(h) == Len(h) - 1
SeenStates(h) == {h[i].request.state : i \in 1 .. Len(h)}
AttemptsOf(h) == {h[i].request.attempt : i \in 1 .. Len(h)}
DecisionsOf(h) == {h[i].decision.id : i \in 2 .. Len(h)}
ArtifactsOf(h) == {h[i].report.target : i \in 1 .. Len(h)}

\* build_repair_request
ChildRequest(parent, decision, attempt) == Request(attempt, parent.attempt, decision.after)

\* One turn of _replay: attempt a is what the policy selects after history h,
\* under new names, and its report is about the same cohort with the new artifact
\* in the place of the old one.
Follows(h, a) ==
    LET now == Current(h)
    IN /\ Selectable(plan, now.report.status)
       /\ a.decision \in SelectRepair(plan, now.report.status, now.request.state, a.decision.id,
                                      SeenStates(h))
       /\ a.request = ChildRequest(now.request, a.decision, a.request.attempt)
       /\ a.request.attempt \notin AttemptsOf(h)
       /\ a.decision.id \notin DecisionsOf(h)
       /\ a.report.target \notin ArtifactsOf(h)
       /\ a.report.other = now.report.other
       /\ a.request.state \notin SeenStates(h)

\* The whole of _replay, as the constructor of a history runs it.
Replays(h) ==
    /\ \A i \in 2 .. Len(h) : Follows(SubSeq(h, 1, i - 1), h[i])
    /\ Rounds(h) <= policy.rounds

\* The rounds since the last one that helped (_replay's no_improvement).
RoundHelped(h, i) ==
    Improves(plan, h[i-1].report.status, h[i].report.status, h[i].decision.trigger)
NoImprovement(h) == Cardinality({i \in 2 .. Len(h) : \A k \in i .. Len(h) : ~RoundHelped(h, k)})

-----------------------------------------------------------------------------
(* The two phases *)

StopOnBudget(h) ==
    LET routed == DecideArtifact(plan, Current(h).report.status, Nothing)
    IN IF routed = Verdict("APPROVED", "ALL_REQUIRED_PASS") THEN "PASS_ALL_REQUIRED"
       ELSE IF NoImprovement(h) >= policy.patience THEN "NO_IMPROVEMENT"
       ELSE IF Rounds(h) >= policy.rounds THEN "MAX_ROUNDS"
       ELSE IF routed = Verdict("REJECTED", "REQUIRED_GATE_UNVERIFIABLE") THEN "UNVERIFIABLE"
       ELSE IF routed = Verdict("MANUAL_REVIEW", "MANUAL_POLICY") THEN "MANUAL_REQUEST"
       ELSE Nothing

\* _stop_reason
StopReason(h) ==
    LET routed == DecideArtifact(plan, Current(h).report.status, Nothing)
    IN IF routed = Verdict("APPROVED", "ALL_REQUIRED_PASS") THEN "PASS_ALL_REQUIRED"
       ELSE IF routed = Verdict("REJECTED", "REQUIRED_GATE_UNVERIFIABLE") THEN "UNVERIFIABLE"
       ELSE IF routed = Verdict("MANUAL_REVIEW", "MANUAL_POLICY") THEN "MANUAL_REQUEST"
       ELSE IF NoImprovement(h) >= policy.patience THEN "NO_IMPROVEMENT"
       ELSE IF Rounds(h) >= policy.rounds THEN "MAX_ROUNDS"
       ELSE Nothing

Terminal(h, stop) == [kind |-> "terminal", stop |-> stop,
                      verdict |-> DecideArtifact(plan, Current(h).report.status, stop)]
Refusal == [kind |-> "refused"]

NextGeneration(h, a, choices) ==
    LET decision == CHOOSE d \in choices : TRUE
    IN [kind |-> "next", decision |-> decision, request |-> ChildRequest(Current(h).request, decision, a)]

NextStepStrict(h, d, a) ==  \* mutant: no action is taken for a mistake of the caller
    LET now == Current(h)
        selected == SelectRepair(plan, now.report.status, now.request.state, d, SeenStates(h))
    IN IF StopReason(h) # Nothing THEN Terminal(h, StopReason(h))
       ELSE IF \/ d \in DecisionsOf(h) \/ ~Selectable(plan, now.report.status)
               \/ selected = {} \/ a \in AttemptsOf(h) THEN Refusal
       ELSE NextGeneration(h, a, selected)

\* next_repair_step
NextStep(h, d, a) ==
    LET now == Current(h)
        selected == SelectRepair(plan, now.report.status, now.request.state, d, SeenStates(h))
    IN IF StopReason(h) # Nothing THEN Terminal(h, StopReason(h))
       ELSE IF d \in DecisionsOf(h) \/ ~Selectable(plan, now.report.status) THEN Refusal
       ELSE IF selected = {} THEN Terminal(h, "NO_ACTION")
       ELSE IF a \in AttemptsOf(h) THEN Refusal
       ELSE NextGeneration(h, a, selected)

\* The documents a loop starts from: a plan has a required rule (production's rule of
\* reference is always_required, as its technical rules are), names its rules once and
\* has no required rule that continues on a warning; the bounds are numbers, the
\* defaults of a graph in range, and no reason or status is one of the two constants.
PlansAssumption ==
    \A rules \in Plans :
        /\ \A r \in rules :
              /\ r.id \in DOMAIN IdRank /\ IdRank[r.id] \in Nat /\ r.priority \in Nat
              /\ r.onUnverifiable \in {"reject", "manual_review"}
              /\ r.required => r.onWarning \in {"reject", "manual_review"}
        /\ \A r, q \in rules : IdRank[r.id] = IdRank[q.id] => r = q
        /\ \E r \in rules : r.required
PolicyAssumption == \A p \in Policies : p.rounds \in Nat /\ p.patience \in Nat
RangeAssumption == ScaleTop \in Nat /\ VariationTop \in Nat /\ Starts \subseteq States
NamesAssumption ==
    /\ Nothing \notin Exhausted \cup {"PASS_ALL_REQUIRED", "UNVERIFIABLE", "MANUAL_REQUEST"}
    /\ Raised \notin {"APPROVED", "MANUAL_REVIEW", "REJECTED"}
ASSUME RepairAssumptions ==
    PlansAssumption /\ PolicyAssumption /\ RangeAssumption /\ NamesAssumption

\* start_repair_history
RepairInit ==
    /\ plan \in Plans /\ policy \in Policies
    /\ \E s \in Starts, a \in AttemptIds, t \in ArtifactIds, o \in Others,
          status \in Reports(plan) :
          history = << [decision |-> Nothing, request |-> Request(a, Nothing, s),
                        report |-> [target |-> t, other |-> o, status |-> status]] >>
    /\ command = Nothing /\ consumed = Nothing /\ repairStep = [kind |-> "none"]
    /\ broken = FALSE

\* The caller asks for the next step under the names it picked.
Ask(d, a) ==
    /\ repairStep.kind # "terminal"
    /\ repairStep' = NextStep(history, d, a)
    /\ command' = IF repairStep'.kind = "next" THEN repairStep' ELSE command
    /\ LET honest == d \notin DecisionsOf(history) /\ a \notin AttemptsOf(history)
           failed == \/ repairStep'.kind = "refused"
                     \/ repairStep'.kind = "terminal" /\ repairStep'.verdict.status = Raised
       IN broken' = (broken \/ (honest /\ failed))
    /\ UNCHANGED <<plan, policy, history, consumed>>

\* The caller hands in what was generated for a command it holds, the last one
\* or the one it already used.
Observe(c, t, o, status) ==
    /\ c # Nothing
    /\ LET attempt == [decision |-> c.decision, request |-> c.request,
                       report |-> [target |-> t, other |-> o, status |-> status]]
           honest == /\ c.request.parent = Current(history).request.attempt
                     /\ t \notin ArtifactsOf(history)
                     /\ o = Current(history).report.other
           accepted == Replays(Append(history, attempt))
       IN /\ history' = IF accepted THEN Append(history, attempt) ELSE history
          /\ consumed' = IF accepted THEN c ELSE consumed
          /\ broken' = (broken \/ (honest /\ ~accepted))
    /\ repairStep' = [kind |-> "none"]
    /\ UNCHANGED <<plan, policy, command>>

ReportOn(c) == \E t \in ArtifactIds, o \in Others, status \in Reports(plan) :
                 Observe(c, t, o, status)

\* A terminal decision ends the run.
Settled == repairStep.kind = "terminal" /\ UNCHANGED repairVars

RepairNext ==
    \/ \E d \in DecisionIds, a \in AttemptIds : Ask(d, a)
    \/ repairStep.kind # "terminal" /\ (ReportOn(command) \/ ReportOn(consumed))
    \/ Settled

RepairSpec == RepairInit /\ [][RepairNext]_repairVars

\* A caller that works: it asks under new names when it has no command for the
\* history it holds, and generates what it was told to.
Some(names) == CHOOSE n \in names : TRUE
Owed == command # Nothing /\ command.request.parent = Current(history).request.attempt
AskHonestly ==
    /\ ~Owed
    /\ Ask(Some(DecisionIds \ DecisionsOf(history)), Some(AttemptIds \ AttemptsOf(history)))
GenerateHonestly ==
    /\ Owed /\ repairStep.kind # "terminal"
    /\ \E status \in Reports(plan) :
          Observe(command, Some(ArtifactIds \ ArtifactsOf(history)), Current(history).report.other, status)
WorkingSpec == RepairInit /\ [][AskHonestly \/ GenerateHonestly \/ Settled]_repairVars
                    /\ WF_repairVars(AskHonestly) /\ WF_repairVars(GenerateHonestly)

-----------------------------------------------------------------------------
(* Properties *)

\* The variables stay in their types.
RepairTypeOK ==
    /\ plan \in Plans /\ policy \in Policies /\ broken \in BOOLEAN
    /\ history # <<>> /\ Rounds(history) <= policy.rounds
    /\ \A i \in 1 .. Len(history) : history[i].request.state \in States
    /\ repairStep.kind \in {"none", "next", "terminal", "refused"}

\* A caller that follows the protocol is never refused: what next_repair_step
\* issued, consume_repair_result takes, and every reason it finds to stop is one
\* decide_artifact can route.
HonestIsServed == ~broken

\* No round repeats another: attempts form one chain, and no repair state, attempt,
\* decision or artifact occurs twice, whatever the caller hands in.
RoundsDiffer ==
    /\ \A i \in 2 .. Len(history) : history[i].request.parent = history[i-1].request.attempt
    /\ Cardinality(SeenStates(history)) = Len(history)
    /\ Cardinality(AttemptsOf(history)) = Len(history)
    /\ Cardinality(ArtifactsOf(history)) = Len(history)
    /\ Cardinality(DecisionsOf(history)) = Rounds(history)

\* No artifact is repaired past the patience of its policy: a history never ends
\* in more useless rounds than stop_after_no_improvement.
PatienceKept == NoImprovement(history) <= policy.patience

\* The reason to stop never changes what the report alone says of the artifact: it
\* is approved, rejected or sent to review as the last report routes it.
StopKeepsVerdict ==
    repairStep.kind = "terminal" =>
        repairStep.verdict.status = DecideArtifact(plan, Current(history).report.status, Nothing).status

\* NO_ACTION is said only when the rule that blocks has nothing left to try: each
\* of its actions changes nothing, is not allowed, or leads back to a state seen.
NoActionIsTrue ==
    repairStep.kind = "terminal" /\ repairStep.stop = "NO_ACTION" =>
        LET now == Current(history)
            rule == FirstBlocking(plan, now.report.status)
        IN \A i \in DOMAIN ActionsOf(rule) :
              \/ ActionsOf(rule)[i] \notin rule.actions
              \/ Patched(ActionsOf(rule)[i], now.request.state).variation > VariationTop
              \/ Patched(ActionsOf(rule)[i], now.request.state) \in SeenStates(history)

\* Production grants one round (_validate_repair_contract) and then takes the next
\* step under names that are used already: it must be terminal by then.
ProductionContract == policy.rounds = 1 /\ policy.patience = 1
OneRoundIsFinal == ProductionContract /\ Rounds(history) = 1 => StopReason(history) # Nothing

\* A caller that follows the protocol of the repair loop is never refused, no round
\* repeats another, patience is kept, and one round is the last one under the contract
\* of production.
RepairIsServed ==
    RepairTypeOK /\ HonestIsServed /\ RoundsDiffer /\ PatienceKept /\ OneRoundIsFinal

\* Why the loop stops is true, and changes nothing of the verdict.
StopIsTrue == StopKeepsVerdict /\ NoActionIsTrue

\* A working caller reaches a terminal decision.
Ends == <>(repairStep.kind = "terminal")
=============================================================================
