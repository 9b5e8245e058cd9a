------------------------ MODULE Orchestration_proofs ------------------------
(***************************************************************************)
(* Proofs about what an orchestrator does: FakeOrchestrator, for any number*)
(* of callers, failures and stops of the process, and RepairLoop, for every*)
(* set of plans, policies and starts a specification can be compiled to.   *)
(***************************************************************************)
EXTENDS FakeOrchestrator, RepairLoop, FiniteSetTheorems, SequenceTheorems, TLAPS

(***************************************************************************)
(* The orchestrator of the fake backend.                                   *)
(***************************************************************************)

Early == {"ABSENT", "CREATED", "SPEC_VALIDATED", "SPEC_COMPILED"}

(* The job is generated while GENERATING is being entered, by the one call *)
(* that entered it; nothing ever leads back to an earlier status, because  *)
(* no call records a recoverable error.                                    *)
OneGenerator ==
    /\ generations <= 1
    /\ status # "RECOVERABLE_ERROR"
    /\ status \in Early => generations = 0 /\ \A c \in Callers : pc[c] # "generate"
    /\ \A c \in Callers :
          pc[c] = "generate" =>
              generations = 0 /\ \A d \in Callers : pc[d] = "generate" => c = d

(* What a call knows at each stage, above all about to record or report a  *)
(* completion.                                                             *)
Progress ==
    \A c \in Callers :
        /\ pc[c] \notin {"idle", "init"} => status # "ABSENT"
        /\ pc[c] = "published" => bundle = "own"
        /\ pc[c] = "return" => status = "COMPLETED"

OrchestratorIInv == TypeOK /\ OneGenerator /\ CompletedHasBundle /\ Progress

-----------------------------------------------------------------------------
(* What an accepted event does to the status, by the stage it records. *)
LEMMA StageTargets ==
    ASSUME NEW step \in Recorded, NEW to \in Targets(step)
    PROVE  /\ to \in JobStatus \ {"ABSENT", "RECOVERABLE_ERROR", "REPAIR_SELECTING"}
           /\ to = "GENERATING" <=> step = "attempt"
           /\ to = "COMPLETED" <=> step = "published"
           /\ After(step) = "generate" <=> step = "attempt"
           /\ After(step) = "return" <=> step = "published"
           /\ After(step) # "published"
           /\ After(step) \in Steps
  <1> USE DEF After, Steps, Recorded, JobStatus, Stages, TERMINAL_STATUSES
  <1>1. CASE step = "started"
    <2>1. EventOf(step) = "JOB_STARTED" BY <1>1 DEF EventOf
    <2> QED BY <1>1, <2>1 DEF Targets, EVENT_TO_STATE
  <1>2. CASE step = "compiled"
    <2>1. EventOf(step) = "SPEC_COMPILED" BY <1>2 DEF EventOf
    <2> QED BY <1>2, <2>1 DEF Targets, EVENT_TO_STATE
  <1>3. CASE step = "attempt"
    <2>1. EventOf(step) = "ATTEMPT_STARTED" BY <1>3 DEF EventOf
    <2> QED BY <1>3, <2>1 DEF Targets, EVENT_TO_STATE
  <1>4. CASE step = "finished"
    <2>1. EventOf(step) = "ATTEMPT_FINISHED" BY <1>4 DEF EventOf
    <2> QED BY <1>4, <2>1 DEF Targets, EVENT_TO_STATE
  <1>5. CASE step = "decided"
    <2>1. EventOf(step) = "VERIFIER_FINISHED" BY <1>5 DEF EventOf
    <2> QED BY <1>5, <2>1 DEF Targets, EVENT_TO_STATE
  <1>6. CASE step = "exporting"
    <2>1. EventOf(step) = "EXPORT_STARTED" BY <1>6 DEF EventOf
    <2> QED BY <1>6, <2>1 DEF Targets, EVENT_TO_STATE
  <1>7. CASE step = "published"
    <2>1. EventOf(step) = "EXPORT_PUBLISHED" BY <1>7 DEF EventOf
    <2> QED BY <1>7, <2>1 DEF Targets, EVENT_TO_STATE
  <1> QED BY <1>1, <1>2, <1>3, <1>4, <1>5, <1>6, <1>7 DEF Recorded

(* An accepted event never leads back before the generation. *)
LEMMA Forward ==
    ASSUME NEW from \in JobStatus, NEW to, NEW type,
           validate_transition(from, to, type)
    PROVE  /\ from \notin TERMINAL_STATUSES
           /\ from # "RECOVERABLE_ERROR" /\ to = "GENERATING" => from = "SPEC_COMPILED"
           /\ to \in Early => from \in Early
  BY DEF validate_transition, TRANSITIONS, Onward, Early, JobStatus, Stages, TERMINAL_STATUSES

(* The invariant holds initially. *)
LEMMA OrchestratorInitInvariant == Init => OrchestratorIInv
  BY BoundsAssumption DEF Init, OrchestratorIInv, TypeOK, OneGenerator, CompletedHasBundle, Progress, Steps,
     Recorded, JobStatus, Stages, TERMINAL_STATUSES, Early

(* Failures stay within their bound. *)
LEMMA FaultCounts ==
    ASSUME TypeOK, Fault
    PROVE  faults' \in 0 .. MaxFaults
  BY BoundsAssumption DEF TypeOK, Fault

(* Every step preserves the types. *)
LEMMA TypePreserved == TypeOK /\ [Next]_vars => TypeOK'
  <1> SUFFICES ASSUME TypeOK, [Next]_vars PROVE TypeOK'
      OBVIOUS
  <1> USE DEF TypeOK, Goto, Leave
  <1>1. ASSUME NEW c \in Callers, Call(c) PROVE TypeOK'
        BY <1>1 DEF Call, Steps
  <1>2. ASSUME NEW c \in Callers, InitJob(c) PROVE TypeOK'
        BY <1>2, FaultCounts DEF InitJob, Steps, JobStatus, Stages
  <1>3. ASSUME NEW c \in Callers, Load(c) PROVE TypeOK'
        BY <1>3 DEF Load, Steps, Recorded, JobStatus
  <1>4. ASSUME NEW c \in Callers, AppendEvent(c) PROVE TypeOK'
        BY <1>4, FaultCounts, StageTargets DEF AppendEvent, Steps
  <1>5. ASSUME NEW c \in Callers, Generate(c) PROVE TypeOK'
        BY <1>5, FaultCounts DEF Generate, StageFails, After, Steps, Recorded
  <1>6. ASSUME NEW c \in Callers, Prepare(c) PROVE TypeOK'
        BY <1>6, FaultCounts DEF Prepare, StageFails, After, Steps, Recorded
  <1>7. ASSUME NEW c \in Callers, ExportBundle(c) PROVE TypeOK'
        BY <1>7, FaultCounts DEF ExportBundle, StageFails, After, Steps, Recorded
  <1>8. ASSUME NEW c \in Callers, TryFatal(c) PROVE TypeOK'
        BY <1>8, FaultCounts DEF TryFatal, Steps, JobStatus, TERMINAL_STATUSES
  <1>9. ASSUME NEW c \in Callers, Return(c) PROVE TypeOK'
        BY <1>9 DEF Return, Steps, TERMINAL_STATUSES
  <1>10. ASSUME Crash PROVE TypeOK'
        BY <1>10, BoundsAssumption DEF Crash, Steps
  <1>11. CASE UNCHANGED vars BY <1>11 DEF vars
  <1> QED BY <1>1, <1>2, <1>3, <1>4, <1>5, <1>6, <1>7, <1>8, <1>9, <1>10, <1>11 DEF Next

(* Every step preserves the rest of the invariant. *)
LEMMA InvariantPreserved == OrchestratorIInv /\ [Next]_vars => OrchestratorIInv'
  <1> SUFFICES ASSUME OrchestratorIInv, [Next]_vars PROVE (OneGenerator /\ CompletedHasBundle /\ Progress)'
      BY TypePreserved DEF OrchestratorIInv
  <1> USE DEF OrchestratorIInv, OneGenerator, CompletedHasBundle, Progress, Goto, Leave
  <1>0. TypeOK OBVIOUS
  <1> DEFINE Goal == (OneGenerator /\ CompletedHasBundle /\ Progress)'
  <1>1. ASSUME NEW c \in Callers, Call(c) PROVE Goal
        BY <1>1 DEF Call, TypeOK
  <1>2. ASSUME NEW c \in Callers, InitJob(c) PROVE Goal
        BY <1>2 DEF InitJob, TypeOK, Early
  <1>3. ASSUME NEW c \in Callers, Load(c) PROVE Goal
        BY <1>3 DEF Load, TypeOK, TERMINAL_STATUSES
  <1>4. ASSUME NEW c \in Callers, AppendEvent(c) PROVE Goal
    <2>1. status \in JobStatus
          BY <1>4 DEF AppendEvent, TypeOK, Recorded
    <2>2. PICK to \in Targets(pc[c]) :
             LET accepted == Accepted(c, to, EventOf(pc[c])) IN
             \/ accepted /\ status' = to /\ Goto(c, After(pc[c]))
             \/ accepted /\ status' \in {status, to} /\ Goto(c, "fatal")
             \/ ~accepted /\ status' = status /\ Goto(c, "fatal")
          BY <1>4 DEF AppendEvent
    <2>3. /\ pc[c] \in Recorded
          /\ UNCHANGED <<bundle, generations, result>>
          BY <1>4 DEF AppendEvent
    <2>4. ASSUME Accepted(c, to, EventOf(pc[c]))
          PROVE  /\ status \notin TERMINAL_STATUSES \cup {"RECOVERABLE_ERROR"}
                 /\ to = "GENERATING" => status = "SPEC_COMPILED"
                 /\ to \in Early => status \in Early
          BY <2>1, <2>4, Forward DEF Accepted
    <2>5. /\ to # "RECOVERABLE_ERROR" /\ to # "ABSENT"
          /\ After(pc[c]) = "generate" <=> to = "GENERATING"
          /\ After(pc[c]) = "return" <=> to = "COMPLETED"
          /\ to = "COMPLETED" => pc[c] = "published"
          /\ After(pc[c]) # "published"
          BY <2>3, StageTargets
    <2>6. pc \in [Callers -> Steps] /\ status # "ABSENT"
          BY <2>3 DEF TypeOK, Recorded
    <2>7. CASE Accepted(c, to, EventOf(pc[c])) /\ status' = to /\ Goto(c, After(pc[c]))
      <3>1. OneGenerator'
            BY <2>3, <2>4, <2>5, <2>6, <2>7 DEF Early
      <3>2. CompletedHasBundle'
            BY <2>3, <2>4, <2>5, <2>6, <2>7 DEF TERMINAL_STATUSES
      <3>3. Progress'
            BY <2>3, <2>4, <2>5, <2>6, <2>7 DEF TERMINAL_STATUSES
      <3> QED BY <3>1, <3>2, <3>3
    <2>8. CASE Accepted(c, to, EventOf(pc[c])) /\ status' \in {status, to} /\ Goto(c, "fatal")
      <3>1. OneGenerator'
            BY <2>3, <2>4, <2>5, <2>6, <2>8 DEF Early
      <3>2. CompletedHasBundle'
            BY <2>3, <2>4, <2>5, <2>6, <2>8 DEF TERMINAL_STATUSES
      <3>3. Progress'
            BY <2>1, <2>3, <2>4, <2>5, <2>6, <2>8 DEF TERMINAL_STATUSES
      <3> QED BY <3>1, <3>2, <3>3
    <2>9. CASE status' = status /\ Goto(c, "fatal")
          BY <2>3, <2>6, <2>9
    <2> QED BY <2>2, <2>7, <2>8, <2>9
  <1>5. ASSUME NEW c \in Callers, Generate(c) PROVE Goal
        BY <1>5 DEF Generate, StageFails, After, TypeOK
  <1>6. ASSUME NEW c \in Callers, Prepare(c) PROVE Goal
        BY <1>6 DEF Prepare, StageFails, After, TypeOK
  <1>7. ASSUME NEW c \in Callers, ExportBundle(c) PROVE Goal
        BY <1>7 DEF ExportBundle, StageFails, After, TypeOK
  <1>8. ASSUME NEW c \in Callers, TryFatal(c) PROVE Goal
    <2>1. status \in JobStatus
          BY <1>8 DEF TryFatal, TypeOK
    <2>2. \/ status' = status
          \/ status' = "JOB_FAILED" /\ status \notin TERMINAL_STATUSES
          BY <1>8, <2>1, Forward DEF TryFatal, Accepted
    <2> QED BY <1>8, <2>2 DEF TryFatal, TypeOK, Early, TERMINAL_STATUSES
  <1>9. ASSUME NEW c \in Callers, Return(c) PROVE Goal
        BY <1>9 DEF Return, TypeOK
  <1>10. ASSUME Crash PROVE Goal
         BY <1>10 DEF Crash
  <1>11. CASE UNCHANGED vars BY <1>11 DEF vars
  <1> QED BY <1>1, <1>2, <1>3, <1>4, <1>5, <1>6, <1>7, <1>8, <1>9, <1>10, <1>11 DEF Next

(* The invariant holds in every state. *)
LEMMA Invariant == Spec => []OrchestratorIInv
  BY OrchestratorInitInvariant, InvariantPreserved, PTL DEF Spec

-----------------------------------------------------------------------------
(* The variables have their types, for every number of callers, failures   *)
(* and stops.                                                              *)
THEOREM TypeCorrect == Spec => []TypeOK
  BY Invariant, PTL DEF OrchestratorIInv

(* run_fake_job generates a job's root attempt at most once, however many  *)
(* threads start the job, however often and wherever they are stopped.     *)
THEOREM AtMostOnce == Spec => []GeneratesOnce
  <1>1. OrchestratorIInv => GeneratesOnce
        BY DEF OrchestratorIInv, OneGenerator, GeneratesOnce, TypeOK
  <1> QED BY <1>1, Invariant, PTL

(* run_fake_job never records or reports a completion whose bundle is not  *)
(* in its place.                                                           *)
THEOREM NoEmptyCompletion == Spec => []CompletedHasBundle
  BY Invariant, PTL DEF OrchestratorIInv

-----------------------------------------------------------------------------
(***************************************************************************)
(* The repair loop: a history is a chain of rounds that were selected, and *)
(* every command that the caller holds was issued for a beginning of it.   *)
(***************************************************************************)

IsHistory(h) == h \in Seq({h[i] : i \in 1 .. Len(h)}) /\ Len(h) \in Nat \ {0}

Typed ==
    /\ RepairTypeOK /\ IsHistory(history)
    /\ \A i \in 1 .. Len(history) : history[i].report.status \in Reports(plan)

(* The history is one that _replay accepts, and its names are finitely many. *)
Chain ==
    /\ Replays(history) /\ NoImprovement(history) <= policy.patience
    /\ IsFiniteSet(SeenStates(history)) /\ IsFiniteSet(AttemptsOf(history))
    /\ IsFiniteSet(ArtifactsOf(history)) /\ IsFiniteSet(DecisionsOf(history))
    /\ \A i, k \in 1 .. Len(history) :
          history[i].request.attempt = history[k].request.attempt => i = k

(* What is selected for the rules after a history h, under new names.      *)
Fits(rules, c, h) ==
    /\ c.decision \in SelectRepair(rules, Current(h).report.status, Current(h).request.state,
                                   c.decision.id, SeenStates(h))
    /\ c.decision.id \notin DecisionsOf(h)
    /\ c.request = ChildRequest(Current(h).request, c.decision, c.request.attempt)
    /\ c.request.attempt \notin AttemptsOf(h)

(* What next_repair_step answers with to a history that is not at its end. *)
IssuedAt(c, h) == StopReason(h) = Nothing /\ Fits(plan, c, h)

(* A command of the caller was issued for what is now the beginning of its  *)
(* history.                                                                *)
Issued(c) ==
    c # Nothing => \E k \in 1 .. Len(history) : IssuedAt(c, SubSeq(history, 1, k))

IInv == Typed /\ Chain /\ RoundsDiffer /\ HonestIsServed /\ Issued(command) /\ Issued(consumed)

-----------------------------------------------------------------------------
(* Sequences *)

(* A longer history: the rounds before it, and each of its beginnings, are *)
(* what they were.                                                         *)
LEMMA AppendFacts ==
    ASSUME NEW h, IsHistory(h), NEW x
    PROVE  /\ IsHistory(Append(h, x))
           /\ Len(Append(h, x)) = Len(h) + 1
           /\ Append(h, x)[Len(h) + 1] = x
           /\ \A i \in 1 .. Len(h) : Append(h, x)[i] = h[i]
           /\ \A k \in 1 .. Len(h) : SubSeq(Append(h, x), 1, k) = SubSeq(h, 1, k)
           /\ SubSeq(h, 1, Len(h)) = h
  <1> DEFINE S == {h[i] : i \in 1 .. Len(h)} \cup {x}
             g == Append(h, x)
  <1>1. h \in Seq(S) /\ x \in S
    <2>1. h \in Seq({h[i] : i \in 1 .. Len(h)}) BY DEF IsHistory
    <2> QED BY <2>1
  <1>2. /\ g \in Seq(S) /\ Len(g) = Len(h) + 1
        /\ g[Len(h) + 1] = x /\ \A i \in 1 .. Len(h) : g[i] = h[i]
    BY <1>1, AppendProperties
  <1>3. IsHistory(g)
    <2>1. Len(g) \in Nat \ {0} BY <1>2 DEF IsHistory
    <2>2. g \in Seq({g[i] : i \in 1 .. Len(g)})
      BY <1>2, <2>1
    <2> QED BY <2>1, <2>2 DEF IsHistory
  <1>4. ASSUME NEW k \in 1 .. Len(h) PROVE SubSeq(g, 1, k) = SubSeq(h, 1, k)
    <2>1. Len(h) \in Nat BY DEF IsHistory
    <2>2. \A i \in 1 .. k : h[i] \in S /\ g[i] \in S
      BY <1>1, <1>2, <2>1
    <2>3. /\ SubSeq(g, 1, k) \in Seq(S) /\ Len(SubSeq(g, 1, k)) = k
          /\ \A i \in 1 .. k : SubSeq(g, 1, k)[i] = g[i]
      BY <2>1, <2>2, SubSeqProperties
    <2>4. /\ SubSeq(h, 1, k) \in Seq(S) /\ Len(SubSeq(h, 1, k)) = k
          /\ \A i \in 1 .. k : SubSeq(h, 1, k)[i] = h[i]
      BY <2>1, <2>2, SubSeqProperties
    <2>5. \A i \in 1 .. k : SubSeq(g, 1, k)[i] = SubSeq(h, 1, k)[i]
      BY <1>2, <2>1, <2>3, <2>4
    <2> HIDE DEF S, g
    <2> QED BY <2>3, <2>4, <2>5, SeqEqual
  <1>5. SubSeq(h, 1, Len(h)) = h
    BY <1>1, SubSeqFull
  <1> QED BY <1>2, <1>3, <1>4, <1>5

(* What a longer history has seen.                                         *)
LEMMA AppendNames ==
    ASSUME NEW h, IsHistory(h), NEW x
    PROVE  /\ SeenStates(Append(h, x)) = SeenStates(h) \cup {x.request.state}
           /\ AttemptsOf(Append(h, x)) = AttemptsOf(h) \cup {x.request.attempt}
           /\ ArtifactsOf(Append(h, x)) = ArtifactsOf(h) \cup {x.report.target}
           /\ DecisionsOf(Append(h, x)) = DecisionsOf(h) \cup {x.decision.id}
           /\ Rounds(Append(h, x)) = Rounds(h) + 1
           /\ Current(Append(h, x)) = x
  <1> DEFINE g == Append(h, x)
  <1>1. /\ Len(g) = Len(h) + 1 /\ g[Len(h) + 1] = x
        /\ \A i \in 1 .. Len(h) : g[i] = h[i]
        /\ Len(h) \in Nat \ {0}
    BY AppendFacts DEF IsHistory
  <1>2. 1 .. Len(g) = (1 .. Len(h)) \cup {Len(h) + 1} /\ 2 .. Len(g) = (2 .. Len(h)) \cup {Len(h) + 1}
    BY <1>1
  <1>3. \A i \in 2 .. Len(h) : g[i] = h[i]
    BY <1>1
  <1> HIDE DEF g
  <1>4. SeenStates(g) = SeenStates(h) \cup {x.request.state}
    BY <1>1, <1>2 DEF SeenStates
  <1>5. AttemptsOf(g) = AttemptsOf(h) \cup {x.request.attempt}
    BY <1>1, <1>2 DEF AttemptsOf
  <1>6. ArtifactsOf(g) = ArtifactsOf(h) \cup {x.report.target}
    BY <1>1, <1>2 DEF ArtifactsOf
  <1>7. DecisionsOf(g) = DecisionsOf(h) \cup {x.decision.id}
    BY <1>1, <1>2, <1>3 DEF DecisionsOf
  <1>8. Rounds(g) = Rounds(h) + 1 /\ Current(g) = x
    BY <1>1 DEF Rounds, Current
  <1> QED BY <1>4, <1>5, <1>6, <1>7, <1>8 DEF g

(* One round adds at most one to the rounds that did not help.             *)
LEMMA NoImprovementGrows ==
    ASSUME NEW h, IsHistory(h), NEW x
    PROVE  /\ NoImprovement(h) \in Nat
           /\ NoImprovement(Append(h, x)) <= NoImprovement(h) + 1
  <1> DEFINE g == Append(h, x)
             U == {i \in 2 .. Len(h) : \A k \in i .. Len(h) : ~RoundHelped(h, k)}
             V == {i \in 2 .. Len(g) : \A k \in i .. Len(g) : ~RoundHelped(g, k)}
             n == Len(h)
  <1>1. /\ Len(g) = n + 1 /\ n \in Nat \ {0} /\ \A i \in 1 .. n : g[i] = h[i]
    BY AppendFacts DEF IsHistory
  <1>2. \A k \in 2 .. n : RoundHelped(g, k) = RoundHelped(h, k)
    BY <1>1 DEF RoundHelped
  <1>3. V \subseteq U \cup {n + 1}
    <2> SUFFICES ASSUME NEW i \in V, i # n + 1 PROVE i \in U
      OBVIOUS
    <2>1. i \in 2 .. n /\ \A k \in i .. n : ~RoundHelped(g, k)
      BY <1>1
    <2>2. \A k \in i .. n : k \in 2 .. n
      BY <1>1, <2>1
    <2> QED BY <1>2, <2>1, <2>2
  <1>4. IsFiniteSet(U) /\ Cardinality(U) \in Nat
    <2>1. IsFiniteSet(2 .. n) BY <1>1, FS_Interval
    <2>2. U \in SUBSET (2 .. n) OBVIOUS
    <2> HIDE DEF U
    <2> QED BY <2>1, <2>2, FS_Subset, FS_CardinalityType
  <1>5. Cardinality(V) <= Cardinality(U) + 1
    <2> HIDE DEF U, V
    <2>1. IsFiniteSet(U \cup {n + 1}) /\ Cardinality(U \cup {n + 1}) <= Cardinality(U) + 1
          /\ Cardinality(U \cup {n + 1}) \in Nat
      BY <1>4, FS_AddElement, FS_CardinalityType
    <2>2. V \in SUBSET (U \cup {n + 1}) BY <1>3
    <2>3. IsFiniteSet(V) /\ Cardinality(V) <= Cardinality(U \cup {n + 1})
      BY <2>1, <2>2, FS_Subset
    <2>4. Cardinality(V) \in Nat BY <2>3, FS_CardinalityType
    <2> QED BY <1>4, <2>1, <2>3, <2>4
  <1> QED BY <1>4, <1>5 DEF NoImprovement

-----------------------------------------------------------------------------
(* Routing *)

(* What decide_artifact says of a report, whatever the reason to stop: the  *)
(* report has a place in the table.                                        *)
LEMMA RoutingIsTotal ==
    ASSUME NEW rules \in Plans, NEW marks \in Reports(rules)
    PROVE  DecideArtifact(rules, marks, Nothing) \in
             {Verdict("APPROVED", "ALL_REQUIRED_PASS"), Verdict("MANUAL_REVIEW", "MANUAL_POLICY"),
              Verdict("REJECTED", "REQUIRED_GATE_UNVERIFIABLE"), Verdict("REJECTED", "REQUIRED_GATE_FAILED")}
  <1> DEFINE required == {r \in rules : r.required}
  <1>1. required # {} /\ ~StopConflicts(required, marks, Nothing) /\ Nothing \notin Exhausted
    BY RepairAssumptions DEF PlansAssumption, NamesAssumption, StopConflicts, Exhausted
  <1>2. ASSUME NEW r \in required, marks[r.id] # "PASS"
        PROVE  \/ marks[r.id] = "UNVERIFIABLE" /\ r.onUnverifiable = "reject"
               \/ IsBlocking(r, marks)
               \/ HasManualPolicy(rules, marks)
    BY <1>2, RepairAssumptions DEF PlansAssumption, Reports, Statuses, IsBlocking, HasManualPolicy
  <1> HIDE DEF required
  <1> QED BY <1>1, <1>2 DEF DecideArtifact, required

(* A reason to stop that the report does not contradict changes only why    *)
(* an artifact is rejected.                                                *)
LEMMA StopAddsNothing ==
    ASSUME NEW rules \in Plans, NEW marks \in Reports(rules), NEW stop,
           LET routed == DecideArtifact(rules, marks, Nothing)
           IN  \/ stop = "PASS_ALL_REQUIRED" /\ routed = Verdict("APPROVED", "ALL_REQUIRED_PASS")
               \/ stop = "UNVERIFIABLE" /\ routed = Verdict("REJECTED", "REQUIRED_GATE_UNVERIFIABLE")
               \/ stop = "MANUAL_REQUEST" /\ routed = Verdict("MANUAL_REVIEW", "MANUAL_POLICY")
               \/ stop \in Exhausted /\ routed = Verdict("REJECTED", "REQUIRED_GATE_FAILED")
    PROVE  DecideArtifact(rules, marks, stop).status = DecideArtifact(rules, marks, Nothing).status
  <1> DEFINE required == {r \in rules : r.required}
             routed == DecideArtifact(rules, marks, Nothing)
             nonpass == \E r \in required : marks[r.id] # "PASS"
             unverifiable == \E r \in required : marks[r.id] = "UNVERIFIABLE" /\ r.onUnverifiable = "reject"
             blocking == \E r \in required : IsBlocking(r, marks)
             manual == HasManualPolicy(rules, marks)
  <1>1. required # {} /\ ~StopConflicts(required, marks, Nothing) /\ Nothing \notin Exhausted
        /\ Nothing # "MANUAL_REQUEST" /\ Raised \notin {"APPROVED", "MANUAL_REVIEW", "REJECTED"}
    BY RepairAssumptions DEF PlansAssumption, NamesAssumption, StopConflicts, Exhausted
  <1>2. (unverifiable \/ blocking) => nonpass
    BY DEF IsBlocking
  <1> HIDE DEF nonpass, unverifiable, blocking, manual, required
  <1>3. routed = IF unverifiable THEN Verdict("REJECTED", "REQUIRED_GATE_UNVERIFIABLE")
                 ELSE IF blocking THEN Verdict("REJECTED", "REQUIRED_GATE_FAILED")
                 ELSE IF manual THEN Verdict("MANUAL_REVIEW", "MANUAL_POLICY")
                 ELSE IF ~nonpass THEN Verdict("APPROVED", "ALL_REQUIRED_PASS")
                 ELSE Verdict(Raised, Nothing)
    BY <1>1 DEF DecideArtifact, required, nonpass, unverifiable, blocking, manual
  <1>4. DecideArtifact(rules, marks, stop) =
                 IF StopConflicts(required, marks, stop) THEN Verdict(Raised, Nothing)
                 ELSE IF unverifiable THEN Verdict("REJECTED", "REQUIRED_GATE_UNVERIFIABLE")
                 ELSE IF stop \in Exhausted /\ nonpass THEN Verdict("REJECTED", "REPAIR_EXHAUSTED")
                 ELSE IF blocking THEN Verdict("REJECTED", "REQUIRED_GATE_FAILED")
                 ELSE IF stop = "MANUAL_REQUEST" \/ manual THEN Verdict("MANUAL_REVIEW", "MANUAL_POLICY")
                 ELSE IF ~nonpass THEN Verdict("APPROVED", "ALL_REQUIRED_PASS")
                 ELSE Verdict(Raised, Nothing)
    BY <1>1 DEF DecideArtifact, required, nonpass, unverifiable, blocking, manual
  <1>5. StopConflicts(required, marks, stop) <=>
            \/ stop = "PASS_ALL_REQUIRED" /\ nonpass
            \/ stop \in Exhausted /\ ~nonpass
            \/ stop = "UNVERIFIABLE" /\ \A r \in required : marks[r.id] # "UNVERIFIABLE"
    BY DEF StopConflicts, nonpass
  <1>6. unverifiable => ~(\A r \in required : marks[r.id] # "UNVERIFIABLE")
    BY DEF unverifiable
  <1>7. CASE stop = "PASS_ALL_REQUIRED" /\ routed = Verdict("APPROVED", "ALL_REQUIRED_PASS")
    <2>1. ~nonpass /\ ~manual BY <1>1, <1>2, <1>3, <1>7 DEF Verdict
    <2> QED BY <2>1, <1>2, <1>3, <1>4, <1>5, <1>7 DEF Exhausted
  <1>8. CASE stop = "UNVERIFIABLE" /\ routed = Verdict("REJECTED", "REQUIRED_GATE_UNVERIFIABLE")
    <2>1. unverifiable BY <1>1, <1>3, <1>8 DEF Verdict
    <2> QED BY <2>1, <1>2, <1>3, <1>4, <1>5, <1>6, <1>8 DEF Exhausted
  <1>9. CASE stop = "MANUAL_REQUEST" /\ routed = Verdict("MANUAL_REVIEW", "MANUAL_POLICY")
    <2>1. ~unverifiable /\ ~blocking BY <1>1, <1>3, <1>9 DEF Verdict
    <2> QED BY <2>1, <1>4, <1>5, <1>9 DEF Exhausted
  <1>10. CASE stop \in Exhausted /\ routed = Verdict("REJECTED", "REQUIRED_GATE_FAILED")
    <2>1. ~unverifiable /\ nonpass BY <1>1, <1>2, <1>3, <1>10 DEF Verdict
    <2>2. stop \notin {"PASS_ALL_REQUIRED", "UNVERIFIABLE"} BY <1>10 DEF Exhausted
    <2>3. DecideArtifact(rules, marks, stop) = Verdict("REJECTED", "REPAIR_EXHAUSTED")
      BY <2>1, <2>2, <1>4, <1>5, <1>10
    <2> QED BY <2>3, <1>10 DEF Verdict
  <1> QED BY <1>7, <1>8, <1>9, <1>10

(* Where a history that goes on stands: its artifact was rejected by a     *)
(* gate, with rounds and patience left.                                    *)
LEMMA GoesOn ==
    ASSUME NEW h, plan \in Plans, Current(h).report.status \in Reports(plan),
           policy \in Policies, Rounds(h) \in Nat, NoImprovement(h) \in Nat, StopReason(h) = Nothing
    PROVE  /\ Selectable(plan, Current(h).report.status)
           /\ NoImprovement(h) < policy.patience /\ Rounds(h) < policy.rounds
  <1>1. Nothing \notin {"PASS_ALL_REQUIRED", "UNVERIFIABLE", "MANUAL_REQUEST", "NO_IMPROVEMENT", "MAX_ROUNDS"}
    BY RepairAssumptions DEF NamesAssumption, Exhausted
  <1>2. policy.patience \in Nat /\ policy.rounds \in Nat
    BY RepairAssumptions DEF PolicyAssumption
  <1>3. ~(NoImprovement(h) >= policy.patience) /\ ~(Rounds(h) >= policy.rounds)
    BY <1>1 DEF StopReason
  <1>4. Selectable(plan, Current(h).report.status)
    BY <1>1, RoutingIsTotal DEF StopReason, Selectable
  <1> QED BY <1>2, <1>3, <1>4

(* The reasons _stop_reason finds are those the report does not contradict.*)
LEMMA ReasonsAgree ==
    ASSUME NEW h, plan \in Plans, Current(h).report.status \in Reports(plan), StopReason(h) # Nothing
    PROVE  DecideArtifact(plan, Current(h).report.status, StopReason(h)).status =
           DecideArtifact(plan, Current(h).report.status, Nothing).status
  <1> DEFINE routed == DecideArtifact(plan, Current(h).report.status, Nothing)
  <1>1. \/ StopReason(h) = "PASS_ALL_REQUIRED" /\ routed = Verdict("APPROVED", "ALL_REQUIRED_PASS")
        \/ StopReason(h) = "UNVERIFIABLE" /\ routed = Verdict("REJECTED", "REQUIRED_GATE_UNVERIFIABLE")
        \/ StopReason(h) = "MANUAL_REQUEST" /\ routed = Verdict("MANUAL_REVIEW", "MANUAL_POLICY")
        \/ StopReason(h) \in Exhausted /\ routed = Verdict("REJECTED", "REQUIRED_GATE_FAILED")
    BY RoutingIsTotal DEF StopReason, Exhausted
  <1> QED BY <1>1, StopAddsNothing

-----------------------------------------------------------------------------
(* Selection *)

(* Numbers have a least one.                                               *)
LEMMA Least ==
    ASSUME NEW places, places \subseteq Nat, places # {}
    PROVE  \E i \in places : \A k \in places : i <= k
  <1> DEFINE R == OpToRel(<, Nat)
  <1>1. PICK i \in places : \A k \in places : ~(<<k, i>> \in R)
    <2> HIDE DEF R
    <2> QED BY NatLessThanWellFounded, WFMin DEF R
  <1>2. \A k \in places : ~(k < i)
    BY <1>1 DEF OpToRel
  <1> QED BY <1>2

LEMMA PlacesAreNumbers ==
    ASSUME NEW rule PROVE DOMAIN ActionsOf(rule) \subseteq Nat
  <1>1. CASE rule.id \notin DOMAIN PolicyActions
    BY <1>1 DEF ActionsOf
  <1>2. CASE rule.id \in DOMAIN PolicyActions
    <2>1. rule.id \in {"l1_bundle", "STYLE_LOW", "STYLE_OVERPOWERED", "CONTENT_DRIFT", "FACE_ID_LOW",
                       "OUTPUT_PROFILE_INVALID", "SAMPLING_DEFECT"}
      BY <1>2 DEF PolicyActions
    <2>2. \E x, y : ActionsOf(rule) = <<x>> \/ ActionsOf(rule) = <<x, y>>
      BY <2>1 DEF ActionsOf, PolicyActions
    <2> QED BY <2>2
  <1> QED BY <1>1, <1>2

(* One patch keeps a repair state in its ranges.                           *)
LEMMA PatchedStates ==
    ASSUME NEW s \in States, NEW action
    PROVE  /\ Patched(action, s).variation \in Nat
           /\ Patched(action, s).variation <= VariationTop => Patched(action, s) \in States
  BY RepairAssumptions DEF RangeAssumption, States, Patched, Up, Down

(* What is selected carries the name it was asked under, and leads to a    *)
(* state in range that was not seen.                                       *)
LEMMA SelectionFacts ==
    ASSUME NEW rules, NEW marks, NEW s \in States, NEW id, NEW seen,
           NEW d \in SelectRepair(rules, marks, s, id, seen)
    PROVE  d.id = id /\ d.after \in States /\ d.after \notin seen
  <1> DEFINE rule == FirstBlocking(rules, marks)
  <1>1. PICK i \in FirstOf(Open(rule, s, seen)) : d = RepairDecision(id, rule, ActionsOf(rule)[i], s)
    BY DEF SelectRepair
  <1>2. /\ Executable(ActionsOf(rule)[i], s) /\ Patched(ActionsOf(rule)[i], s) \notin seen
    BY <1>1 DEF FirstOf, Open
  <1> QED BY <1>1, <1>2, PatchedStates DEF Executable, RepairDecision

(* When nothing is selected, nothing is left to try.                       *)
LEMMA NothingIsLeft ==
    ASSUME NEW rules, NEW marks, NEW s \in States, NEW id, NEW seen, s \in seen,
           SelectRepair(rules, marks, s, id, seen) = {}
    PROVE  LET rule == FirstBlocking(rules, marks)
           IN \A i \in DOMAIN ActionsOf(rule) :
                 \/ ActionsOf(rule)[i] \notin rule.actions
                 \/ Patched(ActionsOf(rule)[i], s).variation > VariationTop
                 \/ Patched(ActionsOf(rule)[i], s) \in seen
  <1> DEFINE rule == FirstBlocking(rules, marks)
  <1>1. FirstOf(Open(rule, s, seen)) = {}
    BY DEF SelectRepair
  <1>2. Open(rule, s, seen) = {}
    BY <1>1, PlacesAreNumbers, Least DEF Open, FirstOf
  <1>3. VariationTop \in Nat BY RepairAssumptions DEF RangeAssumption
  <1>4. ASSUME NEW i \in DOMAIN ActionsOf(rule), ActionsOf(rule)[i] \in rule.actions,
               ~(Patched(ActionsOf(rule)[i], s).variation > VariationTop)
        PROVE  Patched(ActionsOf(rule)[i], s) \in seen
    <2>1. Patched(ActionsOf(rule)[i], s).variation <= VariationTop
      BY <1>3, <1>4, PatchedStates
    <2>2. i \notin Open(rule, s, seen) BY <1>2
    <2> QED BY <1>4, <2>1, <2>2 DEF Open, Executable
  <1> QED BY <1>4

-----------------------------------------------------------------------------
(* The loop *)

(* What the last report of a history of the invariant is about.            *)
LEMMA Now ==
    ASSUME IInv
    PROVE  /\ plan \in Plans /\ policy \in Policies /\ IsHistory(history)
           /\ Current(history).report.status \in Reports(plan)
           /\ Current(history).request.state \in States
           /\ Current(history).request.state \in SeenStates(history)
           /\ Rounds(history) \in Nat /\ NoImprovement(history) \in Nat
           /\ SubSeq(history, 1, Len(history)) = history
  <1>1. IsHistory(history) /\ Len(history) \in 1 .. Len(history)
    BY DEF IInv, Typed, IsHistory
  <1>2. NoImprovement(history) \in Nat /\ SubSeq(history, 1, Len(history)) = history
    BY <1>1, NoImprovementGrows, AppendFacts
  <1>3. Rounds(history) \in Nat
    BY <1>1 DEF Rounds, IsHistory
  <1> QED BY <1>1, <1>2, <1>3 DEF IInv, Typed, RepairTypeOK, Current, SeenStates

(* An answer to a caller with new names is a command for the history it    *)
(* has, or a reason to stop that can be routed.                            *)
LEMMA Answer ==
    ASSUME IInv, NEW d, NEW a
    PROVE  LET answer == NextStep(history, d, a)
           IN /\ answer.kind \in {"next", "terminal", "refused"}
              /\ answer.kind = "next" => IssuedAt(answer, history)
              /\ answer.kind = "terminal" =>
                    answer.verdict.status = DecideArtifact(plan, Current(history).report.status, Nothing).status
              /\ answer.kind = "terminal" /\ answer.stop = "NO_ACTION" =>
                    SelectRepair(plan, Current(history).report.status, Current(history).request.state,
                                 d, SeenStates(history)) = {}
              /\ answer.kind = "refused" => d \in DecisionsOf(history) \/ a \in AttemptsOf(history)
  <1> DEFINE now == Current(history)
             selected == SelectRepair(plan, now.report.status, now.request.state, d, SeenStates(history))
             stop == StopReason(history)
  <1>1. CASE stop # Nothing
    <2>1. NextStep(history, d, a) = Terminal(history, stop)
      BY <1>1 DEF NextStep
    <2>2. stop # "NO_ACTION"
      BY <1>1, RepairAssumptions DEF StopReason, NamesAssumption
    <2> QED BY <1>1, <2>1, <2>2, Now, ReasonsAgree DEF Terminal
  <1>2. CASE stop = Nothing
    <2>1. Selectable(plan, now.report.status)
      BY <1>2, Now, GoesOn
    <2>2. CASE d \in DecisionsOf(history)
      <3>1. NextStep(history, d, a) = Refusal BY <1>2, <2>2 DEF NextStep
      <3> QED BY <2>2, <3>1 DEF Refusal
    <2>3. CASE d \notin DecisionsOf(history) /\ selected = {}
      <3>1. NextStep(history, d, a) = Terminal(history, "NO_ACTION")
        BY <1>2, <2>1, <2>3 DEF NextStep
      <3>2. DecideArtifact(plan, now.report.status, "NO_ACTION").status
              = DecideArtifact(plan, now.report.status, Nothing).status
        BY <2>1, Now, StopAddsNothing DEF Selectable, Exhausted
      <3> QED BY <2>3, <3>1, <3>2 DEF Terminal
    <2>4. CASE d \notin DecisionsOf(history) /\ selected # {} /\ a \in AttemptsOf(history)
      <3>1. NextStep(history, d, a) = Refusal BY <1>2, <2>1, <2>4 DEF NextStep
      <3> QED BY <2>4, <3>1 DEF Refusal
    <2>5. CASE d \notin DecisionsOf(history) /\ selected # {} /\ a \notin AttemptsOf(history)
      <3> DEFINE answer == NextStep(history, d, a)
                 chosen == CHOOSE x \in selected : TRUE
      <3>1. answer = [kind |-> "next", decision |-> chosen, request |-> ChildRequest(now.request, chosen, a)]
        BY <1>2, <2>1, <2>5 DEF NextStep, NextGeneration
      <3>2. chosen \in selected BY <2>5
      <3> HIDE DEF chosen
      <3>3. chosen.id = d BY <3>2, Now, SelectionFacts
      <3>4. answer.kind = "next" /\ answer.decision = chosen
            /\ answer.request = ChildRequest(now.request, chosen, a) /\ answer.request.attempt = a
        BY <3>1 DEF ChildRequest, Request
      <3> HIDE DEF answer
      <3>5. IssuedAt(answer, history)
        BY <1>2, <2>5, <3>2, <3>3, <3>4 DEF IssuedAt, Fits
      <3> QED BY <3>4, <3>5 DEF answer
    <2> QED BY <2>2, <2>3, <2>4, <2>5
  <1> QED BY <1>1, <1>2

(* What stays of a history that a round may be appended to.                *)
Grown(x) ==
    /\ UNCHANGED <<plan, policy>>
    /\ history' = history \/ history' = Append(history, x)

LEMMA BeginningsStay ==
    ASSUME IInv, NEW x, Grown(x)
    PROVE  /\ IsHistory(history') /\ 1 .. Len(history) \subseteq 1 .. Len(history')
           /\ \A k \in 1 .. Len(history) :
                 /\ history'[k] = history[k]
                 /\ SubSeq(history', 1, k) = SubSeq(history, 1, k)
                 /\ StopReason(SubSeq(history, 1, k))' = StopReason(SubSeq(history, 1, k))
  <1>1. /\ IsHistory(history') /\ 1 .. Len(history) \subseteq 1 .. Len(history')
        /\ \A k \in 1 .. Len(history) :
              history'[k] = history[k] /\ SubSeq(history', 1, k) = SubSeq(history, 1, k)
    <2>1. CASE history' = history
      BY <2>1, Now DEF IsHistory
    <2>2. CASE history' = Append(history, x)
      <3>1. Len(history') = Len(history) + 1 /\ Len(history) \in Nat
        BY <2>2, Now, AppendFacts DEF IsHistory
      <3> QED BY <2>2, <3>1, Now, AppendFacts
    <2> QED BY <2>1, <2>2 DEF Grown
  <1>2. ASSUME NEW k \in 1 .. Len(history)
        PROVE  StopReason(SubSeq(history, 1, k))' = StopReason(SubSeq(history, 1, k))
    <2>1. SubSeq(history', 1, k) = SubSeq(history, 1, k) /\ plan' = plan /\ policy' = policy
      BY <1>1 DEF Grown
    <2>2. NoImprovement(SubSeq(history, 1, k))' = NoImprovement(SubSeq(history, 1, k))
      BY <2>1 DEF NoImprovement, RoundHelped
    <2> QED BY <2>1, <2>2 DEF StopReason
  <1> QED BY <1>1, <1>2

(* A command stays issued.                                                 *)
LEMMA StaysIssued ==
    ASSUME IInv, NEW x, Grown(x), NEW c \in {command, consumed}, c # Nothing
    PROVE  \E k \in 1 .. Len(history)' :
              StopReason(SubSeq(history, 1, k))' = Nothing /\ Fits(plan', c, SubSeq(history', 1, k))
  <1>1. PICK k \in 1 .. Len(history) : StopReason(SubSeq(history, 1, k)) = Nothing
                                       /\ Fits(plan, c, SubSeq(history, 1, k))
    BY DEF IInv, Issued, IssuedAt
  <1>2. plan' = plan BY DEF Grown
  <1> QED BY <1>1, <1>2, BeginningsStay

LEMMA CommandsStay ==
    ASSUME IInv, NEW x, Grown(x)
    PROVE  /\ command' \in {command, consumed} => Issued(command)'
           /\ consumed' \in {command, consumed} => Issued(consumed)'
  <1>1. ASSUME command' \in {command, consumed} PROVE Issued(command)'
    BY <1>1, StaysIssued DEF Issued, IssuedAt
  <1>2. ASSUME consumed' \in {command, consumed} PROVE Issued(consumed)'
    BY <1>2, StaysIssued DEF Issued, IssuedAt
  <1> QED BY <1>1, <1>2

(* A command whose parent is the last attempt was issued for the history   *)
(* as it is.                                                               *)
LEMMA IssuedNow ==
    ASSUME IInv, NEW c \in {command, consumed}, c # Nothing,
           c.request.parent = Current(history).request.attempt
    PROVE  IssuedAt(c, history)
  <1>1. PICK k \in 1 .. Len(history) : IssuedAt(c, SubSeq(history, 1, k))
    BY DEF IInv, Issued
  <1>2. Len(history) \in Nat \ {0} /\ SubSeq(history, 1, Len(history)) = history
    BY Now DEF IsHistory
  <1>3. Current(SubSeq(history, 1, k)) = history[k]
    <2>1. history \in Seq({history[i] : i \in 1 .. Len(history)})
      BY Now DEF IsHistory
    <2> QED BY <1>2, <2>1, SubSeqProperties DEF Current
  <1>4. c.request.parent = history[k].request.attempt
    BY <1>1, <1>3 DEF IssuedAt, Fits, ChildRequest, Request
  <1>5. k = Len(history)
    <2>1. \A i, l \in 1 .. Len(history) :
             history[i].request.attempt = history[l].request.attempt => i = l
      BY DEF IInv, Chain
    <2>2. history[k].request.attempt = history[Len(history)].request.attempt
      BY <1>4 DEF Current
    <2>3. Len(history) \in 1 .. Len(history)
      BY <1>2
    <2> QED BY <2>1, <2>2, <2>3, Zenon
  <1> QED BY <1>1, <1>2, <1>5

(* The invariant holds initially.                                          *)
LEMMA InitInvariant == RepairInit => IInv /\ StopIsTrue
  <1> SUFFICES ASSUME RepairInit PROVE IInv /\ StopIsTrue
    OBVIOUS
  <1>1. PICK s \in Starts, a \in AttemptIds, t \in ArtifactIds, o \in Others, marks \in Reports(plan) :
          history = << [decision |-> Nothing, request |-> Request(a, Nothing, s),
                        report |-> [target |-> t, other |-> o, status |-> marks]] >>
    BY DEF RepairInit
  <1>2. Len(history) = 1 /\ IsHistory(history) /\ history # <<>>
    BY <1>1 DEF IsHistory
  <1>3. history[1].request.state = s /\ history[1].report.status = marks
    BY <1>1 DEF Request
  <1>4. /\ SeenStates(history) = {s} /\ AttemptsOf(history) = {history[1].request.attempt}
        /\ ArtifactsOf(history) = {history[1].report.target} /\ DecisionsOf(history) = {}
    BY <1>2, <1>3 DEF SeenStates, AttemptsOf, ArtifactsOf, DecisionsOf
  <1>5. Rounds(history) = 0 /\ policy.rounds \in Nat /\ policy.patience \in Nat
    BY <1>2, RepairAssumptions DEF Rounds, PolicyAssumption, RepairInit
  <1>6. NoImprovement(history) = 0
    <2>1. {i \in 2 .. Len(history) : \A k \in i .. Len(history) : ~RoundHelped(history, k)} = {}
      BY <1>2
    <2> QED BY <2>1, FS_EmptySet DEF NoImprovement
  <1>7. Typed
    <2>1. \A i \in 1 .. Len(history) : history[i].request.state \in States /\ history[i].report.status \in Reports(plan)
      BY <1>2, <1>3, RepairAssumptions DEF RangeAssumption
    <2>2. repairStep.kind = "none" /\ plan \in Plans /\ policy \in Policies /\ broken = FALSE
      BY DEF RepairInit
    <2>3. Rounds(history) <= policy.rounds
      BY <1>5
    <2> QED BY <1>2, <2>1, <2>2, <2>3 DEF Typed, RepairTypeOK
  <1>8. Chain
    <2>1. Replays(history)
      BY <1>2, <1>5 DEF Replays
    <2>2. \A i, k \in 1 .. Len(history) : i = k
      BY <1>2
    <2>3. IsFiniteSet({}) /\ \A x : IsFiniteSet({x})
      BY FS_EmptySet, FS_Singleton
    <2>4. NoImprovement(history) <= policy.patience
      BY <1>5, <1>6
    <2> QED BY <1>4, <2>1, <2>2, <2>3, <2>4 DEF Chain
  <1>9. RoundsDiffer
    <2>1. Cardinality({}) = 0 /\ \A x : Cardinality({x}) = 1
      BY FS_EmptySet, FS_Singleton
    <2>2. 2 .. Len(history) = {}
      BY <1>2
    <2> QED BY <1>2, <1>4, <1>5, <2>1, <2>2 DEF RoundsDiffer
  <1> QED BY <1>7, <1>8, <1>9 DEF IInv, HonestIsServed, Issued, RepairInit, StopIsTrue,
             StopKeepsVerdict, NoActionIsTrue

(* A question changes nothing of the history, and its answer is true.      *)
LEMMA AskStep ==
    ASSUME IInv, NEW d, NEW a, Ask(d, a)
    PROVE  IInv' /\ StopIsTrue'
  <1> DEFINE now == Current(history)
             answer == NextStep(history, d, a)
  <1>1. UNCHANGED <<plan, policy, history, consumed>> /\ repairStep' = answer
        /\ command' \in {answer, command}
    BY DEF Ask
  <1>2. Grown(d) BY <1>1 DEF Grown
  <1>3. DecideArtifact(plan, now.report.status, Nothing).status # Raised
    BY Now, RoutingIsTotal, RepairAssumptions DEF Verdict, NamesAssumption
  <1>4. Typed'
    <2>1. answer.kind \in {"none", "next", "terminal", "refused"}
      BY Answer
    <2>2. Rounds(history)' = Rounds(history) /\ IsHistory(history)'
      BY <1>1, Now DEF Rounds, IsHistory
    <2>3. broken' \in BOOLEAN
      BY DEF Ask, IInv, Typed, RepairTypeOK
    <2> HIDE DEF answer
    <2> QED BY <1>1, <2>1, <2>2, <2>3 DEF IInv, Typed, RepairTypeOK
  <1>5. Chain'
    <2>1. NoImprovement(history)' = NoImprovement(history)
      BY <1>1 DEF NoImprovement, RoundHelped
    <2>2. Replays(history)'
      BY <1>1 DEF IInv, Chain, Replays, Follows, Rounds
    <2>3. /\ SeenStates(history)' = SeenStates(history) /\ AttemptsOf(history)' = AttemptsOf(history)
          /\ ArtifactsOf(history)' = ArtifactsOf(history) /\ DecisionsOf(history)' = DecisionsOf(history)
      BY <1>1 DEF SeenStates, AttemptsOf, ArtifactsOf, DecisionsOf
    <2> HIDE DEF answer
    <2> QED BY <1>1, <2>1, <2>2, <2>3 DEF IInv, Chain
  <1>6. RoundsDiffer'
    <2>1. /\ SeenStates(history)' = SeenStates(history) /\ AttemptsOf(history)' = AttemptsOf(history)
          /\ ArtifactsOf(history)' = ArtifactsOf(history) /\ DecisionsOf(history)' = DecisionsOf(history)
          /\ Rounds(history)' = Rounds(history)
      BY <1>1 DEF SeenStates, AttemptsOf, ArtifactsOf, DecisionsOf, Rounds
    <2> HIDE DEF answer
    <2> QED BY <1>1, <2>1 DEF IInv, RoundsDiffer
  <1>7. HonestIsServed'
    <2>1. ~(/\ d \notin DecisionsOf(history) /\ a \notin AttemptsOf(history)
            /\ \/ answer.kind = "refused"
               \/ answer.kind = "terminal" /\ answer.verdict.status = Raised)
      BY <1>3, Answer
    <2> HIDE DEF answer
    <2> QED BY <1>1, <2>1 DEF IInv, HonestIsServed, Ask
  <1>8. Issued(command)'
    <2>1. CASE command' = command
      BY <1>2, <2>1, CommandsStay
    <2>2. CASE command' # command
      <3>1. command' = answer /\ answer.kind = "next"
        BY <1>1, <2>2 DEF Ask
      <3>2. IssuedAt(answer, history)
        BY <3>1, Answer
      <3>3. /\ Len(history) \in 1 .. Len(history) /\ SubSeq(history, 1, Len(history)) = history
        BY Now DEF IsHistory
      <3>4. StopReason(SubSeq(history, 1, Len(history)))' = Nothing
        BY <1>1, <1>2, <3>2, <3>3, BeginningsStay DEF IssuedAt
      <3>5. Fits(plan', answer, SubSeq(history', 1, Len(history')))
        BY <1>1, <3>2, <3>3 DEF IssuedAt
      <3> HIDE DEF answer
      <3> QED BY <1>1, <3>1, <3>3, <3>4, <3>5 DEF Issued, IssuedAt
    <2> QED BY <2>1, <2>2
  <1>9. Issued(consumed)'
    BY <1>1, <1>2, CommandsStay
  <1>10. StopKeepsVerdict'
    <2>1. answer.kind = "terminal" => answer.verdict.status = DecideArtifact(plan, now.report.status, Nothing).status
      BY Answer
    <2> HIDE DEF answer
    <2> QED BY <1>1, <2>1 DEF StopKeepsVerdict, Current
  <1>11. NoActionIsTrue'
    <2> DEFINE rule == FirstBlocking(plan, now.report.status)
    <2>1. answer.kind = "terminal" /\ answer.stop = "NO_ACTION" =>
            \A i \in DOMAIN ActionsOf(rule) :
              \/ ActionsOf(rule)[i] \notin rule.actions
              \/ Patched(ActionsOf(rule)[i], now.request.state).variation > VariationTop
              \/ Patched(ActionsOf(rule)[i], now.request.state) \in SeenStates(history)
      BY Answer, Now, NothingIsLeft
    <2> HIDE DEF answer
    <2> QED BY <1>1, <2>1 DEF NoActionIsTrue, Current, SeenStates
  <1> QED BY <1>4, <1>5, <1>6, <1>7, <1>8, <1>9, <1>10, <1>11 DEF IInv, StopIsTrue

(* A round that follows the protocol follows the history: it is accepted. *)
LEMMA HonestFollows ==
    ASSUME IInv, NEW x, NEW c \in {command, consumed}, c # Nothing,
           c.request.parent = Current(history).request.attempt,
           x.decision = c.decision, x.request = c.request,
           x.report.target \notin ArtifactsOf(history),
           x.report.other = Current(history).report.other
    PROVE  Replays(Append(history, x))
  <1> DEFINE now == Current(history)
             h == Append(history, x)
  <1>1. IssuedAt(c, history)
    BY IssuedNow
  <1>2. Selectable(plan, now.report.status) /\ Rounds(history) < policy.rounds
    BY <1>1, Now, GoesOn DEF IssuedAt
  <1>3. c.decision.after \notin SeenStates(history)
    BY <1>1, Now, SelectionFacts DEF IssuedAt, Fits
  <1>4. c.request.state \notin SeenStates(history)
    BY <1>1, <1>3 DEF IssuedAt, Fits, ChildRequest, Request
  <1>5. Follows(history, x)
    BY <1>1, <1>2, <1>4 DEF Follows, IssuedAt, Fits
  <1>6. /\ Len(h) = Len(history) + 1 /\ Len(history) \in Nat \ {0} /\ h[Len(history) + 1] = x
        /\ \A i \in 1 .. Len(history) : h[i] = history[i]
        /\ \A k \in 1 .. Len(history) : SubSeq(h, 1, k) = SubSeq(history, 1, k)
        /\ SubSeq(history, 1, Len(history)) = history
    BY Now, AppendFacts DEF IsHistory
  <1> HIDE DEF h
  <1>7. ASSUME NEW i \in 2 .. Len(h) PROVE Follows(SubSeq(h, 1, i - 1), h[i])
    <2>1. CASE i = Len(history) + 1
      <3>1. SubSeq(h, 1, i - 1) = history /\ h[i] = x
        BY <1>6, <2>1
      <3> QED BY <1>5, <3>1
    <2>2. CASE i # Len(history) + 1
      <3>1. i \in 2 .. Len(history) /\ i - 1 \in 1 .. Len(history) /\ i \in 1 .. Len(history)
        BY <1>6, <2>2
      <3>2. SubSeq(h, 1, i - 1) = SubSeq(history, 1, i - 1) /\ h[i] = history[i]
        BY <1>6, <3>1
      <3> QED BY <3>1, <3>2 DEF IInv, Chain, Replays
    <2> QED BY <2>1, <2>2
  <1>8. Rounds(h) <= policy.rounds
    <2>1. Rounds(h) = Rounds(history) + 1 BY Now, AppendNames DEF h
    <2>2. policy.rounds \in Nat BY Now, RepairAssumptions DEF PolicyAssumption
    <2> QED BY <1>2, <2>1, <2>2, Now
  <1> QED BY <1>7, <1>8 DEF Replays, h

(* What an accepted round is.                                              *)
LEMMA AcceptedRound ==
    ASSUME IInv, NEW x, NEW c \in {command, consumed}, c # Nothing,
           x.decision = c.decision, x.request = c.request, Replays(Append(history, x))
    PROVE  /\ Follows(history, x) /\ x.request.state \in States
           /\ x.request.parent = Current(history).request.attempt
           /\ NoImprovement(history) < policy.patience /\ Rounds(history) < policy.rounds
  <1> DEFINE h == Append(history, x)
  <1>1. /\ Len(h) = Len(history) + 1 /\ Len(history) \in Nat \ {0} /\ h[Len(history) + 1] = x
        /\ SubSeq(h, 1, Len(history)) = history
    BY Now, AppendFacts DEF IsHistory
  <1>2. Follows(history, x)
    <2> HIDE DEF h
    <2>1. Follows(SubSeq(h, 1, Len(history) + 1 - 1), h[Len(history) + 1])
      BY <1>1 DEF Replays, h
    <2>2. Len(history) + 1 - 1 = Len(history) BY <1>1
    <2> QED BY <1>1, <2>1, <2>2
  <1>3. x.request.parent = Current(history).request.attempt /\ x.request.state = x.decision.after
    BY <1>2 DEF Follows, ChildRequest, Request
  <1>4. IssuedAt(c, history)
    BY <1>3, IssuedNow
  <1>5. x.decision.after \in States
    BY <1>2, Now, SelectionFacts DEF Follows
  <1>6. NoImprovement(history) < policy.patience /\ Rounds(history) < policy.rounds
    BY <1>4, Now, GoesOn DEF IssuedAt
  <1> QED BY <1>2, <1>3, <1>5, <1>6

(* An accepted round keeps the history a chain of rounds that differ.      *)
LEMMA AppendStep ==
    ASSUME IInv, NEW x, NEW c \in {command, consumed}, c # Nothing,
           x.decision = c.decision, x.request = c.request, x.report.status \in Reports(plan),
           Replays(Append(history, x)),
           history' = Append(history, x), UNCHANGED <<plan, policy>>,
           broken' \in BOOLEAN, repairStep' = [kind |-> "none"]
    PROVE  Typed' /\ Chain' /\ RoundsDiffer'
  <1> DEFINE h == Append(history, x)
             n == Len(history)
  <1>1. /\ Len(h) = n + 1 /\ n \in Nat \ {0} /\ h[n + 1] = x /\ IsHistory(h)
        /\ \A i \in 1 .. n : h[i] = history[i]
        /\ 1 .. n + 1 = (1 .. n) \cup {n + 1}
    BY Now, AppendFacts DEF IsHistory
  <1>2. /\ Follows(history, x) /\ x.request.state \in States
        /\ x.request.parent = history[n].request.attempt
        /\ NoImprovement(history) < policy.patience /\ Rounds(history) < policy.rounds
    BY AcceptedRound DEF Current
  <1>3. /\ x.request.state \notin SeenStates(history) /\ x.request.attempt \notin AttemptsOf(history)
        /\ x.report.target \notin ArtifactsOf(history) /\ x.decision.id \notin DecisionsOf(history)
    BY <1>2 DEF Follows
  <1>4. /\ SeenStates(h) = SeenStates(history) \cup {x.request.state}
        /\ AttemptsOf(h) = AttemptsOf(history) \cup {x.request.attempt}
        /\ ArtifactsOf(h) = ArtifactsOf(history) \cup {x.report.target}
        /\ DecisionsOf(h) = DecisionsOf(history) \cup {x.decision.id}
        /\ Rounds(h) = Rounds(history) + 1 /\ Rounds(history) \in Nat
    BY Now, AppendNames
  <1>5. /\ policy.rounds \in Nat /\ policy.patience \in Nat
        /\ NoImprovement(history) \in Nat /\ NoImprovement(h) <= NoImprovement(history) + 1
    BY Now, NoImprovementGrows, RepairAssumptions DEF PolicyAssumption
  <1>6. NoImprovement(h) <= policy.patience
    <2>1. NoImprovement(h) \in Nat BY <1>1, NoImprovementGrows
    <2> QED BY <1>2, <1>5, <2>1
  <1>7. Typed'
    <2> HIDE DEF h
    <2>1. history' = h BY DEF h
    <2>2. \A i \in 1 .. n + 1 : h[i].request.state \in States /\ h[i].report.status \in Reports(plan)
      BY <1>1, <1>2 DEF IInv, Typed, RepairTypeOK
    <2>3. IsHistory(history)' /\ history' # <<>>
      BY <1>1, <2>1 DEF IsHistory
    <2>4. Rounds(history)' <= policy'.rounds
      BY <1>1, <2>1 DEF Rounds, Replays, h
    <2>5. plan' \in Plans /\ policy' \in Policies /\ repairStep'.kind = "none"
      BY Now
    <2> QED BY <1>1, <2>1, <2>2, <2>3, <2>4, <2>5 DEF Typed, RepairTypeOK
  <1>8. Chain'
    <2> HIDE DEF h
    <2>1. history' = h BY DEF h
    <2>2. Replays(history)'
      <3>1. Replays(h) BY DEF h
      <3> QED BY <2>1, <3>1 DEF Replays, Follows, Rounds
    <2>3. NoImprovement(history)' = NoImprovement(h)
      BY <2>1 DEF NoImprovement, RoundHelped
    <2>4. /\ IsFiniteSet(SeenStates(history)) /\ IsFiniteSet(AttemptsOf(history))
          /\ IsFiniteSet(ArtifactsOf(history)) /\ IsFiniteSet(DecisionsOf(history))
      BY DEF IInv, Chain
    <2>5. /\ IsFiniteSet(SeenStates(h)) /\ IsFiniteSet(AttemptsOf(h))
          /\ IsFiniteSet(ArtifactsOf(h)) /\ IsFiniteSet(DecisionsOf(h))
      <3>1. \A S, y : IsFiniteSet(S) => IsFiniteSet(S \cup {y})
        BY FS_AddElement
      <3>2. /\ IsFiniteSet(SeenStates(history) \cup {x.request.state})
            /\ IsFiniteSet(AttemptsOf(history) \cup {x.request.attempt})
            /\ IsFiniteSet(ArtifactsOf(history) \cup {x.report.target})
            /\ IsFiniteSet(DecisionsOf(history) \cup {x.decision.id})
        BY <2>4, <3>1
      <3> QED BY <1>4, <3>2
    <2>6. /\ SeenStates(history)' = SeenStates(h) /\ AttemptsOf(history)' = AttemptsOf(h)
          /\ ArtifactsOf(history)' = ArtifactsOf(h) /\ DecisionsOf(history)' = DecisionsOf(h)
      BY <2>1 DEF SeenStates, AttemptsOf, ArtifactsOf, DecisionsOf
    <2>7. \A i, k \in 1 .. n + 1 : h[i].request.attempt = h[k].request.attempt => i = k
      <3>1. \A i, k \in 1 .. n : h[i].request.attempt = h[k].request.attempt => i = k
        BY <1>1 DEF IInv, Chain
      <3>2. \A i \in 1 .. n : h[i].request.attempt # x.request.attempt
        BY <1>1, <1>3 DEF AttemptsOf
      <3> QED BY <1>1, <3>1, <3>2
    <2> QED BY <1>1, <1>6, <2>1, <2>2, <2>3, <2>5, <2>6, <2>7 DEF Chain
  <1>9. RoundsDiffer'
    <2> HIDE DEF h
    <2>1. history' = h BY DEF h
    <2>2. /\ IsFiniteSet(SeenStates(history)) /\ IsFiniteSet(AttemptsOf(history))
          /\ IsFiniteSet(ArtifactsOf(history)) /\ IsFiniteSet(DecisionsOf(history))
      BY DEF IInv, Chain
    <2>3. /\ Cardinality(SeenStates(h)) = n + 1 /\ Cardinality(AttemptsOf(h)) = n + 1
          /\ Cardinality(ArtifactsOf(h)) = n + 1 /\ Cardinality(DecisionsOf(h)) = Rounds(history) + 1
      <3>1. \A S, y : IsFiniteSet(S) /\ y \notin S => Cardinality(S \cup {y}) = Cardinality(S) + 1
        BY FS_AddElement
      <3>2. /\ Cardinality(SeenStates(history)) = n /\ Cardinality(AttemptsOf(history)) = n
            /\ Cardinality(ArtifactsOf(history)) = n /\ Cardinality(DecisionsOf(history)) = Rounds(history)
        BY DEF IInv, RoundsDiffer
      <3>3. /\ Cardinality(SeenStates(history) \cup {x.request.state}) = Cardinality(SeenStates(history)) + 1
            /\ Cardinality(AttemptsOf(history) \cup {x.request.attempt}) = Cardinality(AttemptsOf(history)) + 1
        BY <1>3, <2>2, <3>1
      <3>4. /\ Cardinality(ArtifactsOf(history) \cup {x.report.target}) = Cardinality(ArtifactsOf(history)) + 1
            /\ Cardinality(DecisionsOf(history) \cup {x.decision.id}) = Cardinality(DecisionsOf(history)) + 1
        BY <1>3, <2>2, <3>1
      <3> QED BY <1>4, <3>2, <3>3, <3>4
    <2>4. \A i \in 2 .. n + 1 : h[i].request.parent = h[i-1].request.attempt
      <3> SUFFICES ASSUME NEW i \in 2 .. n + 1 PROVE h[i].request.parent = h[i-1].request.attempt
        OBVIOUS
      <3>1. CASE i = n + 1
        <4>1. i - 1 = n /\ n \in 1 .. n BY <1>1, <3>1
        <4> QED BY <1>1, <1>2, <3>1, <4>1
      <3>2. CASE i # n + 1
        <4>1. i \in 2 .. n /\ i \in 1 .. n /\ i - 1 \in 1 .. n BY <1>1, <3>2
        <4> QED BY <1>1, <4>1 DEF IInv, RoundsDiffer
      <3> QED BY <3>1, <3>2
    <2>5. /\ SeenStates(history)' = SeenStates(h) /\ AttemptsOf(history)' = AttemptsOf(h)
          /\ ArtifactsOf(history)' = ArtifactsOf(h) /\ DecisionsOf(history)' = DecisionsOf(h)
          /\ Rounds(history)' = Rounds(h)
      BY <2>1 DEF SeenStates, AttemptsOf, ArtifactsOf, DecisionsOf, Rounds
    <2> QED BY <1>1, <1>4, <2>1, <2>3, <2>4, <2>5 DEF RoundsDiffer
  <1> QED BY <1>7, <1>8, <1>9

(* What is generated for a command is accepted when it follows the         *)
(* protocol, and keeps the invariant when it is accepted.                  *)
LEMMA ObserveStep ==
    ASSUME IInv, NEW c \in {command, consumed}, NEW t, NEW o, NEW marks \in Reports(plan),
           Observe(c, t, o, marks)
    PROVE  IInv' /\ StopIsTrue'
  <1> DEFINE x == [decision |-> c.decision, request |-> c.request,
                   report |-> [target |-> t, other |-> o, status |-> marks]]
             accepted == Replays(Append(history, x))
             honest == /\ c.request.parent = Current(history).request.attempt
                       /\ t \notin ArtifactsOf(history)
                       /\ o = Current(history).report.other
  <1>1. /\ c # Nothing /\ UNCHANGED <<plan, policy, command>> /\ repairStep' = [kind |-> "none"]
        /\ history' = IF accepted THEN Append(history, x) ELSE history
        /\ consumed' = IF accepted THEN c ELSE consumed
        /\ broken' = (broken \/ (honest /\ ~accepted))
    BY DEF Observe
  <1>2. /\ x.decision = c.decision /\ x.request = c.request
        /\ x.report.target = t /\ x.report.other = o /\ x.report.status = marks
    OBVIOUS
  <1> HIDE DEF x
  <1>3. honest => accepted
    BY <1>1, <1>2, HonestFollows
  <1>4. Grown(x)
    BY <1>1 DEF Grown
  <1>5. HonestIsServed' /\ broken' \in BOOLEAN
    BY <1>1, <1>3 DEF IInv, HonestIsServed
  <1>6. Issued(command)' /\ Issued(consumed)'
    BY <1>1, <1>4, CommandsStay
  <1>7. StopIsTrue'
    BY <1>1 DEF StopIsTrue, StopKeepsVerdict, NoActionIsTrue
  <1>8. CASE accepted
    <2>1. Typed' /\ Chain' /\ RoundsDiffer'
      BY <1>1, <1>2, <1>5, <1>8, AppendStep
    <2> QED BY <1>5, <1>6, <1>7, <2>1 DEF IInv
  <1>9. CASE ~accepted
    <2>1. UNCHANGED <<plan, policy, history>> BY <1>1, <1>9
    <2>2. /\ SeenStates(history)' = SeenStates(history) /\ AttemptsOf(history)' = AttemptsOf(history)
          /\ ArtifactsOf(history)' = ArtifactsOf(history) /\ DecisionsOf(history)' = DecisionsOf(history)
          /\ Rounds(history)' = Rounds(history)
      BY <2>1 DEF SeenStates, AttemptsOf, ArtifactsOf, DecisionsOf, Rounds
    <2>3. NoImprovement(history)' = NoImprovement(history)
      BY <2>1 DEF NoImprovement, RoundHelped
    <2>4. Typed'
      <3>1. IsHistory(history)' BY <2>1, Now DEF IsHistory
      <3>2. repairStep'.kind = "none" BY <1>1
      <3> QED BY <1>5, <2>1, <2>2, <3>1, <3>2 DEF IInv, Typed, RepairTypeOK
    <2>5. Chain'
      <3>1. Replays(history)'
        BY <2>1 DEF IInv, Chain, Replays, Follows, Rounds
      <3> QED BY <2>1, <2>2, <2>3, <3>1 DEF IInv, Chain
    <2>6. RoundsDiffer'
      BY <2>1, <2>2 DEF IInv, RoundsDiffer
    <2> QED BY <1>5, <1>6, <1>7, <2>4, <2>5, <2>6 DEF IInv
  <1> QED BY <1>8, <1>9

(* Nothing changes when nothing happens.                                   *)
LEMMA StutterStep ==
    ASSUME IInv, StopIsTrue, UNCHANGED repairVars PROVE IInv' /\ StopIsTrue'
  <1>1. UNCHANGED <<plan, policy, history, command, consumed, repairStep, broken>>
    BY DEF repairVars
  <1>2. Typed'
    BY <1>1 DEF IInv, Typed, RepairTypeOK, Rounds, IsHistory
  <1>3. Chain'
    <2>1. NoImprovement(history)' = NoImprovement(history)
      BY <1>1 DEF NoImprovement, RoundHelped
    <2>2. Replays(history)'
      BY <1>1 DEF IInv, Chain, Replays, Follows, Rounds
    <2> QED BY <1>1, <2>1, <2>2 DEF IInv, Chain, SeenStates, AttemptsOf, ArtifactsOf, DecisionsOf
  <1>4. RoundsDiffer'
    BY <1>1 DEF IInv, RoundsDiffer, SeenStates, AttemptsOf, ArtifactsOf, DecisionsOf, Rounds
  <1>5. Grown(plan) BY <1>1 DEF Grown
  <1>6. Issued(command)' /\ Issued(consumed)'
    BY <1>1, <1>5, CommandsStay
  <1>7. HonestIsServed' BY <1>1 DEF IInv, HonestIsServed
  <1>8. StopIsTrue'
    BY <1>1 DEF StopIsTrue, StopKeepsVerdict, NoActionIsTrue, Current, SeenStates
  <1> QED BY <1>2, <1>3, <1>4, <1>6, <1>7, <1>8 DEF IInv

LEMMA Inductive == IInv /\ StopIsTrue /\ [RepairNext]_repairVars => IInv' /\ StopIsTrue'
  <1> SUFFICES ASSUME IInv, StopIsTrue, [RepairNext]_repairVars PROVE IInv' /\ StopIsTrue'
    OBVIOUS
  <1>1. CASE \E d \in DecisionIds, a \in AttemptIds : Ask(d, a)
    BY <1>1, AskStep
  <1>2. CASE ReportOn(command) \/ ReportOn(consumed)
    BY <1>2, ObserveStep DEF ReportOn
  <1>3. CASE UNCHANGED repairVars
    BY <1>3, StutterStep
  <1> QED BY <1>1, <1>2, <1>3 DEF RepairNext, Settled

-----------------------------------------------------------------------------
(* Under the contract of production one round is the last one.            *)
LEMMA ContractEnds == IInv => OneRoundIsFinal
  <1> SUFFICES ASSUME IInv, ProductionContract, Rounds(history) = 1
               PROVE  StopReason(history) # Nothing
    BY DEF OneRoundIsFinal
  <1>1. policy.rounds = 1 BY DEF ProductionContract
  <1> QED BY <1>1, Now, GoesOn

(* A caller of the repair loop (_compose_initial_repair and                *)
(* _compose_repair_result) that keeps to the protocol is never refused: the*)
(* command next_repair_step issued is one consume_repair_result replays.   *)
(* No round repeats another, patience is kept, and one round is the last   *)
(* one under the contract of production, whatever a careless caller does.  *)
THEOREM RepairServed == RepairSpec => []RepairIsServed
  <1>1. IInv => RepairIsServed
    BY ContractEnds DEF IInv, Typed, Chain, RepairIsServed, PatienceKept
  <1> QED BY <1>1, InitInvariant, Inductive, PTL DEF RepairSpec

(* Every reason for which next_repair_step ends a run is true: it changes  *)
(* nothing of what the report says of the artifact, and NO_ACTION means    *)
(* that the rule that blocks has nothing left to try.                      *)
THEOREM StopTrue == RepairSpec => []StopIsTrue
  BY InitInvariant, Inductive, PTL DEF RepairSpec
=============================================================================
