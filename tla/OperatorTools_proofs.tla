------------------------ MODULE OperatorTools_proofs -------------------------
(***************************************************************************)
(* Proofs about the tools an operator runs. FormalStudy: any number of     *)
(* processes, any plans, samples and readings, and any number of edits and *)
(* deaths. AdapterInstall: the installer of the Preview adapter.           *)
(***************************************************************************)
EXTENDS FormalStudy, AdapterInstall, FiniteSetTheorems, FunctionTheorems, TLAPS

There(document) == document \notin {None, <<>>}

(* A report that passed validation names the sealed test set twice.        *)
NamesTestTwice(report) == report.labels.observed[3] = report.commitment.sealed

(* What may be in a document, whoever wrote it.                            *)
Sound(name, document) ==
    /\ name = "plan" => document.operator \in {"gte", "lte"}
    /\ name = "manifest" => IsFiniteSet(document.samples)
    /\ name = "calibration" => \A id \in DOMAIN document.pairs : document.pairs[id].score \in Nat
    /\ name = "labels" => document.source \in {"HUMAN_APPROVED", "SYNTHETIC"}
    /\ name = "prepared" /\ There(document) => NamesTestTwice(document)

Workspace == DOMAIN ws = Documents /\ \A name \in Documents : Sound(name, ws[name])

Counts ==
    /\ edits \in 0 .. Edits /\ commands \in 0 .. Commands /\ crashes \in 0 .. Crashes
    /\ drifted \in BOOLEAN

(* What a process works with, when report is the one of the workspace: it  *)
(* has read what it does not have left to read, and all of it is sound.    *)
Fine(work, report) ==
    /\ DOMAIN work = {"command", "left", "held", "output"} /\ work.left \in Seq(Documents)
    /\ \/ work = Idle
       \/ /\ work.command \in DOMAIN Reads
          /\ \/ DOMAIN work.held \cup NamesIn(work.left) = NamesIn(Reads[work.command])
             \/ work.output # None
    /\ \A name \in DOMAIN work.held :
          /\ Sound(name, work.held[name])
          /\ name = "prepared" => work.held[name] = report /\ There(report)
    /\ work.output # None =>
          /\ work.command \in {"prepare", "reveal"} /\ work.left = <<>>
          /\ work.command = "prepare" => NamesTestTwice(work.output)

Processing == DOMAIN proc = Processes /\ \A p \in Processes : Fine(proc[p], ws.prepared)

(* Who creates an output finds it torn, and is alone.                      *)
Creating(work) == work.output # None /\ work.held = <<>>
Creators ==
    \A p \in Processes : Creating(proc[p]) =>
        /\ ws[Output(proc[p].command)] = <<>>
        /\ \A q \in Processes :
              Creating(proc[q]) /\ Output(proc[q].command) = Output(proc[p].command) => q = p

(* Results and bindings are about the report of the workspace.             *)
Results ==
    /\ FrozenOnce /\ BindingIsEarned
    /\ revealed # {} => There(ws.prepared)
    /\ \A d \in issued : /\ d.prepared = ws.prepared /\ There(ws.prepared)
                         /\ d.prepared.status = "VALIDATION_PASSED"

IInv == Workspace /\ Counts /\ Processing /\ Creators /\ Results

-----------------------------------------------------------------------------
(* Finite sets of numbers *)

(* What holds of the empty set, and of a set with one element more, holds  *)
(* of a finite set.                                                        *)
LEMMA FiniteSetInduction ==
    ASSUME NEW S, IsFiniteSet(S), NEW F, {} \in F,
           \A T \in SUBSET S : \A x \in S \ T : T \in F => T \cup {x} \in F
    PROVE  S \in F
  <1> DEFINE Bad == {T \in SUBSET S : T \notin F}
             R == StrictSubsetOrdering(S)
  <1> SUFFICES ASSUME Bad # {} PROVE FALSE
    OBVIOUS
  <1>1. IsWellFoundedOn(R, SUBSET S)
    BY FS_StrictSubsetOrderingWellFounded, FS_FiniteSubsetsOfFinite
  <1>2. PICK T \in Bad : \A U \in Bad : ~(<<U, T>> \in R)
    <2>1. Bad \subseteq SUBSET S OBVIOUS
    <2> HIDE DEF Bad, R
    <2> QED BY <1>1, <2>1, WFMin
  <1>3. PICK x \in T : TRUE
    BY <1>2
  <1>4. T \ {x} \notin Bad
    BY <1>2 DEF StrictSubsetOrdering
  <1>5. T = (T \ {x}) \cup {x} /\ x \in S \ (T \ {x}) /\ T \ {x} \in SUBSET S
    BY <1>3
  <1>6. T \in F
    BY <1>4, <1>5
  <1> QED BY <1>2, <1>6

(* Numbers have a least one, and finitely many of them a greatest one.     *)
LEMMA Least ==
    ASSUME NEW S, S \subseteq Nat, S # {}
    PROVE  \E n \in S : \A k \in S : n <= k
  <1> DEFINE R == OpToRel(<, Nat)
  <1>1. PICK n \in S : \A k \in S : ~(<<k, n>> \in R)
    <2> HIDE DEF R
    <2> QED BY NatLessThanWellFounded, WFMin DEF R
  <1>2. \A k \in S : ~(k < n)
    BY <1>1 DEF OpToRel
  <1> QED BY <1>2

LEMMA Greatest ==
    ASSUME NEW S, IsFiniteSet(S), S \subseteq Nat, S # {}
    PROVE  \E n \in S : \A k \in S : n >= k
  <1> DEFINE F == {T \in SUBSET S : T = {} \/ \E n \in T : \A k \in T : n >= k}
  <1>1. {} \in F
    OBVIOUS
  <1>2. ASSUME NEW T \in SUBSET S, NEW x \in S \ T, T \in F PROVE T \cup {x} \in F
    <2>1. CASE T = {}
      <3>1. T \cup {x} = {x} /\ x \in Nat /\ {x} \in SUBSET S BY <2>1
      <3> QED BY <3>1
    <2>2. CASE T # {}
      <3>1. PICK n \in T : \A k \in T : n >= k
        BY <1>2, <2>2
      <3>2. n \in Nat /\ x \in Nat /\ T \subseteq Nat OBVIOUS
      <3>3. CASE n >= x
        <4>1. \A k \in T \cup {x} : n >= k BY <3>1, <3>3
        <4> QED BY <3>1, <4>1
      <3>4. CASE ~(n >= x)
        <4>1. \A k \in T \cup {x} : x >= k BY <3>1, <3>2, <3>4
        <4> QED BY <4>1
      <3> QED BY <3>3, <3>4
    <2> QED BY <2>1, <2>2
  <1>3. S \in F
    <2> HIDE DEF F
    <2> QED BY <1>1, <1>2, FiniteSetInduction
  <1> QED BY <1>3

-----------------------------------------------------------------------------
(* Thresholds *)

(* A split of finitely many samples has finitely many scores.              *)
LEMMA ScoresAreFinite ==
    ASSUME NEW manifest, IsFiniteSet(manifest.samples), NEW split, NEW pairs,
           DOMAIN pairs = Ids(manifest, split)
    PROVE  IsFiniteSet(Scores(pairs))
  <1> DEFINE T == {t \in manifest.samples : t.split = split}
             f == [s \in T |-> s.id]
             g == [id \in DOMAIN pairs |-> pairs[id].score]
  <1>1. IsFiniteSet(T)
    <2>1. T \in SUBSET manifest.samples OBVIOUS
    <2> HIDE DEF T
    <2> QED BY <2>1, FS_Subset
  <1>2. f \in Surjection(T, DOMAIN pairs)
    <2>1. f \in [T -> DOMAIN pairs]
      BY DEF Ids
    <2>2. \A id \in DOMAIN pairs : \E s \in T : f[s] = id
      BY DEF Ids
    <2> QED BY <2>1, <2>2 DEF Surjection
  <1>3. IsFiniteSet(DOMAIN pairs)
    <2> HIDE DEF T, f
    <2> QED BY <1>1, <1>2, FS_Surjection
  <1>4. g \in Surjection(DOMAIN pairs, Scores(pairs))
    BY DEF Scores, Surjection
  <1>5. IsFiniteSet(Scores(pairs))
    <2> HIDE DEF g
    <2> QED BY <1>3, <1>4, FS_Surjection
  <1> QED BY <1>5

(* The threshold of a study whose scores meet the targets somewhere is the *)
(* strictest of those that do.                                             *)
LEMMA ThresholdIsStrictest ==
    ASSUME NEW pairs, IsFiniteSet(Scores(pairs)), Scores(pairs) \subseteq Nat,
           NEW plan, plan.operator \in {"gte", "lte"}, Good(pairs, plan) # {}
    PROVE  /\ SelectThreshold(pairs, plan) \in Good(pairs, plan)
           /\ \A other \in Good(pairs, plan) :
                 /\ Passes(SelectThreshold(pairs, plan), other, plan.operator)
                 /\ Passes(other, SelectThreshold(pairs, plan), plan.operator) =>
                        other = SelectThreshold(pairs, plan)
  <1> DEFINE good == Good(pairs, plan)
  <1>1. good \subseteq Nat /\ good \in SUBSET Scores(pairs)
    BY DEF Good
  <1>2. IsFiniteSet(good)
    <2> HIDE DEF good
    <2> QED BY <1>1, FS_Subset
  <1>3. \E score \in good : \A other \in good : Passes(score, other, plan.operator)
    <2> HIDE DEF good
    <2>1. good # {} BY DEF good
    <2>2. CASE plan.operator = "gte"
      BY <1>1, <1>2, <2>1, <2>2, Greatest DEF Passes
    <2>3. CASE plan.operator = "lte"
      BY <1>1, <2>1, <2>3, Least DEF Passes
    <2> QED BY <2>2, <2>3
  <1>4. SelectThreshold(pairs, plan) = CHOOSE score \in good : \A other \in good : Passes(score, other, plan.operator)
    BY DEF SelectThreshold
  <1>5. /\ SelectThreshold(pairs, plan) \in good
        /\ \A other \in good : Passes(SelectThreshold(pairs, plan), other, plan.operator)
    <2> HIDE DEF good
    <2> QED BY <1>3, <1>4
  <1>6. ASSUME NEW other \in good, Passes(other, SelectThreshold(pairs, plan), plan.operator)
        PROVE  other = SelectThreshold(pairs, plan)
    <2>1. other \in Nat /\ SelectThreshold(pairs, plan) \in Nat
      BY <1>1, <1>5
    <2>2. Passes(SelectThreshold(pairs, plan), other, plan.operator)
      BY <1>5
    <2> QED BY <1>6, <2>1, <2>2 DEF Passes
  <1> QED BY <1>5, <1>6

-----------------------------------------------------------------------------
(* A study *)

(* What a report that passed validation says of the documents it is of.    *)
LEMMA PassedReport ==
    ASSUME NEW d, Bound(d), PrepareEvidence(d).status = "VALIDATION_PASSED"
    PROVE  LET threshold == SelectThreshold(d.calibration.pairs, d.plan)
           IN /\ PrepareEvidence(d) = Report(d, "VALIDATION_PASSED", threshold)
              /\ ~Blocked(d.labels) /\ threshold # None
              /\ MeetsTargets(d.validation.pairs, threshold, d.plan)
  <1>1. ~Blocked(d.labels) /\ PrepareEvidence(d) = Freeze(d)
    BY DEF PrepareEvidence, Report
  <1> QED BY <1>1 DEF Freeze, Report

(* Every report names the sealed test set of its commitment.               *)
LEMMA ReportNamesTest ==
    ASSUME NEW d, Bound(d) PROVE NamesTestTwice(PrepareEvidence(d))
  <1>1. d.labels.observed = <<d.calibration, d.validation, d.commitment.sealed>>
    BY DEF Bound, LabelsBind
  <1>2. PrepareEvidence(d).labels = d.labels /\ PrepareEvidence(d).commitment = d.commitment
    BY DEF PrepareEvidence, Freeze, Report
  <1> QED BY <1>1, <1>2 DEF NamesTestTwice

(* What validate_metric_production_approval lets through has earned it.    *)
LEMMA ValidatedIsEarned ==
    ASSUME NEW d, Sound("plan", d.plan), Sound("manifest", d.manifest),
           Sound("calibration", d.calibration), Sound("labels", d.labels),
           Rebuilt(d), ReportsHold(d), Approves(d)
    PROVE  Earned(d)
  <1> DEFINE pairs == d.calibration.pairs
             threshold == d.approval.threshold
  <1>1. Bound(d) /\ d.prepared = PrepareEvidence(d) /\ RevealBound(d) /\ d.reveal = RevealTest(d)
        /\ d.prepared.status = "VALIDATION_PASSED" /\ threshold = d.prepared.threshold
    BY DEF Rebuilt, ReportsHold, Approves
  <1>2. /\ d.prepared = Report(d, "VALIDATION_PASSED", SelectThreshold(pairs, d.plan))
        /\ ~Blocked(d.labels) /\ SelectThreshold(pairs, d.plan) # None
        /\ MeetsTargets(d.validation.pairs, SelectThreshold(pairs, d.plan), d.plan)
    BY <1>1, PassedReport
  <1>3. /\ threshold = SelectThreshold(pairs, d.plan)
        /\ d.prepared.plan = d.plan /\ d.prepared.commitment = d.commitment
    BY <1>1, <1>2 DEF Report
  <1>4. /\ d.plan.operator \in {"gte", "lte"} /\ IsFiniteSet(d.manifest.samples)
        /\ \A id \in DOMAIN pairs : pairs[id].score \in Nat
        /\ d.labels.source \in {"HUMAN_APPROVED", "SYNTHETIC"}
    BY DEF Sound
  <1>5. DOMAIN pairs = Ids(d.manifest, "calibration") /\ PartitionSamples(d.manifest) /\ LabelsBind(d.labels, d)
    BY <1>1 DEF Bound, Observes
  <1>6. IsFiniteSet(Scores(pairs)) /\ Scores(pairs) \subseteq Nat
    BY <1>4, <1>5, ScoresAreFinite DEF Scores
  <1>7. Good(pairs, d.plan) # {}
    BY <1>2 DEF SelectThreshold
  <1>8. /\ threshold \in Good(pairs, d.plan)
        /\ \A other \in Good(pairs, d.plan) : Passes(other, threshold, d.plan.operator) => other = threshold
    BY <1>3, <1>4, <1>6, <1>7, ThresholdIsStrictest
  <1>9. d.labels.observed = <<d.calibration, d.validation, d.test>>
    <2>1. d.commitment.sealed = d.test
      BY <1>1, <1>3 DEF RevealBound
    <2> QED BY <1>5, <2>1 DEF LabelsBind
  <1>10. MeetsTargets(d.test.pairs, threshold, d.plan)
    <2>1. d.reveal.test = d.test
      BY <1>1 DEF RevealTest
    <2> QED BY <1>1, <1>3, <2>1 DEF ReportsHold
  <1>11. MeetsTargets(pairs, threshold, d.plan) /\ MeetsTargets(d.validation.pairs, threshold, d.plan)
    BY <1>2, <1>3, <1>8 DEF Good
  <1>12. \A s, t \in d.manifest.samples : s.family = t.family => s.split = t.split
    <2>1. OneSplit(d.manifest.samples, "family")
      BY <1>5 DEF PartitionSamples
    <2> QED BY <2>1 DEF OneSplit
  <1>13. d.labels.source = "HUMAN_APPROVED" /\ d.labels.approved
    BY <1>2, <1>4 DEF Blocked
  <1>14. ASSUME NEW id \in DOMAIN pairs, pairs[id].score # threshold,
                Passes(pairs[id].score, threshold, d.plan.operator),
                MeetsTargets(pairs, pairs[id].score, d.plan)
         PROVE  FALSE
    BY <1>8, <1>14 DEF Good, Scores
  <1> QED BY <1>9, <1>10, <1>11, <1>12, <1>13, <1>14 DEF Earned

(* What a revealed result is of.                                           *)
LEMMA RevealedResult ==
    ASSUME NEW d, NamesTestTwice(d.prepared), RevealBound(d)
    PROVE  /\ RevealTest(d).prepared = d.prepared /\ d.prepared.status = "VALIDATION_PASSED"
           /\ RevealTest(d).test = d.prepared.labels.observed[3]
  BY DEF RevealBound, RevealTest, NamesTestTwice

-----------------------------------------------------------------------------
(* What the commands read *)

LEMMA DocumentNames ==
    /\ DOMAIN Reads = {"prepare", "reveal", "validate"}
    /\ Documents = {"plan", "manifest", "calibration", "validation", "commitment", "labels",
                    "prepared", "test", "receipt", "reveal", "approval"}
    /\ NamesIn(Reads.prepare) = {"plan", "manifest", "calibration", "validation", "commitment", "labels"}
    /\ NamesIn(Reads.reveal) = {"prepared", "test", "receipt"}
    /\ NamesIn(Reads.validate) = Documents
    /\ \A command \in DOMAIN Reads : Reads[command] \in Seq(Documents)
  <1>1. DOMAIN Reads = {"prepare", "reveal", "validate"}
    BY DEF Reads
  <1>2. Reads.prepare = <<"plan", "manifest", "calibration", "validation", "commitment", "labels">>
    BY DEF Reads, Inputs
  <1>3. Reads.reveal = <<"prepared", "test", "receipt">>
    BY DEF Reads
  <1>4. Reads.validate = <<"plan", "manifest", "calibration", "validation", "commitment", "labels",
                           "prepared", "test", "receipt", "reveal", "approval">>
    BY DEF Reads, Inputs
  <1>5. Documents = {"plan", "manifest", "calibration", "validation", "commitment", "labels",
                     "prepared", "test", "receipt", "reveal", "approval"}
    BY <1>4 DEF Documents, NamesIn
  <1>6. /\ NamesIn(Reads.prepare) = {"plan", "manifest", "calibration", "validation", "commitment", "labels"}
        /\ NamesIn(Reads.reveal) = {"prepared", "test", "receipt"}
    BY <1>2, <1>3 DEF NamesIn
  <1>7. Reads.prepare \in Seq(Documents) /\ Reads.reveal \in Seq(Documents)
    BY <1>2, <1>3, <1>5
  <1>8. Reads.validate \in Seq(Documents)
    BY <1>4, <1>5
  <1> QED BY <1>1, <1>5, <1>6, <1>7, <1>8 DEF Documents

-----------------------------------------------------------------------------
(* Processes *)

LEMMA Bounds == Commands \in Nat /\ Edits \in Nat /\ Crashes \in Nat
  BY StudyAssumptions

(* A process that is not at work is fine.                                  *)
LEMMA IdleIsFine == \A report : Fine(Idle, report) /\ ~Creating(Idle)
  <1>1. Idle.left = <<>> /\ Idle.held = <<>> /\ Idle.output = None
        /\ DOMAIN Idle = {"command", "left", "held", "output"}
    BY DEF Idle, Work
  <1>2. <<>> \in Seq(Documents) /\ DOMAIN <<>> = {}
    OBVIOUS
  <1> QED BY <1>1, <1>2 DEF Fine, Creating

(* A step that changes only what one process works with, and creates       *)
(* nothing.                                                                *)
LEMMA WorkStep ==
    ASSUME IInv, NEW p \in Processes, NEW work, Fine(work, ws.prepared), ~Creating(work),
           ws' = ws, proc' = [proc EXCEPT ![p] = work]
    PROVE  Workspace' /\ Processing' /\ Creators'
  <1>1. DOMAIN proc = Processes /\ \A q \in Processes : Fine(proc[q], ws.prepared)
    BY DEF IInv, Processing
  <1>2. /\ DOMAIN proc' = Processes
        /\ \A q \in Processes : proc'[q] = IF q = p THEN work ELSE proc[q]
    BY <1>1
  <1>3. Workspace'
    BY DEF IInv, Workspace
  <1>4. Processing'
    BY <1>1, <1>2 DEF Processing
  <1>5. Creators'
    <2>1. \A q \in Processes : Creating(proc'[q]) => q # p /\ proc'[q] = proc[q]
      BY <1>2
    <2> QED BY <2>1 DEF IInv, Creators
  <1> QED BY <1>3, <1>4, <1>5

(* The report of a workspace is written once: nothing changes it any more. *)
LEMMA ResultsStay ==
    ASSUME IInv, ws'.prepared = ws.prepared \/ ~There(ws.prepared), UNCHANGED <<issued, revealed>>
    PROVE  Results'
  <1>1. CASE ws'.prepared = ws.prepared
    BY <1>1 DEF IInv, Results, FrozenOnce, BindingIsEarned
  <1>2. CASE ~There(ws.prepared)
    <2>1. issued = {} /\ revealed = {}
      BY <1>2 DEF IInv, Results
    <2> QED BY <2>1 DEF Results, FrozenOnce, BindingIsEarned
  <1> QED BY <1>1, <1>2

LEMMA StartStep ==
    ASSUME IInv, NEW p \in Processes, Start(p) PROVE IInv'
  <1>1. PICK command \in DOMAIN Reads :
           proc' = [proc EXCEPT ![p] = Work(command, Reads[command], <<>>, None)]
    BY DEF Start
  <1> DEFINE work == Work(command, Reads[command], <<>>, None)
  <1>2. proc' = [proc EXCEPT ![p] = work]
    BY <1>1
  <1>3. Fine(work, ws.prepared) /\ ~Creating(work)
    <2>1. DOMAIN <<>> = {} /\ Reads[command] \in Seq(Documents)
      BY DocumentNames
    <2>2. DOMAIN work = {"command", "left", "held", "output"} /\ work.command = command
          /\ work.left = Reads[command] /\ work.held = <<>> /\ work.output = None
      BY DEF Work
    <2> HIDE DEF work
    <2> QED BY <2>1, <2>2 DEF Fine, Creating
  <1>4. Counts'
    BY StudyAssumptions DEF IInv, Counts, Start
  <1>5. UNCHANGED <<ws, issued, revealed>>
    BY DEF Start
  <1> HIDE DEF work
  <1>6. Workspace' /\ Processing' /\ Creators'
    BY <1>2, <1>3, <1>5, WorkStep
  <1>7. Results'
    BY <1>5, ResultsStay
  <1> QED BY <1>4, <1>6, <1>7 DEF IInv

(* A process that goes back to rest leaves everything sound.               *)
LEMMA RestStep ==
    ASSUME IInv, NEW p \in Processes, proc' = [proc EXCEPT ![p] = Idle], Counts',
           UNCHANGED <<ws, issued, revealed>>
    PROVE  IInv'
  <1>1. Workspace' /\ Processing' /\ Creators'
    BY IdleIsFine, WorkStep
  <1>2. Results'
    BY ResultsStay
  <1> QED BY <1>1, <1>2 DEF IInv

(* _read takes the document as it is, and what it takes is sound.          *)
LEMMA ReadStep ==
    ASSUME IInv, NEW p \in Processes, Read(p) PROVE IInv'
  <1> DEFINE old == proc[p]
             name == Head(old.left)
             work == Work(old.command, Tail(old.left), With(old.held, name, ws[name]), None)
  <1>1. Counts' /\ UNCHANGED <<ws, issued, revealed>> /\ old.left # <<>>
    BY DEF IInv, Counts, Read
  <1>2. CASE ~There(ws[name])
    <2>1. proc' = [proc EXCEPT ![p] = Idle]
      BY <1>2 DEF Read, There
    <2> QED BY <1>1, <2>1, RestStep
  <1>3. CASE There(ws[name])
    <2>1. proc' = [proc EXCEPT ![p] = work]
      BY <1>3 DEF Read, There
    <2>2. Fine(old, ws.prepared)
      BY DEF IInv, Processing
    <2>3. /\ name \in Documents /\ Tail(old.left) \in Seq(Documents)
          /\ NamesIn(old.left) = NamesIn(Tail(old.left)) \cup {name}
      <3> HIDE DEF old
      <3>1. old.left \in Seq(Documents)
        BY <2>2 DEF Fine
      <3>2. /\ Len(Tail(old.left)) = Len(old.left) - 1 /\ Len(old.left) \in Nat \ {0}
            /\ Tail(old.left) \in Seq(Documents)
            /\ \A i \in 1 .. Len(old.left) - 1 : Tail(old.left)[i] = old.left[i + 1]
            /\ name = old.left[1] /\ name \in Documents
        BY <1>1, <3>1
      <3>3. DOMAIN old.left = 1 .. Len(old.left) /\ DOMAIN Tail(old.left) = 1 .. Len(old.left) - 1
        BY <3>1, <3>2
      <3>4. ASSUME NEW i \in 1 .. Len(old.left), i # 1
            PROVE  \E k \in 1 .. Len(old.left) - 1 : Tail(old.left)[k] = old.left[i]
        <4>1. i - 1 \in 1 .. Len(old.left) - 1 /\ (i - 1) + 1 = i
          BY <3>2, <3>4
        <4> QED BY <3>2, <4>1
      <3>5. NamesIn(old.left) \subseteq NamesIn(Tail(old.left)) \cup {name}
        <4> SUFFICES ASSUME NEW i \in 1 .. Len(old.left)
                     PROVE  old.left[i] \in NamesIn(Tail(old.left)) \cup {name}
          BY <3>3 DEF NamesIn
        <4> QED BY <3>2, <3>3, <3>4 DEF NamesIn
      <3>6. ASSUME NEW k \in 1 .. Len(old.left) - 1
            PROVE  k + 1 \in 1 .. Len(old.left) /\ Tail(old.left)[k] = old.left[k + 1]
        BY <3>2
      <3>7. NamesIn(Tail(old.left)) \cup {name} \subseteq NamesIn(old.left)
        <4>1. 1 \in 1 .. Len(old.left) BY <3>2
        <4> QED BY <3>2, <3>3, <3>6, <4>1 DEF NamesIn
      <3> QED BY <3>2, <3>5, <3>7
    <2>4. old # Idle /\ old.output = None
      <3>1. old # Idle BY <1>1 DEF Idle, Work
      <3>2. old.output = None
        BY <1>1, <2>2 DEF Fine
      <3> QED BY <3>1, <3>2
    <2>5. /\ DOMAIN work = {"command", "left", "held", "output"}
          /\ work.command = old.command /\ work.left = Tail(old.left)
          /\ work.held = With(old.held, name, ws[name]) /\ work.output = None
      BY DEF Work
    <2>6. /\ DOMAIN work.held = DOMAIN old.held \cup {name}
          /\ \A n \in DOMAIN work.held : work.held[n] = IF n = name THEN ws[name] ELSE old.held[n]
      BY <2>5 DEF With
    <2>7. Sound(name, ws[name])
      BY <2>3 DEF IInv, Workspace
    <2>8. Fine(work, ws.prepared)
      <3> HIDE DEF work, old, name
      <3>1. /\ old.command \in DOMAIN Reads
            /\ DOMAIN old.held \cup NamesIn(old.left) = NamesIn(Reads[old.command])
        BY <2>2, <2>4 DEF Fine
      <3>2. DOMAIN work.held \cup NamesIn(work.left) = NamesIn(Reads[work.command])
        BY <2>3, <2>5, <2>6, <3>1
      <3>3. \A n \in DOMAIN work.held :
               /\ Sound(n, work.held[n])
               /\ n = "prepared" => work.held[n] = ws.prepared /\ There(ws.prepared)
        BY <1>3, <2>2, <2>6, <2>7 DEF Fine
      <3> QED BY <2>3, <2>5, <3>1, <3>2, <3>3 DEF Fine
    <2>9. ~Creating(work)
      BY <2>5 DEF Creating
    <2> HIDE DEF work
    <2>10. Workspace' /\ Processing' /\ Creators'
      BY <1>1, <2>1, <2>8, <2>9, WorkStep
    <2>11. Results'
      BY <1>1, ResultsStay
    <2> QED BY <1>1, <2>10, <2>11 DEF IInv
  <1> QED BY <1>2, <1>3

(* A command that has read everything holds every document it reads.       *)
LEMMA ReadyHolds ==
    ASSUME IInv, NEW p \in Processes, NEW command \in DOMAIN Reads, Ready(p, command)
    PROVE  /\ DOMAIN proc[p].held = NamesIn(Reads[command])
           /\ proc[p].held # <<>>
           /\ \A name \in DOMAIN proc[p].held :
                 /\ Sound(name, proc[p].held[name])
                 /\ name = "prepared" => proc[p].held[name] = ws.prepared /\ There(ws.prepared)
  <1>1. Fine(proc[p], ws.prepared) /\ proc[p].command = command /\ proc[p].left = <<>>
        /\ proc[p].output = None
    BY DEF IInv, Processing, Ready
  <1>2. proc[p] # Idle
    BY <1>1, DocumentNames DEF Idle, Work
  <1>3. NamesIn(<<>>) = {}
    BY DEF NamesIn
  <1>4. DOMAIN proc[p].held = NamesIn(Reads[command])
    BY <1>1, <1>2, <1>3 DEF Fine
  <1>5. NamesIn(Reads[command]) # {}
    BY DocumentNames
  <1>6. proc[p].held # <<>>
    BY <1>4, <1>5
  <1> QED BY <1>1, <1>4, <1>6 DEF Fine

(* A command with its output computed is fine when the output is.          *)
LEMMA ComputedIsFine ==
    ASSUME IInv, NEW p \in Processes, NEW command \in {"prepare", "reveal"}, Ready(p, command),
           NEW output, command = "prepare" => NamesTestTwice(output)
    PROVE  LET work == Work(command, <<>>, proc[p].held, output)
           IN  Fine(work, ws.prepared) /\ ~Creating(work)
  <1> DEFINE work == Work(command, <<>>, proc[p].held, output)
  <1>1. command \in DOMAIN Reads
    BY DocumentNames
  <1>2. /\ DOMAIN work = {"command", "left", "held", "output"} /\ work.command = command
        /\ work.left = <<>> /\ work.held = proc[p].held /\ work.output = output
    BY DEF Work
  <1>3. <<>> \in Seq(Documents) /\ NamesIn(<<>>) = {}
    BY DEF NamesIn
  <1> HIDE DEF work
  <1>4. Fine(work, ws.prepared)
    BY <1>1, <1>2, <1>3, ReadyHolds DEF Fine
  <1>5. ~Creating(work)
    BY <1>1, <1>2, ReadyHolds DEF Creating
  <1> QED BY <1>4, <1>5 DEF work

(* prepare_workspace computes a report that names the sealed test set.     *)
LEMMA PrepareStep ==
    ASSUME IInv, NEW p \in Processes, Prepare(p) PROVE IInv'
  <1> DEFINE d == proc[p].held
             work == Work("prepare", <<>>, d, PrepareEvidence(d))
  <1>1. Counts' /\ UNCHANGED <<ws, issued, revealed>> /\ Ready(p, "prepare")
    BY DEF IInv, Counts, Prepare
  <1>2. CASE ~Bound(d)
    <2>1. proc' = [proc EXCEPT ![p] = Idle]
      BY <1>2 DEF Prepare
    <2> QED BY <1>1, <2>1, RestStep
  <1>3. CASE Bound(d)
    <2>1. proc' = [proc EXCEPT ![p] = work]
      BY <1>3 DEF Prepare
    <2>2. NamesTestTwice(PrepareEvidence(d))
      BY <1>3, ReportNamesTest
    <2>3. Fine(work, ws.prepared) /\ ~Creating(work)
      BY <1>1, <2>2, ComputedIsFine
    <2> HIDE DEF work
    <2>4. Workspace' /\ Processing' /\ Creators'
      BY <1>1, <2>1, <2>3, WorkStep
    <2>5. Results'
      BY <1>1, ResultsStay
    <2> QED BY <1>1, <2>4, <2>5 DEF IInv
  <1> QED BY <1>2, <1>3

(* reveal_workspace computes a result of the report in the workspace.      *)
LEMMA RevealStep ==
    ASSUME IInv, NEW p \in Processes, Reveal(p) PROVE IInv'
  <1> DEFINE d == proc[p].held
             work == Work("reveal", <<>>, d, RevealTest(d))
  <1>1. Counts' /\ UNCHANGED <<ws, issued>> /\ Ready(p, "reveal")
    BY DEF IInv, Counts, Reveal
  <1>2. CASE ~RevealBound(d)
    <2>1. proc' = [proc EXCEPT ![p] = Idle] /\ UNCHANGED revealed
      BY <1>2 DEF Reveal
    <2> QED BY <1>1, <2>1, RestStep
  <1>3. CASE RevealBound(d)
    <2>1. proc' = [proc EXCEPT ![p] = work] /\ revealed' = revealed \cup {RevealTest(d)}
      BY <1>3 DEF Reveal
    <2>2. Fine(work, ws.prepared) /\ ~Creating(work)
      BY <1>1, ComputedIsFine
    <2>3. d.prepared = ws.prepared /\ There(ws.prepared) /\ NamesTestTwice(d.prepared)
      BY <1>1, ReadyHolds, DocumentNames DEF Sound
    <2>4. /\ RevealTest(d).prepared = ws.prepared /\ ws.prepared.status = "VALIDATION_PASSED"
          /\ RevealTest(d).test = ws.prepared.labels.observed[3]
      BY <1>3, <2>3, RevealedResult
    <2> HIDE DEF work, d
    <2>5. Workspace' /\ Processing' /\ Creators'
      BY <1>1, <2>1, <2>2, WorkStep
    <2>6. FrozenOnce'
      BY <1>1, <2>1, <2>4 DEF IInv, Results, FrozenOnce
    <2>7. Results'
      BY <1>1, <2>3, <2>6 DEF IInv, Results, BindingIsEarned
    <2> QED BY <1>1, <2>5, <2>7 DEF IInv
  <1> QED BY <1>2, <1>3

(* validate_metric_production_approval returns a binding that was earned.  *)
LEMMA ValidateStep ==
    ASSUME IInv, NEW p \in Processes, Validate(p) PROVE IInv'
  <1> DEFINE d == proc[p].held
             passes == Rebuilt(d) /\ ReportsHold(d) /\ Approves(d)
  <1>1. /\ Counts' /\ UNCHANGED <<ws, revealed>> /\ Ready(p, "validate")
        /\ proc' = [proc EXCEPT ![p] = Idle]
        /\ issued' = IF passes THEN issued \cup {d} ELSE issued
    BY DEF IInv, Counts, Validate
  <1>2. CASE ~passes
    BY <1>1, <1>2, RestStep
  <1>3. CASE passes
    <2>1. DOMAIN d = Documents /\ \A name \in DOMAIN d :
             /\ Sound(name, d[name])
             /\ name = "prepared" => d[name] = ws.prepared /\ There(ws.prepared)
      BY <1>1, ReadyHolds, DocumentNames
    <2>2. /\ Sound("plan", d.plan) /\ Sound("manifest", d.manifest)
          /\ Sound("calibration", d.calibration) /\ Sound("labels", d.labels)
          /\ d.prepared = ws.prepared /\ There(ws.prepared)
      BY <2>1, DocumentNames
    <2>3. Earned(d)
      BY <1>3, <2>2, ValidatedIsEarned
    <2>4. d.prepared.status = "VALIDATION_PASSED"
      BY <1>3 DEF ReportsHold
    <2>5. issued' = issued \cup {d}
      BY <1>1, <1>3
    <2> HIDE DEF d, passes
    <2>6. Workspace' /\ Processing' /\ Creators'
      BY <1>1, IdleIsFine, WorkStep
    <2>7. FrozenOnce' /\ BindingIsEarned'
      BY <1>1, <2>3, <2>5 DEF IInv, Results, FrozenOnce, BindingIsEarned
    <2>8. Results'
      BY <1>1, <2>2, <2>4, <2>5, <2>7 DEF IInv, Results
    <2> QED BY <1>1, <2>6, <2>8 DEF IInv
  <1> QED BY <1>2, <1>3

(* _write_output only compares with what is there.                         *)
LEMMA CompareStep ==
    ASSUME IInv, NEW p \in Processes, Compare(p) PROVE IInv'
  <1>1. proc' = [proc EXCEPT ![p] = Idle] /\ UNCHANGED <<ws, issued, revealed>>
        /\ UNCHANGED <<edits, commands, crashes>>
        /\ drifted' \in {drifted, drifted \/ ws[Output(proc[p].command)] # proc[p].output}
    BY DEF Compare
  <1>2. drifted' \in BOOLEAN
    BY <1>1 DEF IInv, Counts
  <1>3. Counts'
    BY <1>1, <1>2 DEF IInv, Counts
  <1> QED BY <1>1, <1>3, RestStep

(* Writing an output where there is none yet: nobody has read it, and who  *)
(* creates another one is not disturbed.                                   *)
LEMMA WriteStep ==
    ASSUME IInv, NEW p \in Processes, proc[p].output # None, Counts', UNCHANGED <<issued, revealed>>,
           NEW document, Sound(Output(proc[p].command), document),
           ~There(ws[Output(proc[p].command)]),
           ws' = [ws EXCEPT ![Output(proc[p].command)] = document],
           NEW work, proc' = [proc EXCEPT ![p] = work],
           \A report : Fine(work, report),
           \A q \in Processes :
              q # p /\ Creating(proc[q]) => Output(proc[q].command) # Output(proc[p].command),
           Creating(work) => document = <<>> /\ Output(work.command) = Output(proc[p].command)
    PROVE  IInv'
  <1> DEFINE name == Output(proc[p].command)
  <1>1. name \in {"prepared", "reveal"} /\ name \in Documents
    BY DocumentNames DEF Output
  <1>2. /\ DOMAIN ws = Documents /\ DOMAIN ws' = Documents
        /\ \A n \in Documents : ws'[n] = IF n = name THEN document ELSE ws[n]
    BY DEF IInv, Workspace
  <1>3. /\ DOMAIN proc = Processes /\ DOMAIN proc' = Processes
        /\ \A q \in Processes : proc'[q] = IF q = p THEN work ELSE proc[q]
    BY DEF IInv, Processing
  <1>4. "prepared" \in Documents
    BY DocumentNames
  <1>5. ws'.prepared = ws.prepared \/ ~There(ws.prepared)
    BY <1>2, <1>4
  <1> HIDE DEF name
  <1>6. Workspace'
    BY <1>2 DEF IInv, Workspace, name
  <1>7. ASSUME NEW q \in Processes PROVE Fine(proc'[q], ws'.prepared)
    <2>1. CASE q = p
      BY <1>3, <2>1
    <2>2. CASE q # p
      <3>1. Fine(proc[q], ws.prepared) /\ proc'[q] = proc[q]
        BY <1>3, <2>2 DEF IInv, Processing
      <3> QED BY <1>5, <3>1 DEF Fine
    <2> QED BY <2>1, <2>2
  <1>8. Processing'
    BY <1>3, <1>7 DEF Processing
  <1>9. ASSUME NEW q \in Processes, Creating(proc'[q])
        PROVE  /\ ws'[Output(proc'[q].command)] = <<>>
               /\ \A r \in Processes :
                     Creating(proc'[r]) /\ Output(proc'[r].command) = Output(proc'[q].command) => r = q
    <2>1. Output(proc'[q].command) \in Documents
      BY DocumentNames DEF Output
    <2>2. CASE q = p
      BY <1>2, <1>3, <1>9, <2>1, <2>2 DEF name
    <2>3. CASE q # p
      <3>1. proc'[q] = proc[q] /\ Output(proc[q].command) # name /\ ws[Output(proc[q].command)] = <<>>
        BY <1>3, <1>9, <2>3 DEF IInv, Creators, name
      <3>2. ASSUME NEW r \in Processes, Creating(proc'[r]), Output(proc'[r].command) = Output(proc[q].command)
            PROVE  r = q
        <4>1. r # p
          BY <1>3, <3>1, <3>2 DEF name
        <4> QED BY <1>3, <1>9, <3>1, <3>2, <4>1 DEF IInv, Creators
      <3> QED BY <1>2, <2>1, <3>1, <3>2
    <2> QED BY <2>2, <2>3
  <1>10. Creators'
    BY <1>9 DEF Creators
  <1>11. Results'
    BY <1>5, ResultsStay
  <1> QED BY <1>6, <1>8, <1>10, <1>11 DEF IInv

(* The file is created empty: who creates it is the only one to.           *)
LEMMA CreateStep ==
    ASSUME IInv, NEW p \in Processes, Create(p) PROVE IInv'
  <1> DEFINE old == proc[p]
             name == Output(old.command)
             work == Work(old.command, <<>>, <<>>, old.output)
  <1>1. /\ old.output # None /\ ws[name] = None /\ ws' = [ws EXCEPT ![name] = <<>>]
        /\ proc' = [proc EXCEPT ![p] = work]
        /\ UNCHANGED <<issued, revealed>> /\ Counts'
    BY DEF IInv, Counts, Create
  <1>2. name \in {"prepared", "reveal"} /\ ~There(<<>>) /\ ~There(None)
    BY DEF Output, There
  <1>3. Sound(name, <<>>)
    BY <1>2 DEF Sound
  <1>4. ASSUME NEW report PROVE Fine(work, report)
    <2>1. /\ DOMAIN work = {"command", "left", "held", "output"} /\ work.command = old.command
          /\ work.left = <<>> /\ work.held = <<>> /\ work.output = old.output
      BY DEF Work
    <2>2. /\ old.command \in {"prepare", "reveal"}
          /\ old.command = "prepare" => NamesTestTwice(old.output)
      BY <1>1 DEF IInv, Processing, Fine
    <2>3. old.command \in DOMAIN Reads
      BY <2>2, DocumentNames
    <2>4. <<>> \in Seq(Documents) /\ DOMAIN <<>> = {}
      OBVIOUS
    <2> HIDE DEF work, old
    <2> QED BY <1>1, <2>1, <2>2, <2>3, <2>4 DEF Fine
  <1>5. ASSUME NEW q \in Processes, q # p, Creating(proc[q]) PROVE Output(proc[q].command) # name
    <2>1. ws[Output(proc[q].command)] = <<>>
      BY <1>5 DEF IInv, Creators
    <2> QED BY <1>1, <2>1, StudyAssumptions
  <1>6. Output(work.command) = name
    BY DEF Work
  <1>7. ~There(ws[name])
    BY <1>1, <1>2
  <1> HIDE DEF work
  <1> QED BY <1>1, <1>3, <1>4, <1>5, <1>6, <1>7, WriteStep

(* Who created the file fills it.                                          *)
LEMMA FillStep ==
    ASSUME IInv, NEW p \in Processes, Fill(p) PROVE IInv'
  <1> DEFINE old == proc[p]
             name == Output(old.command)
  <1>1. /\ old.output # None /\ old.held = <<>> /\ ws' = [ws EXCEPT ![name] = old.output]
        /\ proc' = [proc EXCEPT ![p] = Idle]
        /\ UNCHANGED <<issued, revealed>> /\ Counts'
    BY DEF IInv, Counts, Fill
  <1>2. Creating(old)
    BY <1>1 DEF Creating
  <1>3. ~There(ws[name])
    BY <1>2 DEF IInv, Creators, There
  <1>4. Sound(name, old.output)
    <2>1. old.command = "prepare" => NamesTestTwice(old.output)
      BY <1>1 DEF IInv, Processing, Fine
    <2> QED BY <2>1 DEF Sound, Output
  <1>5. ASSUME NEW q \in Processes, q # p, Creating(proc[q]) PROVE Output(proc[q].command) # name
    BY <1>2, <1>5 DEF IInv, Creators
  <1> QED BY <1>1, <1>3, <1>4, <1>5, IdleIsFine, WriteStep

(* A killed process reads and writes nothing any more.                     *)
LEMMA CrashStep ==
    ASSUME IInv, NEW p \in Processes, Crash(p) PROVE IInv'
  <1>1. Counts'
    BY StudyAssumptions DEF IInv, Counts, Crash
  <1> QED BY <1>1, RestStep DEF Crash

-----------------------------------------------------------------------------
(* People *)

(* Who edits inputs changes neither reports nor processes.                 *)
LEMMA PeopleStep ==
    ASSUME IInv, Workspace', Counts', UNCHANGED <<proc, issued, revealed>>,
           ws'.prepared = ws.prepared, ws'.reveal = ws.reveal
    PROVE  IInv'
  <1>1. Processing'
    BY DEF IInv, Processing
  <1>2. Creators'
    BY DEF IInv, Creators, Output
  <1>3. Results'
    BY ResultsStay
  <1> QED BY <1>1, <1>2, <1>3 DEF IInv

(* The observations an author writes carry numbers.                        *)
LEMMA ObservationsAreSound ==
    ASSUME NEW manifest, NEW split, NEW observations \in ObservationsOf(manifest, split), NEW name,
           name \in {"calibration", "validation", "test"}
    PROVE  Sound(name, observations)
  <1>1. PICK pairs \in [Ids(manifest, split) -> Readings] : observations.pairs = pairs
    BY DEF ObservationsOf
  <1>2. \A id \in DOMAIN observations.pairs : observations.pairs[id].score \in Nat
    BY <1>1, StudyAssumptions
  <1> QED BY <1>2 DEF Sound

(* One document rewritten by a person.                                     *)
LEMMA RewriteStep ==
    ASSUME IInv, Counts', UNCHANGED <<proc, issued, revealed>>,
           NEW name \in Documents \ {"prepared", "reveal"}, NEW document, Sound(name, document),
           ws' = [ws EXCEPT ![name] = document]
    PROVE  IInv'
  <1>1. Workspace'
    BY DEF IInv, Workspace
  <1>2. "prepared" \in Documents /\ "reveal" \in Documents
    BY DocumentNames
  <1>3. ws'.prepared = ws.prepared /\ ws'.reveal = ws.reveal
    BY <1>2 DEF IInv, Workspace
  <1> QED BY <1>1, <1>3, PeopleStep

LEMMA EditInputStep ==
    ASSUME IInv, EditInput PROVE IInv'
  <1>1. /\ UNCHANGED <<proc, issued, revealed, drifted, commands, crashes>>
        /\ edits < Edits /\ edits' = edits + 1
    BY DEF EditInput
  <1>5. Counts'
    BY <1>1, Bounds DEF IInv, Counts
  <1>2. CASE \E plan \in Plans : ws' = [ws EXCEPT !.plan = plan]
    <2>1. PICK plan \in Plans : ws' = [ws EXCEPT !.plan = plan]
      BY <1>2
    <2>2. Sound("plan", plan)
      BY StudyAssumptions DEF Sound
    <2> QED BY <1>1, <1>5, <2>1, <2>2, DocumentNames, RewriteStep
  <1>3. CASE \E split \in {"calibration", "validation"} :
                \E observations \in ObservationsOf(ws.manifest, split) :
                   ws' = [ws EXCEPT ![split] = observations]
    <2>1. PICK split \in {"calibration", "validation"} :
             \E observations \in ObservationsOf(ws.manifest, split) :
                ws' = [ws EXCEPT ![split] = observations]
      BY <1>3
    <2>2. PICK observations \in ObservationsOf(ws.manifest, split) : ws' = [ws EXCEPT ![split] = observations]
      BY <2>1
    <2>3. Sound(split, observations)
      BY ObservationsAreSound
    <2> QED BY <1>1, <1>5, <2>2, <2>3, DocumentNames, RewriteStep
  <1>4. CASE \E test \in ObservationsOf(ws.manifest, "test") :
                \E commitment \in {ws.commitment, Commitment(ws.manifest, test)} :
                   ws' = [ws EXCEPT !.test = test, !.commitment = commitment]
    <2>1. PICK test, commitment : ws' = [ws EXCEPT !.test = test, !.commitment = commitment]
      BY <1>4
    <2>2. /\ DOMAIN ws' = DOMAIN ws
          /\ \A n \in DOMAIN ws : n \notin {"test", "commitment"} => ws'[n] = ws[n]
      BY <2>1
    <2>3. \A document : Sound("test", document) /\ Sound("commitment", document)
      BY DEF Sound
    <2>4. Workspace'
      BY <2>2, <2>3 DEF IInv, Workspace
    <2>5. ws'.prepared = ws.prepared /\ ws'.reveal = ws.reveal
      BY <2>2, DocumentNames DEF IInv, Workspace
    <2> QED BY <1>1, <1>5, <2>4, <2>5, PeopleStep
  <1> QED BY <1>2, <1>3, <1>4 DEF EditInput

LEMMA SignStep ==
    ASSUME IInv, SignLabels \/ SignReveal \/ SignApproval PROVE IInv'
  <1>1. /\ UNCHANGED <<proc, issued, revealed, drifted, commands, crashes>>
        /\ edits' = edits \/ (edits < Edits /\ edits' = edits + 1)
    BY DEF SignLabels, SignReveal, SignApproval
  <1>5. Counts'
    BY <1>1, Bounds DEF IInv, Counts
  <1>2. CASE SignLabels
    <2>1. PICK source \in {"HUMAN_APPROVED", "SYNTHETIC"}, approved \in BOOLEAN :
             ws' = [ws EXCEPT !.labels = LabelReceipt(source, approved)]
      BY <1>2 DEF SignLabels
    <2>2. Sound("labels", LabelReceipt(source, approved))
      BY DEF Sound, LabelReceipt
    <2> QED BY <1>1, <1>5, <2>1, <2>2, DocumentNames, RewriteStep
  <1>3. CASE SignReveal
    <2>1. PICK receipt : ws' = [ws EXCEPT !.receipt = receipt]
      BY <1>3 DEF SignReveal
    <2>2. Sound("receipt", receipt)
      BY DEF Sound
    <2> QED BY <1>1, <1>5, <2>1, <2>2, DocumentNames, RewriteStep
  <1>4. CASE SignApproval
    <2>1. PICK approval : ws' = [ws EXCEPT !.approval = approval]
      BY <1>4 DEF SignApproval
    <2>2. Sound("approval", approval)
      BY DEF Sound
    <2> QED BY <1>1, <1>5, <2>1, <2>2, DocumentNames, RewriteStep
  <1> QED BY <1>2, <1>3, <1>4

-----------------------------------------------------------------------------
(* The invariant *)

LEMMA InitInvariant == Init => IInv
  <1> SUFFICES ASSUME Init PROVE IInv
    OBVIOUS
  <1> DEFINE study(plan, manifest, calibration, validation, test) ==
               [plan |-> plan, manifest |-> manifest, calibration |-> calibration,
                validation |-> validation, test |-> test,
                commitment |-> Commitment(manifest, test),
                labels |-> [plan |-> plan, manifest |-> manifest,
                            source |-> "HUMAN_APPROVED", approved |-> TRUE,
                            observed |-> <<calibration, validation, test>>],
                prepared |-> None, receipt |-> None, reveal |-> None, approval |-> None]
  <1>1. PICK plan \in Plans, samples \in Samplings :
           \E calibration \in ObservationsOf(ManifestOf(plan, samples), "calibration"),
              validation \in ObservationsOf(ManifestOf(plan, samples), "validation"),
              test \in ObservationsOf(ManifestOf(plan, samples), "test") :
             ws = study(plan, ManifestOf(plan, samples), calibration, validation, test)
    BY Zenon DEF Init
  <1>2. PICK calibration \in ObservationsOf(ManifestOf(plan, samples), "calibration"),
             validation \in ObservationsOf(ManifestOf(plan, samples), "validation"),
             test \in ObservationsOf(ManifestOf(plan, samples), "test") :
             ws = study(plan, ManifestOf(plan, samples), calibration, validation, test)
    BY <1>1
  <1>3. DOMAIN ws = Documents
    BY <1>2, DocumentNames
  <1>4. Sound("plan", ws.plan) /\ Sound("manifest", ws.manifest)
    BY <1>2, StudyAssumptions DEF Sound, ManifestOf
  <1>5. Sound("calibration", ws.calibration)
    BY <1>2, ObservationsAreSound
  <1>6. ws.labels.source = "HUMAN_APPROVED" /\ ws.prepared = None
    BY <1>2
  <1>7. Sound("labels", ws.labels) /\ Sound("prepared", ws.prepared)
    BY <1>6 DEF Sound, There
  <1>8. \A name \in Documents \ {"plan", "manifest", "calibration", "labels", "prepared"} : Sound(name, ws[name])
    BY DEF Sound
  <1>9. Workspace
    BY <1>3, <1>4, <1>5, <1>7, <1>8 DEF Workspace
  <1>10. Counts
    <2>1. edits = 0 /\ commands = 0 /\ crashes = 0 /\ drifted = FALSE
      BY DEF Init
    <2>2. edits \in 0 .. Edits /\ commands \in 0 .. Commands /\ crashes \in 0 .. Crashes
      BY <2>1, Bounds
    <2> QED BY <2>1, <2>2, Zenon DEF Counts
  <1>11. DOMAIN proc = Processes /\ \A p \in Processes : proc[p] = Idle
    BY DEF Init
  <1>12. Processing /\ Creators
    BY <1>11, IdleIsFine DEF Processing, Creators
  <1>13. Results
    BY DEF Init, Results, FrozenOnce, BindingIsEarned
  <1> QED BY <1>9, <1>10, <1>12, <1>13 DEF IInv

LEMMA Stutter == IInv /\ UNCHANGED vars => IInv'
  BY DEF vars, IInv, Workspace, Counts, Processing, Creators, Results, FrozenOnce, BindingIsEarned

LEMMA Inductive == IInv /\ [Next]_vars => IInv'
  <1> SUFFICES ASSUME IInv, [Next]_vars PROVE IInv'
    OBVIOUS
  <1>1. ASSUME NEW p \in Processes, Process(p) PROVE IInv'
    BY <1>1, StartStep, ReadStep, PrepareStep, RevealStep, ValidateStep, CompareStep,
       CreateStep, FillStep DEF Process
  <1>2. ASSUME NEW p \in Processes, Crash(p) PROVE IInv'
    BY <1>2, CrashStep
  <1>3. CASE EditInput BY <1>3, EditInputStep
  <1>4. CASE SignLabels \/ SignReveal \/ SignApproval BY <1>4, SignStep
  <1>5. CASE UNCHANGED vars BY <1>5, Stutter
  <1> QED BY <1>1, <1>2, <1>3, <1>4, <1>5 DEF Next

LEMMA AlwaysIInv == Spec => []IInv
  BY InitInvariant, Inductive, PTL DEF Spec

(* What is promised of every reachable state follows from the invariant.   *)
LEMMA Promise == IInv => BindingIsEarnedOnce
  BY DEF IInv, BindingIsEarnedOnce, TypeOK, Workspace, Counts, Processing, Fine, Results

(* A binding comes only from a study that earned it, whoever edits the     *)
(* documents while the commands read them, and the sealed test set is      *)
(* looked at for one frozen threshold (formal_study_workspace.py).         *)
THEOREM BindingEarned == Spec => []BindingIsEarnedOnce
  BY AlwaysIInv, Promise, PTL

(* What is in a report stays there: its file is created once and filled    *)
(* once, and _write_output only compares afterwards.                       *)
LEMMA ReportStays ==
    ASSUME IInv, Next, There(ws.prepared) PROVE ws'.prepared = ws.prepared
  <1>1. "prepared" \in DOMAIN ws
    BY DocumentNames DEF IInv, Workspace
  <1>2. ASSUME NEW p \in Processes, Create(p) \/ Fill(p) PROVE ws'.prepared = ws.prepared
    <2>1. ~There(ws[Output(proc[p].command)])
      <3>1. CASE Create(p) BY <3>1 DEF Create, There
      <3>2. CASE Fill(p) BY <3>2 DEF Fill, IInv, Creators, Creating, There
      <3> QED BY <1>2, <3>1, <3>2
    <2>2. Output(proc[p].command) # "prepared"
      BY <2>1
    <2> QED BY <1>1, <1>2, <2>2 DEF Create, Fill
  <1>3. ASSUME NEW p \in Processes,
               Start(p) \/ Read(p) \/ Prepare(p) \/ Reveal(p) \/ Validate(p) \/ Compare(p) \/ Crash(p)
        PROVE  ws'.prepared = ws.prepared
    BY <1>3 DEF Start, Read, Prepare, Reveal, Validate, Compare, Crash
  <1>4. CASE EditInput \/ SignLabels \/ SignReveal \/ SignApproval
    BY <1>1, <1>4 DEF EditInput, SignLabels, SignReveal, SignApproval
  <1> QED BY <1>2, <1>3, <1>4 DEF Next, Process

(* What a workspace was blocked or rejected for stays, and it never gives  *)
(* a binding nor a test result (docs: a persistent BLOCKED report).        *)
THEOREM BlockedForGood == Spec => BlockedStays
  <1> DEFINE Stays ==
               /\ (ws.prepared \notin {None, <<>>} => ws'.prepared = ws.prepared)
               /\ (ws.prepared \notin {None, <<>>} /\ ws.prepared.status # "VALIDATION_PASSED"
                     => issued' = {} /\ revealed' = {})
  <1>1. ASSUME IInv, IInv', Next PROVE Stays
    <2>1. There(ws.prepared) => ws'.prepared = ws.prepared
      BY <1>1, ReportStays
    <2>2. \A d \in issued' : d.prepared = ws'.prepared /\ d.prepared.status = "VALIDATION_PASSED"
      BY <1>1 DEF IInv, Results
    <2>3. \A r \in revealed' : r.prepared = ws'.prepared /\ r.prepared.status = "VALIDATION_PASSED"
      BY <1>1 DEF IInv, Results, FrozenOnce
    <2> QED BY <2>1, <2>2, <2>3 DEF There
  <1>2. IInv /\ IInv' /\ [Next]_vars => [Stays]_vars
    BY <1>1
  <1> HIDE DEF Stays
  <1>3. Spec => [][Stays]_vars
    BY <1>2, AlwaysIInv, PTL DEF Spec
  <1> QED BY <1>3 DEF Stays, BlockedStays


-----------------------------------------------------------------------------
(* The Preview adapter, for any number of installers, temporary names and  *)
(* documents, and any number of kills, losses of power and failures.       *)

(* What another release may have left, and what the directory may be.      *)
LeftThere == [docs |-> {}, other |-> TRUE]
Configurations == {Missing, LeftThere, Published}

(* What a reader that has found the documents goes by.                     *)
ReaderRelies ==
    /\ config \in Configurations /\ adapterDisk.config \in Configurations
    /\ reader = "listed" => config = Published
    /\ ServedIsPinned

(* What is in place at each step of an installer; what it has found or put *)
(* there stays while it is at work.                                        *)
AtWork(i) == adapterPc[i] \notin {"start", "done", "dead"}
Installs(i) ==
    /\ adapterPc[i] \in {"sync", "replace", "syncdir"} => bytes[i] = "whole"
    /\ \/ adapterPc[i] \in {"syncdir", "choose", "write", "rename", "swap", "syncroot", "clean"}
       \/ adapterPc[i] = "unlink" /\ bytes[i] = "whole"
       => weight = "good"
    /\ AtWork(i) /\ current[i] => config = Published
    /\ adapterPc[i] = "syncroot" => config = Published
    /\ adapterPc[i] \in {"write", "rename"} => staged[i] \in Directory
    /\ adapterPc[i] = "swap" => staged[i] = Published
    /\ staged[i] # Missing => adapterPc[i] \in {"write", "rename", "swap", "clean"}

(* Without kills, losses of power and failed unlinks every temporary file  *)
(* belongs to an installer that will remove it.                            *)
Removes(i) == adapterPc[i] \in {"download", "sync", "replace", "unlink"}
Owned ==
    kills = 0 /\ cuts = 0 /\ stuck = 0 =>
        \A name \in listing : \E i \in Installers : temp[i] = name /\ Removes(i)

AdapterInv == AdapterTypeOK /\ ReaderRelies /\ Owned /\ \A i \in Installers : Installs(i)

(* What the step of one installer leaves alone: the others, and a weight   *)
(* and a configuration that are as they should be.                         *)
NotTheOthers(i) ==
    \A j \in Installers \ {i} :
        /\ adapterPc'[j] = adapterPc[j] /\ current'[j] = current[j] /\ temp'[j] = temp[j]
        /\ bytes'[j] = bytes[j] /\ staged'[j] = staged[j] /\ adapterAnswer'[j] = adapterAnswer[j]
Keeps ==
    /\ weight = "good" => weight' = "good"
    /\ config' = config \/ (config = Missing /\ config' = Published)
Move(i) == Installer(i) \/ RunAgain(i) \/ InstallAgain(i) \/ Kill(i)

LEMMA PublishedExact ==
    /\ Published \in Directory /\ LeftThere \in Directory /\ EmptyDirectory \in Directory
    /\ Missing \notin Directory
    /\ \A directory \in Directory : Exact(directory) <=> directory = Published
    /\ \A directory \in Configurations : Exact(directory) <=> directory = Published
    /\ \A directory \in Configurations : Pinned(directory) <=> directory = Published
    /\ EmptyDirectory \notin Configurations
  <1> USE DEF Published, LeftThere, EmptyDirectory, Directory, Exact, Pinned, Configurations
  <1>1. /\ Published \in Directory /\ LeftThere \in Directory /\ EmptyDirectory \in Directory
        /\ Missing \notin Directory
        BY AdapterAssumptions
  <1>2. ASSUME NEW directory \in Directory
        PROVE  Exact(directory) <=> directory = Published
    <2>1. PICK docs \in SUBSET ConfigDocuments, other \in BOOLEAN :
             directory = [docs |-> docs, other |-> other]
          OBVIOUS
    <2> QED BY <1>1, <2>1
  <1>3. Published # LeftThere /\ EmptyDirectory # LeftThere /\ EmptyDirectory # Published
    <2>1. Published.docs # {} /\ LeftThere.other # EmptyDirectory.other /\ EmptyDirectory.docs = {}
          BY AdapterAssumptions
    <2>2. LeftThere.docs = {}
          OBVIOUS
    <2> QED BY <2>1, <2>2
  <1>4. ~Exact(LeftThere) /\ ~Exact(Missing) /\ Exact(Published)
    <2>1. LeftThere.other = TRUE /\ Published # Missing /\ Published.other = FALSE
          BY <1>1
    <2> QED BY <2>1
  <1>5. ~Pinned(LeftThere) /\ ~Pinned(Missing) /\ Pinned(Published)
    <2>1. LeftThere.docs = {} /\ Published # Missing /\ Published.docs = ConfigDocuments
          BY <1>1
    <2> QED BY <2>1, AdapterAssumptions
  <1>6. EmptyDirectory \notin Configurations
        BY <1>1, <1>3
  <1>7. LeftThere # Missing
        BY <1>1
  <1> QED BY <1>1, <1>2, <1>3, <1>4, <1>5, <1>6, <1>7

LEMMA MoveTypes ==
    ASSUME AdapterInv, NEW i \in Installers, Move(i)
    PROVE  AdapterTypeOK' /\ NotTheOthers(i)
  <1> AdapterTypeOK /\ Installs(i)
      BY DEF AdapterInv
  <1> USE DEF AdapterTypeOK, NotTheOthers, Go, Answer, States, Fault, Proceed, GiveUp, installing,
          files, bounds
  <1>1. CASE ReadConfig(i)
    <2>1. /\ adapterPc' \in [Installers -> States] /\ current' \in [Installers -> BOOLEAN]
          /\ adapterAnswer' \in [Installers -> {"-", "PASS", "FAIL"}]
          BY <1>1 DEF ReadConfig
    <2>2. NotTheOthers(i)
          BY <1>1 DEF ReadConfig
    <2> QED BY <1>1, <2>1, <2>2 DEF ReadConfig
  <1>2. CASE CheckWeight(i) BY <1>2 DEF CheckWeight
  <1>3. CASE Download(i) BY <1>3, AdapterAssumptions DEF Download
  <1>4. CASE SyncFile(i) BY <1>4, AdapterAssumptions DEF SyncFile
  <1>5. CASE ReplaceWeight(i) BY <1>5, AdapterAssumptions DEF ReplaceWeight
  <1>6. CASE SyncDirectory(i) BY <1>6, AdapterAssumptions DEF SyncDirectory
  <1>7. CASE UnlinkTemporary(i) BY <1>7, AdapterAssumptions DEF UnlinkTemporary
  <1>8. CASE Choose(i) BY <1>8, PublishedExact DEF Choose
  <1>9. CASE WriteDocument(i) 
    <2>1. staged[i] \in Directory
          BY <1>9 DEF WriteDocument, Installs
    <2>2. [staged[i] EXCEPT !.other = TRUE] \in Directory
          BY <2>1 DEF Directory
    <2>3. staged' \in [Installers -> Directory \cup {Missing}]
          BY <1>9, <2>2 DEF WriteDocument
    <2> QED BY <1>9, <2>3, AdapterAssumptions DEF WriteDocument
  <1>10. CASE RenameDocument(i) 
    <2>1. staged[i] \in Directory
          BY <1>10 DEF RenameDocument, Installs
    <2>2. \A document \in ConfigDocuments :
             [docs |-> staged[i].docs \cup {document}, other |-> FALSE] \in Directory
          BY <2>1 DEF Directory
    <2>3. \/ \E document \in ConfigDocuments :
                staged' = [staged EXCEPT ![i] = [docs |-> @.docs \cup {document}, other |-> FALSE]]
          \/ UNCHANGED staged
          BY <1>10 DEF RenameDocument
    <2>4. staged' \in [Installers -> Directory \cup {Missing}]
          BY <2>2, <2>3
    <2> QED BY <1>10, <2>4, AdapterAssumptions DEF RenameDocument
  <1>11. CASE SwapConfig(i) BY <1>11, AdapterAssumptions DEF SwapConfig
  <1>12. CASE SyncRuntime(i) BY <1>12, AdapterAssumptions DEF SyncRuntime
  <1>13. CASE CleanStaging(i) BY <1>13 DEF CleanStaging
  <1>14. CASE RunAgain(i) \/ InstallAgain(i)
    <2>1. Fresh(i) /\ UNCHANGED <<temp, staged, files, reader, bounds>>
          BY <1>14 DEF RunAgain, InstallAgain
    <2>2. NotTheOthers(i)
          BY <2>1 DEF Fresh
    <2> QED BY <2>1, <2>2 DEF Fresh
  <1>15. CASE Kill(i) BY <1>15, AdapterAssumptions DEF Kill
  <1> QED BY <1>1, <1>2, <1>3, <1>4, <1>5, <1>6, <1>7, <1>8, <1>9, <1>10, <1>11, <1>12, <1>13,
             <1>14, <1>15 DEF Move, Installer

LEMMA MoveKeeps ==
    ASSUME AdapterInv, NEW i \in Installers, Move(i)
    PROVE  /\ Keeps /\ UNCHANGED <<reader, parents>>
           /\ adapterDisk'.config \in {adapterDisk.config, config}
  <1> AdapterTypeOK /\ Installs(i) /\ config \in Configurations
      BY DEF AdapterInv, ReaderRelies
  <1> USE DEF Keeps, installing, files, bounds
  <1>1. CASE ReplaceWeight(i)
    <2>1. weight' \in {weight, "good"}
          BY <1>1 DEF ReplaceWeight, Installs
    <2> QED BY <1>1, <2>1 DEF ReplaceWeight
  <1>2. CASE SwapConfig(i)
    <2>1. config' = config \/ (config \in {Missing, EmptyDirectory} /\ config' = Published)
          BY <1>2 DEF SwapConfig, Installs
    <2> QED BY <1>2, <2>1, PublishedExact DEF SwapConfig
  <1>3. CASE SyncDirectory(i) \/ SyncRuntime(i)
        BY <1>3 DEF SyncDirectory, SyncRuntime, AdapterTypeOK
  <1>4. CASE ReadConfig(i) \/ CheckWeight(i) \/ Download(i) \/ SyncFile(i) \/ UnlinkTemporary(i)
             \/ Choose(i) \/ WriteDocument(i) \/ RenameDocument(i) \/ CleanStaging(i)
        BY <1>4 DEF ReadConfig, CheckWeight, Download, SyncFile, UnlinkTemporary, Choose,
           WriteDocument, RenameDocument, CleanStaging
  <1>5. CASE RunAgain(i) \/ InstallAgain(i) \/ Kill(i)
        BY <1>5 DEF RunAgain, InstallAgain, Kill
  <1> QED BY <1>1, <1>2, <1>3, <1>4, <1>5 DEF Move, Installer

LEMMA MoveReads ==
    ASSUME AdapterInv, NEW i \in Installers, Move(i)
    PROVE  ReaderRelies' /\ \A j \in Installers \ {i} : Installs(j)'
  <1>1. Keeps /\ UNCHANGED reader /\ adapterDisk'.config \in {adapterDisk.config, config}
        BY MoveKeeps
  <1>2. ReaderRelies'
        BY <1>1, PublishedExact DEF AdapterInv, ReaderRelies, Keeps, Configurations, ServedIsPinned
  <1>3. config = Published => config' = Published
        BY <1>1, PublishedExact DEF Keeps
  <1>4. ASSUME NEW j \in Installers \ {i} PROVE Installs(j)'
    <2>1. Installs(j) /\ NotTheOthers(i)
          BY MoveTypes DEF AdapterInv
    <2> QED BY <1>1, <1>3, <2>1 DEF Installs, NotTheOthers, Keeps, AtWork
  <1> QED BY <1>2, <1>4

LEMMA MoveInstalls ==
    ASSUME AdapterInv, NEW i \in Installers, Move(i)
    PROVE  Installs(i)'
  <1> AdapterTypeOK /\ Installs(i) /\ config \in Configurations
      BY DEF AdapterInv, ReaderRelies
  <1>0. Keeps /\ (config = Published => config' = Published)
        BY MoveKeeps, PublishedExact DEF Keeps
  <1> DEFINE Rest == /\ current'[i] = current[i] /\ bytes'[i] = bytes[i] /\ staged'[i] = staged[i]
  <1> USE DEF Go, Answer, Proceed, GiveUp, installing, files, bounds
  <1>1. CASE ReadConfig(i)
    <2>1. /\ adapterPc'[i] \in {"weight", "done"} /\ staged'[i] = staged[i] /\ staged[i] = Missing
          /\ UNCHANGED config
          /\ adapterPc'[i] = "weight" =>
                (config = Missing \/ Exact(config)) /\ current'[i] = (config # Missing)
          BY <1>1 DEF ReadConfig, AdapterTypeOK, Installs
    <2> QED BY <2>1, PublishedExact DEF Installs, AtWork
  <1>2. CASE CheckWeight(i)
    <2>1. /\ adapterPc[i] = "weight" /\ adapterPc'[i] \in {"choose", "download"}
          /\ current'[i] = current[i] /\ staged'[i] = staged[i]
          /\ adapterPc'[i] = "choose" => weight = "good"
          BY <1>2 DEF CheckWeight, AdapterTypeOK
    <2> QED BY <1>0, <2>1 DEF Installs, AtWork, Keeps
  <1>3. CASE Download(i)
    <2>1. /\ adapterPc[i] = "download" /\ current'[i] = current[i] /\ staged'[i] = staged[i]
          /\ \/ adapterPc'[i] = "sync" /\ bytes'[i] = "whole"
             \/ adapterPc'[i] = "unlink" /\ bytes'[i] = "short"
          BY <1>3 DEF Download, AdapterTypeOK
    <2> QED BY <1>0, <2>1 DEF Installs, AtWork
  <1>21. CASE GiveUp(i) /\ AtWork(i) /\ staged[i] = Missing /\ UNCHANGED <<current, staged>>
    <2>1. adapterPc'[i] = "unlink" /\ bytes'[i] = "short"
          BY <1>21 DEF AdapterTypeOK
    <2> QED BY <1>0, <1>21, <2>1 DEF Installs, AtWork
  <1>4. CASE SyncFile(i)
    <2>1. CASE Proceed(i, "replace")
      <3>1. adapterPc[i] = "sync" /\ adapterPc'[i] = "replace" /\ Rest
            BY <1>4, <2>1 DEF SyncFile, AdapterTypeOK
      <3> QED BY <1>0, <3>1 DEF Installs, AtWork
    <2> QED BY <1>4, <1>21, <2>1 DEF SyncFile, Installs, AtWork
  <1>5. CASE ReplaceWeight(i)
    <2>1. CASE Proceed(i, "syncdir") /\ weight' = IF bytes[i] = "whole" THEN "good" ELSE "bad"
      <3>1. adapterPc[i] = "replace" /\ adapterPc'[i] = "syncdir" /\ Rest
            BY <1>5, <2>1 DEF ReplaceWeight, AdapterTypeOK
      <3>2. weight' = "good"
            BY <2>1, <3>1 DEF Installs
      <3> QED BY <1>0, <3>1, <3>2 DEF Installs, AtWork
    <2> QED BY <1>5, <1>21, <2>1 DEF ReplaceWeight, Installs, AtWork
  <1>6. CASE SyncDirectory(i)
    <2>1. CASE Proceed(i, "unlink")
      <3>1. adapterPc[i] = "syncdir" /\ adapterPc'[i] = "unlink" /\ Rest
            BY <1>6, <2>1 DEF SyncDirectory, AdapterTypeOK
      <3> QED BY <1>0, <3>1 DEF Installs, AtWork, Keeps
    <2> QED BY <1>6, <1>21, <2>1 DEF SyncDirectory, Installs, AtWork
  <1>7. CASE UnlinkTemporary(i)
    <2>1. /\ adapterPc[i] = "unlink" /\ Rest
          /\ adapterPc'[i] = IF bytes[i] = "whole" THEN "choose" ELSE "done"
          BY <1>7 DEF UnlinkTemporary, AdapterTypeOK
    <2> QED BY <1>0, <2>1 DEF Installs, AtWork, Keeps
  <1>8. CASE Choose(i)
    <2>1. /\ adapterPc[i] = "choose" /\ current'[i] = current[i] /\ bytes'[i] = bytes[i]
          /\ \/ adapterPc'[i] = "done" /\ staged'[i] = staged[i]
             \/ adapterPc'[i] = "write" /\ staged'[i] = EmptyDirectory
          BY <1>8 DEF Choose, AdapterTypeOK
    <2> QED BY <1>0, <2>1, PublishedExact DEF Installs, AtWork, Keeps
  <1>9. CASE WriteDocument(i)
    <2>1. /\ adapterPc[i] = "write" /\ current'[i] = current[i] /\ bytes'[i] = bytes[i]
          /\ \/ adapterPc'[i] = "rename" /\ staged'[i] # Missing
             \/ adapterPc'[i] = "clean" /\ staged'[i] = staged[i]
          /\ staged'[i] \in Directory
      <3>1. staged[i] \in Directory
            BY <1>9 DEF WriteDocument, Installs
      <3>2. [staged[i] EXCEPT !.other = TRUE] \in Directory
            BY <3>1 DEF Directory
      <3> QED BY <1>9, <3>1, <3>2, PublishedExact DEF WriteDocument, AdapterTypeOK
    <2> QED BY <1>0, <2>1 DEF Installs, AtWork, Keeps
  <1>10. CASE RenameDocument(i)
    <2>1. AdapterTypeOK'
          BY MoveTypes
    <2>2. /\ adapterPc[i] = "rename" /\ current'[i] = current[i] /\ bytes'[i] = bytes[i]
          /\ \/ adapterPc'[i] = IF Exact(staged'[i]) THEN "swap" ELSE "write"
             \/ adapterPc'[i] = "clean"
          BY <1>10 DEF RenameDocument, AdapterTypeOK
    <2>3. staged'[i] # Missing
      <3>4. CASE UNCHANGED staged
            BY <2>2, <3>4, PublishedExact DEF Installs
      <3>1. CASE \E document \in ConfigDocuments :
                    staged' = [staged EXCEPT ![i] = [docs |-> @.docs \cup {document}, other |-> FALSE]]
        <4>1. PICK document \in ConfigDocuments :
                 staged' = [staged EXCEPT ![i] = [docs |-> @.docs \cup {document}, other |-> FALSE]]
              BY <3>1
        <4>2. staged[i] \in Directory
              BY <1>10 DEF RenameDocument, Installs
        <4>3. [docs |-> staged[i].docs \cup {document}, other |-> FALSE] \in Directory
              BY <4>2 DEF Directory
        <4> QED BY <4>1, <4>3, PublishedExact DEF AdapterTypeOK
      <3> QED BY <1>10, <3>1, <3>4 DEF RenameDocument
    <2>4. staged'[i] \in Directory
          BY <2>1, <2>3 DEF AdapterTypeOK
    <2> QED BY <1>0, <2>2, <2>3, <2>4, PublishedExact DEF Installs, AtWork, Keeps
  <1>11. CASE SwapConfig(i)
    <2>1. /\ adapterPc[i] = "swap" /\ current'[i] = current[i] /\ bytes'[i] = bytes[i]
          /\ \/ adapterPc'[i] = "syncroot" /\ config' = staged[i] /\ staged'[i] = Missing
             \/ adapterPc'[i] = "clean" /\ staged'[i] = staged[i]
          BY <1>11 DEF SwapConfig, AdapterTypeOK
    <2> QED BY <1>0, <2>1, PublishedExact DEF Installs, AtWork, Keeps
  <1>12. CASE SyncRuntime(i)
    <2>1. adapterPc[i] = "syncroot" /\ adapterPc'[i] = "done" /\ Rest
          BY <1>12 DEF SyncRuntime, AdapterTypeOK
    <2> QED BY <2>1 DEF Installs, AtWork
  <1>13. CASE CleanStaging(i)
    <2>1. adapterPc'[i] = "done" /\ staged'[i] = Missing
          BY <1>13 DEF CleanStaging, AdapterTypeOK
    <2> QED BY <2>1 DEF Installs, AtWork
  <1>14. CASE RunAgain(i) \/ InstallAgain(i)
    <2>1. adapterPc[i] \in {"done", "dead"} /\ adapterPc'[i] = "start" /\ staged'[i] = staged[i]
          BY <1>14 DEF RunAgain, InstallAgain, Fresh, AdapterTypeOK
    <2> QED BY <2>1 DEF Installs, AtWork
  <1>15. CASE Kill(i)
    <2>1. adapterPc'[i] = "dead" /\ staged'[i] = Missing
          BY <1>15 DEF Kill, AdapterTypeOK
    <2> QED BY <2>1 DEF Installs, AtWork
  <1> QED BY <1>1, <1>2, <1>3, <1>4, <1>5, <1>6, <1>7, <1>8, <1>9, <1>10, <1>11, <1>12, <1>13,
             <1>14, <1>15 DEF Move, Installer

LEMMA MoveOwned ==
    ASSUME AdapterInv, NEW i \in Installers, Move(i)
    PROVE  Owned'
  <1> AdapterTypeOK /\ Owned /\ NotTheOthers(i)
      BY MoveTypes DEF AdapterInv
  <1> USE DEF Go, Answer, Proceed, GiveUp, installing, files, bounds
  <1>1. ASSUME UNCHANGED <<kills, cuts, listing>>, stuck' = stuck,
               Removes(i) => temp'[i] = temp[i] /\ Removes(i)'
        PROVE  Owned'
        BY <1>1 DEF Owned, NotTheOthers, Removes
  <1>2. CASE CheckWeight(i)
    <2>1. CASE weight = "good"
          BY <1>1, <1>2, <2>1 DEF CheckWeight, Removes
    <2>2. CASE weight # "good"
      <3>1. PICK name \in Names \ listing :
               /\ temp' = [temp EXCEPT ![i] = name] /\ listing' = listing \cup {name}
               /\ Go(i, "download")
            BY <1>2, <2>2 DEF CheckWeight
      <3>2. temp'[i] = name /\ Removes(i)' /\ ~Removes(i) /\ UNCHANGED <<kills, cuts, stuck>>
            BY <1>2, <3>1 DEF CheckWeight, Removes, AdapterTypeOK
      <3> QED BY <3>1, <3>2 DEF Owned, NotTheOthers, Removes
    <2> QED BY <2>1, <2>2
  <1>8. CASE ReplaceWeight(i) /\ GiveUp(i) /\ UNCHANGED listing
        BY <1>1, <1>8 DEF ReplaceWeight, Removes, AdapterTypeOK
  <1>3. CASE (ReplaceWeight(i) /\ listing' = listing \ {temp[i]}) \/ UnlinkTemporary(i)
    <2>1. /\ UNCHANGED <<kills, cuts>>
          /\ (stuck' = stuck /\ listing' = listing \ {temp[i]}) \/ stuck' = stuck + 1
          BY <1>3 DEF ReplaceWeight, UnlinkTemporary
    <2>2. stuck \in Nat
          BY DEF AdapterTypeOK
    <2> QED BY <2>1, <2>2 DEF Owned, NotTheOthers, Removes
  <1>4. CASE Download(i) \/ SyncFile(i)
        BY <1>1, <1>4 DEF Download, SyncFile, Removes, AdapterTypeOK
  <1>5. CASE ReadConfig(i) \/ SyncDirectory(i) \/ Choose(i) \/ WriteDocument(i) \/ RenameDocument(i)
             \/ SwapConfig(i) \/ SyncRuntime(i) \/ CleanStaging(i)
    <2>1. ~Removes(i) /\ UNCHANGED <<kills, cuts, stuck, listing>>
          BY <1>5 DEF ReadConfig, SyncDirectory, Choose, WriteDocument, RenameDocument, SwapConfig,
             SyncRuntime, CleanStaging, Removes
    <2> QED BY <1>1, <2>1
  <1>6. CASE RunAgain(i) \/ InstallAgain(i)
    <2>1. ~Removes(i) /\ UNCHANGED <<kills, cuts, stuck, listing>>
          BY <1>6 DEF RunAgain, InstallAgain, Removes
    <2> QED BY <1>1, <2>1
  <1>7. CASE Kill(i)
    <2>1. kills' # 0
          BY <1>7 DEF Kill, AdapterTypeOK
    <2> QED BY <2>1 DEF Owned
  <1>9. ReplaceWeight(i) => (GiveUp(i) /\ UNCHANGED listing) \/ listing' = listing \ {temp[i]}
        BY DEF ReplaceWeight
  <1>10. CASE ReplaceWeight(i)
        BY <1>3, <1>8, <1>9, <1>10
  <1>11. CASE UnlinkTemporary(i)
        BY <1>3, <1>11
  <1> QED BY <1>2, <1>4, <1>5, <1>6, <1>7, <1>10, <1>11 DEF Move, Installer

LEMMA ReaderStep ==
    ASSUME AdapterInv, Reader
    PROVE  AdapterInv' /\ UNCHANGED <<installing, files, bounds>>
  <1> USE DEF installing, files, bounds
  <1>1. UNCHANGED <<installing, files, bounds>> /\ AdapterTypeOK'
        BY DEF Reader, ListAdapter, HashAdapter, CloseAdapter, AdapterInv, AdapterTypeOK
  <1>2. ReaderRelies'
        BY <1>1, PublishedExact DEF Reader, ListAdapter, HashAdapter, CloseAdapter, Loads, HashMatches,
           AdapterInv, ReaderRelies, ServedIsPinned
  <1>3. Owned' /\ \A i \in Installers : Installs(i)'
        BY <1>1 DEF AdapterInv, Owned, Removes, Installs, AtWork
  <1> QED BY <1>1, <1>2, <1>3 DEF AdapterInv

LEMMA PowerStep ==
    ASSUME AdapterInv, LosePower
    PROVE  AdapterInv'
  <1> AdapterTypeOK /\ ReaderRelies
      BY DEF AdapterInv
  <1>1. /\ weight' \in {weight, adapterDisk.weight} /\ config' \in {config, adapterDisk.config}
        /\ listing' \in {listing, {}} /\ adapterDisk' = [weight |-> weight', config |-> config']
        BY DEF LosePower
  <1>2. AdapterTypeOK'
        BY <1>1, AdapterAssumptions DEF LosePower, AdapterTypeOK, States
  <1>3. ReaderRelies'
        BY <1>1 DEF LosePower, ReaderRelies, ServedIsPinned
  <1>4. Owned'
        BY DEF LosePower, Owned, AdapterTypeOK
  <1>5. ASSUME NEW i \in Installers PROVE Installs(i)'
    <2>1. adapterPc'[i] \in {"done", "dead"} /\ staged'[i] = Missing
          BY DEF LosePower
    <2> QED BY <2>1 DEF Installs, AtWork
  <1> QED BY <1>2, <1>3, <1>4, <1>5 DEF AdapterInv

LEMMA AdapterInitially ==
    ASSUME AdapterInit PROVE AdapterInv
  <1>1. AdapterTypeOK
    <2>1. 0 \in 0 .. MaxKills /\ 0 \in 0 .. PowerCuts /\ 0 \in 0 .. Faults /\ 0 \in 0 .. Stuck
          BY AdapterAssumptions
    <2>2. config \in Directory \cup {Missing}
          BY PublishedExact DEF AdapterInit, LeftThere
    <2> QED BY <2>1, <2>2 DEF AdapterInit, AdapterTypeOK, States
  <1>2. ReaderRelies /\ Owned
        BY DEF AdapterInit, ReaderRelies, Owned, ServedIsPinned, Configurations, LeftThere
  <1>3. \A i \in Installers : Installs(i)
        BY DEF AdapterInit, Installs, AtWork
  <1> QED BY <1>1, <1>2, <1>3 DEF AdapterInv

LEMMA AdapterStep ==
    ASSUME AdapterInv, [AdapterNext]_adapterVars
    PROVE  AdapterInv'
  <1>1. ASSUME NEW i \in Installers, Move(i) PROVE AdapterInv'
        BY <1>1, MoveTypes, MoveReads, MoveInstalls, MoveOwned DEF AdapterInv
  <1>2. CASE UNCHANGED adapterVars
        BY <1>2 DEF adapterVars, installing, files, bounds, AdapterInv, AdapterTypeOK, ReaderRelies,
           ServedIsPinned, Owned, Removes, Installs, AtWork
  <1> QED BY <1>1, <1>2, ReaderStep, PowerStep DEF AdapterNext, Move

(* Only the replacement of the staged directory changes the configuration. *)
LEMMA AdapterConfig ==
    ASSUME AdapterInv, [AdapterNext]_adapterVars, config' # config, cuts' = cuts
    PROVE  config = Missing /\ Exact(config')
  <1>1. ~LosePower
        BY DEF LosePower, AdapterInv, AdapterTypeOK
  <1>2. PICK i \in Installers : Move(i)
        BY <1>1, ReaderStep DEF AdapterNext, Move, adapterVars, files
  <1> QED BY <1>2, MoveKeeps, PublishedExact DEF Keeps

(* An installer says PASS in two places.                                   *)
LEMMA AdapterPass ==
    ASSUME AdapterInv, [AdapterNext]_adapterVars, NEW i \in Installers,
           adapterAnswer[i] = "-", adapterAnswer'[i] = "PASS"
    PROVE  weight = "good" /\ Exact(config)
  <1> AdapterTypeOK /\ Installs(i)
      BY DEF AdapterInv
  <1>1. ~Reader /\ ~LosePower /\ ~UNCHANGED adapterVars
        BY ReaderStep DEF LosePower, adapterVars, installing
  <1>2. PICK j \in Installers : Move(j)
        BY <1>1 DEF AdapterNext, Move
  <1>3. Move(i)
        BY <1>2, MoveTypes DEF NotTheOthers
  <1>4. CASE Choose(i)
    <2>1. adapterPc[i] = "choose" /\ current[i]
          BY <1>4 DEF Choose
    <2> QED BY <2>1, PublishedExact DEF Installs, AtWork
  <1>5. CASE SyncRuntime(i)
        BY <1>5, PublishedExact DEF SyncRuntime, Installs
  <1>6. CASE ReadConfig(i) \/ UnlinkTemporary(i) \/ CleanStaging(i)
        BY <1>6 DEF ReadConfig, UnlinkTemporary, CleanStaging, Answer, AdapterTypeOK
  <1>7. CASE CheckWeight(i) \/ Download(i) \/ SyncFile(i) \/ ReplaceWeight(i) \/ SyncDirectory(i)
             \/ WriteDocument(i) \/ RenameDocument(i) \/ SwapConfig(i)
        BY <1>7 DEF CheckWeight, Download, SyncFile, ReplaceWeight, SyncDirectory, WriteDocument,
           RenameDocument, SwapConfig
  <1>8. CASE RunAgain(i) \/ InstallAgain(i) \/ Kill(i)
        BY <1>8 DEF RunAgain, InstallAgain, Kill, Fresh, AdapterTypeOK
  <1> QED BY <1>3, <1>4, <1>5, <1>6, <1>7, <1>8 DEF Move, Installer

(* Preview serves the pinned adapter only, and an installer leaves nothing *)
(* beside it; it publishes the whole configuration or nothing, and says    *)
(* PASS when everything is in place (install_preview_adapter and           *)
(* verify_preview_adapter).                                                *)
THEOREM AdapterPinned ==
    AdapterSpec => AdapterIsPinned
  <1>1. AdapterInit => AdapterInv
        BY AdapterInitially
  <1>2. AdapterInv /\ [AdapterNext]_adapterVars => AdapterInv'
        BY AdapterStep
  <1>3. AdapterInv => AdapterTypeOK /\ ServedIsPinned /\ NoLitter
    <2> HAVE AdapterInv
    <2>1. ASSUME kills = 0, cuts = 0, stuck = 0, \A i \in Installers : adapterPc[i] = "done"
          PROVE  listing = {} /\ \A i \in Installers : staged[i] = Missing
          BY <2>1 DEF AdapterInv, Owned, Removes, Installs
    <2> QED BY <2>1 DEF AdapterInv, ReaderRelies, NoLitter
  <1>4. AdapterInv /\ [AdapterNext]_adapterVars =>
           [config' # config /\ cuts' = cuts => config = Missing /\ Exact(config')]_adapterVars
        BY AdapterConfig
  <1>5. AdapterInv /\ [AdapterNext]_adapterVars =>
           [\A i \in Installers :
               adapterAnswer[i] = "-" /\ adapterAnswer'[i] = "PASS" /\ cuts = 0
                 => weight = "good" /\ Exact(config)]_adapterVars
        BY AdapterPass
  <1>6. AdapterSpec => ConfigWholeOrUntouched
        BY <1>1, <1>2, <1>4, PTL DEF AdapterSpec, ConfigWholeOrUntouched
  <1>7. AdapterSpec => PassIsInstalled
        BY <1>1, <1>2, <1>5, PTL DEF AdapterSpec, PassIsInstalled
  <1>8. AdapterSpec => [](AdapterTypeOK /\ ServedIsPinned /\ NoLitter)
        BY <1>1, <1>2, <1>3, PTL DEF AdapterSpec
  <1> QED BY <1>6, <1>7, <1>8 DEF AdapterIsPinned
=============================================================================
