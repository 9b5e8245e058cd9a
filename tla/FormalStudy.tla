---------------------------- MODULE FormalStudy ----------------------------
(***************************************************************************)
(* The held-out study of one metric (calibration/formal_study_workspace.py, *)
(* formal_evidence.py, formal_approval.py, threshold_search.py, splits.py): *)
(* prepare freezes a threshold on calibration and validation labels, reveal *)
(* scores it once on the sealed test set, validate rebuilds the chain and   *)
(* issues a binding.  Commands run as processes that read the documents of  *)
(* a directory one after the other, while people still edit them, and may   *)
(* be killed while they write their output.                                 *)
(*                                                                          *)
(* A digest is modelled by the document it is the digest of.                *)
(***************************************************************************)
EXTENDS Naturals, FiniteSets, Sequences

CONSTANTS
    Processes,    \* invocations of the command line at work at one time
    Plans,        \* study plans: operator, targets in percent, minimum labels
    Samplings,    \* what a sample manifest may list
    Split,        \* assign_split: the split of an isolation group
    Readings,     \* what may be observed of a sample: its score and its label
    Commands,     \* bound: commands started
    Edits,        \* bound: documents rewritten after the start
    Crashes,      \* bound: processes killed
    None

Splits == {"calibration", "validation", "test"}

VARIABLES
    ws,        \* the workspace: each document, None, or <<>> when it is torn
    proc,      \* each process: command, names left to read, documents read
    issued,    \* the bindings validate_metric_workspace has returned
    revealed,  \* the test results reveal_workspace has computed
    drifted,   \* "formal study output drift" was answered
    edits, commands, crashes

vars == <<ws, proc, issued, revealed, drifted, edits, commands, crashes>>

-----------------------------------------------------------------------------
(***************************************************************************)
(* Samples.  A manifest is refused when a sample is not in the split of its *)
(* isolation group, or when a group, a family or a candidate is in two.     *)
(***************************************************************************)
OneSplit(samples, field) ==
    \A s, t \in samples : s[field] = t[field] => s.split = t.split

PartitionSamples(manifest) ==
    /\ \A s \in manifest.samples : s.split = Split[s.group]
    /\ \A field \in {"group", "family", "candidate"} : OneSplit(manifest.samples, field)
    /\ \A s, t \in manifest.samples : s.id = t.id \/ s.candidate = t.candidate => s = t

Ids(manifest, split) == {s.id : s \in {t \in manifest.samples : t.split = split}}

(***************************************************************************)
(* Rates.  passes, true and false positives, and the targets of the plan.   *)
(***************************************************************************)
Passes(score, threshold, operator) ==
    IF operator = "gte" THEN score >= threshold ELSE score <= threshold

Positives(pairs) == {id \in DOMAIN pairs : pairs[id].positive}
Negatives(pairs) == DOMAIN pairs \ Positives(pairs)

Hits(pairs, ids, threshold, operator) ==
    Cardinality({id \in ids : Passes(pairs[id].score, threshold, operator)})

MeetsTargets(pairs, threshold, plan) ==
    LET positive == Positives(pairs)
        negative == Negatives(pairs)
    IN  /\ 100 * Hits(pairs, positive, threshold, plan.operator)
             >= plan.minTpr * Cardinality(positive)
        /\ 100 * Hits(pairs, negative, threshold, plan.operator)
             <= plan.maxFpr * Cardinality(negative)

Scores(pairs) == {pairs[id].score : id \in DOMAIN pairs}
Good(pairs, plan) == {score \in Scores(pairs) : MeetsTargets(pairs, score, plan)}

\* The grid is tried from the strictest score on, whatever the operator: the first
\* that meets the targets passes whatever the others do, or there is None.
SelectThreshold(pairs, plan) ==
    IF Good(pairs, plan) = {} THEN None
    ELSE CHOOSE score \in Good(pairs, plan) :
            \A other \in Good(pairs, plan) : Passes(score, other, plan.operator)

EnoughLabels(pairs, plan) ==
    /\ Cardinality(Positives(pairs)) >= plan.least
    /\ Cardinality(Negatives(pairs)) >= plan.least

-----------------------------------------------------------------------------
(***************************************************************************)
(* Documents.  Observations name their manifest and split; the commitment   *)
(* names the sealed test observations and their label counts; a label       *)
(* receipt names plan, manifest and the three sets of observations.         *)
(***************************************************************************)
Commitment(manifest, test) ==
    [manifest |-> manifest, sealed |-> test, ids |-> DOMAIN test.pairs,
     positive |-> Cardinality(Positives(test.pairs)),
     negative |-> Cardinality(Negatives(test.pairs))]

Observes(observations, manifest, split) ==
    /\ observations.manifest = manifest /\ observations.split = split
    /\ DOMAIN observations.pairs = Ids(manifest, split)

Commits(commitment, manifest) ==
    /\ commitment.manifest = manifest
    /\ commitment.ids = Ids(manifest, "test")
    /\ commitment.positive > 0 /\ commitment.negative > 0
    /\ commitment.positive + commitment.negative = Cardinality(commitment.ids)

LabelsBind(labels, d) ==
    /\ labels.plan = d.plan /\ labels.manifest = d.manifest
    /\ labels.observed = <<d.calibration, d.validation, d.commitment.sealed>>

\* What prepare_metric_evidence requires of the documents it was given.
Bound(d) ==
    /\ d.manifest.plan = d.plan
    /\ PartitionSamples(d.manifest)
    /\ Observes(d.calibration, d.manifest, "calibration")
    /\ Observes(d.validation, d.manifest, "validation")
    /\ Commits(d.commitment, d.manifest)
    /\ LabelsBind(d.labels, d)

Report(d, status, threshold) ==
    [plan |-> d.plan, manifest |-> d.manifest, labels |-> d.labels,
     commitment |-> d.commitment, status |-> status, threshold |-> threshold]

\* _blocked_reason: the labels are a person's and they are approved.
Blocked(labels) == labels.source = "SYNTHETIC" \/ ~labels.approved

\* _freeze: enough labels in each split, a threshold from calibration alone,
\* which validation then confirms or rejects.
Freeze(d) ==
    LET threshold == SelectThreshold(d.calibration.pairs, d.plan)
    IN  IF \/ ~EnoughLabels(d.calibration.pairs, d.plan)
           \/ ~EnoughLabels(d.validation.pairs, d.plan)
           \/ d.commitment.positive < d.plan.least
           \/ d.commitment.negative < d.plan.least
          THEN Report(d, "BLOCKED", None)
        ELSE IF threshold = None THEN Report(d, "REJECTED", None)
        ELSE IF MeetsTargets(d.validation.pairs, threshold, d.plan)
          THEN Report(d, "VALIDATION_PASSED", threshold)
          ELSE Report(d, "REJECTED", threshold)

PrepareEvidence(d) ==
    IF Blocked(d.labels) THEN Report(d, "BLOCKED", None) ELSE Freeze(d)

\* What reveal_metric_test requires: a report that passed, the very test
\* observations the study committed to, and a receipt that names both.
RevealAnyTest(d) ==  \* mutant: the receipt is believed about the test set
    /\ d.prepared.status = "VALIDATION_PASSED"
    /\ d.test.split = "test" /\ d.test.manifest = d.prepared.manifest
    /\ d.receipt.approved /\ d.receipt.prepared = d.prepared

RevealBound(d) ==
    /\ d.prepared.status = "VALIDATION_PASSED"
    /\ d.test.split = "test" /\ d.test.manifest = d.prepared.manifest
    /\ DOMAIN d.test.pairs = d.prepared.commitment.ids
    /\ Cardinality(Positives(d.test.pairs)) = d.prepared.commitment.positive
    /\ d.receipt.approved /\ d.receipt.prepared = d.prepared
    /\ d.receipt.sealed = d.test
    /\ d.receipt.sealed = d.prepared.commitment.sealed

RevealTest(d) ==
    [prepared |-> d.prepared, test |-> d.test, receipt |-> d.receipt,
     status |-> IF MeetsTargets(d.test.pairs, d.prepared.threshold, d.prepared.plan)
                  THEN "TEST_PASSED" ELSE "REJECTED"]

\* _rebuild_metric_evidence: both outputs are computed again from their inputs.
Rebuilt(d) ==
    /\ Bound(d) /\ PrepareEvidence(d) = d.prepared
    /\ RevealBound(d) /\ RevealTest(d) = d.reveal

\* The approval's own _prepared and _reveal: the numbers in the two reports
\* are checked once more against the targets they carry.
ReportsHold(d) ==
    LET meets(observations) ==
          MeetsTargets(observations.pairs, d.prepared.threshold, d.prepared.plan)
    IN  /\ d.prepared.status = "VALIDATION_PASSED"
        /\ meets(d.prepared.labels.observed[1]) /\ meets(d.prepared.labels.observed[2])
        /\ d.reveal.prepared = d.prepared /\ d.reveal.status = "TEST_PASSED"
        /\ meets(d.reveal.test)

\* _validate_metric_approval.
Approves(d) ==
    /\ d.approval.approved
    /\ d.approval.prepared = d.prepared /\ d.approval.reveal = d.reveal
    /\ d.approval.threshold = d.prepared.threshold

-----------------------------------------------------------------------------
Inputs == <<"plan", "manifest", "calibration", "validation", "commitment", "labels">>

\* The documents a command reads, in its order.
Reads == [prepare |-> Inputs,
          reveal |-> <<"prepared", "test", "receipt">>,
          validate |-> <<"plan", "manifest", "calibration", "validation", "commitment", "labels",
                         "prepared", "test", "receipt", "reveal", "approval">>]

NamesIn(names) == {names[n] : n \in DOMAIN names}
Documents == NamesIn(Reads.validate)

Work(command, left, held, output) ==
    [command |-> command, left |-> left, held |-> held, output |-> output]
Idle == Work("-", <<>>, <<>>, None)

\* What a process has read, by name, with one document more.
With(held, name, document) ==
    [n \in DOMAIN held \cup {name} |-> IF n = name THEN document ELSE held[n]]

Output(command) == IF command = "prepare" THEN "prepared" ELSE "reveal"

Start(p) ==
    /\ proc[p] = Idle /\ commands < Commands
    /\ \E command \in DOMAIN Reads :
         proc' = [proc EXCEPT ![p] = Work(command, Reads[command], <<>>, None)]
    /\ commands' = commands + 1
    /\ UNCHANGED <<ws, issued, revealed, drifted, edits, crashes>>

\* _read: a document that is missing or torn ends the command.
Read(p) ==
    /\ proc[p].left # <<>>
    /\ LET old == proc[p]
           name == Head(old.left)
       IN  proc' = [proc EXCEPT ![p] =
             IF ws[name] \in {None, <<>>} THEN Idle
             ELSE Work(old.command, Tail(old.left), With(old.held, name, ws[name]), None)]
    /\ UNCHANGED <<ws, issued, revealed, drifted, edits, commands, crashes>>

Ready(p, command) ==
    /\ proc[p].command = command /\ proc[p].left = <<>> /\ proc[p].output = None

\* prepare_workspace and reveal_workspace compute their output from what they
\* read, or end with an error.
Prepare(p) ==
    /\ Ready(p, "prepare")
    /\ LET d == proc[p].held
       IN  proc' = [proc EXCEPT ![p] =
             IF Bound(d) THEN Work("prepare", <<>>, d, PrepareEvidence(d)) ELSE Idle]
    /\ UNCHANGED <<ws, issued, revealed, drifted, edits, commands, crashes>>

Reveal(p) ==
    /\ Ready(p, "reveal")
    /\ LET d == proc[p].held
       IN  IF RevealBound(d)
             THEN /\ proc' = [proc EXCEPT ![p] = Work("reveal", <<>>, d, RevealTest(d))]
                  /\ revealed' = revealed \cup {RevealTest(d)}
             ELSE /\ proc' = [proc EXCEPT ![p] = Idle]
                  /\ UNCHANGED revealed
    /\ UNCHANGED <<ws, issued, drifted, edits, commands, crashes>>

Validate(p) ==
    /\ Ready(p, "validate")
    /\ LET d == proc[p].held
       IN  issued' = IF Rebuilt(d) /\ ReportsHold(d) /\ Approves(d) THEN issued \cup {d} ELSE issued
    /\ proc' = [proc EXCEPT ![p] = Idle]
    /\ UNCHANGED <<ws, revealed, drifted, edits, commands, crashes>>

\* _write_output: a file that is there is only compared.  Of a torn one the part
\* that was written differs, an empty one is refused by _read.
Overwrite(p) ==  \* mutant: the output replaces what an earlier command wrote
    /\ proc[p].output # None
    /\ ws' = [ws EXCEPT ![Output(proc[p].command)] = proc[p].output]
    /\ proc' = [proc EXCEPT ![p] = Idle]
    /\ UNCHANGED <<issued, revealed, drifted, edits, commands, crashes>>

Compare(p) ==
    LET name == Output(proc[p].command)
    IN  /\ proc[p].output # None /\ ws[name] # None
        /\ proc[p].held # <<>>
        /\ \/ drifted' = (drifted \/ ws[name] # proc[p].output)
           \/ ws[name] = <<>> /\ UNCHANGED drifted
        /\ proc' = [proc EXCEPT ![p] = Idle]
        /\ UNCHANGED <<ws, issued, revealed, edits, commands, crashes>>

\* The file is created first, empty, and its bytes follow.
Create(p) ==
    LET old == proc[p]
        name == Output(old.command)
    IN  /\ old.output # None /\ ws[name] = None
        /\ ws' = [ws EXCEPT ![name] = <<>>]
        /\ proc' = [proc EXCEPT ![p] = Work(old.command, <<>>, <<>>, old.output)]
        /\ UNCHANGED <<issued, revealed, drifted, edits, commands, crashes>>

Fill(p) ==
    /\ proc[p].output # None /\ proc[p].held = <<>>
    /\ ws' = [ws EXCEPT ![Output(proc[p].command)] = proc[p].output]
    /\ proc' = [proc EXCEPT ![p] = Idle]
    /\ UNCHANGED <<issued, revealed, drifted, edits, commands, crashes>>

Crash(p) ==
    /\ proc[p] # Idle /\ crashes < Crashes
    /\ crashes' = crashes + 1
    /\ proc' = [proc EXCEPT ![p] = Idle]
    /\ UNCHANGED <<ws, issued, revealed, drifted, edits, commands>>

Process(p) ==
    \/ Start(p) \/ Read(p) \/ Prepare(p) \/ Reveal(p) \/ Validate(p)
    \/ Compare(p) \/ Create(p) \/ Fill(p)

-----------------------------------------------------------------------------
(***************************************************************************)
(* The people of the study.  An author rewrites an input against the other  *)
(* documents as they are; an authority signs what is in the workspace.      *)
(***************************************************************************)
\* A manifest lists finitely many samples, scores are compared as numbers, and a plan
\* has one of the two operators.  A missing document is not an empty one.
ASSUME StudyAssumptions ==
    /\ \A samples \in Samplings : IsFiniteSet(samples)
    /\ \A reading \in Readings : reading.score \in Nat
    /\ \A plan \in Plans : plan.operator \in {"gte", "lte"}
    /\ {Commands, Edits, Crashes} \subseteq Nat /\ None # <<>>

ManifestOf(plan, samples) == [plan |-> plan, samples |-> samples]

ObservationsOf(manifest, split) ==
    {[manifest |-> manifest, split |-> split, pairs |-> pairs] :
       pairs \in {f \in [Ids(manifest, split) -> Readings] :
                    \A s \in manifest.samples :
                      s.id \in DOMAIN f => f[s.id].positive = s.positive}}

EditInput ==
    /\ edits < Edits /\ edits' = edits + 1
    /\ \/ \E plan \in Plans :
            ws' = [ws EXCEPT !.plan = plan]
       \/ \E split \in {"calibration", "validation"} :
            \E observations \in ObservationsOf(ws.manifest, split) :
              ws' = [ws EXCEPT ![split] = observations]
       \/ \E test \in ObservationsOf(ws.manifest, "test") :
            \E commitment \in {ws.commitment, Commitment(ws.manifest, test)} :
              ws' = [ws EXCEPT !.test = test, !.commitment = commitment]
    /\ UNCHANGED <<proc, issued, revealed, drifted, commands, crashes>>

LabelReceipt(source, approved) ==
    [plan |-> ws.plan, manifest |-> ws.manifest, source |-> source, approved |-> approved,
     observed |-> <<ws.calibration, ws.validation, ws.commitment.sealed>>]

SignLabels ==
    /\ \E source \in {"HUMAN_APPROVED", "SYNTHETIC"}, approved \in BOOLEAN :
         ws' = [ws EXCEPT !.labels = LabelReceipt(source, approved)]
    /\ edits < Edits /\ edits' = edits + 1
    /\ UNCHANGED <<proc, issued, revealed, drifted, commands, crashes>>

SignReveal ==
    /\ ws.prepared \notin {None, <<>>} /\ ws.receipt = None
    /\ ws' = [ws EXCEPT !.receipt = [prepared |-> ws.prepared, sealed |-> ws.test,
                                     approved |-> TRUE]]
    /\ UNCHANGED <<proc, issued, revealed, drifted, edits, commands, crashes>>

SignApproval ==
    /\ ws.prepared \notin {None, <<>>} /\ ws.reveal \notin {None, <<>>}
    /\ ws.approval = None
    /\ ws' = [ws EXCEPT !.approval = [prepared |-> ws.prepared, reveal |-> ws.reveal,
                                      threshold |-> ws.prepared.threshold,
                                      approved |-> TRUE]]
    /\ UNCHANGED <<proc, issued, revealed, drifted, edits, commands, crashes>>

Init ==
    /\ \E plan \in Plans, samples \in Samplings :
         LET manifest == ManifestOf(plan, samples)
         IN  \E calibration \in ObservationsOf(manifest, "calibration"),
                validation \in ObservationsOf(manifest, "validation"),
                test \in ObservationsOf(manifest, "test") :
               ws = [plan |-> plan, manifest |-> manifest, calibration |-> calibration,
                     validation |-> validation, test |-> test,
                     commitment |-> Commitment(manifest, test),
                     labels |-> [plan |-> plan, manifest |-> manifest,
                                 source |-> "HUMAN_APPROVED", approved |-> TRUE,
                                 observed |-> <<calibration, validation, test>>],
                     prepared |-> None, receipt |-> None, reveal |-> None,
                     approval |-> None]
    /\ proc = [p \in Processes |-> Idle]
    /\ issued = {} /\ revealed = {} /\ drifted = FALSE
    /\ edits = 0 /\ commands = 0 /\ crashes = 0

Next ==
    \/ \E p \in Processes : Process(p) \/ Crash(p)
    \/ EditInput \/ SignLabels \/ SignReveal \/ SignApproval

Spec == Init /\ [][Next]_vars

-----------------------------------------------------------------------------
TypeOK ==
    /\ DOMAIN ws = Documents
    /\ \A p \in Processes :
         \/ proc[p] = Idle
         \/ /\ proc[p].command \in DOMAIN Reads
            /\ \/ DOMAIN proc[p].held \cup NamesIn(proc[p].left) = NamesIn(Reads[proc[p].command])
               \/ proc[p].output # None
    /\ edits \in 0..Edits /\ commands \in 0..Commands /\ crashes \in 0..Crashes
    /\ drifted \in BOOLEAN

\* What a study must have done to be worth a binding: no source family is in two
\* splits, a person approved exactly these labels, the threshold is the strictest
\* calibration score that meets the targets, and it meets them on validation and
\* on the test set the commitment named.
Earned(d) ==
    LET threshold == d.approval.threshold
        stricter(score) == score # threshold /\ Passes(score, threshold, d.plan.operator)
    IN  /\ \A s, t \in d.manifest.samples : s.family = t.family => s.split = t.split
        /\ d.labels.source = "HUMAN_APPROVED" /\ d.labels.approved
        /\ d.labels.observed = <<d.calibration, d.validation, d.test>>
        /\ \A pairs \in {d.calibration.pairs, d.validation.pairs, d.test.pairs} :
             MeetsTargets(pairs, threshold, d.plan)
        /\ \A id \in DOMAIN d.calibration.pairs :
             stricter(d.calibration.pairs[id].score)
               => ~MeetsTargets(d.calibration.pairs, d.calibration.pairs[id].score, d.plan)

\* A binding comes only from a study that earned it, however the documents were
\* edited while the commands read them.
BindingIsEarned == \A d \in issued : Earned(d)

\* The sealed test set is looked at for one frozen threshold only: every result
\* ever revealed in a workspace is about the report that is still in it, which
\* passed validation, and about the test set it committed to.
FrozenOnce ==
    \A r \in revealed :
      /\ r.prepared = ws.prepared
      /\ r.prepared.status = "VALIDATION_PASSED"
      /\ r.test = r.prepared.labels.observed[3]

\* A binding comes only from a study that earned it, and the sealed test set is
\* looked at for one frozen threshold.
BindingIsEarnedOnce == TypeOK /\ BindingIsEarned /\ FrozenOnce

\* "Synthetic or unapproved labels produce a persistent BLOCKED report": what a
\* workspace was blocked or rejected for stays, and it never gives a binding.
BlockedStays ==
    [][/\ (ws.prepared \notin {None, <<>>} => ws'.prepared = ws.prepared)
       /\ (ws.prepared \notin {None, <<>>} /\ ws.prepared.status # "VALIDATION_PASSED"
             => issued' = {} /\ revealed' = {})]_vars

=============================================================================
