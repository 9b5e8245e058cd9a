---------------------------- MODULE MCJudgement -------------------------------
(*****************************************************************************)
(* What judges an artifact, in one model: the production context with its    *)
(* thresholds, as it is read, checked and issued, and the verifier that is   *)
(* bound to one artifact.                                                    *)
(*                                                                           *)
(* A verifier is bound to a context that was issued and is not changed       *)
(* again, so the two share no variable: a behaviour takes the steps of one   *)
(* of them, and the other stays as it began.                                 *)
(*****************************************************************************)
EXTENDS ProductionContext, BoundVerifier

VARIABLE part   \* the component whose steps this behaviour takes

\* Contexts: two target cells that differ in the encoder, the preprocessor and the
\* plugin; three metrics; one study that failed, one that passed with another threshold;
\* the approvals of the first cell's profiles, one of them signed over the failed study.
T(i) == [enc |-> <<"enc", i>>, pre |-> <<"pre", i>>, plug |-> <<"plug", i>>]
C(i, x, v, ok) == [target |-> T(i), metric |-> x, value |-> v, passed |-> ok]
A(c) == [chain |-> c, value |-> c.value]
P(i, s, as) == [target |-> T(i), source |-> s, metrics |-> as]

MCL2 == {"batch", "reference"}
MCL3 == {"structure"}
Good == [x \in MCL2 \cup MCL3 |-> C(1, x, 1, TRUE)]
Laxer == C(1, "reference", 2, TRUE)
Failed == C(1, "structure", 2, FALSE)
Other == C(2, "reference", 1, TRUE)

MCTargets == {T(1), T(2)}
MCChains == {Good[x] : x \in DOMAIN Good} \cup {Laxer, Failed, Other}
MCMetricApprovals == {A(c) : c \in MCChains}
MCProfileApprovals ==
    {P(1, "l2", {A(Good["batch"]), A(Good["reference"])}),
     P(1, "l2", {A(Good["batch"]), A(Laxer)}),
     P(1, "l3", {A(Good["structure"])}), P(1, "l3", {A(Failed)})}

V4 == [schema |-> 4, target |-> T(1), status |-> [s \in {"l2", "l3"} |-> "VALIDATED"],
       value |-> [x \in DOMAIN Good |-> 1], chain |-> Good,
       approval |-> [x \in DOMAIN Good |-> A(Good[x])],
       profile |-> [s \in {"l2", "l3"} |->
                      IF s = "l2" THEN P(1, "l2", {A(Good["batch"]), A(Good["reference"])})
                      ELSE P(1, "l3", {A(Good["structure"])})],
       encoder |-> T(1).enc, plugin |-> T(1).plug, source |-> T(1).pre]
Half == [V4 EXCEPT !.status["l3"] = "CALIBRATED", !.chain["structure"] = None,
                   !.approval["structure"] = None, !.profile["l3"] = None]
V3 == [V4 EXCEPT !.schema = 3, !.target = None, !.profile = [s \in {"l2", "l3"} |-> None],
                 !.status["l3"] = "DRAFT",
                 !.chain = [x \in DOMAIN Good |-> IF x = "reference" THEN Good[x] ELSE None],
                 !.approval = [x \in DOMAIN Good |-> IF x = "reference" THEN A(Good[x]) ELSE None]]
Unearned == [V4 EXCEPT !.value["structure"] = 2, !.chain["structure"] = Failed,
                       !.approval["structure"] = A(Failed),
                       !.profile["l3"] = P(1, "l3", {A(Failed)})]
MCFirstDocuments == {V4, Half, V3, Unearned}

\* Plans of the verifier: the four technical rules with rules of style and of the
\* source, some of which no factory may accept; three references name two images.
Check(level, metric, scope, required, threshold, approved) ==
    [level |-> level, metric |-> metric, scope |-> scope, required |-> required,
     applicable |-> TRUE, status |-> threshold, value |-> 1, approved |-> approved]

L1(metric) == Check("L1", metric, "ITEM", TRUE, "NONE", FALSE)
Technical == <<L1("DECODE"), L1("DIMENSIONS"), L1("PIXELS"), L1("BUNDLE")>>

Style(threshold) == Check("L2", "STYLE", "ITEM", TRUE, threshold, FALSE)
Second == [Style("VALIDATED") EXCEPT !.required = FALSE, !.value = 0]
Batch(required)    == Check("L2", "CONSISTENCY", "BATCH", required, "DRAFT", FALSE)
Elsewhere == [Batch(FALSE) EXCEPT !.applicable = FALSE]  \* of another output
Diagnostic(needed) == Check("L3", "DIAGNOSTIC", "ITEM", needed, "VALIDATED", FALSE)
Structure(approved) == Check("L3", "STRUCTURE", "ITEM", TRUE, "VALIDATED", approved)

VerifierPlans ==
    { Technical \o <<Style("VALIDATED"), Second, Batch(FALSE), Diagnostic(FALSE)>>,
      Technical \o <<Style("DRAFT"), Elsewhere, Structure(TRUE)>>,
      Technical \o <<Style("REVOKED"), Structure(TRUE)>>,
      Technical \o <<Style("VALIDATED"), Structure(FALSE)>>,
      Technical \o <<Style("VALIDATED"), Batch(TRUE)>>,
      Technical \o <<Diagnostic(TRUE)>>,
      Tail(Technical) \o <<Style("VALIDATED")>> }

VerifierArtifacts ==
    LET Artifact(form, sized, edges, source, ink, wash) ==
            [form |-> form, sized |-> sized, blank |-> ~sized, edges |-> edges,
             source |-> source, near |-> [ink |-> ink, wash |-> wash],
             undecodable |-> {}]
    IN  {Artifact(f, TRUE, e, 0, i, w) :
             f \in {"clean", "tagged", "corrupt"}, e \in {0, 1}, i \in {0, 1}, w \in {0, 2}}
        \cup {Artifact("clean", FALSE, 1, 0, 1, 2), Artifact("clean", TRUE, Absent, 1, 1, 0),
              [Artifact("clean", TRUE, 1, 0, 1, 2) EXCEPT !.undecodable = {"wash"}]}

\* bound: an edit of the files or a failed call, with a change of the memory, or two changes.
ContextBound == edits' + faults' + tampers' <= 2 /\ edits' + faults' <= 1

\* Where a component that does not move began.
VerifierIdle ==
    /\ plan = Technical \o <<Diagnostic(TRUE)>>
    /\ artifact.form = "clean" /\ artifact.edges = Absent

VerifierReferences == <<"ink", "wash", "ink">>

layerVars == <<part, vars, verifierVars>>

LayerInit ==
    /\ part \in {"context", "verifier"}
    /\ Init /\ (part # "context" => files[1].doc = V4)
    /\ VerifierInit /\ (part # "verifier" => VerifierIdle)

LayerNext ==
    \/ part = "context" /\ Next /\ ContextBound /\ UNCHANGED <<part, verifierVars>>
    \/ part = "verifier" /\ VerifierNext /\ UNCHANGED <<part, vars>>

LayerSpec == LayerInit /\ [][LayerNext]_layerVars
=============================================================================
