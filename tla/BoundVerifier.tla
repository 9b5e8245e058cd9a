--------------------------- MODULE BoundVerifier ----------------------------
(***************************************************************************)
(* The production verifier (verification/production.py and _contracts.py): *)
(* a factory binds a verifier to one request, plan and loaded pipeline;    *)
(* the verifier then judges one artifact, rule by rule.                    *)
(*                                                                         *)
(* Judging calls code that is not the verifier's: the artifact store, the  *)
(* resolver of style images, the encoder on the GPU.  Each call may fail,  *)
(* may answer with something else, and may change what the verifier was    *)
(* bound to (a rule, a mapping, the pipeline).  After every call the       *)
(* verifier compares the live objects with what it was issued for.         *)
(*                                                                         *)
(* A call and the checkpoint that follows it are one step.  Similarities   *)
(* and thresholds are small integers.                                      *)
(***************************************************************************)
EXTENDS Integers, Sequences, FiniteSets

CONSTANTS
    Plans,          \* plans the compiler can make: sequences of rules
    Artifacts,      \* [form, sized, blank, edges, source, near, undecodable]
    References,     \* the style references: a sequence of digests
    MaxDrifts,      \* bound: changes of what a verifier is bound to
    Absent          \* an edge score that cannot be told

(* A compiled plan lists its rules in order, each of one of three levels; a *)
(* technical rule of Production is always required.  Scores and thresholds  *)
(* are numbers, every reference has been compared with what is generated,   *)
(* and there is at least one.                                               *)
PlanAssumption ==
    \A rules \in Plans :
        /\ DOMAIN rules = 1 .. Len(rules)
        /\ \A k \in DOMAIN rules :
            /\ rules[k].level \in {"L1", "L2", "L3"}
            /\ rules[k].level = "L1" => rules[k].required
            /\ rules[k].value \in Int
ArtifactAssumption ==
    \A image \in Artifacts :
        /\ \A k \in DOMAIN References : References[k] \in DOMAIN image.near
        /\ \A d \in DOMAIN image.near : image.near[d] \in Int
        /\ image.source \in Int
        /\ image.edges \in Int \cup {Absent}
        /\ {image.sized, image.blank} \subseteq BOOLEAN
ReferenceAssumption == Len(References) \in Nat \ {0} /\ DOMAIN References = 1 .. Len(References)
ASSUME VerifierAssumptions ==
    PlanAssumption /\ ArtifactAssumption /\ ReferenceAssumption /\ MaxDrifts \in Nat

(* What a bound verifier rests on and other code could change. *)
Pieces == {"objects", "rules", "spec", "request", "context", "mappings",
           "descriptors", "provenance", "processor", "placement", "closed"}

VARIABLES
    plan, artifact,     \* this attempt's rules and what its store holds
    phase,              \* unbound, refused, bound, resolve, rules, returned, raised
    drifted, drifts,    \* the pieces that differ from what was issued
    results,            \* the status of each rule judged so far, by its place
    gone,               \* the store answered that there is no artifact
    styles,             \* the answers of the style resolver so far
    cache,              \* digest -> evidence, FALSE when it cannot be decoded
    asked,              \* how often each digest was resolved or encoded
    tainted             \* a call found or left a piece changed

inputs == <<plan, artifact>>
work   == <<results, gone, styles, cache, asked>>
verifierVars == <<inputs, phase, drifted, drifts, work, tainted>>

Digests == {"output", "source"} \cup {References[k] : k \in DOMAIN References}

-----------------------------------------------------------------------------
(* What a factory binds to. *)

(* The places of the rules that apply. *)
Applicable == {k \in DOMAIN plan : plan[k].applicable}

Registry == {"DECODE", "DIMENSIONS", "PIXELS", "BUNDLE"}

(* Every implementation of a technical rule is in the plan, once. *)
L1Bound ==
    LET l1 == {k \in Applicable : plan[k].level = "L1"} IN
    /\ {plan[k].metric : k \in l1} = Registry
    /\ \A k, n \in l1 : plan[k].metric = plan[n].metric => k = n
    /\ \A k \in l1 : plan[k].scope = "ITEM" /\ plan[k].status = "NONE"

L2Item(r)  == r.metric = "STYLE" /\ r.scope = "ITEM"

L2Batch(r) ==
    /\ r.metric = "CONSISTENCY" /\ r.scope = "BATCH"
    /\ ~r.required
    /\ r.status = "DRAFT"

L3Diagnostic(r) == r.metric = "DIAGNOSTIC" /\ ~r.required

L3Structure(r) == r.metric = "STRUCTURE" /\ r.required

ApprovedStructure(r) == r.status = "VALIDATED" /\ r.approved

L3Bound(r) ==
    \/ L3Diagnostic(r)
    \/ L3Structure(r) /\ (r.applicable => ApprovedStructure(r))

SupportedScope(r) ==
    r.scope # "ITEM" => r.level = "L2" /\ ~r.required

Supported ==
    /\ L1Bound
    /\ \A k \in DOMAIN plan :
        LET r == plan[k] IN
        /\ r.level = "L2" /\ r.applicable => L2Item(r) \/ L2Batch(r)
        /\ r.level = "L3" => r.scope = "ITEM" /\ L3Bound(r)
        /\ r.applicable => SupportedScope(r)

-----------------------------------------------------------------------------
(* The checkpoint. *)

IdentitiesHold(live) == live \cap {"objects", "rules"} = {}

(* The image processor prepares images as it did when it was loaded. *)
ProcessorHolds(live) == "processor" \notin live

(* All of the encoder is still on the device and of the type it had. *)
PlacementHolds(live) == "placement" \notin live

EncoderHoldsInPlace(live) == "closed" \notin live /\ PlacementHolds(live)  \* mutant: the processor is not looked at

(* The pipeline that owns the encoder is open and as it was. *)
EncoderHolds(live) ==
    "closed" \notin live /\ ProcessorHolds(live) /\ PlacementHolds(live)

FactoryHolds(live) ==
    /\ EncoderHolds(live)
    /\ live \cap {"context", "mappings", "descriptors", "provenance"} = {}

BindingHolds(live) ==
    live \cap {"spec", "request", "rules", "mappings", "descriptors", "provenance"} = {}

Checkpoint(live) ==
    IdentitiesHold(live) /\ FactoryHolds(live) /\ BindingHolds(live)

(* Code outside the verifier runs: it may change a piece, or change one    *)
(* back.                                                                   *)
Outside ==
    \/ UNCHANGED <<drifted, drifts>>
    \/ /\ drifts < MaxDrifts
       /\ drifts' = drifts + 1
       /\ \E p \in Pieces :
            drifted' = (drifted \cup {p}) \ (drifted \cap {p})

Note == tainted' = (tainted \/ drifted' # {})

Raise == phase' = "raised"

(* A call answers and the checkpoint after it looks at what it left. *)
Called(go) ==
    /\ Outside
    /\ Note
    /\ IF Checkpoint(drifted') THEN go ELSE Raise

-----------------------------------------------------------------------------
Fresh ==
    /\ results = <<>> /\ gone = FALSE /\ styles = <<>>
    /\ cache = <<>>
    /\ asked = [d \in Digests |-> [resolved |-> 0, encoded |-> 0]]
    /\ tainted = FALSE

VerifierInit ==
    /\ plan \in Plans
    /\ artifact \in Artifacts
    /\ phase = "unbound"
    /\ drifted = {} /\ drifts = 0
    /\ Fresh

Create ==
    /\ phase = "unbound"
    /\ phase' = IF Supported THEN "bound" ELSE "refused"
    /\ UNCHANGED <<inputs, drifted, drifts, work, tainted>>

(* Between the two, the attempt is generated and stored. *)
Meanwhile ==
    /\ phase = "bound"
    /\ Outside
    /\ UNCHANGED <<inputs, phase, work, tainted>>

(* The caller passes one artifact reference and the live rules. *)
Invoke ==
    /\ phase = "bound"
    /\ tainted' = (drifted # {})
    /\ phase' = IF Checkpoint(drifted) THEN "resolve" ELSE "raised"
    /\ UNCHANGED <<inputs, drifted, drifts, work>>

(* The store gives the artifact, says it has none, fails, or gives bytes   *)
(* that are not the reference's.                                           *)
ResolveArtifact ==
    /\ phase = "resolve"
    /\ \/ Called(phase' = "rules") /\ UNCHANGED gone
       \/ Called(phase' = "rules") /\ gone' = TRUE
       \/ Outside /\ Note /\ Raise /\ UNCHANGED gone
    /\ UNCHANGED <<inputs, results, styles, cache, asked>>

-----------------------------------------------------------------------------
(* One rule after another. *)

Judging == phase = "rules" /\ ~gone /\ DOMAIN results # Applicable

(* The place of the next rule, in the order of the plan. *)
Turn ==
    CHOOSE k \in Applicable \ DOMAIN results :
        \A n \in Applicable \ DOMAIN results : k <= n

Rule == plan[Turn]

Judge(status) ==
    results' = [k \in DOMAIN results \cup {Turn} |-> IF k = Turn THEN status ELSE results[k]]

Clean == artifact.form = "clean"

(* _l1_outcome *)
L1Status(metric) ==
    IF Clean
    THEN CASE metric = "DECODE"     -> "PASS"
           [] metric = "DIMENSIONS" -> IF artifact.sized THEN "PASS" ELSE "FAIL"
           [] metric = "PIXELS"     -> IF artifact.blank THEN "FAIL" ELSE "PASS"
           [] OTHER -> IF artifact.sized /\ ~artifact.blank THEN "PASS" ELSE "FAIL"
    ELSE IF metric \in {"DECODE", "BUNDLE"} THEN "FAIL" ELSE "UNVERIFIABLE"

JudgeL1 ==
    /\ Judging
    /\ Rule.level = "L1"
    /\ Judge(L1Status(Rule.metric))
    /\ UNCHANGED <<inputs, phase, drifted, drifts, gone, styles, cache, asked, tainted>>

(* Only a validated threshold is executed. *)
Inactive(r) == r.level # "L1" /\ r.status # "VALIDATED"

JudgeInactive ==
    /\ Judging
    /\ Inactive(Rule)
    /\ Judge(IF Rule.status = "REVOKED" THEN "FAIL" ELSE "UNVERIFIABLE")
    /\ UNCHANGED <<inputs, phase, drifted, drifts, gone, styles, cache, asked, tainted>>

Active(level) == Judging /\ Rule.level = level /\ ~Inactive(Rule)

AllResolved ==
    \/ Len(styles) = Len(References)
    \/ styles # <<>> /\ ~styles[Len(styles)]

(* The first rule about style resolves the references, until one is gone. *)
ResolveStyle ==
    /\ Active("L2") /\ ~AllResolved
    /\ LET d == References[Len(styles) + 1] IN
        /\ asked' = [asked EXCEPT ![d].resolved = @ + 1]
        /\ \/ \E found \in BOOLEAN :
                Called(UNCHANGED phase) /\ styles' = Append(styles, found)
           \/ Outside /\ Note /\ Raise /\ UNCHANGED styles
    /\ UNCHANGED <<inputs, results, gone, cache>>

StylesGone == AllResolved /\ \E k \in DOMAIN styles : ~styles[k]

JudgeGone ==
    /\ Active("L2") /\ StylesGone
    /\ Judge("UNVERIFIABLE")
    /\ UNCHANGED <<inputs, phase, drifted, drifts, gone, styles, cache, asked, tainted>>

Structural == Rule.metric = "STRUCTURE"

(* What the rule encodes, in order. *)
Needed ==
    IF Rule.level = "L2"
    THEN [k \in 1 .. Len(References) + 1 |-> IF k = 1 THEN "output" ELSE References[k - 1]]
    ELSE <<"output", "source">>

Missing == {k \in DOMAIN Needed : Needed[k] \notin DOMAIN cache}

FirstMissing == Needed[CHOOSE k \in Missing : \A n \in Missing : k <= n]

Encodes == \/ Active("L2") /\ AllResolved /\ ~StylesGone
           \/ Active("L3") /\ ~Structural

Decodes(d) == IF d = "output" THEN artifact.form # "corrupt" ELSE d \notin artifact.undecodable

Remember(d) == [n \in DOMAIN cache \cup {d} |-> IF n = d THEN Decodes(d) ELSE cache[n]]

(* It runs out of memory, or what it made has the wrong shape, place or    *)
(* type, or is not finite.                                                 *)
EncoderFails == Outside /\ Note /\ Raise /\ UNCHANGED cache

(* The encoder gives evidence, finds the bytes undecodable, or fails. *)
Encode ==
    /\ Encodes /\ Missing # {}
    /\ LET d == FirstMissing IN
        /\ asked' = [asked EXCEPT ![d].encoded = @ + 1]
        /\ \/ EncoderHolds(drifted) /\ Called(UNCHANGED phase) /\ cache' = Remember(d)
           \/ EncoderFails
    /\ UNCHANGED <<inputs, results, gone, styles>>

(* Where the smallest, the next and so on of a sequence of numbers are. *)
Ascending(s) ==
    CHOOSE places \in [1 .. Len(s) -> 1 .. Len(s)] :
        \A i, k \in 1 .. Len(s) :
            i < k => places[i] # places[k] /\ s[places[i]] <= s[places[k]]

(* Twice the median of a sequence of numbers. *)
Median(s) ==
    LET ordered == [k \in 1 .. Len(s) |-> s[Ascending(s)[k]]]
        middle  == Len(s) \div 2
    IN IF Len(s) % 2 = 1 THEN 2 * ordered[middle + 1]
       ELSE ordered[middle] + ordered[middle + 1]

Similarities == [k \in 1 .. Len(References) |-> artifact.near[References[k]]]

(* Twice the rule's score. *)
Score ==
    IF Rule.level = "L2" THEN Median(Similarities)
    ELSE IF Structural THEN 2 * artifact.edges
    ELSE 2 * artifact.source

Measured == IF Score >= 2 * Rule.value THEN "PASS" ELSE "FAIL"

JudgeEvidence ==
    /\ Encodes /\ Missing = {}
    /\ \/ Called(UNCHANGED phase)
       \/ Outside /\ Note /\ Raise
    /\ Judge(IF \A k \in DOMAIN Needed : cache[Needed[k]] THEN Measured ELSE "UNVERIFIABLE")
    /\ UNCHANGED <<inputs, gone, styles, cache, asked>>

(* Edges are compared on the CPU; images of another shape are not. *)
JudgeStructure ==
    /\ Active("L3") /\ Structural
    /\ Called(UNCHANGED phase)
    /\ Judge(IF Clean /\ artifact.edges # Absent THEN Measured ELSE "UNVERIFIABLE")
    /\ UNCHANGED <<inputs, gone, styles, cache, asked>>

(* With no artifact every rule is unverifiable. *)
Return ==
    /\ phase = "rules"
    /\ gone \/ DOMAIN results = Applicable
    /\ results' = IF gone THEN [k \in Applicable |-> "UNVERIFIABLE"] ELSE results
    /\ phase' = IF Checkpoint(drifted) THEN "returned" ELSE "raised"
    /\ UNCHANGED <<inputs, drifted, drifts, gone, styles, cache, asked, tainted>>

(* The next attempt, with a verifier of its own. *)
NextAttempt ==
    /\ phase \in {"refused", "returned", "raised"}
    /\ phase' = "unbound"
    /\ artifact' \in Artifacts
    /\ drifted' = {} /\ drifts' = 0
    /\ results' = <<>> /\ gone' = FALSE /\ styles' = <<>> /\ cache' = <<>>
    /\ asked' = [d \in Digests |-> [resolved |-> 0, encoded |-> 0]]
    /\ tainted' = FALSE
    /\ UNCHANGED plan

VerifierNext ==
    \/ Create \/ Meanwhile \/ Invoke \/ ResolveArtifact
    \/ JudgeL1 \/ JudgeInactive \/ ResolveStyle \/ JudgeGone
    \/ Encode \/ JudgeEvidence \/ JudgeStructure
    \/ Return \/ NextAttempt

VerifierSpec == VerifierInit /\ [][VerifierNext]_verifierVars

-----------------------------------------------------------------------------
Verdicts == {"PASS", "FAIL", "UNVERIFIABLE"}

(* Every variable has its type, and rules are judged in their order. *)
VerifierTypeOK ==
    /\ phase \in {"unbound", "refused", "bound", "resolve", "rules", "returned", "raised"}
    /\ drifted \subseteq Pieces
    /\ drifts \in 0..MaxDrifts
    /\ DOMAIN results \subseteq Applicable
    /\ \A k \in DOMAIN results : results[k] \in Verdicts
    /\ \A k \in DOMAIN results, n \in Applicable : n < k => n \in DOMAIN results
    /\ styles \in Seq(BOOLEAN)
    /\ DOMAIN cache \subseteq Digests
    /\ {gone, tainted} \subseteq BOOLEAN

(* A result set that is returned was worked out while everything the       *)
(* verifier was issued for stayed as it was: a piece changed by one call   *)
(* and put back by a later one does not go unnoticed.                      *)
NothingAfterDrift == phase = "returned" => ~tainted

(* The k-th smallest of the references' similarities, by counting. *)
Rank(k) ==
    CHOOSE x \in {artifact.near[d] : d \in DOMAIN artifact.near} :
        /\ Cardinality({i \in DOMAIN References : artifact.near[References[i]] < x}) < k
        /\ Cardinality({i \in DOMAIN References : artifact.near[References[i]] <= x}) >= k

Middle == Rank((Len(References) + 1) \div 2) + Rank((Len(References) \div 2) + 1)

Seen(d) == IF d = "output" THEN artifact.form # "corrupt" ELSE d \notin artifact.undecodable

(* What each rule says of the artifact, whatever order it is found in. *)
Truth(r) ==
    IF r.level = "L1" THEN L1Status(r.metric)
    ELSE IF r.status # "VALIDATED"
    THEN IF r.status = "REVOKED" THEN "FAIL" ELSE "UNVERIFIABLE"
    ELSE CASE r.metric = "STYLE" ->
                IF /\ Seen("output") /\ \A k \in DOMAIN References : Seen(References[k])
                   /\ \A k \in DOMAIN styles : styles[k]
                THEN IF Middle >= 2 * r.value THEN "PASS" ELSE "FAIL"
                ELSE "UNVERIFIABLE"
           [] r.metric = "STRUCTURE" ->
                IF Clean /\ artifact.edges # Absent
                THEN IF artifact.edges >= r.value THEN "PASS" ELSE "FAIL"
                ELSE "UNVERIFIABLE"
           [] OTHER ->
                IF Seen("output") /\ Seen("source")
                THEN IF artifact.source >= r.value THEN "PASS" ELSE "FAIL"
                ELSE "UNVERIFIABLE"

(* The results returned are the truth about the stored artifact, one for   *)
(* each applicable rule and in their order: what was cached for one rule   *)
(* is right for the next, a failed call never becomes a verdict, and only  *)
(* missing evidence is unverifiable.                                       *)
ResultsAreTrue ==
    phase = "returned" =>
        /\ DOMAIN results = Applicable
        /\ \A k \in Applicable :
            results[k] = IF gone THEN "UNVERIFIABLE" ELSE Truth(plan[k])

(* An artifact that passes every required rule of a verifier was there,    *)
(* decodes, has the right size and is not blank, and each required metric  *)
(* it passed has a validated threshold, approved where fidelity to the     *)
(* source is required.                                                     *)
PassIsProven ==
    (/\ phase = "returned"
     /\ \A k \in Applicable : plan[k].required => results[k] = "PASS") =>
        /\ ~gone /\ Clean /\ artifact.sized /\ ~artifact.blank
        /\ \A k \in Applicable :
            LET r == plan[k] IN
            r.required /\ r.level # "L1" =>
                /\ r.scope = "ITEM" /\ r.status = "VALIDATED"
                /\ r.level = "L3" => r.approved

(* However many rules ask for them, a reference is fetched once for each   *)
(* place it has in the request and an image is encoded once.               *)
AskedOnce ==
    \A d \in Digests :
        /\ asked[d].encoded <= 1
        /\ asked[d].resolved <= Cardinality({k \in DOMAIN References : References[k] = d})

(* A verifier answers the truth about the artifact in the store, worked out *)
(* while nothing it is bound to was changed; what it passes is proven, and  *)
(* it asks for nothing twice.                                               *)
VerdictIsTrue ==
    VerifierTypeOK /\ NothingAfterDrift /\ ResultsAreTrue /\ PassIsProven /\ AskedOnce
=============================================================================
