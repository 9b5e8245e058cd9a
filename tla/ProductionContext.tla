------------------------- MODULE ProductionContext -------------------------
(***************************************************************************)
(* The gate in front of Production: production/context_config.py loads     *)
(* context.json and every evidence object it names, cross-binds them       *)
(* (production/context_v4.py, calibration/formal_approval.py and, for v3,  *)
(* calibration/production_evidence.py), issues a configuration, and asks   *)
(* again at each boundary before a compiler context is built.              *)
(*                                                                         *)
(* Between any two reads an operator may rewrite context.json (in place or *)
(* by rename), an evidence object may be damaged, and between any two      *)
(* boundaries the loaded v4 configuration may be changed in memory: the    *)
(* case context_v4_integrity.py is written for.  (The v3 configuration has *)
(* no anchor; it is not changed here.)  A digest is the object itself.     *)
(***************************************************************************)
EXTENDS Naturals, Sequences, FiniteSets, SequencesExt

CONSTANTS L2, L3,               \* the metrics of each layer
          Reference,            \* the L2 metric a v3 context is about
          Targets,              \* target cells: [enc, pre, plug]
          Chains,               \* a study's documents: [target, metric, value, passed]
          MetricApprovals,      \* signed: [chain, value]
          ProfileApprovals,     \* signed: [target, source, metrics]
          FirstDocuments,       \* what context.json may hold at first
          None, Torn,           \* nothing; bytes that are no document
          MaxEdits, MaxFaults, MaxTampers

Metrics  == L2 \cup L3
Sources  == {"l2", "l3"}
Layer(s) == IF s = "l2" THEN L2 ELSE L3
Statuses == {"DRAFT", "CALIBRATED", "VALIDATED"}
Values   == {c.value : c \in Chains}
Objects  == Targets \cup Chains \cup MetricApprovals \cup ProfileApprovals
Pins     == {t.enc : t \in Targets} \cup {t.pre : t \in Targets} \cup {t.plug : t \in Targets}

\* What a document says; bytes that are none are Torn.
Document ==
    [schema : {3, 4}, target : Targets \cup {None}, status : [Sources -> Statuses],
     value : [Metrics -> Values], chain : [Metrics -> Chains \cup {None}],
     approval : [Metrics -> MetricApprovals \cup {None}],
     profile : [Sources -> ProfileApprovals \cup {None}],
     encoder : Pins, plugin : Pins, source : Pins]

\* What is signed is about this metric or profile of a target, and the first documents
\* are documents; in the code these are checked types.
ASSUME EvidenceAssumption ==
    /\ Reference \in L2
    /\ Chains \subseteq [target : Targets, metric : Metrics, value : Values, passed : BOOLEAN]
    /\ MetricApprovals \subseteq [chain : Chains, value : Values]
    /\ ProfileApprovals \subseteq [target : Targets, source : Sources,
                                    metrics : SUBSET MetricApprovals]
    /\ FirstDocuments \subseteq Document

\* A configuration, whose seal leaves the source settings out, and a compiler context.
Configurations(sources) ==
    [schema : {3, 4}, target : Targets \cup {None}, status : [Sources -> Statuses],
     value : [Metrics -> Values],
     bound : [Metrics -> [target : Targets, metric : Metrics, value : Values] \cup {None}],
     plugin : Pins, source : sources]
Contexts ==
    [schema : {3, 4}, status : [Sources -> Statuses], value : [Metrics -> Values],
     encoder : Pins, version : Pins]

ASSUME SentinelAssumption ==
    /\ Torn \notin Document
    /\ None \notin Chains \cup MetricApprovals \cup ProfileApprovals
    /\ None \notin Configurations(Pins) \cup Configurations({None}) \cup Contexts

VARIABLES files,     \* the inodes context.json ever had: [doc, stamp]; the last is named
          history,   \* every whole document context.json ever held
          store,     \* what the evidence file of each digest holds
          loader,    \* the process: [pc, purpose, fd, before, first, doc, todo]
          config,    \* the configuration in memory
          anchor,    \* the digest the loader took of the formal part of it
          graph,     \* the IP adapter of the verified supply
          out,       \* the compiler context that was built
          edits, faults, tampers   \* how often the world has interfered

vars == <<files, history, store, loader, config, anchor, graph, out,
          edits, faults, tampers>>

(* -------------------------------------------- what a document must name *)
InOrder(S)  == SetToSeq(S)
Required(d) == IF d.schema = 3 THEN {Reference} ELSE Metrics
Profiles(d) == IF d.schema = 3 THEN {"l2"} ELSE Sources

\* The evidence objects in the order the loader reads them.
Named(d) ==
    (IF d.schema = 4 THEN <<d.target>> ELSE <<>>)
        \o InOrder({d.chain[x] : x \in Required(d)} \ {None})
        \o InOrder({d.approval[x] : x \in Required(d)} \ {None})
        \o InOrder(IF d.schema = 4 THEN {d.profile[s] : s \in Sources} \ {None} ELSE {})

\* validate_metric_production_approval: the study was rebuilt and passed, and
\* this approval is of it.
MetricApprovedUnearned(c, a, target, x) ==  \* mutant: the study is not rebuilt
    /\ c.target = target /\ c.metric = x
    /\ a.chain = c /\ a.value = c.value
MetricApproved(c, a, target, x) ==
    /\ c.passed
    /\ c.target = target /\ c.metric = x
    /\ a.chain = c /\ a.value = c.value

\* One metric of a v4 threshold profile.
MetricHolds(d, s, x) ==
    IF d.status[s] = "VALIDATED"
    THEN /\ d.chain[x] # None /\ d.approval[x] # None
         /\ MetricApproved(d.chain[x], d.approval[x], d.target, x)
         /\ d.approval[x].value = d.value[x]
    ELSE d.chain[x] = None /\ d.approval[x] = None

\* validate_profile_approval: exactly the approvals of the profile's metrics.
ProfileApproved(d, s) ==
    /\ d.profile[s] # None
    /\ d.profile[s].target = d.target /\ d.profile[s].source = s
    /\ d.profile[s].metrics = {d.approval[x] : x \in Layer(s)}

ProfileHolds(d, s) ==
    /\ \A x \in Layer(s) : MetricHolds(d, s, x)
    /\ IF d.status[s] = "VALIDATED" THEN ProfileApproved(d, s) ELSE d.profile[s] = None

\* load_formal_context_bindings and _issue_v4 accept the document.
FormalHolds(d) ==
    /\ \A s \in Sources : ProfileHolds(d, s)
    /\ d.encoder = d.target.enc
    /\ d.plugin = d.target.plug
    /\ d.source = d.target.pre

\* _threshold, validate_production_threshold_evidence: one metric, one approval,
\* for the output and threshold pins of this document.
ThresholdHolds(d) ==
    LET c == d.chain[Reference] a == d.approval[Reference] IN
    /\ c # None
    /\ (d.status["l2"] = "VALIDATED") = (a # None)
    /\ a # None => /\ MetricApproved(c, a, c.target, Reference)
                   /\ a.value = d.value[Reference]

Accepted(d) == IF d.schema = 3 THEN ThresholdHolds(d) ELSE FormalHolds(d)

\* ApprovedMetricBinding, ValidatedEvidenceBinding: what an approval is bound to.
Binding(d, x) ==
    IF d.approval[x] = None THEN None
    ELSE [target |-> d.chain[x].target, metric |-> x, value |-> d.approval[x].value]

Issued(d) ==
    [schema |-> d.schema, target |-> d.target, status |-> d.status, value |-> d.value,
     bound |-> [x \in Metrics |-> IF x \in Required(d) THEN Binding(d, x) ELSE None],
     plugin |-> d.plugin, source |-> d.source]

(* ----------------------------------------- what each boundary asks again *)
\* _digest: the target, both profiles and the plugin; not the source settings.
Digest(c) == [c EXCEPT !.source = None]

ProfileIntact(c, s) ==
    \A x \in Layer(s) :
       IF c.status[s] = "VALIDATED"
       THEN /\ c.bound[x] # None
            /\ c.bound[x].target = c.target /\ c.bound[x].value = c.value[x]
       ELSE c.bound[x] = None

Integrity(c, seal, validated) ==
    /\ \A s \in Sources : ProfileIntact(c, s) /\ (validated => c.status[s] = "VALIDATED")
    /\ c.plugin = c.target.plug
    /\ seal = Digest(c)

\* require_validated_production_threshold.
Validated(c) ==
    IF c.schema = 3 THEN c.status["l2"] = "VALIDATED" /\ c.bound[Reference] # None
    ELSE Integrity(c, anchor, TRUE)

\* _validate_factory_inputs: the supply is the one that was approved.
FactoryAccepts(c, adapter) ==
    IF c.schema = 3
    THEN c.status["l2"] = "VALIDATED" => adapter = c.bound[Reference].target.enc
    ELSE /\ Integrity(c, anchor, FALSE)
         /\ \A x \in L2 : c.bound[x] # None => /\ adapter = c.bound[x].target.enc
                                               /\ c.source = c.bound[x].target.pre

\* _context: and so is the preprocessor that was really loaded.
ContextBuilds(c, encoder, version) ==
    IF c.schema = 3
    THEN c.status["l2"] = "VALIDATED" =>
            c.bound[Reference].target.enc = encoder /\ c.bound[Reference].target.pre = version
    ELSE /\ Integrity(c, anchor, FALSE)
         /\ c.status["l2"] = "VALIDATED" =>
               \A x \in L2 : /\ c.bound[x].target.enc = encoder
                             /\ c.bound[x].target.pre = c.source
                             /\ c.source = version

(* ----------------------------------------------------------- the loader *)
Idle == [pc |-> "idle", purpose |-> "display", fd |-> 0, before |-> 0,
         first |-> Torn, doc |-> Torn, todo |-> <<>>]
Current == files[Len(files)]
Step(pc) == loader' = [loader EXCEPT !.pc = pc]
Disk == <<files, history, store, edits, faults>>
Memory == <<config, anchor, graph, out, tampers>>

Init ==
    /\ \E d \in FirstDocuments : files = <<[doc |-> d, stamp |-> 1]>> /\ history = {d}
    /\ store = [o \in Objects |-> o]
    /\ loader = Idle
    /\ config = None /\ anchor = None /\ graph = None /\ out = None
    /\ edits = 0 /\ faults = 0 /\ tampers = 0

\* The file is opened by name and its first stat is taken.
OpenContext(purpose) ==
    /\ loader.pc = "idle"
    /\ loader' = [Idle EXCEPT !.pc = "opened", !.purpose = purpose,
                              !.fd = Len(files), !.before = Current.stamp]
    /\ UNCHANGED <<Disk, Memory>>

ReadFirst ==
    /\ loader.pc = "opened"
    /\ loader' = [loader EXCEPT !.pc = "half", !.first = files[loader.fd].doc]
    /\ UNCHANGED <<Disk, Memory>>

\* Two reads may have seen two documents; what they return together may parse.
Splice(a, b) ==
    IF a = Torn \/ b = Torn THEN Torn
    ELSE [b EXCEPT !.schema = a.schema, !.target = a.target,
                   !.status = a.status, !.value = a.value]

ReadSecond ==
    /\ loader.pc = "half"
    /\ loader' = [loader EXCEPT !.pc = "read",
                                !.doc = Splice(loader.first, files[loader.fd].doc)]
    /\ UNCHANGED <<Disk, Memory>>

\* The second stat; then the bytes are parsed.
UnchangedTrusted(before, now) == TRUE  \* mutant: the file is not looked at again
Unchanged(before, now) == before = now

ParseContext ==
    /\ loader.pc = "read"
    /\ IF Unchanged(loader.before, files[loader.fd].stamp) /\ loader.doc # Torn
       THEN loader' = [loader EXCEPT !.pc = "evidence", !.todo = Named(loader.doc)]
       ELSE Step("refused")
    /\ UNCHANGED <<Disk, Memory>>

\* One evidence file: it must hold the bytes of its digest.
Sealed(o, bytes) == bytes = o

\* The bytes of the object take its place in what is validated.
Given(d, o, bytes) ==
    [d EXCEPT !.target = IF @ = o THEN bytes ELSE @,
              !.chain = [x \in DOMAIN @ |-> IF @[x] = o THEN bytes ELSE @[x]],
              !.approval = [x \in DOMAIN @ |-> IF @[x] = o THEN bytes ELSE @[x]],
              !.profile = [s \in DOMAIN @ |-> IF @[s] = o THEN bytes ELSE @[s]]]

ReadEvidence ==
    /\ loader.pc = "evidence" /\ loader.todo # <<>>
    /\ LET o == Head(loader.todo) IN
       IF Sealed(o, store[o])
       THEN loader' = [loader EXCEPT !.todo = Tail(@), !.doc = Given(@, o, store[o])]
       ELSE Step("refused")
    /\ UNCHANGED <<Disk, Memory>>

IssueConfig ==
    /\ loader.pc = "evidence" /\ loader.todo = <<>>
    /\ IF Accepted(loader.doc)
       THEN /\ Step(IF loader.purpose = "production" THEN "gate" ELSE "supply")
            /\ config' = Issued(loader.doc)
            /\ anchor' = Digest(Issued(loader.doc))
       ELSE Step("refused") /\ UNCHANGED <<config, anchor>>
    /\ UNCHANGED <<Disk, graph, out, tampers>>

\* run_one asks before it opens anything else.
Gate ==
    /\ loader.pc = "gate"
    /\ Step(IF Validated(config) THEN "supply" ELSE "refused")
    /\ UNCHANGED <<Disk, Memory>>

\* models.json and the weights are verified; nothing ties them to the context yet.
Supply ==
    /\ loader.pc = "supply"
    /\ \E t \in Targets : graph' = t.enc
    /\ Step("factory")
    /\ UNCHANGED <<Disk, config, anchor, out, tampers>>

Factory ==
    /\ loader.pc = "factory"
    /\ Step(IF FactoryAccepts(config, graph) THEN "ready" ELSE "refused")
    /\ UNCHANGED <<Disk, Memory>>

\* The runtime loads the encoder's processor and asks for the compiler context.
Build ==
    /\ loader.pc = "ready"
    /\ \E version \in {t.pre : t \in Targets} :
          IF ContextBuilds(config, graph, version)
          THEN /\ out' = [status |-> config.status, value |-> config.value,
                          schema |-> config.schema, encoder |-> graph, version |-> version]
               /\ Step("built")
          ELSE Step("refused") /\ UNCHANGED out
    /\ UNCHANGED <<Disk, config, anchor, graph, tampers>>

\* The process ends, or its operator tries again.
Leave ==
    /\ loader.pc \in {"built", "refused"}
    /\ loader' = Idle
    /\ config' = None /\ anchor' = None /\ graph' = None /\ out' = None
    /\ UNCHANGED <<Disk, tampers>>

(* ------------------------------------------------- what happens meanwhile *)
\* An author changes one thing a document says, or writes another document.
Variant(d) ==
    FirstDocuments \cup
    {[d EXCEPT !.target = t] : t \in Targets}
        \cup {[d EXCEPT !.status[s] = v] : s \in Sources, v \in Statuses}
        \cup {[d EXCEPT !.value[x] = v] : x \in Required(d), v \in Values}
        \cup {[d EXCEPT !.chain[x] = c] : x \in Required(d), c \in Chains \cup {None}}
        \cup {[d EXCEPT !.approval[x] = a] : x \in Required(d), a \in MetricApprovals \cup {None}}
        \cup {[d EXCEPT !.profile[s] = p] : s \in Profiles(d), p \in ProfileApprovals \cup {None}}

\* An editor truncates the file and writes it again.
Truncate ==
    /\ edits < MaxEdits /\ edits' = edits + 1 /\ Current.doc # Torn
    /\ files' = [files EXCEPT ![Len(files)] = [doc |-> Torn, stamp |-> @.stamp + 1]]
    /\ UNCHANGED <<history, store, faults, loader, Memory>>

Rewrite ==
    /\ Current.doc = Torn
    /\ \E d \in UNION {Variant(h) : h \in history} :
          /\ files' = [files EXCEPT ![Len(files)] = [doc |-> d, stamp |-> @.stamp + 1]]
          /\ history' = history \cup {d}
    /\ UNCHANGED <<store, edits, faults, loader, Memory>>

\* A deployment replaces it by rename: an open descriptor keeps the old file.
Replace ==
    /\ edits < MaxEdits /\ edits' = edits + 1 /\ Current.doc # Torn
    /\ \E d \in Variant(Current.doc) \ history :
          /\ files' = Append(files, [doc |-> d, stamp |-> 1])
          /\ history' = history \cup {d}
    /\ UNCHANGED <<store, faults, loader, Memory>>

\* An evidence file loses its bytes, or gets those of another object of its kind.
DamageEvidence ==
    /\ faults < MaxFaults /\ faults' = faults + 1
    /\ \E o \in Objects : \E kind \in {Targets, Chains, MetricApprovals, ProfileApprovals} :
          /\ o \in kind
          /\ \E bytes \in (kind \ {o}) \cup {Torn} : store' = [store EXCEPT ![o] = bytes]
    /\ UNCHANGED <<files, history, edits, loader, Memory>>

\* A v4 configuration is changed in memory after it was issued.
Tampered(c) ==
    {[c EXCEPT !.target = t] : t \in Targets}
        \cup {[c EXCEPT !.status[s] = v] : s \in Sources, v \in Statuses}
        \cup {[c EXCEPT !.value[x] = v] : x \in Metrics, v \in Values}
        \cup {[c EXCEPT !.bound[x] = [@ EXCEPT !.value = v]] :
                 x \in {y \in Metrics : c.bound[y] # None}, v \in Values}
        \cup {[c EXCEPT !.plugin = t.plug] : t \in Targets}
        \cup {[c EXCEPT !.source = t.pre] : t \in Targets}

ChangeInMemory ==
    /\ tampers < MaxTampers /\ tampers' = tampers + 1
    /\ config # None /\ config.schema = 4
    /\ loader.pc \in {"gate", "supply", "factory", "ready"}
    /\ config' \in Tampered(config) \ {config}
    /\ UNCHANGED <<Disk, loader, anchor, graph, out>>

Next ==
    \/ \E purpose \in {"production", "display"} : OpenContext(purpose)
    \/ ReadFirst \/ ReadSecond \/ ParseContext \/ ReadEvidence
    \/ IssueConfig \/ Gate \/ Supply \/ Factory \/ Build \/ Leave
    \/ Truncate \/ Rewrite \/ Replace \/ DamageEvidence \/ ChangeInMemory

Spec == Init /\ [][Next]_vars

(* ---------------------------------------------------------- properties *)
\* Types: a configuration exists, with its anchor, exactly from its issue to the end.
TypeOK ==
    /\ \A i \in DOMAIN files : files[i].doc \in Document \cup {Torn} /\ files[i].stamp \in Nat
    /\ loader.doc \in Document \cup {Torn} /\ loader.fd \in 0 .. Len(files)
    /\ loader.pc \in {"gate", "supply", "factory", "ready", "built"} => config # None
    /\ (config = None) = (anchor = None)
    /\ (out # None) = (loader.pc = "built")

\* A compiler context that says VALIDATED of a profile was earned: for every metric a
\* study that passed on one target, with that threshold, signed; the profile signed over
\* exactly these approvals; and the encoder and preprocessor in use are the target's.
EarnedFor(t, s, x) ==
    \E a \in MetricApprovals :
       /\ a.chain.passed /\ a.chain.target = t /\ a.chain.metric = x
       /\ a.value = a.chain.value /\ a.value = out.value[x]
       /\ out.schema = 4 =>
             \E p \in ProfileApprovals : p.target = t /\ p.source = s /\ a \in p.metrics
LabelIsEarned ==
    out # None =>
       \A s \in IF out.schema = 3 THEN {"l2"} ELSE Sources :
          out.status[s] = "VALIDATED" =>
             \E t \in Targets :
                /\ s = "l2" => out.encoder = t.enc /\ out.version = t.pre
                /\ \A x \in IF out.schema = 3 THEN {Reference} ELSE Layer(s) : EarnedFor(t, s, x)

\* Production never starts on a context with a profile that is not VALIDATED, whatever
\* happened to the files and to the memory after the gate was passed.
ProductionIsValidated ==
    out # None /\ loader.purpose = "production" =>
       \A s \in IF out.schema = 3 THEN {"l2"} ELSE Sources : out.status[s] = "VALIDATED"

\* A document that goes on to be validated is one that context.json really held, never
\* the beginning of one version with the end of another.
OneVersion == loader.pc = "evidence" => loader.doc \in history

\* Production starts on VALIDATED profiles of one version of the document.
ProductionIsOneVersion == TypeOK /\ ProductionIsValidated /\ OneVersion
=============================================================================
