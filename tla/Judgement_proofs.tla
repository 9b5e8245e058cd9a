-------------------------- MODULE Judgement_proofs --------------------------
(***************************************************************************)
(* Proofs about what judges an artifact: ProductionContext, for every set  *)
(* of metrics, targets and evidence and any number of edits, faults and    *)
(* changes in memory, and BoundVerifier, for every plan, artifact and      *)
(* sequence of references and any number of changes around it.             *)
(*                                                                         *)
(* The context: a compiler context's VALIDATED label was earned, and       *)
(* Production starts on validated profiles of one version of context.json. *)
(* The argument follows the document.  What the loader has read so far is  *)
(* what the inode says as long as its stamp has not moved (Read), so what  *)
(* is parsed is a version that was there; reading a sealed evidence object *)
(* changes nothing in it.  What is issued names a document that was        *)
(* accepted (IssuedFrom): the anchor is the digest of it for good, and a   *)
(* v3 configuration, which has no anchor of its own, is it.  So whatever   *)
(* was changed in memory, a boundary that finds the digest it expects sees *)
(* the accepted document again.                                            *)
(*                                                                         *)
(* The verifier: the results it returns are the truth about the artifact.  *)
(* Each rule gets the truth in its turn (JudgedTruly), because the cache   *)
(* says what every image decodes to (CacheIsRight), a rule of style waits  *)
(* until it is known which references are there, and the sorted median is  *)
(* the one that counting finds (MedianIsMiddle).  A verifier that goes on  *)
(* found everything as it was issued at every checkpoint (Intact), and its *)
(* calls are counted by what it keeps of their answers (Counted).          *)
(***************************************************************************)
EXTENDS ProductionContext, BoundVerifier, FiniteSetTheorems, SequenceTheorems,
        NaturalsInduction, WellFoundedInduction, TLAPS

Versions == [doc : Document \cup {Torn}, stamp : Nat]
LabelledSources(schema) == IF schema = 3 THEN {"l2"} ELSE Sources
Issuing == {"gate", "supply", "factory", "ready", "built"}
Reading == {"opened", "half", "read"}

\* Every inode holds a version that the history knows, or is being written.
FilesTyped ==
    /\ files \in Seq(Versions) /\ files # <<>>
    /\ history \subseteq Document
    /\ \A i \in DOMAIN files : files[i].doc \in history \cup {Torn}

LoaderTyped ==
    /\ loader = [pc |-> loader.pc, purpose |-> loader.purpose, fd |-> loader.fd,
                 before |-> loader.before, first |-> loader.first, doc |-> loader.doc,
                 todo |-> loader.todo]
    /\ loader.pc \in {"idle", "evidence", "refused"} \cup Reading \cup Issuing
    /\ loader.fd \in 0 .. Len(files) /\ loader.before \in Nat
    /\ loader.first \in Document \cup {Torn} /\ loader.doc \in Document \cup {Torn}

\* The descriptor is one of an inode whose stamp only grows; while it has not, what was
\* read is what the inode says.
Read ==
    /\ loader.pc \in Reading =>
          loader.fd \in DOMAIN files /\ loader.before <= files[loader.fd].stamp
    /\ loader.pc \in {"half", "read"} /\ loader.before = files[loader.fd].stamp =>
          loader.first = files[loader.fd].doc
    /\ loader.pc = "read" /\ loader.before = files[loader.fd].stamp =>
          loader.doc = files[loader.fd].doc
    /\ loader.pc = "evidence" => loader.doc \in history

\* The document that config and anchor come from.
IssuedFrom(d) ==
    /\ Accepted(d)
    /\ anchor = Digest(Issued(d))
    /\ config.schema = d.schema
    /\ d.schema = 3 => config = Issued(d)

Issues ==
    /\ loader.pc \in Issuing => config # None
    /\ loader.pc \notin Issuing \cup {"refused"} => config = None
    /\ (config = None) = (anchor = None)
    /\ config # None =>
          config \in Configurations(Pins) /\ \E d \in history : IssuedFrom(d)

\* What was asked at the gate is true of the anchor from then on.
Gated ==
    loader.pc \in Issuing \ {"gate"} /\ loader.purpose = "production" =>
       \A s \in LabelledSources(anchor.schema) : anchor.status[s] = "VALIDATED"

Building ==
    /\ loader.pc \in {"factory", "ready"} => graph \in Pins
    /\ (out # None) = (loader.pc = "built")

IInv ==
    /\ FilesTyped /\ LoaderTyped /\ Read /\ Issues /\ Gated /\ Building
    /\ LabelIsEarned /\ ProductionIsValidated

(* ------------------------------------------------------------ documents *)
\* What an author can make of a document is a document.
LEMMA VariantIsDocument ==
    ASSUME NEW d \in Document, NEW e \in Variant(d) PROVE e \in Document
<1>1. CASE e \in FirstDocuments
  BY <1>1, EvidenceAssumption
<1>2. CASE \E t \in Targets : e = [d EXCEPT !.target = t]
  BY <1>2 DEF Document
<1>3. CASE \E s \in Sources, v \in Statuses : e = [d EXCEPT !.status[s] = v]
  BY <1>3 DEF Document
<1>4. CASE \E x \in Required(d), v \in Values : e = [d EXCEPT !.value[x] = v]
  BY <1>4 DEF Document
<1>5. CASE \E x \in Required(d), c \in Chains \cup {None} : e = [d EXCEPT !.chain[x] = c]
  BY <1>5 DEF Document
<1>6. CASE \E x \in Required(d), a \in MetricApprovals \cup {None} :
             e = [d EXCEPT !.approval[x] = a]
  BY <1>6 DEF Document
<1>7. CASE \E s \in Profiles(d), p \in ProfileApprovals \cup {None} :
             e = [d EXCEPT !.profile[s] = p]
  BY <1>7 DEF Document
<1>8. QED
  BY <1>1, <1>2, <1>3, <1>4, <1>5, <1>6, <1>7 DEF Variant

\* Two reads of one version are that version; of two, they may be anything.
LEMMA SpliceOfOne == ASSUME NEW d \in Document \cup {Torn} PROVE Splice(d, d) = d
  BY DEF Splice, Document

\* Torn bytes in one of them are torn bytes in both.
LEMMA SpliceTyped ==
    ASSUME NEW a \in Document \cup {Torn}, NEW b \in Document \cup {Torn}
    PROVE  Splice(a, b) \in Document \cup {Torn}
  BY DEF Splice, Document

\* A sealed object takes its own place.
LEMMA GivenItself == ASSUME NEW d \in Document, NEW o PROVE Given(d, o, o) = d
  <1>1. /\ d.chain = [x \in DOMAIN d.chain |-> IF d.chain[x] = o THEN o ELSE d.chain[x]]
        /\ d.approval = [x \in DOMAIN d.approval |-> IF d.approval[x] = o THEN o ELSE d.approval[x]]
        /\ d.profile = [s \in DOMAIN d.profile |-> IF d.profile[s] = o THEN o ELSE d.profile[s]]
        BY DEF Document
  <1>2. d.target = IF d.target = o THEN o ELSE d.target
        OBVIOUS
  <1> QED BY <1>1, <1>2 DEF Given, Document

\* A binding is made where an accepted document has the study of its approval.
LEMMA BindingTyped ==
    ASSUME NEW d \in Document, Accepted(d), NEW x \in Required(d)
    PROVE  Binding(d, x) \in [target : Targets, metric : Metrics, value : Values] \cup {None}
<1>1. CASE d.approval[x] = None
  BY <1>1 DEF Binding
<1>2. CASE d.approval[x] # None
  <2>1. x \in Metrics
    BY EvidenceAssumption DEF Required, Metrics
  <2>2. d.approval[x] \in MetricApprovals
    BY <1>2, <2>1 DEF Document
  <2>3. d.approval[x].value \in Values
    BY <2>2, EvidenceAssumption
  <2>4. d.chain[x] # None
    <3>1. CASE d.schema = 3
      BY <3>1 DEF Accepted, ThresholdHolds, Required
    <3>2. CASE d.schema # 3
      <4>1. PICK s \in Sources : x \in Layer(s)
        BY <2>1 DEF Metrics, Sources, Layer
      <4>2. MetricHolds(d, s, x)
        BY <3>2, <4>1 DEF Accepted, FormalHolds, ProfileHolds
      <4>3. QED
        BY <1>2, <4>2 DEF MetricHolds
    <3>3. QED
      BY <3>1, <3>2
  <2>5. d.chain[x] \in Chains
    BY <2>1, <2>4 DEF Document
  <2>6. d.chain[x].target \in Targets
    BY <2>5, EvidenceAssumption
  <2>7. QED
    BY <1>2, <2>1, <2>3, <2>6 DEF Binding
<1>3. QED
  BY <1>1, <1>2

\* What is issued is a configuration, and so is its digest.
LEMMA IssuedTyped ==
    ASSUME NEW d \in Document, Accepted(d)
    PROVE  /\ Issued(d) \in Configurations(Pins)
           /\ Digest(Issued(d)) \in Configurations({None})
<1>1. [x \in Metrics |-> IF x \in Required(d) THEN Binding(d, x) ELSE None] \in
         [Metrics -> [target : Targets, metric : Metrics, value : Values] \cup {None}]
  BY BindingTyped
<1>2. Issued(d) \in Configurations(Pins)
  BY <1>1 DEF Issued, Configurations, Document
<1>3. QED
  BY <1>2 DEF Digest, Configurations

\* A change in memory leaves a configuration, of the same schema.
LEMMA TamperedTyped ==
    ASSUME NEW c \in Configurations(Pins), NEW e \in Tampered(c)
    PROVE  e \in Configurations(Pins) /\ e.schema = c.schema
<1>1. CASE \E t \in Targets : e = [c EXCEPT !.target = t]
  BY <1>1 DEF Configurations
<1>2. CASE \E s \in Sources, v \in Statuses : e = [c EXCEPT !.status[s] = v]
  BY <1>2 DEF Configurations
<1>3. CASE \E x \in Metrics, v \in Values : e = [c EXCEPT !.value[x] = v]
  BY <1>3 DEF Configurations
<1>4. CASE \E x \in {y \in Metrics : c.bound[y] # None}, v \in Values :
             e = [c EXCEPT !.bound[x] = [@ EXCEPT !.value = v]]
  <2>1. PICK x \in Metrics, v \in Values :
           c.bound[x] # None /\ e = [c EXCEPT !.bound[x] = [@ EXCEPT !.value = v]]
    BY <1>4
  <2>2. c.bound[x] \in [target : Targets, metric : Metrics, value : Values]
    BY <2>1 DEF Configurations
  <2>3. [c.bound[x] EXCEPT !.value = v] \in
           [target : Targets, metric : Metrics, value : Values]
    BY <2>1, <2>2
  <2>4. QED
    BY <2>1, <2>3 DEF Configurations
<1>5. CASE \E t \in Targets : e = [c EXCEPT !.plugin = t.plug]
  BY <1>5 DEF Configurations, Pins
<1>6. CASE \E t \in Targets : e = [c EXCEPT !.source = t.pre]
  BY <1>6 DEF Configurations, Pins
<1>7. QED
  BY <1>1, <1>2, <1>3, <1>4, <1>5, <1>6 DEF Tampered

\* The digest tells all of a configuration but its source settings.
LEMMA DigestTells ==
    ASSUME NEW c \in Configurations(Pins), NEW e \in Configurations(Pins),
           Digest(c) = Digest(e)
    PROVE  /\ c.schema = e.schema /\ c.target = e.target /\ c.status = e.status
           /\ c.value = e.value /\ c.bound = e.bound /\ c.plugin = e.plugin
  BY DEF Digest, Configurations

(* ------------------------------------------------------------- the steps *)
USE DEF Issuing, Reading, LabelledSources, Sources, Disk, Memory

\* Nothing has been read, issued or built initially.
LEMMA Starts == Init => IInv
<1> SUFFICES ASSUME Init PROVE IInv
  OBVIOUS
<1>1. PICK d \in FirstDocuments : files = <<[doc |-> d, stamp |-> 1]>> /\ history = {d}
  BY DEF Init
<1>2. d \in Document
  BY EvidenceAssumption
<1>3. FilesTyped
  BY <1>1, <1>2 DEF FilesTyped, Versions
<1>4. LoaderTyped
  BY <1>1 DEF LoaderTyped, Init, Idle
<1>5. Read /\ Issues /\ Gated /\ Building /\ LabelIsEarned /\ ProductionIsValidated
  BY DEF Read, Issues, Gated, Building, LabelIsEarned, ProductionIsValidated, Init, Idle
<1>6. QED
  BY <1>3, <1>4, <1>5 DEF IInv

(* One lemma per action follows; each says conjunct by conjunct what the step keeps. *)
LEMMA Stands == ASSUME IInv, UNCHANGED vars PROVE IInv'
<1>1. FilesTyped' /\ LoaderTyped'
  BY DEF IInv, FilesTyped, LoaderTyped, vars
<1>2. Read' /\ Building' /\ Gated'
  BY DEF IInv, Read, Building, Gated, vars
<1>3. Issues'
  BY DEF IInv, Issues, IssuedFrom, vars
<1>4. LabelIsEarned' /\ ProductionIsValidated'
  BY DEF IInv, LabelIsEarned, EarnedFor, ProductionIsValidated, vars
<1>5. QED
  BY <1>1, <1>2, <1>3, <1>4 DEF IInv


\* The inode that the name stands for.
LEMMA LastVersion ==
    ASSUME FilesTyped
    PROVE  /\ Len(files) \in Nat \ {0} /\ DOMAIN files = 1 .. Len(files)
           /\ Current \in Versions /\ Current.stamp \in Nat
           /\ Current.doc \in history \cup {Torn}
<1>1. files \in Seq(Versions) /\ files # <<>>
  BY DEF FilesTyped
<1>2. Len(files) \in Nat \ {0} /\ DOMAIN files = 1 .. Len(files)
  BY <1>1
<1>3. Current \in Versions /\ Current.doc \in history \cup {Torn}
  BY <1>1, <1>2 DEF FilesTyped, Current
<1>4. QED
  BY <1>2, <1>3 DEF Versions

\* The last inode is written in place: the others stay, and its stamp grows.
LEMMA WrittenInPlace ==
    ASSUME IInv, NEW d \in Document \cup {Torn}, history' \subseteq Document,
           history \subseteq history', d \in history' \cup {Torn},
           files' = [files EXCEPT ![Len(files)] = [doc |-> d, stamp |-> @.stamp + 1]],
           UNCHANGED loader
    PROVE  FilesTyped' /\ LoaderTyped' /\ Read'
<1>1. /\ Len(files) \in Nat \ {0} /\ DOMAIN files = 1 .. Len(files)
      /\ Current.stamp \in Nat
  BY LastVersion DEF IInv
<1>2. [doc |-> d, stamp |-> Current.stamp + 1] \in Versions
  BY <1>1 DEF Versions
<1>3. files' = [files EXCEPT ![Len(files)] = [doc |-> d, stamp |-> Current.stamp + 1]]
  BY DEF Current
<1>4. files' \in Seq(Versions) /\ Len(files') = Len(files) /\ DOMAIN files' = DOMAIN files
  BY <1>1, <1>2, <1>3 DEF IInv, FilesTyped
<1>5. /\ files'[Len(files)] = [doc |-> d, stamp |-> Current.stamp + 1]
      /\ \A i \in DOMAIN files : i # Len(files) => files'[i] = files[i]
  BY <1>1, <1>3
<1>6. \A i \in DOMAIN files' : files'[i].doc \in history' \cup {Torn}
  BY <1>4, <1>5 DEF IInv, FilesTyped
<1>7. files' # <<>>
  BY <1>1, <1>4
<1>8. FilesTyped'
  BY <1>4, <1>6, <1>7 DEF FilesTyped
<1>9. LoaderTyped'
  BY <1>4 DEF IInv, LoaderTyped
<1>10. /\ files'[Len(files)].stamp = Current.stamp + 1
       /\ loader.fd = Len(files) => files[loader.fd].stamp = Current.stamp
  BY <1>5 DEF Current
<1>11. Read'
  <2>1. CASE loader.fd = Len(files) /\ loader.pc \in Reading
    <3>1. loader.before <= Current.stamp /\ loader.before \in Nat
      BY <2>1, <1>10 DEF IInv, Read, LoaderTyped
    <3>2. loader.before # files'[loader.fd].stamp /\ loader.before <= files'[loader.fd].stamp
      BY <3>1, <2>1, <1>1, <1>10
    <3>3. QED
      BY <2>1, <3>2, <1>1, <1>4 DEF Read
  <2>2. CASE loader.fd # Len(files) /\ loader.pc \in Reading
    <3>1. loader.fd \in DOMAIN files /\ files'[loader.fd] = files[loader.fd]
      BY <2>2, <1>5 DEF IInv, Read
    <3>2. QED
      BY <2>2, <3>1, <1>4 DEF IInv, Read
  <2>3. CASE loader.pc \notin Reading
    BY <2>3 DEF IInv, Read
  <2>4. QED
    BY <2>1, <2>2, <2>3
<1>12. QED
  BY <1>8, <1>9, <1>11

\* What an approval of an accepted v4 document stands for.
LEMMA FormalIsEarned ==
    ASSUME NEW d \in Document, Accepted(d), d.schema # 3,
           NEW s \in Sources, d.status[s] = "VALIDATED"
    PROVE  /\ d.target \in Targets
           /\ \A x \in Layer(s) : \E a \in MetricApprovals :
                /\ a.chain.passed /\ a.chain.target = d.target /\ a.chain.metric = x
                /\ a.value = a.chain.value /\ a.value = d.value[x]
                /\ \E p \in ProfileApprovals :
                      p.target = d.target /\ p.source = s /\ a \in p.metrics
<1>1. ProfileHolds(d, s)
  BY DEF Accepted, FormalHolds
<1>2. ProfileApproved(d, s)
  BY <1>1 DEF ProfileHolds
<1>3. d.profile[s] \in ProfileApprovals
  BY <1>2 DEF ProfileApproved, Document
<1>4. d.target \in Targets
  BY <1>2, <1>3, EvidenceAssumption DEF ProfileApproved
<1>5. ASSUME NEW x \in Layer(s)
      PROVE  \E a \in MetricApprovals :
                /\ a.chain.passed /\ a.chain.target = d.target /\ a.chain.metric = x
                /\ a.value = a.chain.value /\ a.value = d.value[x]
                /\ \E p \in ProfileApprovals :
                      p.target = d.target /\ p.source = s /\ a \in p.metrics
  <2>1. x \in Metrics
    BY DEF Layer, Metrics
  <2>2. MetricHolds(d, s, x)
    BY <1>1 DEF ProfileHolds
  <2>3. d.approval[x] \in MetricApprovals
    BY <2>1, <2>2 DEF MetricHolds, Document
  <2>4. /\ d.approval[x].chain.passed /\ d.approval[x].chain.target = d.target
        /\ d.approval[x].chain.metric = x
        /\ d.approval[x].value = d.approval[x].chain.value
        /\ d.approval[x].value = d.value[x]
    BY <2>2 DEF MetricHolds, MetricApproved
  <2>5. /\ d.profile[s].target = d.target /\ d.profile[s].source = s
        /\ d.approval[x] \in d.profile[s].metrics
    BY <1>2 DEF ProfileApproved
  <2>6. QED
    BY <1>3, <2>3, <2>4, <2>5
<1>6. QED
  BY <1>4, <1>5

\* And the one approval of an accepted v3 document.
LEMMA ThresholdIsEarned ==
    ASSUME NEW d \in Document, Accepted(d), d.schema = 3, d.status["l2"] = "VALIDATED"
    PROVE  \E a \in MetricApprovals :
              /\ a = d.approval[Reference] /\ a.chain = d.chain[Reference]
              /\ d.chain[Reference].target \in Targets
              /\ a.chain.passed /\ a.chain.metric = Reference
              /\ a.value = a.chain.value /\ a.value = d.value[Reference]
              /\ Issued(d).bound[Reference].target = d.chain[Reference].target
<1>1. ThresholdHolds(d)
  BY DEF Accepted
<1>2. Reference \in Metrics
  BY EvidenceAssumption DEF Metrics
<1>3. d.chain[Reference] \in Chains /\ d.approval[Reference] \in MetricApprovals
  BY <1>1, <1>2 DEF ThresholdHolds, Document
<1>4. /\ MetricApproved(d.chain[Reference], d.approval[Reference],
                        d.chain[Reference].target, Reference)
      /\ d.approval[Reference].value = d.value[Reference]
  BY <1>1, <1>3, SentinelAssumption DEF ThresholdHolds
<1>5. d.chain[Reference].target \in Targets
  BY <1>3, EvidenceAssumption
<1>6. Issued(d).bound[Reference].target = d.chain[Reference].target
  BY <1>2, <1>3, SentinelAssumption DEF Issued, Binding, Required
<1>7. QED
  BY <1>3, <1>4, <1>5, <1>6 DEF MetricApproved

\* A boundary that accepts a configuration sees what was accepted.
LEMMA SeesIssued ==
    ASSUME NEW d \in Document, config \in Configurations(Pins), IssuedFrom(d),
           d.schema = 3 \/ Digest(config) = anchor
    PROVE  /\ config.schema = d.schema /\ config.target = d.target
           /\ config.status = d.status /\ config.value = d.value
           /\ config.bound = Issued(d).bound
           /\ anchor.schema = d.schema /\ anchor.status = d.status
<1>1. Issued(d) \in Configurations(Pins)
  BY IssuedTyped DEF IssuedFrom
<1>2. Digest(config) = Digest(Issued(d))
  BY DEF IssuedFrom
<1>3. /\ config.schema = Issued(d).schema /\ config.target = Issued(d).target
      /\ config.status = Issued(d).status /\ config.value = Issued(d).value
      /\ config.bound = Issued(d).bound
  BY <1>1, <1>2, DigestTells
<1>4. anchor.schema = Issued(d).schema /\ anchor.status = Issued(d).status
  BY <1>1 DEF IssuedFrom, Digest, Configurations
<1>5. QED
  BY <1>3, <1>4 DEF Issued

LEMMA OpenContextKeeps ==
    ASSUME IInv, NEW purpose \in {"production", "display"}, OpenContext(purpose)
    PROVE  IInv'
<1>1. FilesTyped'
  BY DEF IInv, FilesTyped, OpenContext
<1>2. LoaderTyped'
  <2>1. Len(files) \in Nat /\ Current.stamp \in Nat
    BY LastVersion DEF IInv
  <2>2. loader' = [pc |-> "opened", purpose |-> purpose, fd |-> Len(files),
                   before |-> Current.stamp, first |-> Torn, doc |-> Torn, todo |-> <<>>]
    BY DEF OpenContext, Idle
  <2>3. UNCHANGED files
    BY DEF OpenContext
  <2>4. QED
    BY <2>1, <2>2, <2>3 DEF LoaderTyped
<1>3. Read'
  <2>1. Len(files) \in DOMAIN files /\ Current.stamp \in Nat
    BY LastVersion DEF IInv
  <2>2. loader'.pc = "opened" /\ loader'.fd = Len(files) /\ loader'.before = Current.stamp
    BY DEF OpenContext
  <2>3. UNCHANGED files
    BY DEF OpenContext
  <2>4. QED
    BY <2>1, <2>2, <2>3 DEF Read, Current
<1>4. Issues'
  BY DEF IInv, Issues, OpenContext
<1>5. Gated'
  BY DEF Gated, OpenContext
<1>6. Building'
  BY DEF IInv, Building, OpenContext
<1>7. LabelIsEarned'
  BY DEF IInv, Building, LabelIsEarned, OpenContext
<1>8. ProductionIsValidated'
  BY DEF IInv, Building, ProductionIsValidated, OpenContext
<1>9. QED
  BY <1>1, <1>2, <1>3, <1>4, <1>5, <1>6, <1>7, <1>8 DEF IInv

LEMMA ReadFirstKeeps == ASSUME IInv, ReadFirst PROVE IInv'
<1>1. FilesTyped'
  BY DEF IInv, FilesTyped, ReadFirst
<1>2. LoaderTyped'
  BY DEF IInv, FilesTyped, LoaderTyped, Read, ReadFirst
<1>3. Read'
  BY DEF IInv, Read, ReadFirst
<1>4. Issues'
  BY DEF IInv, Issues, ReadFirst
<1>5. Gated'
  BY DEF Gated, ReadFirst
<1>6. Building'
  BY DEF IInv, Building, ReadFirst
<1>7. LabelIsEarned'
  BY DEF IInv, Building, LabelIsEarned, ReadFirst
<1>8. ProductionIsValidated'
  BY DEF IInv, ProductionIsValidated, ReadFirst
<1>9. QED
  BY <1>1, <1>2, <1>3, <1>4, <1>5, <1>6, <1>7, <1>8 DEF IInv

LEMMA ReadSecondKeeps == ASSUME IInv, ReadSecond PROVE IInv'
<1>1. FilesTyped'
  BY DEF IInv, FilesTyped, ReadSecond
<1>2. LoaderTyped'
  <2>1. files[loader.fd].doc \in Document \cup {Torn}
    BY DEF IInv, Read, FilesTyped, ReadSecond
  <2>2. Splice(loader.first, files[loader.fd].doc) \in Document \cup {Torn}
    BY <2>1, SpliceTyped DEF IInv, LoaderTyped
  <2>3. QED
    BY <2>2 DEF IInv, LoaderTyped, ReadSecond
<1>3. Read'
  <2>1. files[loader.fd].doc \in Document \cup {Torn}
    BY DEF IInv, Read, FilesTyped, ReadSecond
  <2>2. loader.before = files[loader.fd].stamp =>
           Splice(loader.first, files[loader.fd].doc) = files[loader.fd].doc
    BY <2>1, SpliceOfOne DEF IInv, Read, ReadSecond
  <2>3. QED
    BY <2>2 DEF IInv, Read, ReadSecond
<1>4. Issues'
  BY DEF IInv, Issues, ReadSecond
<1>5. Gated'
  BY DEF Gated, ReadSecond
<1>6. Building'
  BY DEF IInv, Building, ReadSecond
<1>7. LabelIsEarned'
  BY DEF IInv, Building, LabelIsEarned, ReadSecond
<1>8. ProductionIsValidated'
  BY DEF IInv, ProductionIsValidated, ReadSecond
<1>9. QED
  BY <1>1, <1>2, <1>3, <1>4, <1>5, <1>6, <1>7, <1>8 DEF IInv

LEMMA ParseContextKeeps == ASSUME IInv, ParseContext PROVE IInv'
<1>1. FilesTyped'
  BY DEF IInv, FilesTyped, ParseContext
<1>2. LoaderTyped'
  BY DEF IInv, LoaderTyped, ParseContext, Step
<1>3. Read'
  <2>1. CASE Unchanged(loader.before, files[loader.fd].stamp) /\ loader.doc # Torn
    <3>1. loader.doc = files[loader.fd].doc /\ loader.fd \in DOMAIN files
      BY <2>1 DEF IInv, Read, ParseContext, Unchanged
    <3>2. loader.doc \in history
      BY <2>1, <3>1 DEF IInv, FilesTyped
    <3>3. loader'.pc = "evidence" /\ loader'.doc = loader.doc /\ UNCHANGED history
      BY <2>1 DEF IInv, LoaderTyped, ParseContext
    <3>4. QED
      BY <3>2, <3>3 DEF Read
  <2>2. CASE ~(Unchanged(loader.before, files[loader.fd].stamp) /\ loader.doc # Torn)
    <3>1. loader'.pc = "refused"
      BY <2>2 DEF IInv, LoaderTyped, ParseContext, Step
    <3>2. QED
      BY <3>1 DEF Read
  <2>3. QED
    BY <2>1, <2>2
<1>4. Issues'
  BY DEF IInv, LoaderTyped, Issues, ParseContext, Step
<1>5. Gated'
  BY DEF IInv, LoaderTyped, Gated, ParseContext, Step
<1>6. Building'
  BY DEF IInv, LoaderTyped, Building, ParseContext, Step
<1>7. LabelIsEarned'
  BY DEF IInv, Building, LabelIsEarned, ParseContext
<1>8. ProductionIsValidated'
  BY DEF IInv, Building, ProductionIsValidated, ParseContext
<1>9. QED
  BY <1>1, <1>2, <1>3, <1>4, <1>5, <1>6, <1>7, <1>8 DEF IInv

LEMMA ReadEvidenceKeeps == ASSUME IInv, ReadEvidence PROVE IInv'
<1>1. FilesTyped'
  BY DEF IInv, FilesTyped, ReadEvidence
<1>2. LoaderTyped' /\ Read'
  <2>1. loader.doc \in Document
    BY DEF IInv, Read, FilesTyped, ReadEvidence
  <2>2. CASE Sealed(Head(loader.todo), store[Head(loader.todo)])
    <3>1. Given(loader.doc, Head(loader.todo), store[Head(loader.todo)]) = loader.doc
      BY <2>1, <2>2, GivenItself DEF Sealed
    <3>2. loader' = [loader EXCEPT !.todo = Tail(@), !.doc = loader.doc]
      BY <2>2, <3>1 DEF ReadEvidence
    <3>3. QED
      BY <3>2 DEF IInv, LoaderTyped, Read, ReadEvidence
  <2>3. CASE ~Sealed(Head(loader.todo), store[Head(loader.todo)])
    BY <2>3 DEF IInv, LoaderTyped, Read, ReadEvidence, Step
  <2>4. QED
    BY <2>2, <2>3
<1>3. Issues'
  BY DEF IInv, LoaderTyped, Issues, ReadEvidence, Step
<1>4. Gated'
  BY DEF IInv, LoaderTyped, Gated, ReadEvidence, Step
<1>5. Building'
  BY DEF IInv, LoaderTyped, Building, ReadEvidence, Step
<1>6. LabelIsEarned'
  BY DEF IInv, Building, LabelIsEarned, ReadEvidence
<1>7. ProductionIsValidated'
  BY DEF IInv, Building, ProductionIsValidated, ReadEvidence
<1>8. QED
  BY <1>1, <1>2, <1>3, <1>4, <1>5, <1>6, <1>7 DEF IInv

LEMMA IssueConfigKeeps == ASSUME IInv, IssueConfig PROVE IInv'
<1>1. FilesTyped'
  BY DEF IInv, FilesTyped, IssueConfig
<1>2. LoaderTyped'
  BY DEF IInv, LoaderTyped, IssueConfig, Step
<1>3. Read'
  BY DEF IInv, LoaderTyped, Read, IssueConfig, Step
<1>4. Issues'
  <2>1. CASE Accepted(loader.doc)
    <3>1. loader.doc \in history /\ loader.doc \in Document
      BY DEF IInv, Read, FilesTyped, IssueConfig
    <3>2. /\ Issued(loader.doc) \in Configurations(Pins)
          /\ Digest(Issued(loader.doc)) \in Configurations({None})
      BY <2>1, <3>1, IssuedTyped
    <3>3. config' = Issued(loader.doc) /\ anchor' = Digest(Issued(loader.doc))
      BY <2>1 DEF IssueConfig
    <3>4. config' # None /\ anchor' # None
      BY <3>2, <3>3, SentinelAssumption
    <3>5. loader'.pc \in Issuing /\ UNCHANGED history
      BY <2>1 DEF IInv, LoaderTyped, IssueConfig, Step
    <3>7. config'.schema = loader.doc.schema
      BY <3>3 DEF Issued
    <3>8. \E d \in history' : IssuedFrom(d)'
      BY <2>1, <3>1, <3>3, <3>5, <3>7 DEF IssuedFrom
    <3>9. QED
      BY <3>2, <3>3, <3>4, <3>5, <3>8 DEF Issues
  <2>2. CASE ~Accepted(loader.doc)
    BY <2>2 DEF IInv, LoaderTyped, Issues, IssueConfig, Step
  <2>3. QED
    BY <2>1, <2>2
<1>5. Gated'
  BY DEF IInv, LoaderTyped, Gated, IssueConfig, Step
<1>6. Building'
  BY DEF IInv, LoaderTyped, Building, IssueConfig, Step
<1>7. LabelIsEarned'
  BY DEF IInv, Building, LabelIsEarned, IssueConfig
<1>8. ProductionIsValidated'
  BY DEF IInv, Building, ProductionIsValidated, IssueConfig
<1>9. QED
  BY <1>1, <1>2, <1>3, <1>4, <1>5, <1>6, <1>7, <1>8 DEF IInv

LEMMA GateKeeps == ASSUME IInv, Gate PROVE IInv'
<1>1. FilesTyped'
  BY DEF IInv, FilesTyped, Gate
<1>2. LoaderTyped'
  BY DEF IInv, LoaderTyped, Gate, Step
<1>3. Read'
  BY DEF Read, Gate, Step
<1>4. Issues'
  BY DEF IInv, Issues, IssuedFrom, Gate, Step
<1>5. Gated'
  <2>1. PICK d \in history : IssuedFrom(d)
    BY DEF IInv, Issues, Gate
  <2>2. d \in Document /\ config \in Configurations(Pins)
    BY DEF IInv, FilesTyped, Issues, Gate
  <2>3. CASE Validated(config) /\ config.schema = 3
    <3>1. anchor.schema = d.schema /\ anchor.status = d.status /\ config.status = d.status
      BY <2>1, <2>2, <2>3, SeesIssued DEF IssuedFrom
    <3>2. anchor.schema = 3 /\ anchor.status["l2"] = "VALIDATED"
      BY <2>1, <2>3, <3>1 DEF IssuedFrom, Validated
    <3>3. QED
      BY <3>2 DEF Gated, Gate
  <2>4. CASE Validated(config) /\ config.schema # 3
    <3>1. Integrity(config, anchor, TRUE)
      BY <2>4 DEF Validated
    <3>2. anchor = Digest(config) /\ \A s \in Sources : config.status[s] = "VALIDATED"
      BY <3>1 DEF Integrity
    <3>3. anchor.status = config.status
      BY <2>1, <2>2, <3>2, SeesIssued
    <3>4. QED
      BY <3>2, <3>3 DEF Gated, Gate
  <2>5. CASE ~Validated(config)
    BY <2>5 DEF Gated, Gate, Step
  <2>6. QED
    BY <2>3, <2>4, <2>5
<1>6. Building'
  BY DEF IInv, Building, Gate, Step
<1>7. LabelIsEarned'
  BY DEF IInv, Building, LabelIsEarned, Gate
<1>8. ProductionIsValidated'
  BY DEF IInv, Building, ProductionIsValidated, Gate
<1>9. QED
  BY <1>1, <1>2, <1>3, <1>4, <1>5, <1>6, <1>7, <1>8 DEF IInv

LEMMA SupplyKeeps == ASSUME IInv, Supply PROVE IInv'
<1>1. FilesTyped'
  BY DEF IInv, FilesTyped, Supply
<1>2. LoaderTyped'
  BY DEF IInv, LoaderTyped, Supply, Step
<1>3. Read'
  BY DEF Read, Supply, Step
<1>4. Issues'
  BY DEF IInv, Issues, IssuedFrom, Supply, Step
<1>5. Gated'
  BY DEF IInv, Gated, Supply, Step
<1>6. Building'
  <2>1. graph' \in Pins
    BY DEF Supply, Pins
  <2>2. loader'.pc = "factory" /\ UNCHANGED out /\ loader.pc = "supply"
    BY DEF Supply, Step
  <2>3. QED
    BY <2>1, <2>2 DEF IInv, Building
<1>7. LabelIsEarned'
  BY DEF IInv, Building, LabelIsEarned, Supply
<1>8. ProductionIsValidated'
  BY DEF IInv, Building, ProductionIsValidated, Supply
<1>9. QED
  BY <1>1, <1>2, <1>3, <1>4, <1>5, <1>6, <1>7, <1>8 DEF IInv

LEMMA FactoryKeeps == ASSUME IInv, Factory PROVE IInv'
<1>1. FilesTyped'
  BY DEF IInv, FilesTyped, Factory
<1>2. LoaderTyped'
  BY DEF IInv, LoaderTyped, Factory, Step
<1>3. Read'
  BY DEF Read, Factory, Step
<1>4. Issues'
  BY DEF IInv, Issues, IssuedFrom, Factory, Step
<1>5. Gated'
  BY DEF IInv, Gated, Factory, Step
<1>6. Building'
  BY DEF IInv, Building, Factory, Step
<1>7. LabelIsEarned'
  BY DEF IInv, Building, LabelIsEarned, Factory
<1>8. ProductionIsValidated'
  BY DEF IInv, Building, ProductionIsValidated, Factory
<1>9. QED
  BY <1>1, <1>2, <1>3, <1>4, <1>5, <1>6, <1>7, <1>8 DEF IInv

\* A context that is built comes from a document that was accepted, and was asked about.
LEMMA Built ==
    ASSUME IInv, Build, out' # None
    PROVE  \E d \in history, version \in Pins :
              /\ IssuedFrom(d) /\ d \in Document /\ config \in Configurations(Pins)
              /\ d.schema = 3 \/ Digest(config) = anchor
              /\ ContextBuilds(config, graph, version)
              /\ out' = [status |-> config.status, value |-> config.value,
                         schema |-> config.schema, encoder |-> graph, version |-> version]
              /\ loader' = [loader EXCEPT !.pc = "built"]
<1>1. out = None
  BY DEF IInv, Building, Build
<1>2. PICK version \in {t.pre : t \in Targets} :
         /\ ContextBuilds(config, graph, version)
         /\ out' = [status |-> config.status, value |-> config.value,
                    schema |-> config.schema, encoder |-> graph, version |-> version]
         /\ loader' = [loader EXCEPT !.pc = "built"]
  BY <1>1 DEF Build, Step
<1>3. PICK d \in history : IssuedFrom(d)
  BY DEF IInv, Issues, Build
<1>4. d \in Document /\ config \in Configurations(Pins)
  BY DEF IInv, FilesTyped, Issues, Build
<1>5. d.schema = 3 \/ Digest(config) = anchor
  BY <1>2, <1>3 DEF ContextBuilds, Integrity, IssuedFrom
<1>6. QED
  BY <1>2, <1>3, <1>4, <1>5 DEF Pins

LEMMA BuildKeeps == ASSUME IInv, Build PROVE IInv'
<1>1. FilesTyped'
  BY DEF IInv, FilesTyped, Build
<1>2. LoaderTyped'
  BY DEF IInv, LoaderTyped, Build, Step
<1>3. Read'
  BY DEF IInv, LoaderTyped, Read, Build, Step
<1>4. Issues'
  BY DEF IInv, LoaderTyped, Issues, IssuedFrom, Build, Step
<1>5. Gated'
  BY DEF IInv, LoaderTyped, Gated, Build, Step
<1>6. Building'
  <2>1. ASSUME NEW version \in {t.pre : t \in Targets}
        PROVE  [status |-> config.status, value |-> config.value, schema |-> config.schema,
                encoder |-> graph, version |-> version] # None
    <3>1. config \in Configurations(Pins) /\ graph \in Pins
      BY DEF IInv, Issues, Building, Build
    <3>2. version \in Pins
      BY DEF Pins
    <3>3. [status |-> config.status, value |-> config.value, schema |-> config.schema,
           encoder |-> graph, version |-> version] \in Contexts
      BY <3>1, <3>2 DEF Configurations, Contexts
    <3>4. QED
      BY <3>3, SentinelAssumption
  <2>2. \/ loader'.pc = "built" /\ out' # None
        \/ loader'.pc = "refused" /\ out' = out
    BY <2>1 DEF IInv, LoaderTyped, Build, Step
  <2>3. out = None
    BY DEF IInv, Building, Build
  <2>4. QED
    BY <2>2, <2>3 DEF Building
<1>7. LabelIsEarned'
  <2> SUFFICES ASSUME out' # None,
                      NEW s \in LabelledSources(out'.schema), out'.status[s] = "VALIDATED"
               PROVE  \E t \in Targets :
                         /\ s = "l2" => out'.encoder = t.enc /\ out'.version = t.pre
                         /\ \A x \in IF out'.schema = 3 THEN {Reference} ELSE Layer(s) :
                               EarnedFor(t, s, x)'
    BY DEF LabelIsEarned
  <2>1. PICK d \in history, version \in Pins :
              /\ IssuedFrom(d) /\ d \in Document /\ config \in Configurations(Pins)
              /\ d.schema = 3 \/ Digest(config) = anchor
              /\ ContextBuilds(config, graph, version)
              /\ out' = [status |-> config.status, value |-> config.value,
                         schema |-> config.schema, encoder |-> graph, version |-> version]
    BY Built
  <2>2. /\ config.schema = d.schema /\ config.target = d.target
        /\ config.status = d.status /\ config.value = d.value
        /\ config.bound = Issued(d).bound
    BY <2>1, SeesIssued
  <2>3. /\ out'.schema = d.schema /\ out'.status = d.status /\ out'.value = d.value
        /\ out'.encoder = graph /\ out'.version = version
    BY <2>1, <2>2
  <2>4. CASE d.schema = 3
    <3>1. s = "l2" /\ d.status["l2"] = "VALIDATED"
      BY <2>3, <2>4
    <3>2. PICK a \in MetricApprovals :
              /\ a = d.approval[Reference] /\ a.chain = d.chain[Reference]
              /\ d.chain[Reference].target \in Targets
              /\ a.chain.passed /\ a.chain.metric = Reference
              /\ a.value = a.chain.value /\ a.value = d.value[Reference]
              /\ Issued(d).bound[Reference].target = d.chain[Reference].target
      BY <2>1, <2>4, <3>1, ThresholdIsEarned DEF IssuedFrom
    <3>3. graph = d.chain[Reference].target.enc /\ version = d.chain[Reference].target.pre
      BY <2>1, <2>2, <2>4, <3>1, <3>2 DEF ContextBuilds
    <3>4. EarnedFor(d.chain[Reference].target, s, Reference)'
      <4>1. /\ a.chain.target = d.chain[Reference].target /\ out'.schema # 4
            /\ a.value = out'.value[Reference]
        BY <2>3, <2>4, <3>2
      <4>2. QED
        BY <3>2, <4>1, Zenon DEF EarnedFor
    <3>5. QED
      BY <2>3, <2>4, <3>2, <3>3, <3>4
  <2>5. CASE d.schema # 3
    <3>1. s \in Sources /\ d.status[s] = "VALIDATED"
      BY <2>3, <2>5
    <3>2. /\ d.target \in Targets
          /\ \A x \in Layer(s) : \E a \in MetricApprovals :
                /\ a.chain.passed /\ a.chain.target = d.target /\ a.chain.metric = x
                /\ a.value = a.chain.value /\ a.value = d.value[x]
                /\ \E p \in ProfileApprovals :
                      p.target = d.target /\ p.source = s /\ a \in p.metrics
      BY <2>1, <2>5, <3>1, FormalIsEarned DEF IssuedFrom
    <3>3. ASSUME s = "l2" PROVE graph = d.target.enc /\ version = d.target.pre
      <4>1. Reference \in L2 /\ Reference \in Layer("l2")
        BY EvidenceAssumption DEF Layer
      <4>2. config.status["l2"] = "VALIDATED" /\ config.schema # 3
        BY <2>2, <2>5, <3>1, <3>3
      <4>3. Integrity(config, anchor, FALSE)
        BY <2>1, <4>2 DEF ContextBuilds
      <4>4. config.bound[Reference].target = d.target
        BY <2>2, <4>1, <4>2, <4>3 DEF Integrity, ProfileIntact
      <4>5. /\ config.bound[Reference].target.enc = graph
            /\ config.bound[Reference].target.pre = config.source /\ config.source = version
        BY <2>1, <4>1, <4>2 DEF ContextBuilds
      <4>6. QED
        BY <4>4, <4>5
    <3>4. \A x \in Layer(s) : EarnedFor(d.target, s, x)'
      BY <2>3, <3>2 DEF EarnedFor
    <3>5. QED
      BY <2>3, <2>5, <3>2, <3>3, <3>4
  <2>6. QED
    BY <2>4, <2>5
<1>8. ProductionIsValidated'
  <2> SUFFICES ASSUME out' # None, loader'.purpose = "production"
               PROVE  \A s \in LabelledSources(out'.schema) : out'.status[s] = "VALIDATED"
    BY DEF ProductionIsValidated
  <2>1. PICK d \in history, version \in Pins :
              /\ IssuedFrom(d) /\ d \in Document /\ config \in Configurations(Pins)
              /\ d.schema = 3 \/ Digest(config) = anchor
              /\ out' = [status |-> config.status, value |-> config.value,
                         schema |-> config.schema, encoder |-> graph, version |-> version]
              /\ loader' = [loader EXCEPT !.pc = "built"]
    BY Built
  <2>2. /\ config.schema = d.schema /\ config.status = d.status
        /\ anchor.schema = d.schema /\ anchor.status = d.status
    BY <2>1, SeesIssued
  <2>3. out'.schema = anchor.schema /\ out'.status = anchor.status
    BY <2>1, <2>2
  <2>4. loader.purpose = "production" /\ loader.pc = "ready"
    BY <2>1 DEF Build
  <2>5. \A s \in LabelledSources(anchor.schema) : anchor.status[s] = "VALIDATED"
    BY <2>4 DEF IInv, Gated
  <2>6. QED
    BY <2>3, <2>5
<1>9. QED
  BY <1>1, <1>2, <1>3, <1>4, <1>5, <1>6, <1>7, <1>8 DEF IInv

LEMMA LeaveKeeps == ASSUME IInv, Leave PROVE IInv'
<1>1. FilesTyped'
  BY DEF IInv, FilesTyped, Leave
<1>2. LoaderTyped'
  BY DEF LoaderTyped, Leave, Idle
<1>3. Read'
  BY DEF Read, Leave, Idle
<1>4. Issues'
  BY DEF Issues, Leave, Idle
<1>5. Gated'
  BY DEF Gated, Leave, Idle
<1>6. Building'
  BY DEF Building, Leave, Idle
<1>7. LabelIsEarned'
  BY DEF LabelIsEarned, Leave
<1>8. ProductionIsValidated'
  BY DEF ProductionIsValidated, Leave
<1>9. QED
  BY <1>1, <1>2, <1>3, <1>4, <1>5, <1>6, <1>7, <1>8 DEF IInv

LEMMA TruncateKeeps == ASSUME IInv, Truncate PROVE IInv'
<1>1. FilesTyped' /\ LoaderTyped' /\ Read'
  <2>1. Torn \in Document \cup {Torn} /\ history \subseteq Document
    BY DEF IInv, FilesTyped
  <2>2. /\ files' = [files EXCEPT ![Len(files)] = [doc |-> Torn, stamp |-> @.stamp + 1]]
        /\ UNCHANGED <<loader, history>>
    BY DEF Truncate
  <2>3. QED
    BY <2>1, <2>2, WrittenInPlace
<1>2. Issues'
  BY DEF IInv, Issues, IssuedFrom, Truncate
<1>3. Gated'
  BY DEF IInv, Gated, Truncate
<1>4. Building'
  BY DEF IInv, Building, Truncate
<1>5. LabelIsEarned'
  BY DEF IInv, Building, LabelIsEarned, EarnedFor, Truncate
<1>6. ProductionIsValidated'
  BY DEF IInv, ProductionIsValidated, Truncate
<1>7. QED
  BY <1>1, <1>2, <1>3, <1>4, <1>5, <1>6 DEF IInv

LEMMA RewriteKeeps == ASSUME IInv, Rewrite PROVE IInv'
<1>1. FilesTyped' /\ LoaderTyped' /\ Read'
  <2>1. PICK d \in UNION {Variant(h) : h \in history} :
           /\ files' = [files EXCEPT ![Len(files)] = [doc |-> d, stamp |-> @.stamp + 1]]
           /\ history' = history \cup {d}
    BY DEF Rewrite
  <2>2. d \in Document /\ history \subseteq Document
    BY VariantIsDocument DEF IInv, FilesTyped
  <2>3. UNCHANGED loader
    BY DEF Rewrite
  <2>4. QED
    BY <2>1, <2>2, <2>3, WrittenInPlace
<1>2. Issues'
  BY DEF IInv, Issues, IssuedFrom, Rewrite
<1>3. Gated'
  BY DEF IInv, Gated, Rewrite
<1>4. Building'
  BY DEF IInv, Building, Rewrite
<1>5. LabelIsEarned'
  BY DEF IInv, LabelIsEarned, EarnedFor, Rewrite, Current
<1>6. ProductionIsValidated'
  BY DEF IInv, ProductionIsValidated, Rewrite
<1>7. QED
  BY <1>1, <1>2, <1>3, <1>4, <1>5, <1>6 DEF IInv

LEMMA ReplaceKeeps == ASSUME IInv, Replace PROVE IInv'
<1>1. FilesTyped'
  <2>1. Len(files) \in Nat \ {0} /\ DOMAIN files = 1 .. Len(files)
    BY LastVersion DEF IInv
  <2>2. Current.doc \in Document /\ history \subseteq Document
    BY LastVersion DEF IInv, FilesTyped, Replace
  <2>3. PICK d \in Variant(Current.doc) :
           files' = Append(files, [doc |-> d, stamp |-> 1]) /\ history' = history \cup {d}
    BY DEF Replace
  <2>4. d \in Document
    BY <2>2, VariantIsDocument
  <2>5. [doc |-> d, stamp |-> 1] \in Versions
    BY <2>4 DEF Versions
  <2>6. /\ files' \in Seq(Versions) /\ files' # <<>>
        /\ DOMAIN files' = 1 .. Len(files) + 1
        /\ \A i \in 1 .. Len(files) : files'[i] = files[i]
        /\ files'[Len(files) + 1] = [doc |-> d, stamp |-> 1]
    BY <2>1, <2>3, <2>5 DEF IInv, FilesTyped
  <2>7. \A i \in DOMAIN files' : files'[i].doc \in history' \cup {Torn}
    BY <2>1, <2>3, <2>6 DEF IInv, FilesTyped
  <2>8. QED
    BY <2>2, <2>3, <2>4, <2>6, <2>7 DEF FilesTyped
<1>2. LoaderTyped'
  BY DEF IInv, LoaderTyped, Replace
<1>3. Read'
  BY DEF IInv, Read, Replace
<1>4. Issues'
  BY DEF IInv, Issues, IssuedFrom, Replace
<1>5. Gated'
  BY DEF IInv, Gated, Replace
<1>6. Building'
  BY DEF IInv, Building, Replace
<1>7. LabelIsEarned'
  BY DEF IInv, Read, Issues, Gated, LabelIsEarned, EarnedFor, Replace, Current
<1>8. ProductionIsValidated'
  BY DEF IInv, ProductionIsValidated, Replace
<1>9. QED
  BY <1>1, <1>2, <1>3, <1>4, <1>5, <1>6, <1>7, <1>8 DEF IInv

LEMMA DamageEvidenceKeeps == ASSUME IInv, DamageEvidence PROVE IInv'
<1>1. FilesTyped'
  BY DEF IInv, FilesTyped, DamageEvidence
<1>2. LoaderTyped'
  BY DEF IInv, LoaderTyped, DamageEvidence
<1>3. Read'
  BY DEF IInv, Read, DamageEvidence
<1>4. Issues'
  BY DEF IInv, Issues, IssuedFrom, DamageEvidence
<1>5. Gated'
  BY DEF IInv, Gated, DamageEvidence
<1>6. Building'
  BY DEF IInv, Building, DamageEvidence
<1>7. LabelIsEarned'
  BY DEF IInv, LabelIsEarned, EarnedFor, DamageEvidence
<1>8. ProductionIsValidated'
  BY DEF IInv, ProductionIsValidated, DamageEvidence
<1>9. QED
  BY <1>1, <1>2, <1>3, <1>4, <1>5, <1>6, <1>7, <1>8 DEF IInv

LEMMA ChangeInMemoryKeeps == ASSUME IInv, ChangeInMemory PROVE IInv'
<1>1. FilesTyped'
  BY DEF IInv, FilesTyped, ChangeInMemory
<1>2. LoaderTyped'
  BY DEF IInv, LoaderTyped, ChangeInMemory
<1>3. Read'
  BY DEF Read, ChangeInMemory
<1>4. Issues'
  <2>1. PICK d \in history : IssuedFrom(d)
    BY DEF IInv, Issues, ChangeInMemory
  <2>2. config' \in Configurations(Pins) /\ config'.schema = config.schema
    BY TamperedTyped DEF IInv, Issues, ChangeInMemory
  <2>3. config' # None
    BY <2>2, SentinelAssumption
  <2>4. d.schema # 3
    BY <2>1 DEF IssuedFrom, ChangeInMemory
  <2>5. IssuedFrom(d)' /\ UNCHANGED history
    BY <2>1, <2>2, <2>4 DEF IssuedFrom, ChangeInMemory
  <2>6. QED
    BY <2>2, <2>3, <2>5 DEF IInv, Issues, ChangeInMemory
<1>5. Gated'
  BY DEF IInv, Gated, ChangeInMemory
<1>6. Building'
  BY DEF IInv, Building, ChangeInMemory
<1>7. LabelIsEarned'
  BY DEF IInv, Building, LabelIsEarned, ChangeInMemory
<1>8. ProductionIsValidated'
  BY DEF IInv, ProductionIsValidated, ChangeInMemory
<1>9. QED
  BY <1>1, <1>2, <1>3, <1>4, <1>5, <1>6, <1>7, <1>8 DEF IInv


LEMMA Inductive == IInv /\ [Next]_vars => IInv'
<1> SUFFICES ASSUME IInv, [Next]_vars PROVE IInv'
  OBVIOUS
<1>1. CASE \E purpose \in {"production", "display"} : OpenContext(purpose)
  BY <1>1, OpenContextKeeps
<1>2. CASE ReadFirst \/ ReadSecond \/ ParseContext \/ ReadEvidence
  BY <1>2, ReadFirstKeeps, ReadSecondKeeps, ParseContextKeeps, ReadEvidenceKeeps
<1>3. CASE IssueConfig \/ Gate \/ Supply \/ Factory \/ Build \/ Leave
  BY <1>3, IssueConfigKeeps, GateKeeps, SupplyKeeps, FactoryKeeps, BuildKeeps, LeaveKeeps
<1>4. CASE Truncate \/ Rewrite \/ Replace \/ DamageEvidence \/ ChangeInMemory
  BY <1>4, TruncateKeeps, RewriteKeeps, ReplaceKeeps, DamageEvidenceKeeps, ChangeInMemoryKeeps
<1>5. CASE UNCHANGED vars
  BY <1>5, Stands
<1>6. QED
  BY <1>1, <1>2, <1>3, <1>4, <1>5 DEF Next

LEMMA Always == Spec => []IInv
  BY Starts, Inductive, PTL DEF Spec

(* ------------------------------------------------------------ theorems *)
\* A compiler context that says VALIDATED of a profile was earned, whatever was written
\* to context.json and the evidence between any two reads and whatever was changed in
\* memory between any two boundaries: _digest, _validate_factory_inputs and _context see
\* the accepted document again, or refuse.
THEOREM LabelEarned == Spec => []LabelIsEarned
<1>1. IInv => LabelIsEarned
  BY DEF IInv
<1>2. QED
  BY <1>1, Always, PTL

\* Production starts on VALIDATED profiles of one version of context.json, never on the
\* beginning of one with the end of another (read_file's two stats), and a configuration
\* exists with its anchor from its issue to the end.
THEOREM OneVersionOnly == Spec => []ProductionIsOneVersion
<1>1. IInv => TypeOK
  <2> SUFFICES ASSUME IInv PROVE TypeOK
    OBVIOUS
  <2>1. \A i \in DOMAIN files : files[i].doc \in Document \cup {Torn} /\ files[i].stamp \in Nat
    <3>1. files \in Seq(Versions)
      BY DEF IInv, FilesTyped
    <3>2. \A i \in DOMAIN files : files[i] \in Versions
      BY <3>1
    <3>3. QED
      BY <3>2 DEF Versions
  <2>2. QED
    BY <2>1 DEF IInv, LoaderTyped, Issues, Building, TypeOK
<1>2. IInv => ProductionIsValidated /\ OneVersion
  BY DEF IInv, Read, OneVersion
<1>3. IInv => ProductionIsOneVersion
  BY <1>1, <1>2 DEF ProductionIsOneVersion
<1>4. QED
  BY <1>3, Always, PTL

-----------------------------------------------------------------------------
(* Medians. *)

\* The places of a sequence that come no later than i when it is sorted.
UpTo(s, n, i) == {j \in 1 .. n : s[j] < s[i] \/ (s[j] = s[i] /\ j <= i)}

\* A step of a sequence's sort: places of smaller numbers come before.
Sorts(p, s, n) ==
    /\ p \in [1 .. n -> 1 .. n]
    /\ \A i, k \in 1 .. n : i < k => p[i] # p[k] /\ s[p[i]] <= s[p[k]]

\* Any sequence of numbers can be sorted: each number's place is how many come no later.
LEMMA SortExists ==
    ASSUME NEW n \in Nat, NEW s \in [1 .. n -> Int]
    PROVE  \E p : Sorts(p, s, n)
<1> DEFINE before(i) == UpTo(s, n, i)
           place == [i \in 1 .. n |-> Cardinality(before(i))]
<1>1. IsFiniteSet(1 .. n) /\ Cardinality(1 .. n) = n
    BY FS_Interval
<1>2. ASSUME NEW i \in 1 .. n
      PROVE  IsFiniteSet(before(i)) /\ Cardinality(before(i)) \in 1 .. n
    <2>1. before(i) \in SUBSET (1 .. n) /\ i \in before(i)
        BY DEF UpTo
    <2>2. IsFiniteSet(before(i)) /\ Cardinality(before(i)) <= n
        BY <1>1, <2>1, FS_Subset
    <2>3. Cardinality(before(i)) \in Nat /\ Cardinality(before(i)) # 0
        BY <2>1, <2>2, FS_CardinalityType, FS_EmptySet
    <2> QED BY <2>2, <2>3
<1>3. ASSUME NEW i \in 1 .. n, NEW k \in 1 .. n,
             s[i] < s[k] \/ (s[i] = s[k] /\ i < k)
      PROVE  Cardinality(before(i)) < Cardinality(before(k))
    <2>1. before(i) \in SUBSET before(k) /\ k \in before(k) /\ k \notin before(i)
        BY <1>3 DEF UpTo
    <2>2. /\ Cardinality(before(i)) <= Cardinality(before(k))
          /\ Cardinality(before(k)) # Cardinality(before(i))
        BY <1>2, <2>1, FS_Subset
    <2> QED BY <1>2, <2>2
<1> HIDE DEF before
<1>4. place \in [1 .. n -> 1 .. n] /\ \A i \in 1 .. n : place[i] = Cardinality(before(i))
    BY <1>2
<1>5. \A i, k \in 1 .. n : i # k => place[i] # place[k]
    <2> SUFFICES ASSUME NEW i \in 1 .. n, NEW k \in 1 .. n, i # k
                 PROVE  place[i] # place[k]
        OBVIOUS
    <2>1. place[i] \in Int /\ place[k] \in Int
        BY <1>4
    <2>2. \/ s[i] < s[k] \/ (s[i] = s[k] /\ i < k)
          \/ s[k] < s[i] \/ (s[k] = s[i] /\ k < i)
        OBVIOUS
    <2>3. place[i] < place[k] \/ place[k] < place[i]
        BY <1>3, <1>4, <2>2
    <2> QED BY <2>1, <2>3
<1>6. place \in Injection(1 .. n, 1 .. n)
    BY <1>4, <1>5 DEF Injection, IsInjective
<1>7. place \in Surjection(1 .. n, 1 .. n)
    BY <1>1, <1>6, FS_Injection
<1> DEFINE p == [m \in 1 .. n |-> CHOOSE i \in 1 .. n : place[i] = m]
<1>8. \A m \in 1 .. n : p[m] \in 1 .. n /\ place[p[m]] = m
    BY <1>7 DEF Surjection
<1> HIDE DEF place, p
<1>9. ASSUME NEW i \in 1 .. n, NEW k \in 1 .. n, i < k
      PROVE  p[i] # p[k] /\ s[p[i]] <= s[p[k]]
    <2>1. p[i] \in 1 .. n /\ p[k] \in 1 .. n /\ place[p[i]] = i /\ place[p[k]] = k
        BY <1>8
    <2>2. ~(s[p[k]] < s[p[i]])
        <3> SUFFICES ASSUME s[p[k]] < s[p[i]] PROVE FALSE
            OBVIOUS
        <3>1. \A a, b \in 1 .. n : s[a] < s[b] => Cardinality(before(a)) < Cardinality(before(b))
            BY <1>3
        <3>1a. Cardinality(before(p[k])) < Cardinality(before(p[i]))
            BY <2>1, <3>1
        <3>2. place[p[k]] < place[p[i]]
            BY <1>4, <2>1, <3>1a
        <3> QED BY <1>9, <2>1, <3>2
    <2> QED BY <1>9, <2>1, <2>2
<1>10. p \in [1 .. n -> 1 .. n]
    BY <1>8 DEF p
<1> QED BY <1>9, <1>10 DEF Sorts

\* How Rank is met: less than k numbers are below x, and at least k are no larger.
Ranked(x, s, n, k) ==
    /\ Cardinality({i \in 1 .. n : s[i] < x}) < k
    /\ Cardinality({i \in 1 .. n : s[i] <= x}) >= k

\* Only one number has a rank.
LEMMA RankUnique ==
    ASSUME NEW n \in Nat, NEW s \in [1 .. n -> Int], NEW k \in Nat,
           NEW x \in Int, NEW y \in Int, Ranked(x, s, n, k), Ranked(y, s, n, k)
    PROVE  x = y
<1>1. IsFiniteSet(1 .. n)
    BY FS_Interval
<1>2. ASSUME NEW a \in Int, NEW b \in Int, a < b, Ranked(a, s, n, k), Ranked(b, s, n, k)
      PROVE  FALSE
    <2> DEFINE A == {i \in 1 .. n : s[i] <= a}
               B == {i \in 1 .. n : s[i] < b}
    <2>1. A \in SUBSET B /\ B \in SUBSET (1 .. n)
        BY <1>2
    <2> HIDE DEF A, B
    <2>2. IsFiniteSet(B)
        BY <1>1, <2>1, FS_Subset
    <2>3. IsFiniteSet(A) /\ Cardinality(A) <= Cardinality(B)
        BY <2>1, <2>2, FS_Subset
    <2>4. Cardinality(A) \in Nat /\ Cardinality(B) \in Nat
        BY <2>2, <2>3, FS_CardinalityType
    <2>5. Cardinality(A) >= k /\ Cardinality(B) < k
        BY <1>2 DEF A, B, Ranked
    <2> QED BY <2>3, <2>4, <2>5
<1> QED BY <1>2

\* The places that a sort gives to the ranks from a to b.
Placed(p, a, b) == {p[j] : j \in a .. b}

\* How many places of a sort there are from a to b.
LEMMA Stretch ==
    ASSUME NEW n \in Nat, NEW s, NEW p, Sorts(p, s, n),
           NEW a \in 1 .. n, NEW b \in 1 .. n, a <= b
    PROVE  /\ IsFiniteSet(Placed(p, a, b))
           /\ Cardinality(Placed(p, a, b)) = b - a + 1
           /\ Placed(p, a, b) \subseteq 1 .. n
<1> DEFINE T == {p[j] : j \in a .. b}
           f == [j \in a .. b |-> p[j]]
<1>1. IsFiniteSet(a .. b) /\ Cardinality(a .. b) = b - a + 1
    BY FS_Interval
<1>2. T \subseteq 1 .. n
    BY DEF Sorts
<1>3. \A i, k \in a .. b : i # k => p[i] # p[k]
    BY DEF Sorts
<1>4. f \in Bijection(a .. b, T)
    BY <1>3 DEF Bijection, Injection, IsInjective, Surjection
<1>5. IsFiniteSet(T) /\ Cardinality(T) = Cardinality(a .. b)
    BY <1>1, <1>4, FS_Bijection DEF ExistsBijection
<1> QED BY <1>1, <1>2, <1>5 DEF Placed

\* The k-th number of a sorted sequence has the rank k.
LEMMA SortedRank ==
    ASSUME NEW n \in Nat, NEW s \in [1 .. n -> Int], NEW p, Sorts(p, s, n),
           NEW k \in 1 .. n
    PROVE  Ranked(s[p[k]], s, n, k)
<1> DEFINE x == s[p[k]]
           Low == Placed(p, 1, k)
           High == Placed(p, k, n)
           Below == {i \in 1 .. n : s[i] < x}
           UpToX == {i \in 1 .. n : s[i] <= x}
<1>1. IsFiniteSet(1 .. n) /\ Cardinality(1 .. n) = n
    BY FS_Interval
<1>2. Cardinality(Low) = k /\ Low \subseteq 1 .. n
    <2>1. 1 \in 1 .. n /\ 1 <= k /\ k - 1 + 1 = k
        OBVIOUS
    <2>2. Cardinality(Low) = k - 1 + 1 /\ Low \subseteq 1 .. n
        BY <2>1, Stretch
    <2> QED BY <2>1, <2>2
<1>3. IsFiniteSet(High) /\ Cardinality(High) = n - k + 1 /\ High \subseteq 1 .. n
    <2>1. n \in 1 .. n /\ k <= n
        OBVIOUS
    <2> QED BY <2>1, Stretch
<1>0. /\ \A j \in 1 .. n : p[j] \in 1 .. n /\ s[p[j]] \in Int
      /\ \A i, j \in 1 .. n : i < j => s[p[i]] <= s[p[j]]
    BY DEF Sorts
<1>4. \A j \in 1 .. k : p[j] \in 1 .. n /\ s[p[j]] <= s[p[k]]
    <2> SUFFICES ASSUME NEW j \in 1 .. k
                 PROVE  p[j] \in 1 .. n /\ s[p[j]] <= s[p[k]]
        OBVIOUS
    <2>1. j \in 1 .. n /\ (j < k \/ j = k)
        OBVIOUS
    <2> QED BY <1>0, <2>1
<1>5. \A j \in k .. n : p[j] \in 1 .. n /\ s[p[k]] <= s[p[j]]
    <2> SUFFICES ASSUME NEW j \in k .. n
                 PROVE  p[j] \in 1 .. n /\ s[p[k]] <= s[p[j]]
        OBVIOUS
    <2>1. j \in 1 .. n /\ (k < j \/ k = j)
        OBVIOUS
    <2> QED BY <1>0, <2>1
<1>6. x \in Int
    BY <1>4
<1>7. Low \in SUBSET UpToX
    BY <1>4 DEF Placed
<1>8. High \cap Below = {}
    BY <1>5, <1>6 DEF Placed
<1>9. Below \in SUBSET (1 .. n) /\ UpToX \in SUBSET (1 .. n) /\ High \in SUBSET (1 .. n)
    BY <1>3
<1> HIDE DEF x, Low, High, Below, UpToX
<1>10. IsFiniteSet(UpToX) /\ Cardinality(UpToX) \in Nat
    BY <1>1, <1>9, FS_Subset, FS_CardinalityType
<1>11. Cardinality(Low) <= Cardinality(UpToX)
    BY <1>7, <1>10, FS_Subset
<1>12. IsFiniteSet(Below) /\ Cardinality(Below) \in Nat
    BY <1>1, <1>9, FS_Subset, FS_CardinalityType
<1>13. Cardinality(High \cup Below) = Cardinality(High) + Cardinality(Below)
    <2>1. Cardinality(High \cap Below) = 0
        BY <1>8, FS_EmptySet
    <2>2. Cardinality(High \cup Below) =
              Cardinality(High) + Cardinality(Below) - Cardinality(High \cap Below)
        BY <1>3, <1>12, FS_Union
    <2>3. Cardinality(High) \in Nat /\ Cardinality(Below) \in Nat
        BY <1>3, <1>12
    <2> QED BY <2>1, <2>2, <2>3
<1>14. Cardinality(High \cup Below) <= n
    <2>1. High \cup Below \in SUBSET (1 .. n)
        BY <1>9
    <2> QED BY <1>1, <2>1, FS_Subset
<1>15. Cardinality(Below) < k /\ Cardinality(UpToX) >= k
    BY <1>2, <1>3, <1>10, <1>11, <1>12, <1>13, <1>14
<1> QED BY <1>15 DEF Ranked, x, Below, UpToX

\* The k-th number of a sequence as its sort orders it.
LEMMA AscendingSorts ==
    ASSUME NEW n \in Nat, NEW s \in [1 .. n -> Int]
    PROVE  Len(s) = n /\ Sorts(Ascending(s), s, n)
<1>1. Len(s) = n
    <2>1. s \in Seq(Int)
        BY SeqDef
    <2>2. Len(s) \in Nat /\ DOMAIN s = 1 .. Len(s)
        BY <2>1, LenProperties
    <2> QED BY <2>2
<1>2. PICK p : Sorts(p, s, n)
    BY SortExists
<1>3. Ascending(s) = CHOOSE q \in [1 .. n -> 1 .. n] :
                         \A i, k \in 1 .. n : i < k => q[i] # q[k] /\ s[q[i]] <= s[q[k]]
    BY <1>1 DEF Ascending
<1>4. /\ p \in [1 .. n -> 1 .. n]
      /\ \A i, k \in 1 .. n : i < k => p[i] # p[k] /\ s[p[i]] <= s[p[k]]
    BY <1>2 DEF Sorts
<1> QED BY <1>1, <1>3, <1>4 DEF Sorts

-----------------------------------------------------------------------------
(* The verifier's artifact. *)

\* Every number that is compared is a number.
LEMMA Numbers ==
    ASSUME artifact \in Artifacts
    PROVE  /\ Len(References) \in Nat \ {0}
           /\ DOMAIN References = 1 .. Len(References)
           /\ Similarities \in [1 .. Len(References) -> Int]
           /\ \A k \in 1 .. Len(References) :
                /\ Similarities[k] = artifact.near[References[k]]
                /\ Similarities[k] \in {artifact.near[d] : d \in DOMAIN artifact.near}
           /\ {artifact.near[d] : d \in DOMAIN artifact.near} \subseteq Int
           /\ artifact.source \in Int /\ artifact.edges \in Int \cup {Absent}
           /\ artifact.sized \in BOOLEAN /\ artifact.blank \in BOOLEAN
<1>1. Len(References) \in Nat \ {0} /\ DOMAIN References = 1 .. Len(References)
    BY VerifierAssumptions DEF ReferenceAssumption
<1>2. /\ \A k \in DOMAIN References : References[k] \in DOMAIN artifact.near
      /\ \A d \in DOMAIN artifact.near : artifact.near[d] \in Int
      /\ artifact.source \in Int
      /\ artifact.edges \in Int \cup {Absent}
      /\ {artifact.sized, artifact.blank} \subseteq BOOLEAN
    BY VerifierAssumptions DEF ArtifactAssumption
<1>3. artifact.sized \in BOOLEAN /\ artifact.blank \in BOOLEAN
    BY <1>2
<1> QED BY <1>1, <1>2, <1>3 DEF Similarities

\* Rank counts what the sort places.
LEMMA RankIsPlaced ==
    ASSUME artifact \in Artifacts, NEW k \in 1 .. Len(References)
    PROVE  Rank(k) = Similarities[Ascending(Similarities)[k]] /\ Rank(k) \in Int
<1> DEFINE n == Len(References)
           s == Similarities
           p == Ascending(s)
           x == s[p[k]]
           Near == {artifact.near[d] : d \in DOMAIN artifact.near}
<1>1. /\ n \in Nat \ {0} /\ DOMAIN References = 1 .. n
      /\ s \in [1 .. n -> Int]
      /\ \A i \in 1 .. n : s[i] = artifact.near[References[i]] /\ s[i] \in Near
      /\ Near \subseteq Int
    BY Numbers
<1> DEFINE Fits(y) ==
             /\ Cardinality({i \in DOMAIN References : artifact.near[References[i]] < y}) < k
             /\ Cardinality({i \in DOMAIN References : artifact.near[References[i]] <= y}) >= k
<1>2. Rank(k) = CHOOSE y \in Near : Fits(y)
    BY DEF Rank
<1> HIDE DEF n, s, p, Near
<1>3. Sorts(p, s, n)
    BY <1>1, AscendingSorts DEF p
<1>4. p[k] \in 1 .. n /\ x \in Near /\ x \in Int
    BY <1>1, <1>3 DEF Sorts, n
<1>5. \A y : Fits(y) = Ranked(y, s, n, k)
    <2> SUFFICES ASSUME NEW y PROVE Fits(y) = Ranked(y, s, n, k)
        OBVIOUS
    <2>1. /\ {i \in DOMAIN References : artifact.near[References[i]] < y} = {i \in 1 .. n : s[i] < y}
          /\ {i \in DOMAIN References : artifact.near[References[i]] <= y} = {i \in 1 .. n : s[i] <= y}
        BY <1>1
    <2> QED BY <2>1 DEF Ranked
<1>6. Ranked(x, s, n, k)
    BY <1>1, <1>3, SortedRank DEF n
<1>7. ASSUME NEW y \in Near, Ranked(y, s, n, k)
      PROVE  y = x
    BY <1>1, <1>4, <1>6, <1>7, RankUnique DEF n
<1> HIDE DEF Fits, x
<1>8. Fits(x) /\ \A y \in Near : Fits(y) => y = x
    BY <1>5, <1>6, <1>7
<1>9. Rank(k) = x
    BY <1>2, <1>4, <1>8
<1> QED BY <1>4, <1>9 DEF x, s, p

\* The median of the similarities is the one that counting finds.
LEMMA MedianIsMiddle ==
    ASSUME artifact \in Artifacts
    PROVE  Median(Similarities) = Middle /\ Middle \in Int
<1> DEFINE n == Len(References)
           s == Similarities
           p == Ascending(s)
           ordered == [k \in 1 .. n |-> s[p[k]]]
<1>1. n \in Nat \ {0} /\ s \in [1 .. n -> Int]
    BY Numbers
<1>2. Len(s) = n
    BY <1>1, AscendingSorts
<1>3. \A k \in 1 .. n : Rank(k) = ordered[k] /\ ordered[k] \in Int
    BY RankIsPlaced
<1>4. Median(s) = IF n % 2 = 1 THEN 2 * ordered[(n \div 2) + 1]
                  ELSE ordered[n \div 2] + ordered[(n \div 2) + 1]
    BY <1>2 DEF Median
<1>5. Middle = Rank((n + 1) \div 2) + Rank((n \div 2) + 1)
    BY DEF Middle
<1> HIDE DEF n, s, p, ordered
<1>6. CASE n % 2 = 1
    <2>1. (n + 1) \div 2 = (n \div 2) + 1 /\ (n \div 2) + 1 \in 1 .. n
        BY <1>1, <1>6
    <2> QED BY <1>3, <1>4, <1>5, <1>6, <2>1 DEF s
<1>7. CASE n % 2 # 1
    <2>1. /\ (n + 1) \div 2 = n \div 2 /\ n \div 2 \in 1 .. n
          /\ (n \div 2) + 1 \in 1 .. n
        BY <1>1, <1>7
    <2> QED BY <1>3, <1>4, <1>5, <1>7, <2>1 DEF s
<1> QED BY <1>6, <1>7

-----------------------------------------------------------------------------
(* What holds of a verifier in every state. *)

VerifierTyped ==
    /\ plan \in Plans /\ artifact \in Artifacts
    /\ phase \in {"unbound", "refused", "bound", "resolve", "rules", "returned", "raised"}
    /\ drifted \subseteq Pieces /\ drifts \in 0 .. MaxDrifts
    /\ styles \in Seq(BOOLEAN) /\ Len(styles) <= Len(References)
    /\ gone \in BOOLEAN /\ tainted \in BOOLEAN

\* A verifier that was created is bound to a plan that the factory supports.
Supports == phase \notin {"unbound", "refused"} => Supported

\* A verifier that has not raised finds everything as it was, and always did.
Intact == phase \in {"resolve", "rules", "returned"} => drifted = {} /\ ~tainted

\* What is cached of an image is what it decodes to.
CacheIsRight ==
    /\ DOMAIN cache \subseteq Digests
    /\ \A d \in DOMAIN cache : cache[d] = Decodes(d)

\* Rules are judged from the first on, none before the artifact was read and all before
\* a result is returned.
InPlanOrder ==
    /\ DOMAIN results \subseteq Applicable
    /\ \A k \in DOMAIN results : results[k] \in Verdicts
    /\ \A k \in DOMAIN results, n \in Applicable : n < k => n \in DOMAIN results
    /\ phase \in {"unbound", "refused", "bound", "resolve"} => DOMAIN results = {} /\ ~gone
    /\ phase = "returned" => DOMAIN results = Applicable

ActiveStyle(r) == r.level # "L1" /\ r.status = "VALIDATED" /\ r.metric = "STYLE"

\* Each rule that was judged got the truth, and a rule of style only once it was known
\* which references are there.
JudgedTruly ==
    /\ ~gone => \A k \in DOMAIN results :
                    /\ results[k] = Truth(plan[k])
                    /\ ActiveStyle(plan[k]) => AllResolved
    /\ gone => \A k \in DOMAIN results : results[k] = "UNVERIFIABLE"

\* How often a digest is among the first m references.
Places(m, d) == {k \in 1 .. m : References[k] = d}

\* A digest was resolved once for each of its places so far and encoded once if its
\* evidence is cached; a call that failed was the last.
Counted ==
    /\ asked \in [Digests -> [resolved : Nat, encoded : Nat]]
    /\ \A d \in Digests :
        /\ asked[d].encoded <= 1
        /\ asked[d].resolved <= Cardinality(Places(Len(References), d))
        /\ phase # "raised" =>
              /\ asked[d].resolved = Cardinality(Places(Len(styles), d))
              /\ asked[d].encoded = IF d \in DOMAIN cache THEN 1 ELSE 0

VerifierInv ==
    /\ VerifierTyped /\ Supports /\ Intact /\ CacheIsRight
    /\ InPlanOrder /\ JudgedTruly /\ Counted

\* The checkpoint looks at every piece.
LEMMA CheckpointSees ==
    ASSUME NEW live \in SUBSET Pieces
    PROVE  Checkpoint(live) = (live = {})
BY DEF Checkpoint, IdentitiesHold, FactoryHolds, EncoderHolds, ProcessorHolds,
       PlacementHolds, BindingHolds, Pieces

LEMMA OutsideTyped ==
    ASSUME VerifierTyped, Outside
    PROVE  drifted' \subseteq Pieces /\ drifts' \in 0 .. MaxDrifts
<1>1. MaxDrifts \in Nat
    BY VerifierAssumptions
<1> QED BY <1>1 DEF VerifierTyped, Outside

\* A number of a set comes first.
LEMMA LeastPlace ==
    ASSUME NEW S, S \subseteq Nat, S # {}
    PROVE  \E n \in S : \A k \in S : n <= k
<1> DEFINE R == OpToRel(<, Nat)
<1>1. PICK n \in S : \A k \in S : ~(<<k, n>> \in R)
    <2> HIDE DEF R
    <2> QED BY NatLessThanWellFounded, WFMin DEF R
<1>2. \A k \in S : ~(k < n)
    BY <1>1 DEF OpToRel
<1> QED BY <1>2

LEMMA TurnIsFirst ==
    ASSUME VerifierTyped, InPlanOrder, Judging
    PROVE  /\ Turn \in Applicable \ DOMAIN results
           /\ \A n \in Applicable \ DOMAIN results : Turn <= n
           /\ Applicable \subseteq Nat
           /\ Turn \in DOMAIN plan /\ Rule = plan[Turn]
<1>1. Applicable \subseteq Nat /\ Applicable \subseteq DOMAIN plan
    <2>1. DOMAIN plan = 1 .. Len(plan)
        BY VerifierAssumptions DEF PlanAssumption, VerifierTyped
    <2> QED BY <2>1 DEF Applicable
<1>2. Applicable \ DOMAIN results # {} /\ Applicable \ DOMAIN results \subseteq Nat
    BY <1>1 DEF InPlanOrder, Judging
<1>3. \E k \in Applicable \ DOMAIN results : \A n \in Applicable \ DOMAIN results : k <= n
    BY <1>2, LeastPlace
<1> QED BY <1>1, <1>3 DEF Turn, Rule

LEMMA L1IsVerdict ==
    ASSUME NEW metric
    PROVE  L1Status(metric) \in Verdicts
BY DEF L1Status, Verdicts

LEMMA MeasuredIsVerdict == Measured \in Verdicts
BY DEF Measured, Verdicts

-----------------------------------------------------------------------------
(* Its beginning. *)

LEMMA Begins == Fresh /\ plan \in Plans /\ artifact \in Artifacts /\ phase = "unbound"
                /\ drifted = {} /\ drifts = 0 => VerifierInv
<1> SUFFICES ASSUME Fresh, plan \in Plans, artifact \in Artifacts, phase = "unbound",
                    drifted = {}, drifts = 0
             PROVE  VerifierInv
    OBVIOUS
<1>1. Len(References) \in Nat \ {0} /\ MaxDrifts \in Nat
    BY VerifierAssumptions DEF ReferenceAssumption
<1>2. VerifierTyped
    <2>1. gone \in BOOLEAN /\ tainted \in BOOLEAN
        BY DEF Fresh
    <2>2. styles \in Seq(BOOLEAN) /\ Len(styles) <= Len(References)
        BY <1>1 DEF Fresh
    <2>3. drifted \subseteq Pieces /\ drifts \in 0 .. MaxDrifts
        BY <1>1
    <2> QED BY <2>1, <2>2, <2>3 DEF VerifierTyped
<1>3. Supports /\ Intact /\ CacheIsRight /\ InPlanOrder /\ JudgedTruly
    BY DEF Fresh, Supports, Intact, CacheIsRight, InPlanOrder, JudgedTruly
<1>4. Counted
    <2>1. asked = [d \in Digests |-> [resolved |-> 0, encoded |-> 0]] /\ Len(styles) = 0
          /\ DOMAIN cache = {}
        BY DEF Fresh
    <2>2. ASSUME NEW d \in Digests
          PROVE  /\ Places(0, d) = {} /\ Cardinality(Places(0, d)) = 0
                 /\ Cardinality(Places(Len(References), d)) \in Nat
        <3>1. Places(0, d) = {}
            BY DEF Places
        <3>2. IsFiniteSet(1 .. Len(References))
            BY <1>1, FS_Interval
        <3>3. Places(Len(References), d) \in SUBSET (1 .. Len(References))
            BY DEF Places
        <3>4. IsFiniteSet(Places(Len(References), d))
            BY <3>2, <3>3, FS_Subset
        <3> QED BY <3>1, <3>4, FS_EmptySet, FS_CardinalityType
    <2> QED BY <2>1, <2>2 DEF Counted
<1> QED BY <1>2, <1>3, <1>4 DEF VerifierInv

-----------------------------------------------------------------------------
(* Its steps, one part after another. *)

LEMMA TypedStep ==
    ASSUME VerifierTyped, VerifierNext
    PROVE  VerifierTyped'
<1>1. Len(References) \in Nat \ {0} /\ MaxDrifts \in Nat
    BY VerifierAssumptions DEF ReferenceAssumption
<1>2. Outside => drifted' \subseteq Pieces /\ drifts' \in 0 .. MaxDrifts
    BY OutsideTyped
<1>3. CASE Create
    BY <1>3 DEF Create, VerifierTyped, inputs, work
<1>4. CASE Meanwhile
    BY <1>2, <1>4 DEF Meanwhile, VerifierTyped, inputs, work
<1>5. CASE Invoke
    BY <1>5 DEF Invoke, VerifierTyped, inputs, work
<1>6. CASE ResolveArtifact
    BY <1>2, <1>6 DEF ResolveArtifact, VerifierTyped, inputs, Called, Note, Raise
<1>7. CASE JudgeL1 \/ JudgeInactive \/ JudgeGone
    BY <1>7 DEF JudgeL1, JudgeInactive, JudgeGone, VerifierTyped, inputs
<1>8. CASE ResolveStyle
    <2>1. /\ plan \in Plans /\ artifact \in Artifacts /\ UNCHANGED <<plan, artifact, gone>>
          /\ Outside /\ Note /\ phase' \in {phase, "raised"}
          /\ styles' = styles \/ \E found \in BOOLEAN : styles' = Append(styles, found)
          /\ ~AllResolved
        BY <1>8 DEF ResolveStyle, VerifierTyped, inputs, Called, Raise
    <2>2. styles' \in Seq(BOOLEAN) /\ Len(styles') <= Len(References)
        <3>1. Len(styles) < Len(References) /\ Len(styles) \in Nat
            BY <1>1, <2>1 DEF AllResolved, VerifierTyped
        <3> QED BY <1>1, <2>1, <3>1 DEF VerifierTyped
    <2> QED BY <1>2, <2>1, <2>2 DEF VerifierTyped, Note
<1>9. CASE Encode
    BY <1>2, <1>9 DEF Encode, VerifierTyped, inputs, Called, Note, Raise, EncoderFails
<1>10. CASE JudgeEvidence \/ JudgeStructure
    BY <1>2, <1>10 DEF JudgeEvidence, JudgeStructure, VerifierTyped, inputs, Called, Note, Raise
<1>11. CASE Return
    BY <1>11 DEF Return, VerifierTyped, inputs
<1>12. CASE NextAttempt
    <2>1. gone' \in BOOLEAN /\ tainted' \in BOOLEAN
        BY <1>12 DEF NextAttempt
    <2>2. styles' \in Seq(BOOLEAN) /\ Len(styles') <= Len(References)
        BY <1>1, <1>12 DEF NextAttempt
    <2>3. drifted' \subseteq Pieces /\ drifts' \in 0 .. MaxDrifts
        BY <1>1, <1>12 DEF NextAttempt
    <2>4. plan' = plan /\ artifact' \in Artifacts /\ phase' = "unbound"
        BY <1>12 DEF NextAttempt
    <2> QED BY <2>1, <2>2, <2>3, <2>4 DEF VerifierTyped
<1> QED BY <1>3, <1>4, <1>5, <1>6, <1>7, <1>8, <1>9, <1>10, <1>11, <1>12 DEF VerifierNext

LEMMA SupportsStep ==
    ASSUME VerifierTyped, Supports, VerifierNext
    PROVE  Supports'
<1>1. plan' = plan
    BY DEF VerifierNext, Create, Meanwhile, Invoke, ResolveArtifact, JudgeL1, JudgeInactive,
           ResolveStyle, JudgeGone, Encode, JudgeEvidence, JudgeStructure, Return,
           NextAttempt, inputs
<1>2. Supported' = Supported
    BY <1>1 DEF Supported, L1Bound, Applicable, L2Item, L2Batch, L3Bound, L3Diagnostic,
                L3Structure, ApprovedStructure, SupportedScope
<1>3. CASE Create
    BY <1>2, <1>3 DEF Create, Supports
<1>4. CASE NextAttempt
    BY <1>4 DEF NextAttempt, Supports
<1>5. CASE ~Create /\ ~NextAttempt
    <2>1. phase \notin {"unbound", "refused"}
        BY <1>5 DEF VerifierNext, Meanwhile, Invoke, ResolveArtifact, JudgeL1, JudgeInactive,
           ResolveStyle, JudgeGone, Encode, JudgeEvidence, JudgeStructure, Return,
           Encodes, Active, Judging
    <2> QED BY <1>2, <2>1 DEF Supports
<1> QED BY <1>3, <1>4, <1>5

\* A call leaves a verifier that goes on with everything as it was.
LEMMA CallKeeps ==
    ASSUME VerifierTyped, Intact, phase \in {"resolve", "rules"}, NEW go \in BOOLEAN, Called(go)
    PROVE  phase' = "raised" \/ (go /\ drifted' = {} /\ ~tainted')
<1>1. drifted' \in SUBSET Pieces /\ tainted' = (tainted \/ drifted' # {})
    BY OutsideTyped DEF Called, Note
<1>2. CASE Checkpoint(drifted')
    <2>1. drifted' = {}
        BY <1>1, <1>2, CheckpointSees
    <2> QED BY <1>1, <1>2, <2>1 DEF Called, Intact
<1>3. CASE ~Checkpoint(drifted')
    BY <1>3 DEF Called, Raise
<1> QED BY <1>2, <1>3

LEMMA IntactStep ==
    ASSUME VerifierTyped, Intact, VerifierNext
    PROVE  Intact'
<1>1. CASE Invoke
    <2>1. Checkpoint(drifted) = (drifted = {})
        BY CheckpointSees DEF VerifierTyped
    <2> QED BY <1>1, <2>1 DEF Invoke, Intact
<1>2. CASE Create \/ Meanwhile \/ NextAttempt
    BY <1>2 DEF Create, Meanwhile, NextAttempt, Intact
<1>3. CASE JudgeL1 \/ JudgeInactive \/ JudgeGone
    BY <1>3 DEF JudgeL1, JudgeInactive, JudgeGone, Intact
<1>4. CASE Return
    BY <1>4 DEF Return, Intact
<1>5. CASE ResolveArtifact
    <2>1. \/ Called(phase' = "rules")
          \/ Raise
        BY <1>5 DEF ResolveArtifact
    <2>2. phase' = "raised" \/ (drifted' = {} /\ ~tainted')
        BY <1>5, <2>1, CallKeeps DEF ResolveArtifact, Raise
    <2> QED BY <2>2 DEF Intact
<1>6. CASE ResolveStyle \/ Encode \/ JudgeEvidence \/ JudgeStructure
    <2>1. phase = "rules"
        BY <1>6 DEF ResolveStyle, Encode, Encodes, JudgeEvidence, JudgeStructure, Active, Judging
    <2>2. Called(UNCHANGED phase) \/ Raise
        BY <1>6 DEF ResolveStyle, Encode, EncoderFails, JudgeEvidence, JudgeStructure
    <2>3. phase' = "raised" \/ (drifted' = {} /\ ~tainted')
        BY <2>1, <2>2, CallKeeps DEF Raise
    <2> QED BY <2>3 DEF Intact
<1> QED BY <1>1, <1>2, <1>3, <1>4, <1>5, <1>6 DEF VerifierNext

\* What a step does to the inputs and to the answers that were given.
LEMMA KeepsInputs ==
    ASSUME VerifierNext, ~NextAttempt
    PROVE  UNCHANGED <<plan, artifact>>
BY DEF VerifierNext, Create, Meanwhile, Invoke, ResolveArtifact, JudgeL1, JudgeInactive,
       ResolveStyle, JudgeGone, Encode, JudgeEvidence, JudgeStructure, Return, inputs

LEMMA KeepsCache ==
    ASSUME VerifierNext, ~NextAttempt, ~Encode
    PROVE  UNCHANGED cache
BY DEF VerifierNext, Create, Meanwhile, Invoke, ResolveArtifact, JudgeL1, JudgeInactive,
       ResolveStyle, JudgeGone, JudgeEvidence, JudgeStructure, Return, work

LEMMA KeepsStyles ==
    ASSUME VerifierNext, ~NextAttempt, ~ResolveStyle
    PROVE  UNCHANGED styles
BY DEF VerifierNext, Create, Meanwhile, Invoke, ResolveArtifact, JudgeL1, JudgeInactive,
       Encode, JudgeGone, JudgeEvidence, JudgeStructure, Return, work

LEMMA KeepsAsked ==
    ASSUME VerifierNext, ~NextAttempt, ~ResolveStyle, ~Encode
    PROVE  UNCHANGED asked
BY DEF VerifierNext, Create, Meanwhile, Invoke, ResolveArtifact, JudgeL1, JudgeInactive,
       JudgeGone, JudgeEvidence, JudgeStructure, Return, work

LEMMA KeepsResults ==
    ASSUME VerifierNext, ~NextAttempt, ~JudgeL1, ~JudgeInactive, ~JudgeGone, ~JudgeEvidence,
           ~JudgeStructure, ~Return
    PROVE  UNCHANGED results
BY DEF VerifierNext, Create, Meanwhile, Invoke, ResolveArtifact, ResolveStyle, Encode, work

\* The first image that is missing is one that the rule needs.
LEMMA FirstIsMissing ==
    ASSUME Rule.level \in {"L1", "L2", "L3"}, Missing # {}
    PROVE  FirstMissing \in Digests \ DOMAIN cache
<1>1. Len(References) \in Nat \ {0} /\ DOMAIN References = 1 .. Len(References)
    BY VerifierAssumptions DEF ReferenceAssumption
<1>2. Needed = IF Rule.level = "L2"
               THEN [k \in 1 .. Len(References) + 1 |-> IF k = 1 THEN "output" ELSE References[k - 1]]
               ELSE <<"output", "source">>
    BY DEF Needed
<1>3. DOMAIN Needed \subseteq Nat /\ \A k \in DOMAIN Needed : Needed[k] \in Digests
    <2>1. CASE Rule.level = "L2"
        <3>1. DOMAIN Needed = 1 .. Len(References) + 1
            BY <1>2, <2>1
        <3>2. \A k \in 1 .. Len(References) + 1 :
                  Needed[k] = IF k = 1 THEN "output" ELSE References[k - 1]
            BY <1>2, <2>1
        <3>3. \A k \in 1 .. Len(References) + 1 : k = 1 \/ k - 1 \in DOMAIN References
            BY <1>1
        <3> QED BY <1>1, <3>1, <3>2, <3>3 DEF Digests
    <2>2. CASE Rule.level # "L2"
        <3>1. Needed = <<"output", "source">>
            BY <1>2, <2>2
        <3>2. DOMAIN Needed = 1 .. 2 /\ Needed[1] = "output" /\ Needed[2] = "source"
            BY <3>1
        <3>3. \A k \in 1 .. 2 : k = 1 \/ k = 2
            OBVIOUS
        <3> QED BY <3>2, <3>3 DEF Digests
    <2> QED BY <2>1, <2>2
<1>4. Missing \subseteq Nat
    BY <1>3 DEF Missing
<1>5. \E k \in Missing : \A n \in Missing : k <= n
    BY <1>4, LeastPlace
<1>6. (CHOOSE k \in Missing : \A n \in Missing : k <= n) \in Missing
    BY <1>5
<1> QED BY <1>3, <1>6 DEF Missing, FirstMissing

\* The rule whose turn it is has one of the three levels.
LEMMA LevelOfRule ==
    ASSUME VerifierTyped, InPlanOrder, Judging
    PROVE  /\ Rule.level \in {"L1", "L2", "L3"}
           /\ Rule.level = "L1" => Rule.required
           /\ Rule.value \in Int
           /\ Rule.applicable
BY TurnIsFirst, VerifierAssumptions DEF PlanAssumption, VerifierTyped, Applicable

LEMMA CacheStep ==
    ASSUME VerifierTyped, InPlanOrder, CacheIsRight, VerifierNext
    PROVE  CacheIsRight'
<1>1. CASE NextAttempt
    BY <1>1 DEF NextAttempt, CacheIsRight
<1>2. CASE Encode
    <2>1. artifact' = artifact /\ FirstMissing \in Digests
          /\ (cache' = cache \/ cache' = Remember(FirstMissing))
        <3>1. Judging /\ Missing # {}
            BY <1>2 DEF Encode, Encodes, Active
        <3>2. FirstMissing \in Digests
            BY <3>1, LevelOfRule, FirstIsMissing
        <3> QED BY <1>2, <3>2 DEF Encode, inputs, EncoderFails
    <2>2. \A d : Decodes(d)' = Decodes(d)
        BY <2>1 DEF Decodes
    <2>3. CASE cache' = cache
        BY <2>2, <2>3 DEF CacheIsRight
    <2>4. CASE cache' = Remember(FirstMissing)
        <3>1. /\ DOMAIN cache' = DOMAIN cache \cup {FirstMissing}
              /\ \A d \in DOMAIN cache \cup {FirstMissing} :
                    cache'[d] = IF d = FirstMissing THEN Decodes(FirstMissing) ELSE cache[d]
            BY <2>4 DEF Remember
        <3> QED BY <2>1, <2>2, <3>1 DEF CacheIsRight
    <2> QED BY <2>1, <2>3, <2>4
<1>3. CASE ~NextAttempt /\ ~Encode
    <2>1. UNCHANGED <<artifact, cache>>
        BY <1>3, KeepsInputs, KeepsCache
    <2>2. \A d : Decodes(d)' = Decodes(d)
        BY <2>1 DEF Decodes
    <2> QED BY <2>1, <2>2 DEF CacheIsRight
<1> QED BY <1>1, <1>2, <1>3

\* A judgement adds the rule whose turn it is.
LEMMA JudgeAdds ==
    ASSUME VerifierTyped, InPlanOrder, Judging, NEW status, Judge(status)
    PROVE  /\ DOMAIN results' = DOMAIN results \cup {Turn}
           /\ results'[Turn] = status
           /\ \A k \in DOMAIN results : results'[k] = results[k]
<1>1. Turn \notin DOMAIN results
    BY TurnIsFirst
<1> QED BY <1>1 DEF Judge

LEMMA OrderStep ==
    ASSUME VerifierTyped, InPlanOrder, VerifierNext
    PROVE  InPlanOrder'
<1>1. CASE NextAttempt
    BY <1>1 DEF NextAttempt, InPlanOrder
<1>2. CASE JudgeL1 \/ JudgeInactive \/ JudgeGone \/ JudgeEvidence \/ JudgeStructure
    <2>1. /\ Judging /\ plan' = plan /\ gone' = gone /\ phase' \in {"rules", "raised"}
          /\ \E status \in Verdicts : Judge(status)
        BY <1>2, L1IsVerdict, MeasuredIsVerdict
           DEF JudgeL1, JudgeInactive, JudgeGone, JudgeEvidence, JudgeStructure, Judging,
               Encodes, Active, Called, Raise, Verdicts, inputs
    <2>2. Applicable' = Applicable
        BY <2>1 DEF Applicable
    <2>3. PICK status \in Verdicts : Judge(status)
        BY <2>1
    <2>4. /\ DOMAIN results' = DOMAIN results \cup {Turn}
          /\ results'[Turn] = status
          /\ \A k \in DOMAIN results : results'[k] = results[k]
        BY <2>1, <2>3, JudgeAdds
    <2>5. /\ Turn \in Applicable
          /\ \A n \in Applicable \ DOMAIN results : Turn <= n
          /\ Applicable \subseteq Nat
        BY <2>1, TurnIsFirst
    <2>6. ASSUME NEW k \in DOMAIN results', NEW n \in Applicable, n < k
          PROVE  n \in DOMAIN results'
        BY <2>4, <2>5, <2>6 DEF InPlanOrder
    <2> QED BY <2>1, <2>2, <2>3, <2>4, <2>5, <2>6 DEF InPlanOrder
<1>3. CASE Return
    BY <1>3 DEF Return, InPlanOrder, Applicable, inputs, Verdicts
<1>4. CASE /\ ~NextAttempt /\ ~Return /\ ~JudgeL1 /\ ~JudgeInactive /\ ~JudgeGone
           /\ ~JudgeEvidence /\ ~JudgeStructure
    <2>1. UNCHANGED <<plan, results>>
        BY <1>4, KeepsInputs, KeepsResults
    <2>2. Applicable' = Applicable
        BY <2>1 DEF Applicable
    <2>3. /\ phase' # "returned"
          /\ phase' \in {"unbound", "refused", "bound", "resolve"} =>
                phase \in {"unbound", "refused", "bound", "resolve"} /\ gone' = gone
        BY <1>4 DEF VerifierNext, Create, Meanwhile, Invoke, ResolveArtifact, ResolveStyle,
               Encode, EncoderFails, Encodes, Active, Judging, Called, Raise, work
    <2> QED BY <2>1, <2>2, <2>3 DEF InPlanOrder
<1> QED BY <1>1, <1>2, <1>3, <1>4

-----------------------------------------------------------------------------
(* What each judgement is worth. *)

\* What a bound verifier is asked, of a rule whose threshold is validated.
LEMMA RuleSupported ==
    ASSUME VerifierTyped, InPlanOrder, Supports, Judging
    PROVE  /\ Rule.level = "L2" /\ ~Inactive(Rule) => Rule.metric = "STYLE"
           /\ Rule.level = "L3" => Rule.metric \in {"DIAGNOSTIC", "STRUCTURE"}
<1>1. Supported
    BY DEF Judging, Supports
<1>2. Turn \in DOMAIN plan /\ Rule = plan[Turn] /\ Rule.applicable
    BY TurnIsFirst, LevelOfRule
<1>3. /\ Rule.level = "L2" /\ Rule.applicable => L2Item(Rule) \/ L2Batch(Rule)
      /\ Rule.level = "L3" => L3Bound(Rule)
    BY <1>1, <1>2 DEF Supported
<1> QED BY <1>2, <1>3 DEF L2Item, L2Batch, L3Bound, L3Diagnostic, L3Structure, Inactive

LEMMA TruthOfL1 ==
    ASSUME Rule.level = "L1"
    PROVE  Truth(Rule) = L1Status(Rule.metric)
BY DEF Truth

LEMMA TruthOfInactive ==
    ASSUME Inactive(Rule)
    PROVE  Truth(Rule) = IF Rule.status = "REVOKED" THEN "FAIL" ELSE "UNVERIFIABLE"
BY DEF Truth, Inactive

LEMMA TruthOfStyle ==
    ASSUME VerifierTyped, InPlanOrder, Supports, Active("L2")
    PROVE  Truth(Rule) =
             IF /\ Seen("output") /\ \A k \in DOMAIN References : Seen(References[k])
                /\ \A k \in DOMAIN styles : styles[k]
             THEN IF Middle >= 2 * Rule.value THEN "PASS" ELSE "FAIL"
             ELSE "UNVERIFIABLE"
<1>1. Rule.level = "L2" /\ Rule.status = "VALIDATED" /\ Rule.metric = "STYLE"
    BY RuleSupported DEF Active, Inactive
<1> QED BY <1>1 DEF Truth

LEMMA TruthOfGone ==
    ASSUME VerifierTyped, InPlanOrder, Supports, Active("L2"), StylesGone
    PROVE  Truth(Rule) = "UNVERIFIABLE"
<1>1. ~(\A k \in DOMAIN styles : styles[k])
    BY DEF StylesGone
<1> QED BY <1>1, TruthOfStyle

LEMMA TruthOfEvidence ==
    ASSUME VerifierTyped, InPlanOrder, Supports, CacheIsRight, Encodes, Missing = {}
    PROVE  Truth(Rule) =
             IF \A k \in DOMAIN Needed : cache[Needed[k]] THEN Measured ELSE "UNVERIFIABLE"
<1>1. Len(References) \in Nat \ {0} /\ DOMAIN References = 1 .. Len(References)
    BY VerifierAssumptions DEF ReferenceAssumption
<1>2. Judging /\ artifact \in Artifacts /\ Rule.value \in Int
    BY LevelOfRule DEF Encodes, Active, VerifierTyped
<1>3. \A k \in DOMAIN Needed : cache[Needed[k]] = Seen(Needed[k])
    BY DEF Missing, CacheIsRight, Decodes, Seen
<1>4. CASE Active("L2") /\ ~StylesGone /\ AllResolved
    <2>1. Rule.level = "L2"
        BY <1>4 DEF Active
    <2>2. \A k \in DOMAIN styles : styles[k]
        BY <1>4 DEF StylesGone
    <2>3. Needed = [k \in 1 .. Len(References) + 1 |-> IF k = 1 THEN "output" ELSE References[k - 1]]
        BY <2>1 DEF Needed
    <2>4. (\A k \in DOMAIN Needed : Seen(Needed[k])) =
          (Seen("output") /\ \A k \in DOMAIN References : Seen(References[k]))
        <3>1. ASSUME \A k \in DOMAIN Needed : Seen(Needed[k])
              PROVE  Seen("output") /\ \A k \in DOMAIN References : Seen(References[k])
            <4>1. 1 \in DOMAIN Needed /\ Needed[1] = "output"
                BY <1>1, <2>3
            <4>2. \A k \in DOMAIN References : k + 1 \in DOMAIN Needed /\ Needed[k + 1] = References[k]
                BY <1>1, <2>3
            <4>3. ASSUME NEW k \in DOMAIN References PROVE Seen(References[k])
                <5>1. k + 1 \in DOMAIN Needed /\ Needed[k + 1] = References[k]
                    BY <4>2
                <5>2. Seen(Needed[k + 1])
                    BY <3>1, <5>1
                <5> QED BY <5>1, <5>2
            <4> QED BY <3>1, <4>1, <4>3
        <3>2. ASSUME Seen("output") /\ \A k \in DOMAIN References : Seen(References[k])
              PROVE  \A k \in DOMAIN Needed : Seen(Needed[k])
            <4>1. \A k \in DOMAIN Needed :
                      Needed[k] = "output" \/ \E i \in DOMAIN References : Needed[k] = References[i]
                <5> SUFFICES ASSUME NEW k \in 1 .. Len(References) + 1, k # 1
                             PROVE  \E i \in DOMAIN References : Needed[k] = References[i]
                    BY <2>3
                <5>1. k - 1 \in DOMAIN References /\ Needed[k] = References[k - 1]
                    BY <1>1, <2>3
                <5> QED BY <5>1
            <4> QED BY <3>2, <4>1
        <3>3. (\A k \in DOMAIN Needed : Seen(Needed[k])) \in BOOLEAN
            OBVIOUS
        <3> QED BY <3>1, <3>2
    <2>5. Measured = IF Middle >= 2 * Rule.value THEN "PASS" ELSE "FAIL"
        BY <1>2, <2>1, MedianIsMiddle DEF Measured, Score
    <2>6. Truth(Rule) =
             IF \A k \in DOMAIN Needed : Seen(Needed[k])
             THEN IF Middle >= 2 * Rule.value THEN "PASS" ELSE "FAIL"
             ELSE "UNVERIFIABLE"
        BY <1>4, <2>2, <2>4, TruthOfStyle
    <2> QED BY <1>3, <2>5, <2>6
<1>5. CASE Active("L3") /\ ~Structural
    <2>1. Rule.level = "L3" /\ Rule.metric = "DIAGNOSTIC" /\ Rule.status = "VALIDATED"
        BY <1>2, <1>5, RuleSupported DEF Active, Structural, Inactive
    <2>2. Truth(Rule) = IF Seen("output") /\ Seen("source")
                        THEN IF artifact.source >= Rule.value THEN "PASS" ELSE "FAIL"
                        ELSE "UNVERIFIABLE"
        BY <2>1 DEF Truth
    <2>3. Needed = <<"output", "source">>
        BY <2>1 DEF Needed
    <2>4. (\A k \in DOMAIN Needed : Seen(Needed[k])) = (Seen("output") /\ Seen("source"))
        <3>1. DOMAIN Needed = {1, 2} /\ Needed[1] = "output" /\ Needed[2] = "source"
            BY <2>3
        <3> QED BY <3>1
    <2>5. Score = 2 * artifact.source
        BY <1>5, <2>1 DEF Score
    <2>6. Measured = IF artifact.source >= Rule.value THEN "PASS" ELSE "FAIL"
        <3>1. artifact.source \in Int
            BY <1>2, Numbers
        <3> QED BY <1>2, <2>5, <3>1 DEF Measured
    <2> QED BY <1>3, <2>2, <2>4, <2>6
<1> QED BY <1>4, <1>5 DEF Encodes

LEMMA TruthOfStructure ==
    ASSUME VerifierTyped, InPlanOrder, Supports, Active("L3"), Structural
    PROVE  Truth(Rule) = IF Clean /\ artifact.edges # Absent THEN Measured ELSE "UNVERIFIABLE"
<1>1. Judging /\ artifact \in Artifacts /\ Rule.value \in Int
    BY LevelOfRule DEF Active, VerifierTyped
<1>2. Rule.level = "L3" /\ Rule.metric = "STRUCTURE" /\ Rule.status = "VALIDATED"
    BY DEF Active, Structural, Inactive
<1>3. Truth(Rule) = IF Clean /\ artifact.edges # Absent
                    THEN IF artifact.edges >= Rule.value THEN "PASS" ELSE "FAIL"
                    ELSE "UNVERIFIABLE"
    BY <1>2 DEF Truth
<1>4. artifact.edges # Absent => artifact.edges \in Int
    BY <1>1, Numbers
<1>5. Score = 2 * artifact.edges
    BY <1>2 DEF Score, Structural
<1> QED BY <1>1, <1>3, <1>4, <1>5 DEF Measured

\* What is true of a rule rests on the artifact, and of one of style also on which
\* references are there.
LEMMA TruthStays ==
    ASSUME NEW r, artifact' = artifact, styles' = styles \/ ~ActiveStyle(r)
    PROVE  Truth(r)' = Truth(r)
<1>1. Middle' = Middle
    BY DEF Middle, Rank
<1>2. \A d : Seen(d)' = Seen(d)
    BY DEF Seen
<1>3. Clean' = Clean
    BY DEF Clean
<1>4. L1Status(r.metric)' = L1Status(r.metric)
    BY <1>3 DEF L1Status
<1>5. CASE styles' = styles
    BY <1>1, <1>2, <1>3, <1>4, <1>5 DEF Truth
<1>6. CASE ~ActiveStyle(r)
    BY <1>1, <1>2, <1>3, <1>4, <1>6 DEF Truth, ActiveStyle
<1> QED BY <1>5, <1>6

\* A judgement with the truth keeps every result true.
LEMMA JudgedStays ==
    ASSUME VerifierTyped, InPlanOrder, JudgedTruly, Judging, Judge(Truth(Rule)),
           ActiveStyle(Rule) => AllResolved, UNCHANGED <<plan, artifact, gone, styles>>
    PROVE  JudgedTruly'
<1>1. ~gone /\ ~gone' /\ AllResolved' = AllResolved
    BY DEF Judging, AllResolved
<1>2. \A k : Truth(plan[k])' = Truth(plan[k])
    BY TruthStays
<1>3. /\ DOMAIN results' = DOMAIN results \cup {Turn}
      /\ results'[Turn] = Truth(plan[Turn])
      /\ \A k \in DOMAIN results : results'[k] = results[k]
      /\ ActiveStyle(plan[Turn]) => AllResolved
    BY TurnIsFirst, JudgeAdds
<1>4. ASSUME NEW k \in DOMAIN results'
      PROVE  /\ results'[k] = Truth(plan[k])'
             /\ ActiveStyle(plan[k])' => AllResolved'
    <2>1. ActiveStyle(plan[k])' = ActiveStyle(plan[k])
        BY DEF ActiveStyle
    <2>2. results'[k] = Truth(plan[k]) /\ (ActiveStyle(plan[k]) => AllResolved)
        BY <1>1, <1>3 DEF JudgedTruly
    <2> QED BY <1>1, <1>2, <2>1, <2>2
<1> QED BY <1>1, <1>4 DEF JudgedTruly

LEMMA TrueStep ==
    ASSUME VerifierTyped, Supports, CacheIsRight, InPlanOrder, JudgedTruly, VerifierNext
    PROVE  JudgedTruly'
<1>1. CASE NextAttempt
    BY <1>1 DEF NextAttempt, JudgedTruly
<1>2. CASE JudgeL1
    <2>1. Judging /\ Judge(Truth(Rule)) /\ ~ActiveStyle(Rule)
          /\ UNCHANGED <<plan, artifact, gone, styles>>
        BY <1>2, TruthOfL1 DEF JudgeL1, ActiveStyle, inputs
    <2> QED BY <2>1, JudgedStays
<1>3. CASE JudgeInactive
    <2>1. Judging /\ Judge(Truth(Rule)) /\ ~ActiveStyle(Rule)
          /\ UNCHANGED <<plan, artifact, gone, styles>>
        BY <1>3, TruthOfInactive DEF JudgeInactive, ActiveStyle, Inactive, inputs
    <2> QED BY <2>1, JudgedStays
<1>4. CASE JudgeGone
    <2>1. Judging /\ Judge(Truth(Rule)) /\ AllResolved
          /\ UNCHANGED <<plan, artifact, gone, styles>>
        BY <1>4, TruthOfGone DEF JudgeGone, Active, StylesGone, inputs
    <2> QED BY <2>1, JudgedStays
<1>5. CASE JudgeEvidence
    <2>1. Judging /\ Encodes /\ Missing = {} /\ UNCHANGED <<plan, artifact, gone, styles>>
        BY <1>5 DEF JudgeEvidence, Encodes, Active, inputs
    <2>2. Judge(Truth(Rule))
        BY <1>5, <2>1, TruthOfEvidence DEF JudgeEvidence
    <2>3. ActiveStyle(Rule) => AllResolved
        BY <2>1, RuleSupported DEF Encodes, Active, ActiveStyle, Structural
    <2> QED BY <2>1, <2>2, <2>3, JudgedStays
<1>6. CASE JudgeStructure
    <2>1. Judging /\ Judge(Truth(Rule)) /\ ~ActiveStyle(Rule)
          /\ UNCHANGED <<plan, artifact, gone, styles>>
        BY <1>6, TruthOfStructure DEF JudgeStructure, Active, Structural, ActiveStyle, inputs
    <2> QED BY <2>1, JudgedStays
<1>7. CASE Return
    <2>1. /\ UNCHANGED <<plan, artifact, gone, styles>>
          /\ results' = IF gone THEN [k \in Applicable |-> "UNVERIFIABLE"] ELSE results
        BY <1>7 DEF Return, inputs
    <2>2. \A k : Truth(plan[k])' = Truth(plan[k])
        BY <2>1, TruthStays
    <2>3. AllResolved' = AllResolved /\ \A k : ActiveStyle(plan[k])' = ActiveStyle(plan[k])
        BY <2>1 DEF AllResolved, ActiveStyle
    <2> QED BY <2>1, <2>2, <2>3 DEF JudgedTruly
<1>8. CASE ResolveArtifact
    <2>1. DOMAIN results' = {}
        BY <1>8 DEF ResolveArtifact, InPlanOrder
    <2> QED BY <2>1 DEF JudgedTruly
<1>9. CASE ResolveStyle
    <2>1. /\ UNCHANGED <<plan, artifact, gone, results>> /\ ~gone /\ ~AllResolved
        BY <1>9 DEF ResolveStyle, Active, Judging, inputs
    <2>2. ASSUME NEW k \in DOMAIN results
          PROVE  /\ ~ActiveStyle(plan[k]) /\ ~ActiveStyle(plan[k])'
                 /\ results[k] = Truth(plan[k])'
        <3>1. ~ActiveStyle(plan[k]) /\ results[k] = Truth(plan[k])
            BY <2>1 DEF JudgedTruly
        <3>2. ~ActiveStyle(plan[k])'
            BY <2>1, <3>1 DEF ActiveStyle
        <3>3. Truth(plan[k])' = Truth(plan[k])
            BY <2>1, <3>1, TruthStays
        <3> QED BY <3>1, <3>2, <3>3
    <2> QED BY <2>1, <2>2 DEF JudgedTruly
<1>10. CASE Create \/ Meanwhile \/ Invoke \/ Encode
    <2>1. UNCHANGED <<plan, artifact, gone, results, styles>>
        BY <1>10 DEF Create, Meanwhile, Invoke, Encode, inputs, work
    <2>2. \A k : Truth(plan[k])' = Truth(plan[k])
        BY <2>1, TruthStays
    <2>3. AllResolved' = AllResolved /\ \A k : ActiveStyle(plan[k])' = ActiveStyle(plan[k])
        BY <2>1 DEF AllResolved, ActiveStyle
    <2> QED BY <2>1, <2>2, <2>3 DEF JudgedTruly
<1> QED BY <1>1, <1>2, <1>3, <1>4, <1>5, <1>6, <1>7, <1>8, <1>9, <1>10 DEF VerifierNext

-----------------------------------------------------------------------------
(* What is asked of others. *)

\* One more reference is one more place of its digest, and none of another.
LEMMA PlacesGrow ==
    ASSUME NEW m \in Nat, m + 1 <= Len(References), NEW d
    PROVE  /\ Cardinality(Places(m, d)) \in Nat
           /\ Cardinality(Places(m + 1, d)) =
                 Cardinality(Places(m, d)) + IF References[m + 1] = d THEN 1 ELSE 0
           /\ Cardinality(Places(m + 1, d)) <= Cardinality(Places(Len(References), d))
<1>1. Len(References) \in Nat
    BY VerifierAssumptions DEF ReferenceAssumption
<1>2. IsFiniteSet(1 .. Len(References))
    BY <1>1, FS_Interval
<1>3. ASSUME NEW i \in Nat, i <= Len(References)
      PROVE  IsFiniteSet(Places(i, d)) /\ Cardinality(Places(i, d)) \in Nat
    <2>1. Places(i, d) \in SUBSET (1 .. Len(References))
        BY <1>1, <1>3 DEF Places
    <2> QED BY <1>2, <2>1, FS_Subset, FS_CardinalityType
<1>4. Cardinality(Places(m + 1, d)) =
          Cardinality(Places(m, d)) + IF References[m + 1] = d THEN 1 ELSE 0
    <2>1. CASE References[m + 1] = d
        <3>1. Places(m + 1, d) = Places(m, d) \cup {m + 1} /\ m + 1 \notin Places(m, d)
            BY <2>1 DEF Places
        <3> QED BY <1>1, <1>3, <2>1, <3>1, FS_AddElement
    <2>2. CASE References[m + 1] # d
        <3>1. Places(m + 1, d) = Places(m, d)
            BY <2>2 DEF Places
        <3> QED BY <1>1, <1>3, <2>2, <3>1
    <2> QED BY <2>1, <2>2
<1>5. Cardinality(Places(m + 1, d)) <= Cardinality(Places(Len(References), d))
    <2>1. Places(m + 1, d) \in SUBSET Places(Len(References), d)
        BY <1>1 DEF Places
    <2> QED BY <1>1, <1>3, <2>1, FS_Subset
<1> QED BY <1>1, <1>3, <1>4, <1>5

LEMMA CountStep ==
    ASSUME VerifierTyped, InPlanOrder, Counted, VerifierNext
    PROVE  Counted'
<1>1. Len(References) \in Nat \ {0} /\ DOMAIN References = 1 .. Len(References)
    BY VerifierAssumptions DEF ReferenceAssumption
<1>2. asked \in [Digests -> [resolved : Nat, encoded : Nat]]
    BY DEF Counted
<1>3. CASE NextAttempt
    <2>1. asked' = [d \in Digests |-> [resolved |-> 0, encoded |-> 0]]
          /\ Len(styles') = 0 /\ DOMAIN cache' = {}
        BY <1>3 DEF NextAttempt
    <2>2. ASSUME NEW d \in Digests
          PROVE  /\ Cardinality(Places(0, d)) = 0
                 /\ Cardinality(Places(Len(References), d)) \in Nat
        <3>1. Places(0, d) = {}
            BY DEF Places
        <3>2. IsFiniteSet(1 .. Len(References))
            BY <1>1, FS_Interval
        <3>3. Places(Len(References), d) \in SUBSET (1 .. Len(References))
            BY DEF Places
        <3>4. IsFiniteSet(Places(Len(References), d))
            BY <3>2, <3>3, FS_Subset
        <3> QED BY <3>1, <3>4, FS_EmptySet, FS_CardinalityType
    <2> QED BY <2>1, <2>2 DEF Counted
<1>4. CASE ResolveStyle
    <2> DEFINE m == Len(styles)
               e == References[m + 1]
    <2>1. /\ asked' = [asked EXCEPT ![e].resolved = @ + 1]
          /\ UNCHANGED cache /\ phase = "rules"
          /\ phase' = "raised" \/ \E found \in BOOLEAN : styles' = Append(styles, found)
        BY <1>4 DEF ResolveStyle, Called, Raise, Active, Judging
    <2>2. m \in Nat /\ m + 1 <= Len(References)
        BY <1>1, <1>4 DEF VerifierTyped, ResolveStyle, AllResolved
    <2>3. phase' # "raised" => Len(styles') = m + 1
        BY <2>1 DEF VerifierTyped
    <2>4. e \in Digests
        BY <1>1, <2>2 DEF Digests
    <2> HIDE DEF m, e
    <2>5. /\ asked' \in [Digests -> [resolved : Nat, encoded : Nat]]
          /\ \A d \in Digests :
                /\ asked'[d].encoded = asked[d].encoded
                /\ asked'[d].resolved = asked[d].resolved + IF e = d THEN 1 ELSE 0
        BY <1>2, <2>1, <2>4
    <2>6. ASSUME NEW d \in Digests
          PROVE  /\ asked'[d].encoded <= 1
                 /\ asked'[d].encoded = IF d \in DOMAIN cache THEN 1 ELSE 0
                 /\ asked'[d].resolved = Cardinality(Places(m + 1, d))
                 /\ asked'[d].resolved <= Cardinality(Places(Len(References), d))
        <3>1. /\ asked[d].encoded <= 1
              /\ asked[d].encoded = IF d \in DOMAIN cache THEN 1 ELSE 0
              /\ asked[d].resolved = Cardinality(Places(m, d))
            BY <2>1 DEF Counted, m
        <3>2. /\ Cardinality(Places(m + 1, d)) =
                    Cardinality(Places(m, d)) + IF e = d THEN 1 ELSE 0
              /\ Cardinality(Places(m + 1, d)) <= Cardinality(Places(Len(References), d))
            BY <2>2, PlacesGrow DEF e
        <3> QED BY <2>5, <3>1, <3>2
    <2> QED BY <2>1, <2>3, <2>5, <2>6 DEF Counted
<1>5. CASE Encode
    <2> DEFINE e == FirstMissing
    <2>1. Judging /\ Missing # {}
        BY <1>5 DEF Encode, Encodes, Active
    <2>2. e \in Digests \ DOMAIN cache
        BY <2>1, LevelOfRule, FirstIsMissing
    <2>3. /\ asked' = [asked EXCEPT ![e].encoded = @ + 1]
          /\ UNCHANGED styles /\ phase = "rules"
          /\ phase' = "raised" \/ cache' = Remember(e)
        BY <1>5, <2>1 DEF Encode, EncoderFails, Raise, Judging
    <2> HIDE DEF e
    <2>4. phase' # "raised" => DOMAIN cache' = DOMAIN cache \cup {e}
        BY <2>3 DEF Remember
    <2>5. /\ asked' \in [Digests -> [resolved : Nat, encoded : Nat]]
          /\ \A d \in Digests :
                /\ asked'[d].resolved = asked[d].resolved
                /\ asked'[d].encoded = asked[d].encoded + IF e = d THEN 1 ELSE 0
        BY <1>2, <2>2, <2>3
    <2>6. ASSUME NEW d \in Digests
          PROVE  /\ asked'[d].encoded <= 1
                 /\ asked'[d].encoded = IF d \in DOMAIN cache \cup {e} THEN 1 ELSE 0
                 /\ asked'[d].resolved = Cardinality(Places(Len(styles), d))
                 /\ asked'[d].resolved <= Cardinality(Places(Len(References), d))
        <3>1. /\ asked[d].encoded = IF d \in DOMAIN cache THEN 1 ELSE 0
              /\ asked[d].resolved = Cardinality(Places(Len(styles), d))
              /\ asked[d].resolved <= Cardinality(Places(Len(References), d))
            BY <2>3 DEF Counted
        <3> QED BY <2>2, <2>5, <3>1
    <2> QED BY <2>3, <2>4, <2>5, <2>6 DEF Counted
<1>6. CASE ~NextAttempt /\ ~ResolveStyle /\ ~Encode
    <2>1. UNCHANGED <<asked, styles, cache>>
        BY <1>6, KeepsAsked, KeepsStyles, KeepsCache
    <2>2. phase' # "raised" => phase # "raised"
        BY <1>6 DEF VerifierNext, Create, Meanwhile, Invoke, ResolveArtifact, JudgeL1,
               JudgeInactive, JudgeGone, JudgeEvidence, JudgeStructure, Return, Encodes,
               Active, Judging
    <2> QED BY <2>1, <2>2 DEF Counted
<1> QED BY <1>3, <1>4, <1>5, <1>6

-----------------------------------------------------------------------------
(* What the invariant gives. *)

\* Passing every required rule takes the four technical ones.
LEMMA PassGives ==
    ASSUME VerifierTyped, Supports, InPlanOrder, JudgedTruly, phase = "returned",
           \A k \in Applicable : plan[k].required => results[k] = "PASS"
    PROVE  /\ ~gone /\ Clean /\ artifact.sized /\ ~artifact.blank
           /\ \A k \in Applicable :
                LET r == plan[k] IN
                r.required /\ r.level # "L1" =>
                    /\ r.scope = "ITEM" /\ r.status = "VALIDATED"
                    /\ r.level = "L3" => r.approved
<1>1. Supported /\ L1Bound /\ DOMAIN results = Applicable
    BY DEF Supports, Supported, InPlanOrder
<1>2. Applicable \subseteq DOMAIN plan
    BY DEF Applicable
<1>3. \A k \in DOMAIN plan : plan[k].level = "L1" => plan[k].required
    BY VerifierAssumptions DEF PlanAssumption, VerifierTyped
<1>4. ASSUME NEW metric \in Registry
      PROVE  ~gone /\ L1Status(metric) = "PASS"
    <2>1. PICK k \in Applicable : plan[k].level = "L1" /\ plan[k].metric = metric
        BY <1>1, <1>4 DEF L1Bound
    <2>2. results[k] = "PASS"
        BY <1>2, <1>3, <2>1
    <2>3. ~gone
        BY <1>1, <2>1, <2>2 DEF JudgedTruly, VerifierTyped
    <2>4. results[k] = Truth(plan[k])
        BY <1>1, <2>1, <2>3 DEF JudgedTruly
    <2> QED BY <2>1, <2>2, <2>3, <2>4 DEF Truth
<1>5. ~gone
    BY <1>4 DEF Registry
<1>6. Clean
    <2>1. L1Status("DECODE") = "PASS"
        BY <1>4 DEF Registry
    <2> QED BY <2>1 DEF L1Status
<1>7. artifact.sized /\ ~artifact.blank
    <2>1. L1Status("DIMENSIONS") = "PASS" /\ L1Status("PIXELS") = "PASS"
        BY <1>4 DEF Registry
    <2> QED BY <1>6, <2>1 DEF L1Status
<1>8. ASSUME NEW k \in Applicable, plan[k].required, plan[k].level # "L1"
      PROVE  /\ plan[k].scope = "ITEM" /\ plan[k].status = "VALIDATED"
             /\ plan[k].level = "L3" => plan[k].approved
    <2>1. plan[k].applicable /\ results[k] = "PASS" /\ results[k] = Truth(plan[k])
        BY <1>1, <1>5, <1>8 DEF Applicable, JudgedTruly
    <2>2. plan[k].status = "VALIDATED"
        BY <1>8, <2>1 DEF Truth
    <2>3. /\ SupportedScope(plan[k])
          /\ plan[k].level = "L3" => L3Bound(plan[k])
        BY <1>1, <1>2, <2>1 DEF Supported
    <2> QED BY <1>8, <2>1, <2>2, <2>3
            DEF SupportedScope, L3Bound, L3Diagnostic, L3Structure, ApprovedStructure
<1> QED BY <1>5, <1>6, <1>7, <1>8

LEMMA VerdictFollows == VerifierInv => VerdictIsTrue
<1> SUFFICES ASSUME VerifierInv PROVE VerdictIsTrue
    OBVIOUS
<1>1. /\ VerifierTyped /\ Supports /\ Intact /\ CacheIsRight
      /\ InPlanOrder /\ JudgedTruly /\ Counted
    BY DEF VerifierInv
<1>2. VerifierTypeOK
    BY <1>1 DEF VerifierTyped, CacheIsRight, InPlanOrder, VerifierTypeOK
<1>3. NothingAfterDrift
    BY <1>1 DEF Intact, NothingAfterDrift
<1>4. ResultsAreTrue
    BY <1>1 DEF InPlanOrder, JudgedTruly, ResultsAreTrue
<1>5. PassIsProven
    BY <1>1, PassGives DEF PassIsProven
<1>6. AskedOnce
    <2>1. DOMAIN References = 1 .. Len(References)
        BY VerifierAssumptions DEF ReferenceAssumption
    <2> QED BY <1>1, <2>1 DEF Counted, Places, AskedOnce
<1> QED BY <1>2, <1>3, <1>4, <1>5, <1>6 DEF VerdictIsTrue

LEMMA VerifierStep == VerifierInv /\ [VerifierNext]_verifierVars => VerifierInv'
<1> SUFFICES ASSUME VerifierInv, [VerifierNext]_verifierVars PROVE VerifierInv'
    OBVIOUS
<1>1. /\ VerifierTyped /\ Supports /\ Intact /\ CacheIsRight
      /\ InPlanOrder /\ JudgedTruly /\ Counted
    BY DEF VerifierInv
<1>2. CASE VerifierNext
    BY <1>1, <1>2, TypedStep, SupportsStep, IntactStep, CacheStep, OrderStep, TrueStep,
       CountStep DEF VerifierInv
<1>3. CASE UNCHANGED verifierVars
    <2>1. UNCHANGED <<plan, artifact, phase, drifted, drifts, results, gone, styles, cache,
                      asked, tainted>>
        BY <1>3 DEF verifierVars, inputs, work
    <2>2. Supported' = Supported /\ Applicable' = Applicable
        BY <2>1 DEF Supported, L1Bound, Applicable, L2Item, L2Batch, L3Bound, L3Diagnostic,
                    L3Structure, ApprovedStructure, SupportedScope
    <2>3. /\ \A k : Truth(plan[k])' = Truth(plan[k])
          /\ \A k : ActiveStyle(plan[k])' = ActiveStyle(plan[k])
          /\ AllResolved' = AllResolved
          /\ \A d : Decodes(d)' = Decodes(d)
        BY <2>1, TruthStays DEF ActiveStyle, AllResolved, Decodes
    <2>4. VerifierTyped' /\ Supports' /\ Intact'
        BY <1>1, <2>1, <2>2 DEF VerifierTyped, Supports, Intact
    <2>5. CacheIsRight' /\ InPlanOrder'
        BY <1>1, <2>1, <2>2, <2>3 DEF CacheIsRight, InPlanOrder
    <2>6. JudgedTruly'
        BY <1>1, <2>1, <2>3 DEF JudgedTruly
    <2>7. Counted'
        BY <1>1, <2>1 DEF Counted
    <2> QED BY <2>4, <2>5, <2>6, <2>7 DEF VerifierInv
<1> QED BY <1>2, <1>3

(* A verifier answers the truth about the artifact that its store holds,   *)
(* for every plan, artifact and number of references and whatever is       *)
(* changed around it (BoundProductionArtifactVerifier.__call__).           *)
THEOREM VerdictTrue == VerifierSpec => []VerdictIsTrue
<1>1. VerifierInit => VerifierInv
    BY Begins DEF VerifierInit
<1>2. VerifierInv /\ [VerifierNext]_verifierVars => VerifierInv'
    BY VerifierStep
<1>3. VerifierInv => VerdictIsTrue
    BY VerdictFollows
<1> QED BY <1>1, <1>2, <1>3, PTL DEF VerifierSpec
=============================================================================
