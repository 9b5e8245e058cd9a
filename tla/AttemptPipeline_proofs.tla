------------------------ MODULE AttemptPipeline_proofs -----------------------
(***************************************************************************)
(* Proofs about AttemptPipeline, for any number of denoising steps, of     *)
(* failing calls and of runs: what a run knows at each of its steps, and   *)
(* why the log never says more than the stores hold.                       *)
(***************************************************************************)
EXTENDS AttemptPipeline, TLAPS

Artifact == [attempt : Attempts, quality : {"good", "poor"}, made : {"none", "right", "wrong"}]
Report   == [artifact : Artifact, says : {"pass", "fail", "unverifiable"}]

Kinds   == {"CREATED", "JOB_STARTED", "SPEC_COMPILED", "ATTEMPT_STARTED", "ATTEMPT_FINISHED",
            "VERIFIER_FINISHED", "REPAIR_STEP", "FATAL", "FATAL_OOM", "CANCEL_REQUESTED"}
Results == Decided \cup {"CREATED", "SPEC_VALIDATED", "SPEC_COMPILED", "GENERATING", "VERIFYING",
                        "REPAIR_SELECTING", "REPAIRING", "JOB_FAILED", "CANCELLED"}
Event   == [type : Kinds, attempt : Attempts, to : Results]

(* The bounds are numbers, and None is neither an artifact nor a report.   *)
Bounds == /\ DenoisingSteps \in Nat /\ MaxAttemptFaults \in Nat /\ MaxRuns \in Nat
          /\ None \notin Artifact \cup Report

(* The types, in full. *)
Typed ==
    /\ log \in Seq(Event)
    /\ artifacts \in [Attempts -> Artifact \cup {None}]
    /\ reports \in [Attempts -> Report \cup {None}]
    /\ reason \in BOOLEAN /\ event \in BOOLEAN /\ quarantined \in BOOLEAN /\ checked \in BOOLEAN
    /\ attempt \in Attempts
    /\ step \in 0 .. DenoisingSteps
    /\ inputs \in {"none", "right", "wrong"}
    /\ image \in Artifact \cup {None}
    /\ verdict \in Report \cup {None}
    /\ attemptFaults \in 0 .. MaxAttemptFaults
    /\ runs \in 0 .. MaxRuns

(* The repositories an opening attempt has opened and nobody owns yet. *)
Opened == CASE attemptPc = "openReports"  -> {Repository("artifact")}
            [] attemptPc = "bindVerifier" -> {Repository("artifact"), Repository("report")}
            [] OTHER               -> {}

Opening == {"openArtifacts", "openReports", "bindVerifier"}

(* Whatever is open is owned by the run or being opened by it, and a run   *)
(* that has not bound an attempt owns nothing of it. *)
OwnsWhatIsOpen ==
    /\ repos = owned \cup Opened
    /\ owned \subseteq {"artifact", "report"} \X Attempts
    /\ attemptPc \in {"idle", "prepare", "control", "ended", "last"} => owned = {}
    /\ attemptPc \in Opening => \A k \in {"artifact", "report"} : <<k, attempt>> \notin owned
    /\ attempt = 0 => \A k \in {"artifact", "report"} : <<k, 1>> \notin owned

(* While the pipeline still goes on, no step has begun after the signal. *)
StopsInTime ==
    /\ late \in {0, 1} /\ late <= DenoisingSteps
    /\ attemptPc \in {"styles", "denoise"} => late = 0

(* The steps of a run, by what has been done when it reaches them. *)
Unjudged   == {"verify", "putReport", "readReport", "decide"}
Fresh      == {"control", "create"} \cup Opening
Unrecorded == Fresh \cup {"start", "generate", "styles", "denoise", "accept", "render", "put",
                          "readback", "finish", "repair"}
Judged     == {"putReport", "readReport", "decide", "select", "return", "last"}
Recorded   == {"finish", "verify"} \cup Judged
Imaged     == {"accept", "render", "put", "readback"} \cup Recorded

Unfinished(a) == \A k \in DOMAIN log :
    log[k].attempt = a => log[k].type \notin {"ATTEMPT_FINISHED", "VERIFIER_FINISHED"}
Undecided(a) == \A k \in DOMAIN log : log[k].attempt = a => log[k].type # "VERIFIER_FINISHED"

(* The last event decides on this attempt. *)
JustDecided == log # <<>> /\ Status \in Decided /\ log[Len(log)].attempt = attempt

(* What a run knows at each of its steps: of the log, *)
KnowsLog ==
    /\ attemptPc \in {"idle", "prepare", "control", "create", "start", "select"} => attempt = 0
    /\ attemptPc = "repair" => attempt = 1
    /\ attemptPc \in Fresh /\ attempt = 0 => log = <<>>
    /\ attemptPc \in Unrecorded => Unfinished(attempt)
    /\ attemptPc \in Unrecorded \cup Unjudged \cup {"select"} /\ attempt = 0 => Unfinished(1)
    /\ attemptPc \in Unjudged => Undecided(attempt)

(* of the stores, *)
KnowsStores ==
    /\ attemptPc = "denoise" => inputs = "right"
    /\ attemptPc \in Imaged => image \in Artifact /\ image.attempt = attempt /\ image.made = "right"
    /\ attemptPc \in Recorded => artifacts[attempt] = image
    /\ attemptPc \in Judged => verdict \in Report /\ verdict.artifact = image
    /\ attemptPc \in {"decide", "select", "return", "last"} => reports[attempt] = verdict
    /\ attemptPc = "select" => verdict.says = "fail"

(* and of what it returns. *)
KnowsResult ==
    /\ attemptPc = "return" => CancellationWon \/ JustDecided
    /\ attemptPc = "last" =>
          /\ returned = [artifact |-> image, report |-> verdict, status |-> returned.status]
          /\ CancellationWon \/ (JustDecided /\ returned.status = Status)

Rests == FinishedIsStored /\ DecidedIsReported

IInv == Typed /\ OwnsWhatIsOpen /\ StopsInTime /\ KnowsLog /\ KnowsStores /\ KnowsResult /\ Rests

-----------------------------------------------------------------------------
(* What follows from a call that fails, and from one more event. *)
LEMMA FaultTyped ==
    ASSUME Bounds, Typed, AttemptFault
    PROVE  attemptFaults' \in 0 .. MaxAttemptFaults /\ runs' = runs
  BY DEF Bounds, Typed, AttemptFault

LEMMA LoggedTyped ==
    ASSUME Typed
    PROVE  \A k \in DOMAIN log : log[k] \in Event /\ log[k].attempt \in Attempts
  <1>1. \A k \in DOMAIN log : log[k] \in Event
        BY DEF Typed
  <1> QED BY <1>1 DEF Event

LEMMA EntryTyped ==
    ASSUME Typed, NEW type \in Kinds, NEW to \in Results
    PROVE  /\ Entry(type, to) \in Event
           /\ Entry(type, to).type = type /\ Entry(type, to).to = to
           /\ Entry(type, to).attempt = attempt
  BY DEF Entry, Event, Typed

LEMMA Appended ==
    ASSUME Typed, NEW e \in Event, log' = Append(log, e)
    PROVE  /\ log' \in Seq(Event) /\ log' # <<>>
           /\ log'[Len(log')] = e
           /\ \A k \in DOMAIN log : k \in DOMAIN log' /\ log'[k] = log[k]
           /\ \A k \in DOMAIN log' : (k \in DOMAIN log /\ log'[k] = log[k]) \/ log'[k] = e
           /\ \E k \in DOMAIN log' : log'[k] = e
  BY DEF Typed

(* A recording appends one event, or ends the run. *)
LEMMA Append1Typed ==
    ASSUME Bounds, Typed, NEW type \in Kinds, NEW from, NEW to \in Results, NEW next,
           Append1(type, from, to, next)
    PROVE  /\ log' \in Seq(Event)
           /\ attemptFaults' \in 0 .. MaxAttemptFaults /\ runs' = runs
           /\ UNCHANGED log \/ log' = Append(log, Entry(type, to))
           /\ attemptPc' \in {next, "unwind"}
           /\ attemptPc' # "unwind" => log' = Append(log, Entry(type, to)) /\ Status = from
  <1>1. log' = log \/ log' = Append(log, Entry(type, to))
        BY DEF Append1
  <1>2. log' \in Seq(Event)
        BY <1>1, EntryTyped, Appended DEF Typed
  <1>3. attemptFaults' \in 0 .. MaxAttemptFaults /\ runs' = runs
        BY FaultTyped DEF Append1, Typed, counts
  <1> QED BY <1>1, <1>2, <1>3 DEF Append1, Proceed, Abort

-----------------------------------------------------------------------------
(* Type correctness. *)

LEMMA InitTyped ==
    ASSUME Bounds, AttemptInit
    PROVE  Typed
  BY DEF Bounds, AttemptInit, Idle, Typed, Attempts

(* The steps that only go on, or fail. *)
LEMMA QuietTyped ==
    ASSUME Bounds, Typed,
           UNCHANGED <<durable, flags, attempt, gpu, memory>>, checked' \in BOOLEAN,
           UNCHANGED counts \/ AttemptFault
    PROVE  Typed'
  BY FaultTyped DEF Typed, durable, flags, gpu, memory, counts

(* Every step of a run before it has an image, *)
LEMMA StartTyped ==
    ASSUME Bounds, Typed,
           StartRun \/ Checkpoint \/ PrepareAttempt \/ BuildControl \/ OpenArtifacts \/ OpenReports
           \/ BindVerifier \/ CreateJob \/ RecordStart \/ GenerateImage \/ ResolveStyles
    PROVE  Typed'
  <1>1. CASE StartRun
        BY <1>1 DEF StartRun, Typed, Bounds, durable, flags, gpu, memory
  <1>2. CASE Checkpoint
        BY <1>2, QuietTyped DEF Checkpoint, Typed
  <1>3. CASE PrepareAttempt \/ BuildControl \/ OpenArtifacts \/ OpenReports \/ BindVerifier
    <2>1. /\ UNCHANGED <<durable, flags, attempt, gpu, memory>> /\ checked' \in BOOLEAN
          /\ UNCHANGED counts \/ AttemptFault
          BY <1>3 DEF PrepareAttempt, BuildControl, OpenArtifacts, OpenReports, BindVerifier, At
    <2> QED BY <2>1, QuietTyped
  <1>4. ASSUME NEW type \in Kinds, NEW from, NEW to \in Results, NEW next,
               Append1(type, from, to, next), checked' = FALSE,
               UNCHANGED <<artifacts, reports, flags, attempt, gpu, memory>>
        PROVE  Typed'
        BY <1>4, Append1Typed DEF Typed, flags, gpu, memory
  <1>5. CASE CreateJob
        BY <1>4, <1>5 DEF CreateJob, At, Kinds, Results
  <1>6. CASE RecordStart
        BY <1>4, <1>6 DEF RecordStart, At, Kinds, Results
  <1>7. CASE GenerateImage
    <2>1. attemptFaults' \in 0 .. MaxAttemptFaults /\ runs' \in 0 .. MaxRuns
          BY <1>7, FaultTyped DEF GenerateImage, Typed, counts
    <2>2. /\ step' = 0 /\ inputs' = "none" /\ checked' = FALSE
          /\ UNCHANGED <<durable, flags, attempt, memory>>
          BY <1>7 DEF GenerateImage, At
    <2>3. step' \in 0 .. DenoisingSteps /\ inputs' \in {"none", "right", "wrong"}
          BY <2>2 DEF Bounds
    <2>4. checked' \in BOOLEAN
          BY <2>2
    <2> QED BY <2>1, <2>2, <2>3, <2>4 DEF Typed, durable, flags, memory
  <1>8. CASE ResolveStyles
    <2>1. attemptFaults' \in 0 .. MaxAttemptFaults /\ runs' = runs
          BY <1>8, FaultTyped DEF ResolveStyles, Typed, Bounds
    <2>2. inputs' \in {"none", "right", "wrong"}
          BY <1>8 DEF ResolveStyles, Typed
    <2> QED BY <1>8, <2>1, <2>2 DEF ResolveStyles, At, Typed, durable, flags, memory
  <1> QED BY <1>1, <1>2, <1>3, <1>5, <1>6, <1>7, <1>8

(* while it has one, *)
LEMMA ImageTyped ==
    ASSUME Bounds, Typed, attemptPc = "verify" => artifacts[attempt] \in Artifact,
           Denoise \/ EncodeImage \/ AcceptArtifact \/ Render \/ PutArtifact \/ ReadBack
           \/ FinishAttempt \/ Verify \/ PutReport \/ ReadReport
    PROVE  Typed'
  <1>1. CASE Denoise
    <2>1. attemptFaults' \in 0 .. MaxAttemptFaults /\ runs' \in 0 .. MaxRuns
          BY <1>1, FaultTyped DEF Denoise, Typed, counts
    <2>2. step' \in {step, step + 1} /\ step < DenoisingSteps /\ quarantined' \in {TRUE, quarantined}
          BY <1>1 DEF Denoise, Quarantine
    <2>3. checked' = FALSE /\ UNCHANGED <<durable, reason, event, attempt, inputs, memory>>
          BY <1>1 DEF Denoise, At
    <2>4. step' \in 0 .. DenoisingSteps
          BY <2>2 DEF Typed, Bounds
    <2>5. quarantined' \in BOOLEAN /\ checked' \in BOOLEAN
          BY <2>2, <2>3 DEF Typed
    <2> QED BY <2>1, <2>3, <2>4, <2>5 DEF Typed, durable, memory
  <1>2. CASE EncodeImage
    <2>1. attemptFaults' \in 0 .. MaxAttemptFaults /\ runs' \in 0 .. MaxRuns
          BY <1>2, FaultTyped DEF EncodeImage, Typed, counts
    <2>2. image' \in Artifact \cup {None}
          BY <1>2 DEF EncodeImage, ArtifactOf, Artifact, Typed
    <2> QED BY <1>2, <2>1, <2>2 DEF EncodeImage, At, Typed, durable, flags, gpu
  <1>3. CASE AcceptArtifact \/ Render \/ ReadBack \/ ReadReport
    <2>1. /\ UNCHANGED <<durable, flags, attempt, gpu, memory>> /\ checked' \in BOOLEAN
          /\ UNCHANGED counts \/ AttemptFault
          BY <1>3 DEF AcceptArtifact, Render, ReadBack, ReadReport, At
    <2> QED BY <2>1, QuietTyped
  <1>4. CASE PutArtifact
    <2>1. attemptFaults' \in 0 .. MaxAttemptFaults /\ runs' \in 0 .. MaxRuns
          BY <1>4, FaultTyped DEF PutArtifact, Typed, counts
    <2>2. artifacts' \in [Attempts -> Artifact \cup {None}]
          BY <1>4 DEF PutArtifact, Typed
    <2> QED BY <1>4, <2>1, <2>2 DEF PutArtifact, At, Typed, flags, gpu, memory
  <1>5. CASE FinishAttempt
        BY <1>5, Append1Typed DEF FinishAttempt, At, Typed, flags, gpu, memory, Kinds, Results
  <1>6. CASE Verify
    <2>1. attemptFaults' \in 0 .. MaxAttemptFaults /\ runs' \in 0 .. MaxRuns
          BY <1>6, FaultTyped DEF Verify, Typed, counts
    <2>2. \/ verdict' = verdict
          \/ \E v \in {"pass", "fail", "unverifiable"} :
                verdict' = [artifact |-> artifacts[attempt], says |-> v]
          BY <1>6 DEF Verify, Says
    <2>3. verdict' \in Report \cup {None}
          BY <1>6, <2>2 DEF Verify, At, Report, Typed
    <2>4. quarantined' \in BOOLEAN /\ checked' \in BOOLEAN
          BY <1>6 DEF Verify, At, Quarantine, Typed
    <2>5. UNCHANGED <<durable, reason, event, attempt, gpu, image>>
          BY <1>6 DEF Verify
    <2> QED BY <2>1, <2>3, <2>4, <2>5 DEF Typed, durable, gpu
  <1>7. CASE PutReport
    <2>1. attemptFaults' \in 0 .. MaxAttemptFaults /\ runs' \in 0 .. MaxRuns
          BY <1>7, FaultTyped DEF PutReport, Typed, counts
    <2>2. reports' \in [Attempts -> Report \cup {None}]
          BY <1>7 DEF PutReport, Typed
    <2> QED BY <1>7, <2>1, <2>2 DEF PutReport, At, Typed, flags, gpu, memory
  <1> QED BY <1>1, <1>2, <1>3, <1>4, <1>5, <1>6, <1>7

(* when it is decided upon or fails, and whatever the user and the process  *)
(* do meanwhile. *)
LEMMA EndTyped ==
    ASSUME Bounds, Typed,
           Decide \/ Select \/ RecordRepair \/ ReturnResult \/ FinishRun \/ RecordFatal \/ Unwind
           \/ EndRun \/ Die \/ Reopen \/ CancelDurable \/ Signal
    PROVE  Typed'
  <1>1. ASSUME NEW type \in Kinds, NEW from, NEW to \in Results, NEW next,
               Append1(type, from, to, next), checked' = FALSE, attempt' \in Attempts,
               UNCHANGED <<artifacts, reports, flags, gpu, memory>>
        PROVE  Typed'
        BY <1>1, Append1Typed DEF Typed, flags, gpu, memory
  <1>2. CASE Decide
    <2>1. Decision(verdict) \in Results
          BY DEF Decision, Results, Decided
    <2>2. checked' = FALSE /\ UNCHANGED <<artifacts, reports, flags, attempt, gpu, memory>>
          BY <1>2 DEF Decide, At
    <2>3. CASE AttemptFault /\ UNCHANGED log
          BY <2>2, <2>3, QuietTyped DEF durable
    <2> QED BY <1>1, <1>2, <2>1, <2>2, <2>3 DEF Decide, RecordDecision, Typed, Kinds, Results
  <1>3. CASE Select
    <2>1. checked' = FALSE /\ UNCHANGED <<artifacts, reports, flags, gpu, memory>>
          BY <1>3 DEF Select, At
    <2>2. CASE RecordDecision("REPAIR_SELECTING", "REJECTED", "return") /\ UNCHANGED attempt
          BY <1>1, <2>1, <2>2 DEF RecordDecision, Typed, Kinds, Results, Decided
    <2>3. CASE attempt' = 1 /\ UNCHANGED <<log, counts>>
          BY <2>1, <2>3 DEF Typed, Attempts, flags, gpu, memory, counts
    <2> QED BY <1>3, <2>2, <2>3 DEF Select
  <1>4. CASE RecordRepair
        BY <1>1, <1>4 DEF RecordRepair, At, Typed, Kinds, Results
  <1>5. ASSUME UNCHANGED <<durable, flags, attempt, gpu, memory, counts>>, checked' \in BOOLEAN
        PROVE  Typed'
        BY <1>5, QuietTyped
  <1>6. CASE ReturnResult \/ FinishRun \/ Unwind
        BY <1>5, <1>6 DEF ReturnResult, FinishRun, Unwind, At, Typed
  <1>7. ASSUME NEW type \in Kinds, NEW to \in Results, log' = Append(log, Entry(type, to))
        PROVE  log' \in Seq(Event)
        BY <1>7, EntryTyped, Appended
  <1>8. CASE RecordFatal
    <2>1. log' \in Seq(Event)
          BY <1>7, <1>8 DEF RecordFatal, Typed, Kinds, Results
    <2>2. attemptFaults' \in 0 .. MaxAttemptFaults /\ runs' \in 0 .. MaxRuns
          BY <1>8, FaultTyped DEF RecordFatal, Typed, counts
    <2> QED BY <1>8, <2>1, <2>2 DEF RecordFatal, Typed, flags, gpu, memory
  <1>9. CASE EndRun \/ Die
    <2>1. /\ Clear /\ UNCHANGED <<durable, counts>>
          /\ quarantined' \in BOOLEAN
          BY <1>9 DEF EndRun, Die, Typed
    <2>2. reason' \in BOOLEAN /\ event' \in BOOLEAN /\ checked' \in BOOLEAN
          BY <2>1 DEF Clear
    <2>3. /\ attempt' \in Attempts /\ step' \in 0 .. DenoisingSteps /\ inputs' \in {"none", "right", "wrong"}
          /\ image' = None /\ verdict' = None
          BY <2>1 DEF Clear, Bounds, Attempts
    <2> QED BY <2>1, <2>2, <2>3 DEF Typed, durable, counts
  <1>10. CASE Reopen
         BY <1>10 DEF Reopen, Typed, durable, gpu, memory, counts
  <1>11. CASE CancelDurable
    <2>1. log' \in Seq(Event)
          BY <1>7, <1>11 DEF CancelDurable, Kinds, Results
    <2> QED BY <1>11, <2>1 DEF CancelDurable, Typed, gpu, memory, counts
  <1>12. CASE Signal
         BY <1>12 DEF Signal, Typed, durable, gpu, memory, counts
  <1> QED BY <1>2, <1>3, <1>4, <1>6, <1>8, <1>9, <1>10, <1>11, <1>12
-----------------------------------------------------------------------------
(* Repositories. *)

LEMMA InitOwns ==
    ASSUME AttemptInit
    PROVE  OwnsWhatIsOpen
  BY DEF AttemptInit, Idle, OwnsWhatIsOpen, Opened, Opening

(* A step that opens and closes nothing, and neither begins an opening nor *)
(* ends a run. *)
LEMMA MiddleOwns ==
    ASSUME OwnsWhatIsOpen, UNCHANGED <<files, attempt>>,
           attemptPc \notin {"openReports", "bindVerifier"},
           attemptPc' \notin Opening \cup {"idle", "prepare", "control", "ended", "last"}
    PROVE  OwnsWhatIsOpen'
  BY DEF OwnsWhatIsOpen, Opened, Opening, files

(* What the user does leaves the run where it is. *)
LEMMA StillOwns ==
    ASSUME OwnsWhatIsOpen, UNCHANGED <<attemptPc, files, attempt>>
    PROVE  OwnsWhatIsOpen'
  BY DEF OwnsWhatIsOpen, Opened, Repository, files

LEMMA OpeningOwns ==
    ASSUME Typed, OwnsWhatIsOpen, OpenArtifacts \/ OpenReports \/ BindVerifier
    PROVE  OwnsWhatIsOpen'
  <1>1. CASE OpenArtifacts
    <2>1. /\ attemptPc = "openArtifacts" /\ UNCHANGED <<attempt, owned>>
          /\ \/ attemptPc' = "openReports" /\ repos' = repos \cup {<<"artifact", attempt>>}
             \/ attemptPc' \in {"fatal", "unwind"} /\ repos' = repos
          BY <1>1 DEF OpenArtifacts, At, Proceed, RepairFailed, Repository
    <2> QED BY <2>1 DEF OwnsWhatIsOpen, Opened, Opening, Repository
  <1>2. CASE OpenReports
    <2>1. /\ attemptPc = "openReports" /\ UNCHANGED <<attempt, owned>>
          /\ \/ attemptPc' = "bindVerifier" /\ repos' = repos \cup {<<"report", attempt>>}
             \/ /\ attemptPc' \in {"fatal", "unwind"}
                /\ repos' = repos \ {<<"artifact", attempt>>, <<"report", attempt>>}
          BY <1>2 DEF OpenReports, At, Proceed, RepairFailed, CloseOpened, Repository
    <2> QED BY <2>1 DEF OwnsWhatIsOpen, Opened, Opening, Repository
  <1>3. CASE BindVerifier
    <2>1. /\ attemptPc = "bindVerifier" /\ UNCHANGED attempt
          /\ \/ /\ attemptPc' = IF attempt = 0 THEN "create" ELSE "repair"
                /\ owned' = owned \cup {<<"artifact", attempt>>, <<"report", attempt>>}
                /\ UNCHANGED repos
             \/ /\ attemptPc' \in {"fatal", "unwind"} /\ UNCHANGED owned
                /\ repos' = repos \ {<<"artifact", attempt>>, <<"report", attempt>>}
          BY <1>3 DEF BindVerifier, At, Proceed, RepairFailed, CloseOpened, Repository
    <2>2. repos = owned \cup {<<"artifact", attempt>>, <<"report", attempt>>} /\ attempt \in {0, 1}
          BY <2>1 DEF Typed, Attempts, OwnsWhatIsOpen, Opened, Repository
    <2>3. attemptPc' \in {"create", "repair", "fatal", "unwind"}
          BY <2>1
    <2>4. repos' = owned' /\ owned' \subseteq {"artifact", "report"} \X Attempts
          BY <2>1, <2>2 DEF OwnsWhatIsOpen, Opening, Attempts
    <2>5. attempt' = 0 => \A k \in {"artifact", "report"} : <<k, 1>> \notin owned'
          BY <2>1, <2>2 DEF OwnsWhatIsOpen
    <2> QED BY <2>3, <2>4, <2>5 DEF OwnsWhatIsOpen, Opened, Opening
  <1> QED BY <1>1, <1>2, <1>3

(* The steps that close, and those between which nothing is open. *)
LEMMA ClosingOwns ==
    ASSUME Bounds, Typed, OwnsWhatIsOpen, KnowsLog,
           StartRun \/ PrepareAttempt \/ BuildControl \/ Decide \/ Select \/ ReturnResult \/ FinishRun \/ Unwind
           \/ EndRun \/ Die
    PROVE  OwnsWhatIsOpen'
  <1>1. CASE StartRun
        BY <1>1 DEF StartRun, Proceed, OwnsWhatIsOpen, Opened, Opening, files
  <1>2. CASE PrepareAttempt \/ BuildControl
    <2>1. /\ \/ attemptPc = "prepare" /\ attemptPc' \in {"control", "unwind"}
             \/ attemptPc = "control" /\ attemptPc' \in {"openArtifacts", "unwind"}
          /\ UNCHANGED <<repos, owned, attempt>>
          BY <1>2 DEF PrepareAttempt, BuildControl, At, Proceed, Abort, files
    <2> QED BY <2>1 DEF OwnsWhatIsOpen, Opened, Opening
  <1>3. CASE Decide
    <2>1. attemptPc' \in {"fatal", "unwind", "return", "select"}
          BY <1>3 DEF Decide, RecordDecision, Append1, Proceed, Abort
    <2>2. /\ attemptPc = "decide" /\ UNCHANGED attempt
          /\ repos' = repos \ {<<k, 1>> : k \in {"artifact", "report"}}
          /\ owned' = owned \ {<<k, 1>> : k \in {"artifact", "report"}}
          BY <1>3 DEF Decide, At
    <2>3. repos' = owned' /\ owned' \subseteq owned
          BY <2>2 DEF OwnsWhatIsOpen, Opened
    <2>4. owned' \subseteq {"artifact", "report"} \X Attempts
          BY <2>3 DEF OwnsWhatIsOpen
    <2>5. attempt' = 0 => \A k \in {"artifact", "report"} : <<k, 1>> \notin owned'
          BY <2>2, <2>3 DEF OwnsWhatIsOpen
    <2> QED BY <2>1, <2>3, <2>4, <2>5 DEF OwnsWhatIsOpen, Opened, Opening
  <1>4. CASE Select
    <2>1. /\ attemptPc = "select" /\ UNCHANGED <<repos, owned>>
          /\ \/ attempt' = attempt /\ attemptPc' \in {"unwind", "return"}
             \/ attempt' = 1 /\ attemptPc' = "openArtifacts"
          BY <1>4 DEF Select, RecordDecision, Append1, At, Proceed, Abort, files
    <2>2. attempt = 0
          BY <2>1 DEF KnowsLog
    <2> QED BY <2>1, <2>2 DEF OwnsWhatIsOpen, Opened, Opening
  <1>5. CASE ReturnResult \/ Unwind
    <2>1. /\ attemptPc \in {"return", "unwind"} /\ attemptPc' \in {"last", "ended"}
          /\ repos' = repos \ owned /\ owned' = {}
          BY <1>5 DEF ReturnResult, Unwind, At, Proceed
    <2> QED BY <2>1 DEF OwnsWhatIsOpen, Opened, Opening
  <1>6. CASE FinishRun \/ EndRun
    <2>1. /\ attemptPc \in {"last", "ended"} /\ attemptPc' \in {"ended", "idle"}
          /\ repos' = repos /\ owned' \in {owned, {}}
          BY <1>6 DEF FinishRun, EndRun, Clear, Proceed, files
    <2> QED BY <2>1 DEF OwnsWhatIsOpen, Opened, Opening
  <1>7. CASE Die
        BY <1>7 DEF Die, Clear, Proceed, OwnsWhatIsOpen, Opened, Opening
  <1> QED BY <1>1, <1>2, <1>3, <1>4, <1>5, <1>6, <1>7

LEMMA OwnsPreserved ==
    ASSUME Bounds, Typed, OwnsWhatIsOpen, KnowsLog, AttemptNext
    PROVE  OwnsWhatIsOpen'
  <1>1. ASSUME NEW type, NEW from, NEW to, NEW next, Append1(type, from, to, next)
        PROVE  attemptPc' \in {next, "unwind"}
        BY <1>1 DEF Append1, Proceed, Abort
  <1>2. CASE Checkpoint
        BY <1>2, MiddleOwns, StillOwns DEF Checkpoint, Guarded, Abort, Proceed, Opening
  <1>3. CASE CreateJob \/ RecordStart \/ FinishAttempt \/ RecordRepair
    <2>1. /\ attemptPc \in {"create", "start", "finish", "repair"}
          /\ attemptPc' \in {"start", "generate", "verify", "unwind"}
          /\ UNCHANGED <<files, attempt>>
          BY <1>1, <1>3 DEF CreateJob, RecordStart, FinishAttempt, RecordRepair, At
    <2> QED BY <2>1, MiddleOwns DEF Opening
  <1>4. CASE GenerateImage \/ ResolveStyles \/ Denoise \/ EncodeImage \/ AcceptArtifact \/ Render
    <2>1. /\ attemptPc \in {"generate", "styles", "denoise", "accept", "render"}
          /\ UNCHANGED <<files, attempt>>
          BY <1>4 DEF GenerateImage, ResolveStyles, Denoise, EncodeImage, AcceptArtifact,
             Render, At
    <2>2. attemptPc' \in {"styles", "denoise", "accept", "render", "put", "oom", "fatal", "unwind"}
          BY <1>4 DEF GenerateImage, ResolveStyles, Denoise, EncodeImage, AcceptArtifact,
             Render, Proceed, GenerationFailed, Abort
    <2> QED BY <2>1, <2>2, MiddleOwns DEF Opening
  <1>5. CASE PutArtifact \/ ReadBack \/ Verify \/ PutReport \/ ReadReport
    <2>1. /\ attemptPc \in {"put", "readback", "verify", "putReport", "readReport"}
          /\ attemptPc' \in {"readback", "finish", "putReport", "readReport", "decide", "oom", "fatal"}
          /\ UNCHANGED <<files, attempt>>
          BY <1>5 DEF PutArtifact, ReadBack, Verify, PutReport, ReadReport, At, Proceed
    <2> QED BY <2>1, MiddleOwns DEF Opening
  <1>6. CASE RecordFatal
        BY <1>6, MiddleOwns DEF RecordFatal, Abort, Proceed, Opening
  <1>7. CASE Reopen \/ CancelDurable \/ Signal
        BY <1>7, StillOwns DEF Reopen, CancelDurable, Signal
  <1> QED BY <1>2, <1>3, <1>4, <1>5, <1>6, <1>7, OpeningOwns, ClosingOwns DEF AttemptNext

-----------------------------------------------------------------------------
(* Cancellation. *)

LEMMA InitStops ==
    ASSUME Bounds, AttemptInit
    PROVE  StopsInTime
  BY DEF Bounds, AttemptInit, Idle, StopsInTime

LEMMA StopsPreserved ==
    ASSUME Bounds, Typed, StopsInTime, AttemptNext
    PROVE  StopsInTime'
  <1>1. ASSUME NEW type, NEW from, NEW to, NEW next, Append1(type, from, to, next)
        PROVE  attemptPc' \in {next, "unwind"}
        BY <1>1 DEF Append1, Proceed, Abort
  <1>2. CASE Denoise
    <2>1. /\ attemptPc = "denoise" /\ step < DenoisingSteps
          /\ late' = late + (IF event THEN 1 ELSE 0)
          /\ attemptPc' \in {"denoise", "unwind", "fatal", "oom"}
          /\ event => attemptPc' # "denoise"
          BY <1>2 DEF Denoise, Callback, GenerationFailed, At, Proceed
    <2>2. CASE event
          BY <2>1, <2>2 DEF StopsInTime, Typed, Bounds
    <2>3. CASE ~event
          BY <2>1, <2>3 DEF StopsInTime
    <2> QED BY <2>2, <2>3
  <1>3. ASSUME late' = 0
        PROVE  StopsInTime'
        BY <1>3 DEF StopsInTime, Bounds
  <1>4. CASE GenerateImage \/ EndRun \/ Die
        BY <1>3, <1>4 DEF GenerateImage, EndRun, Die, Clear
  <1>5. ASSUME UNCHANGED late, attemptPc' \in {"styles", "denoise"} => attemptPc \in {"styles", "denoise"}
        PROVE  StopsInTime'
        BY <1>5 DEF StopsInTime
  <1>6. CASE Checkpoint \/ Reopen \/ CancelDurable \/ Signal
        BY <1>5, <1>6 DEF Checkpoint, Reopen, CancelDurable, Signal, Abort, Proceed, gpu
  <1>7. CASE \/ StartRun \/ PrepareAttempt \/ BuildControl \/ OpenArtifacts \/ OpenReports \/ BindVerifier
             \/ CreateJob \/ RecordStart
        BY <1>1, <1>5, <1>7 DEF StartRun, PrepareAttempt, BuildControl, OpenArtifacts,
           OpenReports, BindVerifier, CreateJob, RecordStart, RepairFailed, Abort, Proceed, gpu
  <1>8. CASE ResolveStyles \/ EncodeImage \/ AcceptArtifact \/ Render
        BY <1>5, <1>8 DEF ResolveStyles, EncodeImage, AcceptArtifact, Render, GenerationFailed,
              At, Abort, Proceed, gpu
  <1>9. CASE PutArtifact \/ ReadBack \/ Verify \/ PutReport \/ ReadReport
        BY <1>5, <1>9 DEF PutArtifact, ReadBack, Verify, PutReport, ReadReport, Proceed, gpu
  <1>10. CASE FinishAttempt \/ Decide \/ Select \/ RecordRepair
         BY <1>1, <1>5, <1>10 DEF FinishAttempt, Decide, Select, RecordRepair, RecordDecision,
               Proceed, gpu
  <1>11. CASE ReturnResult \/ FinishRun \/ RecordFatal \/ Unwind
         BY <1>5, <1>11 DEF ReturnResult, FinishRun, RecordFatal, Unwind, Abort, Proceed, gpu
  <1> QED BY <1>2, <1>4, <1>6, <1>7, <1>8, <1>9, <1>10, <1>11 DEF AttemptNext
-----------------------------------------------------------------------------
(* What a run knows of the stores. *)

LEMMA InitStores ==
    ASSUME AttemptInit
    PROVE  KnowsStores
  BY DEF AttemptInit, Idle, KnowsStores, Imaged, Recorded, Judged

(* The step that reads the artifact back, the verdict on it and the report *)
(* read back each take what is known one step further. *)
LEMMA StoresPreserved ==
    ASSUME Bounds, Typed, KnowsLog, KnowsStores, AttemptNext
    PROVE  KnowsStores'
  <1>1. ASSUME NEW type, NEW from, NEW to, NEW next, Append1(type, from, to, next)
        PROVE  attemptPc' \in {next, "unwind"}
        BY <1>1 DEF Append1, Proceed, Abort
  <1>2. ASSUME attemptPc' \notin Imaged \cup {"denoise"}
        PROVE  KnowsStores'
        BY <1>2 DEF KnowsStores, Imaged, Recorded, Judged
  <1>3. ASSUME UNCHANGED <<artifacts, reports, attempt, inputs, memory>>,
               attemptPc' = "denoise" => attemptPc = "denoise",
               attemptPc' \in Imaged => attemptPc \in Imaged, attemptPc' \in Recorded => attemptPc \in Recorded,
               attemptPc' \in Judged => attemptPc \in Judged,
               attemptPc' \in {"decide", "select", "return", "last"} =>
                   attemptPc \in {"decide", "select", "return", "last"},
               attemptPc' = "select" => verdict.says = "fail"
        PROVE  KnowsStores'
        BY <1>3 DEF KnowsStores, memory
  <1>4. CASE \/ StartRun \/ PrepareAttempt \/ BuildControl \/ OpenArtifacts \/ OpenReports \/ BindVerifier
             \/ CreateJob \/ RecordStart
        BY <1>1, <1>2, <1>4 DEF StartRun, PrepareAttempt, BuildControl, OpenArtifacts,
           OpenReports, BindVerifier, CreateJob, RecordStart, RepairFailed, Abort, Proceed, Imaged,
           Recorded, Judged
  <1>5. CASE GenerateImage \/ RecordRepair \/ FinishRun \/ RecordFatal \/ Unwind \/ EndRun \/ Die
        BY <1>1, <1>2, <1>5 DEF GenerateImage, RecordRepair, FinishRun, RecordFatal, Unwind,
           EndRun, Die, GenerationFailed, Abort, Proceed, Imaged, Recorded, Judged
  <1>6. CASE Checkpoint \/ Reopen \/ CancelDurable \/ Signal
    <2>1. UNCHANGED <<artifacts, reports, attempt, inputs, memory>> /\ attemptPc' \in {attemptPc, "unwind"}
          BY <1>6 DEF Checkpoint, Reopen, CancelDurable, Signal, Abort, Proceed, durable, gpu
    <2>2. CASE attemptPc' = "unwind"
          BY <1>2, <2>2 DEF Imaged, Recorded, Judged
    <2>3. CASE attemptPc' = attemptPc
          BY <1>3, <2>1, <2>3 DEF KnowsStores
    <2> QED BY <2>1, <2>2, <2>3
  <1>7. CASE ResolveStyles
    <2>1. attemptPc' \in {"unwind", "fatal"} \/ (attemptPc' = "denoise" /\ inputs' = "right")
          BY <1>7 DEF ResolveStyles, Accept, GenerationFailed, Proceed
    <2> QED BY <2>1 DEF KnowsStores, Imaged, Recorded, Judged
  <1>8. CASE Denoise
    <2>1. attemptPc = "denoise" /\ inputs' = inputs /\ attemptPc' \in {"denoise", "unwind", "fatal", "oom"}
          BY <1>8 DEF Denoise, GenerationFailed, At, Proceed
    <2> QED BY <2>1 DEF KnowsStores, Imaged, Recorded, Judged
  <1>9. CASE EncodeImage
    <2>1. /\ attemptPc = "denoise" /\ attempt' = attempt
          /\ \/ attemptPc' \in {"unwind", "fatal"}
             \/ /\ attemptPc' = "accept"
                /\ \E quality \in {"good", "poor"} :
                      image' = [attempt |-> attempt, quality |-> quality, made |-> inputs]
          BY <1>9 DEF EncodeImage, ArtifactOf, GenerationFailed, At, Proceed
    <2>2. inputs = "right"
          BY <2>1 DEF KnowsStores
    <2> QED BY <2>1, <2>2 DEF KnowsStores, Imaged, Recorded, Judged, Artifact, Typed
  <1>10. CASE AcceptArtifact \/ Render \/ FinishAttempt \/ ReturnResult
    <2>1. /\ UNCHANGED <<artifacts, reports, attempt, inputs, memory>>
          /\ \/ attemptPc' \in {"unwind", "fatal"}
             \/ attemptPc = "accept" /\ attemptPc' = "render"
             \/ attemptPc = "render" /\ attemptPc' = "put"
             \/ attemptPc = "finish" /\ attemptPc' = "verify"
             \/ attemptPc = "return" /\ attemptPc' = "last"
          BY <1>1, <1>10 DEF AcceptArtifact, Render, FinishAttempt, ReturnResult,
             GenerationFailed, At, Abort, Proceed, durable, gpu
    <2> QED BY <1>3, <2>1 DEF Imaged, Recorded, Judged
  <1>11. CASE PutArtifact
    <2>1. /\ attemptPc = "put" /\ attemptPc' \in {"readback", "fatal"}
          /\ UNCHANGED <<attempt, memory>>
          BY <1>11 DEF PutArtifact, At, Proceed
    <2> QED BY <2>1 DEF KnowsStores, Imaged, Recorded, Judged, memory
  <1>12. CASE ReadBack
    <2>1. /\ attemptPc = "readback" /\ UNCHANGED <<artifacts, attempt, memory>>
          /\ attemptPc' = "fatal" \/ (attemptPc' = "finish" /\ artifacts[attempt] = image)
          BY <1>12 DEF ReadBack, At, Proceed, durable
    <2> QED BY <2>1 DEF KnowsStores, Imaged, Recorded, Judged, memory
  <1>13. CASE Verify
    <2>1. /\ attemptPc = "verify" /\ UNCHANGED <<artifacts, attempt, image>>
          /\ \/ attemptPc' \in {"fatal", "oom"}
             \/ /\ attemptPc' = "putReport"
                /\ \E v \in {"pass", "fail", "unverifiable"} :
                      verdict' = [artifact |-> artifacts[attempt], says |-> v]
          BY <1>13 DEF Verify, Says, At, Proceed, durable
    <2> QED BY <2>1 DEF KnowsStores, Imaged, Recorded, Judged, Report
  <1>14. CASE PutReport
    <2>1. /\ attemptPc = "putReport" /\ attemptPc' \in {"readReport", "fatal"}
          /\ UNCHANGED <<artifacts, attempt, memory>>
          BY <1>14 DEF PutReport, At, Proceed
    <2> QED BY <2>1 DEF KnowsStores, Imaged, Recorded, Judged, memory
  <1>15. CASE ReadReport
    <2>1. /\ attemptPc = "readReport" /\ UNCHANGED <<artifacts, reports, attempt, memory>>
          /\ attemptPc' = "fatal" \/ (attemptPc' = "decide" /\ reports[attempt] = verdict)
          BY <1>15 DEF ReadReport, At, Proceed, durable
    <2> QED BY <2>1 DEF KnowsStores, Imaged, Recorded, Judged, memory
  <1>16. CASE Decide
    <2>1. /\ attemptPc = "decide" /\ UNCHANGED <<artifacts, reports, attempt, inputs, memory>>
          /\ \/ attemptPc' \in {"fatal", "unwind", "return"}
             \/ attemptPc' = "select" /\ verdict.says = "fail"
          BY <1>1, <1>16 DEF Decide, RecordDecision, At, Proceed, gpu
    <2> QED BY <1>3, <2>1 DEF Imaged, Recorded, Judged
  <1>17. CASE Select
    <2>1. /\ attemptPc = "select" /\ UNCHANGED <<artifacts, reports, inputs, memory>>
          /\ attemptPc' = "openArtifacts" \/ (attemptPc' \in {"unwind", "return"} /\ UNCHANGED attempt)
          BY <1>1, <1>17 DEF Select, RecordDecision, At, Proceed, gpu
    <2>2. CASE attemptPc' = "openArtifacts"
          BY <1>2, <2>2 DEF Imaged, Recorded, Judged
    <2>3. CASE attemptPc' \in {"unwind", "return"} /\ UNCHANGED attempt
          BY <1>3, <2>1, <2>3 DEF Imaged, Recorded, Judged
    <2> QED BY <2>1, <2>2, <2>3
  <1> QED BY <1>4, <1>5, <1>6, <1>7, <1>8, <1>9, <1>10, <1>11, <1>12, <1>13, <1>14, <1>15, <1>16,
             <1>17 DEF AttemptNext
-----------------------------------------------------------------------------
(* What a run knows of the log. *)

LEMMA EmptyLog ==
    ASSUME log = <<>>
    PROVE  Status = "ABSENT" /\ \A a \in Attempts : Unfinished(a) /\ Undecided(a)
  BY DEF Status, Unfinished, Undecided

LEMMA LogBegun ==
    ASSUME Typed, Status # "ABSENT"
    PROVE  log # <<>>
  BY DEF Status

LEMMA SameLog ==
    ASSUME UNCHANGED log
    PROVE  /\ Status' = Status
           /\ \A a \in Attempts : Unfinished(a) => Unfinished(a)'
           /\ \A a \in Attempts : Undecided(a) => Undecided(a)'
  BY DEF Status, Unfinished, Undecided

(* An event leaves the other attempt as it was, and only two kinds of      *)
(* events say anything of their own. *)
LEMMA LogGrows ==
    ASSUME Typed, NEW type \in Kinds, NEW to \in Results, log' = Append(log, Entry(type, to))
    PROVE  /\ log' # <<>> /\ Status' = to /\ log'[Len(log')].attempt = attempt
           /\ \A a \in Attempts : Unfinished(a)
                /\ (attempt # a \/ type \notin {"ATTEMPT_FINISHED", "VERIFIER_FINISHED"})
                => Unfinished(a)'
           /\ \A a \in Attempts : Undecided(a)
                /\ (attempt # a \/ type # "VERIFIER_FINISHED") => Undecided(a)'
  <1> DEFINE e == Entry(type, to)
  <1>1. e \in Event /\ e.type = type /\ e.to = to /\ e.attempt = attempt
        BY EntryTyped
  <1> HIDE DEF e
  <1>2. log' = Append(log, e)
        BY DEF e
  <1>3. /\ log' # <<>> /\ log'[Len(log')] = e
        /\ \A k \in DOMAIN log' : (k \in DOMAIN log /\ log'[k] = log[k]) \/ log'[k] = e
        BY <1>1, <1>2, Appended
  <1>4. Status' = to
        BY <1>1, <1>3 DEF Status
  <1>5. ASSUME NEW a \in Attempts, Unfinished(a),
               attempt # a \/ type \notin {"ATTEMPT_FINISHED", "VERIFIER_FINISHED"}
        PROVE  Unfinished(a)'
        BY <1>1, <1>3, <1>5 DEF Unfinished
  <1>6. ASSUME NEW a \in Attempts, Undecided(a), attempt # a \/ type # "VERIFIER_FINISHED"
        PROVE  Undecided(a)'
        BY <1>1, <1>3, <1>6 DEF Undecided
  <1> QED BY <1>1, <1>3, <1>4, <1>5, <1>6

LEMMA InitLog ==
    ASSUME AttemptInit
    PROVE  KnowsLog
  BY DEF AttemptInit, Idle, KnowsLog, Unrecorded, Unjudged, Fresh, Opening

(* Every attempt begins on a log that says nothing of it, and an attempt   *)
(* is recorded as finished before it is decided upon. *)
LEMMA LogPreserved ==
    ASSUME Bounds, Typed, KnowsLog, AttemptNext
    PROVE  KnowsLog'
  <1>1. ASSUME attemptPc' \in {"unwind", "fatal", "oom", "ended", "return", "last"}
        PROVE  KnowsLog'
        BY <1>1 DEF KnowsLog, Unrecorded, Unjudged, Fresh, Opening
  <1>2. attempt \in Attempts /\ Attempts = {0, 1}
        BY DEF Typed, Attempts
  <1>3. CASE Checkpoint \/ Reopen \/ Signal
    <2>1. UNCHANGED <<log, attempt>> /\ attemptPc' \in {attemptPc, "unwind"}
          BY <1>3 DEF Checkpoint, Reopen, Signal, Abort, Proceed, durable
    <2> QED BY <1>1, <1>2, <2>1, SameLog DEF KnowsLog
  <1>4. CASE StartRun \/ EndRun \/ Die
    <2>1. attempt' = 0 /\ attemptPc' \in {"idle", "prepare"}
          BY <1>4 DEF StartRun, EndRun, Die, Clear, Proceed, KnowsLog
    <2> QED BY <2>1 DEF KnowsLog, Unrecorded, Unjudged, Fresh, Opening
  <1>5. CASE PrepareAttempt
    <2>1. /\ attemptPc = "prepare" /\ UNCHANGED <<log, attempt>>
          /\ attemptPc' = "unwind" \/ (attemptPc' = "control" /\ log' = <<>>)
          BY <1>5 DEF PrepareAttempt, At, Abort, Proceed, durable
    <2>2. log = <<>> => \A a \in Attempts : Unfinished(a)'
          BY <2>1, EmptyLog, SameLog
    <2> QED BY <1>1, <1>2, <2>1, <2>2 DEF KnowsLog, Unrecorded, Unjudged, Fresh, Opening
  <1>6. CASE BuildControl \/ OpenArtifacts \/ OpenReports \/ BindVerifier
    <2>1. UNCHANGED <<log, attempt>>
          BY <1>6 DEF BuildControl, OpenArtifacts, OpenReports, BindVerifier, durable
    <2>2. /\ attemptPc \in {"control"} \cup Opening
          /\ \/ attemptPc' \in {"fatal", "unwind"} \cup Opening
             \/ attemptPc' = IF attempt = 0 THEN "create" ELSE "repair"
          BY <1>6 DEF BuildControl, OpenArtifacts, OpenReports, BindVerifier, At, Abort,
             Proceed, RepairFailed, Opening
    <2> QED BY <1>1, <1>2, <2>1, <2>2, SameLog DEF KnowsLog, Unrecorded, Unjudged, Fresh,
               Opening
  <1>7. CASE CreateJob \/ RecordStart \/ RecordRepair
    <2>1. PICK type \in Kinds, from \in {"ABSENT", "CREATED", "SPEC_VALIDATED", "SPEC_COMPILED",
                                        "REPAIR_SELECTING"},
               to \in Results, next \in {"start", "generate"} :
            /\ Append1(type, from, to, next)
            /\ type \notin {"ATTEMPT_FINISHED", "VERIFIER_FINISHED"}
            /\ next = "start" => attemptPc \in {"create", "start"}
          BY <1>7 DEF CreateJob, RecordStart, RecordRepair, At, Kinds, Results
    <2>2. attemptPc \in {"create", "start", "repair"} /\ attempt' = attempt
          BY <1>7 DEF CreateJob, RecordStart, RecordRepair, At
    <2>3. attemptPc' = "unwind" \/ (attemptPc' = next /\ log' = Append(log, Entry(type, to)))
          BY <2>1, Append1Typed
    <2>4. CASE attemptPc' = next /\ log' = Append(log, Entry(type, to))
          BY <1>2, <2>1, <2>2, <2>4, LogGrows DEF KnowsLog, Unrecorded, Unjudged, Fresh, Opening
    <2> QED BY <1>1, <2>3, <2>4
  <1>8. CASE \/ GenerateImage \/ ResolveStyles \/ Denoise \/ EncodeImage \/ AcceptArtifact \/ Render
             \/ PutArtifact \/ ReadBack
    <2>1. UNCHANGED <<log, attempt>>
          BY <1>8 DEF GenerateImage, ResolveStyles, Denoise, EncodeImage, AcceptArtifact,
             Render, PutArtifact, ReadBack, durable
    <2>2. attemptPc \in {"generate", "styles", "denoise", "accept", "render", "put", "readback"}
          BY <1>8 DEF GenerateImage, ResolveStyles, Denoise, EncodeImage, AcceptArtifact,
             Render, PutArtifact, ReadBack, At
    <2>3. attemptPc' \in {"styles", "denoise", "accept", "render", "put", "readback", "finish", "oom",
                   "fatal", "unwind"}
          BY <1>8 DEF GenerateImage, ResolveStyles, Denoise, EncodeImage, AcceptArtifact,
             Render, PutArtifact, ReadBack, GenerationFailed, Abort, Proceed
    <2> QED BY <1>1, <1>2, <2>1, <2>2, <2>3, SameLog DEF KnowsLog, Unrecorded, Unjudged, Fresh,
               Opening
  <1>9. CASE Verify \/ PutReport \/ ReadReport
    <2>1. /\ UNCHANGED <<log, attempt>>
          /\ attemptPc \in {"verify", "putReport", "readReport"}
          /\ attemptPc' \in {"putReport", "readReport", "decide", "oom", "fatal"}
          BY <1>9 DEF Verify, PutReport, ReadReport, At, Proceed, durable
    <2> QED BY <1>1, <1>2, <2>1, SameLog DEF KnowsLog, Unrecorded, Unjudged, Fresh, Opening
  <1>10. CASE FinishAttempt
    <2>1. /\ attemptPc = "finish" /\ attempt' = attempt
          /\ attemptPc' = "unwind" \/ (attemptPc' = "verify"
                                /\ log' = Append(log, Entry("ATTEMPT_FINISHED", "VERIFYING")))
          BY <1>10, Append1Typed DEF FinishAttempt, At, Kinds, Results
    <2>2. Undecided(attempt) /\ (attempt = 0 => Unfinished(1))
          BY <2>1 DEF KnowsLog, Unrecorded, Unfinished, Undecided
    <2>3. CASE attemptPc' = "verify" /\ log' = Append(log, Entry("ATTEMPT_FINISHED", "VERIFYING"))
      <3>1. Undecided(attempt)' /\ (attempt = 0 => Unfinished(1)')
            BY <1>2, <2>1, <2>2, <2>3, LogGrows DEF Kinds, Results
      <3> QED BY <2>1, <2>3, <3>1 DEF KnowsLog, Unrecorded, Unjudged, Fresh, Opening
    <2> QED BY <1>1, <2>1, <2>3
  <1>11. CASE Decide
    <2>1. /\ attemptPc = "decide" /\ attempt' = attempt
          /\ \/ attemptPc' \in {"fatal", "unwind", "return"}
             \/ /\ attemptPc' = "select" /\ attempt = 0
                /\ log' = Append(log, Entry("VERIFIER_FINISHED", "REPAIR_SELECTING"))
          BY <1>11 DEF Decide, RecordDecision, Append1, At, Abort, Proceed
    <2>2. CASE attemptPc' = "select"
      <3>1. Unfinished(1)'
            BY <1>2, <2>1, <2>2, LogGrows DEF KnowsLog, Unrecorded, Unjudged, Kinds, Results
      <3> QED BY <2>1, <2>2, <3>1 DEF KnowsLog, Unrecorded, Unjudged, Fresh, Opening
    <2> QED BY <1>1, <2>1, <2>2
  <1>12. CASE Select
    <2>1. /\ attemptPc = "select"
          /\ \/ attemptPc' \in {"unwind", "return"}
             \/ attemptPc' = "openArtifacts" /\ attempt' = 1 /\ UNCHANGED log
          BY <1>12 DEF Select, RecordDecision, Append1, At, Abort, Proceed
    <2>2. CASE attemptPc' = "openArtifacts"
      <3>1. Unfinished(1)'
            BY <1>2, <2>1, <2>2, SameLog DEF KnowsLog
      <3> QED BY <2>1, <2>2, <3>1 DEF KnowsLog, Unrecorded, Unjudged, Fresh, Opening
    <2> QED BY <1>1, <2>1, <2>2
  <1>13. CASE ReturnResult \/ FinishRun \/ RecordFatal \/ Unwind
         BY <1>1, <1>13 DEF ReturnResult, FinishRun, RecordFatal, Unwind, Abort, Proceed
  <1>14. CASE CancelDurable
    <2>1. /\ log' = Append(log, Entry("CANCEL_REQUESTED", "CANCELLED"))
          /\ UNCHANGED <<attemptPc, attempt>> /\ Status # "ABSENT"
          BY <1>14 DEF CancelDurable
    <2>2. /\ log # <<>>
          /\ \A a \in Attempts : (Unfinished(a) => Unfinished(a)') /\ (Undecided(a) => Undecided(a)')
          BY <2>1, LogBegun, LogGrows DEF Kinds, Results
    <2> QED BY <1>2, <2>1, <2>2 DEF KnowsLog
  <1> QED BY <1>3, <1>4, <1>5, <1>6, <1>7, <1>8, <1>9, <1>10, <1>11, <1>12, <1>13, <1>14 DEF
             AttemptNext
-----------------------------------------------------------------------------
(* What a run returns. *)

LEMMA InitResult ==
    ASSUME AttemptInit
    PROVE  KnowsResult
  BY DEF AttemptInit, Idle, KnowsResult

(* A run returns after its decision, and only a cancellation comes between.*)
LEMMA ResultPreserved ==
    ASSUME Bounds, Typed, KnowsLog, KnowsResult, AttemptNext
    PROVE  KnowsResult'
  <1>1. ASSUME attemptPc' \notin {"return", "last"}
        PROVE  KnowsResult'
        BY <1>1 DEF KnowsResult
  <1>2. ASSUME NEW type, NEW from, NEW to, NEW next, Append1(type, from, to, next)
        PROVE  attemptPc' \in {next, "unwind"}
        BY <1>2 DEF Append1, Proceed, Abort
  <1>3. CASE \/ StartRun \/ PrepareAttempt \/ BuildControl \/ OpenArtifacts \/ OpenReports \/ BindVerifier
             \/ CreateJob \/ RecordStart
        BY <1>1, <1>2, <1>3 DEF StartRun, PrepareAttempt, BuildControl, OpenArtifacts,
           OpenReports, BindVerifier, CreateJob, RecordStart, RepairFailed, Abort, Proceed
  <1>4. CASE \/ GenerateImage \/ ResolveStyles \/ Denoise \/ EncodeImage \/ AcceptArtifact \/ Render
             \/ PutArtifact \/ ReadBack
        BY <1>1, <1>4 DEF GenerateImage, ResolveStyles, Denoise, EncodeImage, AcceptArtifact,
           Render, PutArtifact, ReadBack, GenerationFailed, At, Abort, Proceed
  <1>5. CASE \/ FinishAttempt \/ Verify \/ PutReport \/ ReadReport \/ RecordRepair \/ FinishRun
             \/ RecordFatal \/ Unwind \/ EndRun \/ Die
        BY <1>1, <1>2, <1>5 DEF FinishAttempt, Verify, PutReport, ReadReport, RecordRepair,
              FinishRun, RecordFatal, Unwind, EndRun, Die, Abort, Proceed
  <1>6. CASE Checkpoint \/ Reopen \/ Signal
    <2>1. /\ UNCHANGED <<log, reason, attempt, memory, returned>> /\ attemptPc' \in {attemptPc, "unwind"}
          BY <1>6 DEF Checkpoint, Reopen, Signal, Abort, Proceed, durable, flags
    <2>2. CancellationWon' = CancellationWon /\ JustDecided' = JustDecided /\ Status' = Status
          BY <2>1 DEF CancellationWon, JustDecided, Status
    <2> QED BY <1>1, <2>1, <2>2 DEF KnowsResult, memory
  <1>7. ASSUME NEW from, NEW to \in Decided, RecordDecision(from, to, "return"), attemptPc' = "return",
               attempt' = attempt
        PROVE  KnowsResult'
    <2>1. log' = Append(log, Entry("VERIFIER_FINISHED", to))
          BY <1>7, Append1Typed DEF RecordDecision, Kinds, Results
    <2>2. JustDecided'
          BY <1>7, <2>1, LogGrows DEF JustDecided, Kinds, Results
    <2> QED BY <1>7, <2>2 DEF KnowsResult
  <1>8. CASE Decide
    <2>1. attempt' = attempt /\ Decision(verdict) \in Decided
          BY <1>8 DEF Decide, Decision, Decided
    <2>2. \/ attemptPc' \in {"fatal", "unwind", "select"}
          \/ RecordDecision("VERIFYING", Decision(verdict), "return") /\ attemptPc' = "return"
          BY <1>2, <1>8 DEF Decide, RecordDecision, Proceed
    <2> QED BY <1>1, <1>7, <2>1, <2>2
  <1>9. CASE Select
    <2>1. \/ attemptPc' \in {"unwind", "openArtifacts"}
          \/ /\ RecordDecision("REPAIR_SELECTING", "REJECTED", "return")
             /\ attemptPc' = "return" /\ attempt' = attempt
          BY <1>2, <1>9 DEF Select, RecordDecision, Proceed
    <2> QED BY <1>1, <1>7, <2>1 DEF Decided
  <1>10. CASE ReturnResult
    <2>1. /\ attemptPc = "return" /\ attemptPc' = "last" /\ UNCHANGED <<log, reason, attempt, memory>>
          /\ returned' = [artifact |-> image, report |-> verdict, status |-> Status]
          BY <1>10 DEF ReturnResult, At, Proceed, durable, flags
    <2>2. CancellationWon' = CancellationWon /\ JustDecided' = JustDecided /\ Status' = Status
          BY <2>1 DEF CancellationWon, JustDecided, Status
    <2> QED BY <2>1, <2>2 DEF KnowsResult, memory
  <1>11. CASE CancelDurable
    <2>1. /\ log' = Append(log, Entry("CANCEL_REQUESTED", "CANCELLED"))
          /\ UNCHANGED <<attemptPc, memory, returned>>
          BY <1>11 DEF CancelDurable
    <2>2. CASE attemptPc # "idle"
      <3>1. reason' /\ Status' = "CANCELLED"
            BY <1>11, <2>1, <2>2, LogGrows DEF CancelDurable, Kinds, Results
      <3> QED BY <2>1, <3>1 DEF KnowsResult, CancellationWon, memory
    <2> QED BY <1>1, <2>1, <2>2
  <1> QED BY <1>3, <1>4, <1>5, <1>6, <1>8, <1>9, <1>10, <1>11 DEF AttemptNext

-----------------------------------------------------------------------------
(* The log and the stores. *)

LEMMA InitRests ==
    ASSUME AttemptInit
    PROVE  Rests
  BY DEF AttemptInit, Rests, FinishedIsStored, DecidedIsReported, Events

LEMMA SameRests ==
    ASSUME Rests, UNCHANGED durable
    PROVE  Rests'
  BY DEF Rests, FinishedIsStored, DecidedIsReported, Events, durable

(* An event rests on the stores if what it says of its attempt is there.   *)
LEMMA EventRests ==
    ASSUME Typed, Rests, NEW type \in Kinds, NEW to \in Results,
           log' = Append(log, Entry(type, to)), UNCHANGED <<artifacts, reports>>,
           type = "ATTEMPT_FINISHED" =>
               /\ artifacts[attempt] # None /\ artifacts[attempt].attempt = attempt
               /\ artifacts[attempt].made = "right",
           type = "VERIFIER_FINISHED" =>
               /\ reports[attempt] # None /\ reports[attempt].artifact = artifacts[attempt]
               /\ to = "APPROVED"      => reports[attempt].says = "pass"
               /\ to = "MANUAL_REVIEW" => reports[attempt].says = "unverifiable"
               /\ to \in {"REJECTED", "REPAIR_SELECTING"} => reports[attempt].says = "fail"
    PROVE  Rests'
  <1> DEFINE e == Entry(type, to)
  <1>1. e \in Event /\ e.type = type /\ e.to = to /\ e.attempt = attempt
        BY EntryTyped
  <1> HIDE DEF e
  <1>2. log' = Append(log, e)
        BY DEF e
  <1>3. \A k \in DOMAIN log' : (k \in DOMAIN log /\ log'[k] = log[k]) \/ log'[k] = e
        BY <1>1, <1>2, Appended
  <1>4. FinishedIsStored'
        BY <1>1, <1>3 DEF Rests, FinishedIsStored, Events
  <1>5. DecidedIsReported'
        BY <1>1, <1>3 DEF Rests, DecidedIsReported, Events
  <1> QED BY <1>4, <1>5 DEF Rests

(* An artifact is stored for an attempt the log says nothing of, *)
LEMMA ArtifactRests ==
    ASSUME Typed, Rests, Unfinished(attempt), UNCHANGED <<log, reports>>,
           NEW x, artifacts' = [artifacts EXCEPT ![attempt] = x]
    PROVE  Rests'
  <1>1. \A a \in Attempts : a # attempt => artifacts'[a] = artifacts[a]
        BY DEF Typed
  <1>2. \A k \in Events("ATTEMPT_FINISHED") \cup Events("VERIFIER_FINISHED") :
            log[k].attempt \in Attempts /\ log[k].attempt # attempt
        BY LoggedTyped DEF Unfinished, Events
  <1> QED BY <1>1, <1>2 DEF Rests, FinishedIsStored, DecidedIsReported, Events

(* and a report for one it has not decided upon. *)
LEMMA ReportRests ==
    ASSUME Typed, Rests, Undecided(attempt), UNCHANGED <<log, artifacts>>,
           NEW x, reports' = [reports EXCEPT ![attempt] = x]
    PROVE  Rests'
  <1>1. \A a \in Attempts : a # attempt => reports'[a] = reports[a]
        BY DEF Typed
  <1>2. \A k \in Events("VERIFIER_FINISHED") :
            log[k].attempt \in Attempts /\ log[k].attempt # attempt
        BY LoggedTyped DEF Undecided, Events
  <1> QED BY <1>1, <1>2 DEF Rests, FinishedIsStored, DecidedIsReported, Events

LEMMA RestsPreserved ==
    ASSUME Bounds, Typed, KnowsLog, KnowsStores, Rests, AttemptNext
    PROVE  Rests'
  <1>1. ASSUME UNCHANGED durable
        PROVE  Rests'
        BY <1>1, SameRests
  <1>2. CASE StartRun \/ Checkpoint \/ PrepareAttempt \/ BuildControl \/ OpenArtifacts \/ OpenReports
             \/ BindVerifier \/ GenerateImage \/ ResolveStyles \/ Denoise \/ EncodeImage
             \/ AcceptArtifact \/ Render \/ ReadBack \/ Verify \/ ReadReport \/ ReturnResult \/ FinishRun
             \/ Unwind \/ EndRun \/ Die \/ Reopen \/ Signal
        BY <1>1, <1>2 DEF StartRun, Checkpoint, PrepareAttempt, BuildControl, OpenArtifacts,
           OpenReports, BindVerifier, GenerateImage, ResolveStyles, Denoise, EncodeImage,
           AcceptArtifact, Render, ReadBack, Verify, ReadReport, ReturnResult, FinishRun, Unwind,
           EndRun, Die, Reopen, Signal
  <1>3. ASSUME UNCHANGED <<artifacts, reports>>, NEW to \in Results,
               NEW type \in Kinds \ {"ATTEMPT_FINISHED", "VERIFIER_FINISHED"},
               UNCHANGED log \/ log' = Append(log, Entry(type, to))
        PROVE  Rests'
        BY <1>1, <1>3, EventRests DEF durable
  <1>4. ASSUME UNCHANGED <<artifacts, reports>>, NEW from, NEW to \in Results, NEW next,
               NEW type \in Kinds \ {"ATTEMPT_FINISHED", "VERIFIER_FINISHED"},
               Append1(type, from, to, next)
        PROVE  Rests'
        BY <1>3, <1>4 DEF Append1
  <1>5. CASE CreateJob \/ RecordStart \/ RecordRepair
        BY <1>4, <1>5 DEF CreateJob, RecordStart, RecordRepair, Kinds, Results
  <1>6. CASE RecordFatal \/ CancelDurable
    <2>1. UNCHANGED <<artifacts, reports>>
          BY <1>6 DEF RecordFatal, CancelDurable
    <2>2. \E type \in {"FATAL", "FATAL_OOM", "CANCEL_REQUESTED"}, to \in {"JOB_FAILED", "CANCELLED"} :
            UNCHANGED log \/ log' = Append(log, Entry(type, to))
          BY <1>6 DEF RecordFatal, CancelDurable
    <2> QED BY <1>3, <2>1, <2>2 DEF Kinds, Results
  <1>7. CASE PutArtifact
    <2>1. /\ attemptPc = "put" /\ UNCHANGED <<log, reports>>
          /\ UNCHANGED artifacts \/ artifacts' = [artifacts EXCEPT ![attempt] = image]
          BY <1>7 DEF PutArtifact, At
    <2>2. Unfinished(attempt)
          BY <2>1 DEF KnowsLog, Unrecorded
    <2> QED BY <1>1, <2>1, <2>2, ArtifactRests DEF durable
  <1>8. CASE PutReport
    <2>1. /\ attemptPc = "putReport" /\ UNCHANGED <<log, artifacts>>
          /\ UNCHANGED reports \/ reports' = [reports EXCEPT ![attempt] = verdict]
          BY <1>8 DEF PutReport, At
    <2>2. Undecided(attempt)
          BY <2>1 DEF KnowsLog, Unjudged
    <2> QED BY <1>1, <2>1, <2>2, ReportRests DEF durable
  <1>9. CASE FinishAttempt
    <2>1. /\ attemptPc = "finish" /\ UNCHANGED <<artifacts, reports>>
          /\ UNCHANGED log \/ log' = Append(log, Entry("ATTEMPT_FINISHED", "VERIFYING"))
          BY <1>9 DEF FinishAttempt, Append1, At
    <2>2. /\ artifacts[attempt] = image /\ image \in Artifact
          /\ image.attempt = attempt /\ image.made = "right"
          BY <2>1 DEF KnowsStores, Imaged, Recorded
    <2> QED BY <1>1, <2>1, <2>2, EventRests DEF Bounds, Kinds, Results, durable
  <1>10. CASE Decide \/ Select
    <2>1. PICK to \in {Decision(verdict), "REPAIR_SELECTING", "REJECTED"} :
            /\ UNCHANGED log \/ log' = Append(log, Entry("VERIFIER_FINISHED", to))
            /\ to \in {"REPAIR_SELECTING", "REJECTED"} => verdict.says = "fail"
          BY <1>10 DEF Decide, Select, RecordDecision, Append1, At, Decision, KnowsStores
    <2>2. attemptPc \in {"decide", "select"} /\ UNCHANGED <<artifacts, reports>>
          BY <1>10 DEF Decide, Select, At
    <2>3. /\ artifacts[attempt] = image /\ reports[attempt] = verdict
          /\ verdict \in Report /\ verdict.artifact = image
          BY <2>2 DEF KnowsStores, Recorded, Judged
    <2>4. /\ to \in Results /\ (to = "APPROVED" => verdict.says = "pass")
          /\ to = "MANUAL_REVIEW" => verdict.says = "unverifiable"
          BY <2>1, <2>3 DEF Decision, Results, Decided, Report
    <2> QED BY <1>1, <2>1, <2>2, <2>3, <2>4, EventRests DEF Bounds, Kinds, durable
  <1> QED BY <1>2, <1>5, <1>6, <1>7, <1>8, <1>9, <1>10 DEF AttemptNext

-----------------------------------------------------------------------------
(* The invariant, and what it means. *)

LEMMA TypedPreserved ==
    ASSUME Bounds, Typed, KnowsStores, AttemptNext
    PROVE  Typed'
  <1>1. attemptPc = "verify" => artifacts[attempt] \in Artifact
        BY DEF KnowsStores, Imaged, Recorded
  <1> QED BY <1>1, StartTyped, ImageTyped, EndTyped DEF AttemptNext

LEMMA Stuttering ==
    ASSUME IInv, UNCHANGED attemptVars
    PROVE  IInv'
  <1>1. Typed'
        BY DEF IInv, Typed, attemptVars, durable, flags, gpu, memory, counts
  <1>2. OwnsWhatIsOpen' /\ StopsInTime'
        BY StillOwns DEF IInv, StopsInTime, attemptVars, files, gpu
  <1>3. KnowsLog'
        BY SameLog DEF IInv, KnowsLog, Typed, attemptVars, durable
  <1>4. KnowsStores'
        BY DEF IInv, KnowsStores, attemptVars, durable, gpu, memory
  <1>5. KnowsResult'
        BY DEF IInv, KnowsResult, CancellationWon, JustDecided, Status, attemptVars, durable,
           flags, memory
  <1>6. Rests'
        BY SameRests DEF IInv, attemptVars
  <1> QED BY <1>1, <1>2, <1>3, <1>4, <1>5, <1>6 DEF IInv

LEMMA Invariant ==
    ASSUME Bounds
    PROVE  AttemptSpec => []IInv
  <1>1. AttemptInit => IInv
        BY InitTyped, InitOwns, InitStops, InitLog, InitStores, InitResult, InitRests DEF IInv
  <1>2. IInv /\ [AttemptNext]_attemptVars => IInv'
        BY Stuttering, TypedPreserved, OwnsPreserved, StopsPreserved, LogPreserved,
           StoresPreserved, ResultPreserved, RestsPreserved DEF IInv
  <1> QED BY <1>1, <1>2, PTL DEF AttemptSpec

LEMMA Types ==
    ASSUME Bounds, IInv
    PROVE  AttemptTypeOK
  <1>1. {reason, event, quarantined, checked} \subseteq BOOLEAN
        BY DEF IInv, Typed
  <1>2. \A k \in DOMAIN log : log[k].attempt \in Attempts
        BY LoggedTyped DEF IInv
  <1>3. Opened \subseteq {"artifact", "report"} \X Attempts
        BY DEF IInv, Typed, Opened, Repository
  <1>4. owned \subseteq repos /\ repos \subseteq {"artifact", "report"} \X Attempts
        BY <1>3 DEF IInv, OwnsWhatIsOpen
  <1>5. late \in 0 .. DenoisingSteps
        BY DEF IInv, StopsInTime, Bounds
  <1> QED BY <1>1, <1>2, <1>4, <1>5 DEF IInv, Typed, AttemptTypeOK

(* The types of every variable: log, stores, flags, repositories, bounds.  *)
THEOREM TypeCorrect ==
    ASSUME Bounds
    PROVE  AttemptSpec => []AttemptTypeOK
  BY Invariant, Types, PTL

(* What the log says of an attempt rests on what is stored, whatever fails,*)
(* whenever the user cancels and wherever the process dies: append_event   *)
(* comes after the read back of the artifact and of the report. *)
THEOREM LogOnStores ==
    ASSUME Bounds
    PROVE  AttemptSpec => []LogRestsOnStores
  <1>1. IInv => LogRestsOnStores
        BY Types DEF IInv, Rests, LogRestsOnStores
  <1> QED BY <1>1, Invariant, PTL

(* However a run ends: its handlers have closed what it opened, the GPU    *)
(* began at most one more step after the signal, and the result is the     *)
(* decided and stored one of the attempt decided last. *)
THEOREM CleanEnd ==
    ASSUME Bounds
    PROVE  AttemptSpec => RunEndsClean
  <1>1. IInv => NothingLeftOpen /\ CancelStopsSteps
        BY DEF IInv, OwnsWhatIsOpen, Opened, StopsInTime, NothingLeftOpen, CancelStopsSteps
  <1> DEFINE Returns == attemptPc = "last" /\ attemptPc' = "ended" /\ returned' # None =>
                           /\ Status = returned'.status /\ Status \in Decided
                           /\ returned'.artifact = artifacts[log[Len(log)].attempt]
                           /\ returned'.report = reports[log[Len(log)].attempt]
  <1>2. ASSUME IInv, AttemptNext
        PROVE  Returns
    <2>1. SUFFICES ASSUME attemptPc = "last", attemptPc' = "ended", returned' # None
                   PROVE  /\ Status = returned'.status /\ Status \in Decided
                          /\ returned'.artifact = artifacts[log[Len(log)].attempt]
                          /\ returned'.report = reports[log[Len(log)].attempt]
          OBVIOUS
    <2>2. FinishRun
      <3>1. attemptPc \notin {"unwind", "ended"} /\ ~Checkpoint /\ ~Reopen /\ ~CancelDurable /\ ~Signal
            BY <2>1 DEF Checkpoint, Guarded, Reopen, CancelDurable, Signal
      <3> QED BY <1>2, <2>1, <3>1 DEF AttemptNext, StartRun, PrepareAttempt, BuildControl,
                 OpenArtifacts, OpenReports, BindVerifier, CreateJob, RecordStart, GenerateImage,
                 ResolveStyles, Denoise, EncodeImage, AcceptArtifact, Render, PutArtifact,
                 ReadBack, FinishAttempt, Verify, PutReport, ReadReport, Decide, Select,
                 RecordRepair, ReturnResult, RecordFatal, Unwind, EndRun, Die, At, Proceed
    <2>3. ~CancellationWon /\ returned' = returned
          BY <2>1, <2>2 DEF FinishRun, LastCheckpoint
    <2>4. /\ returned = [artifact |-> image, report |-> verdict, status |-> returned.status]
          /\ JustDecided /\ returned.status = Status
          BY <1>2, <2>1, <2>3 DEF IInv, KnowsResult
    <2>5. artifacts[attempt] = image /\ reports[attempt] = verdict
          BY <1>2, <2>1 DEF IInv, KnowsStores, Recorded, Judged
    <2> QED BY <2>3, <2>4, <2>5 DEF JustDecided
  <1>3. IInv /\ [AttemptNext]_attemptVars => [Returns]_attemptVars
        BY <1>2
  <1> QED BY <1>1, <1>3, Invariant, PTL DEF AttemptSpec, RunEndsClean, ReturnedIsDecided
=============================================================================
