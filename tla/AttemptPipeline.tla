-------------------------- MODULE AttemptPipeline ---------------------------
(***************************************************************************)
(* One run of a production job in detail (workflow/production_service.py   *)
(* with generation/diffusers_backend.py): the attempt's repositories are   *)
(* opened, an image is generated step by step on the GPU, stored, read     *)
(* back and recorded, then judged, and its report is stored, read back and *)
(* decided upon; a repairable image gets one more attempt.                 *)
(*                                                                         *)
(* What the log says must be in the stores, whatever fails, whenever the   *)
(* user cancels and wherever the process dies.  The log, the artifacts and *)
(* the reports outlive the process.  The stores are used as PairStore and  *)
(* CommitRegister describe them, the verifier as BoundVerifier does, and   *)
(* what follows from a report is RepairLoop's, by its outcome.             *)
(***************************************************************************)
EXTENDS Integers, Sequences, FiniteSets, TLC

CONSTANTS
    DenoisingSteps,   \* denoising steps of one generation
    MaxAttemptFaults, \* bound: calls that fail
    MaxRuns,          \* bound: runs of the one job, the first included
    None

Attempts == {0, 1}      \* the initial one and its repair

VARIABLES
    log,                \* the job's events; empty before its first snapshot
    artifacts, reports, \* by attempt, what is committed, or None
    reason, event,      \* _active_cancel_reason is set; _active_cancel is
    quarantined,        \* readiness after an out-of-memory
    attemptPc, checked, attempt,
    repos, owned,       \* repositories open; those the run's handlers close
    step, inputs,       \* denoising steps done; the images given to the GPU
    image, verdict,     \* the artifact and the report in memory
    late,               \* steps begun since the event was set
    returned,           \* what the last run returned
    attemptFaults, runs

durable == <<log, artifacts, reports>>
flags   == <<reason, event, quarantined>>
gpu     == <<step, inputs, late>>
memory  == <<image, verdict>>
files   == <<repos, owned>>
counts  == <<attemptFaults, runs>>
attemptVars == <<durable, flags, attemptPc, checked, attempt, files, gpu, memory, returned,
                 counts>>

Status == IF log = <<>> THEN "ABSENT" ELSE log[Len(log)].to

Decided == {"APPROVED", "MANUAL_REVIEW", "REJECTED"}

-----------------------------------------------------------------------------
Idle ==
    /\ reason = FALSE /\ event = FALSE /\ checked = FALSE /\ attempt = 0
    /\ owned = {} /\ step = 0 /\ inputs = "none" /\ late = 0
    /\ image = None /\ verdict = None

AttemptInit ==
    /\ log = <<>>
    /\ artifacts = [a \in Attempts |-> None] /\ reports = [a \in Attempts |-> None]
    /\ quarantined = FALSE
    /\ attemptPc = "idle" /\ repos = {}
    /\ Idle
    /\ returned = None
    /\ attemptFaults = 0 /\ runs = 0

Proceed(next) == attemptPc' = next

(* An exception leaves through the handlers that close what they own. *)
Abort == Proceed("unwind")

(* A call fails. *)
AttemptFault ==
    attemptFaults < MaxAttemptFaults /\ attemptFaults' = attemptFaults + 1 /\ UNCHANGED runs

CancellationWon == reason /\ Status = "CANCELLED"

(* append_event: the log is as the caller believes, or the call is refused.*)
(* A recording that fails may have landed.                                 *)
Entry(type, to) == [type |-> type, attempt |-> attempt, to |-> to]

Append1(type, from, to, next) ==
    \/ /\ Status = from
       /\ log' = Append(log, Entry(type, to))
       /\ Proceed(next)
       /\ UNCHANGED counts
    \/ /\ Status = from
       /\ AttemptFault
       /\ Abort
       /\ log' = Append(log, Entry(type, to)) \/ UNCHANGED log
    \/ /\ Status # from
       /\ Abort
       /\ UNCHANGED <<log, counts>>

-----------------------------------------------------------------------------
(* The run starts, and the job must be new. *)
StartRun ==
    /\ attemptPc = "idle" /\ runs < MaxRuns /\ ~quarantined
    /\ runs' = runs + 1
    /\ Proceed("prepare")
    /\ returned' = None
    /\ UNCHANGED <<durable, flags, checked, attempt, files, gpu, memory, attemptFaults>>

(* _checkpoint, before every step of the run. *)
Guarded == {"prepare", "bind", "create", "start", "generate", "put", "readback", "finish",
            "verify", "putReport", "readReport", "decide", "select", "repair", "return"}

Checkpoint ==
    /\ attemptPc \in Guarded /\ ~checked
    /\ IF CancellationWon
       THEN Abort /\ UNCHANGED checked
       ELSE checked' = TRUE /\ UNCHANGED attemptPc
    /\ UNCHANGED <<durable, flags, attempt, files, gpu, memory, returned, counts>>

At(step_) ==
    /\ attemptPc = step_
    /\ step_ \in Guarded => checked
    /\ checked' = FALSE

(* _select_initial_contract, _preflight_bindings, _reject_duplicate_job.   *)
PrepareAttempt ==
    /\ At("prepare")
    /\ \/ log = <<>> /\ Proceed("control") /\ UNCHANGED counts
       \/ log # <<>> /\ Abort /\ UNCHANGED counts
       \/ AttemptFault /\ Abort
    /\ UNCHANGED <<durable, flags, attempt, files, gpu, memory, returned>>

(* The control image is built from the source, of the graph's kind and size*)
(* and of that source, or the run ends.                                    *)
BuildControl ==
    /\ At("control")
    /\ \/ Proceed("openArtifacts") /\ UNCHANGED counts
       \/ AttemptFault /\ Abort
    /\ UNCHANGED <<durable, flags, attempt, files, gpu, memory, returned>>

Repository(kind) == <<kind, attempt>>

RepairFailed == IF attempt = 1 THEN "fatal" ELSE "unwind"

(* _open_attempt: the artifact repository, the report repository, and a    *)
(* verifier bound to the request.                                          *)
OpenArtifacts ==
    /\ At("openArtifacts")
    /\ \/ repos' = repos \cup {Repository("artifact")} /\ Proceed("openReports") /\ UNCHANGED counts
       \/ AttemptFault /\ Proceed(RepairFailed) /\ UNCHANGED repos
    /\ UNCHANGED <<durable, flags, attempt, owned, gpu, memory, returned>>

CloseNothing == UNCHANGED repos  \* mutant: what was opened stays open

(* What this call opened is closed if it fails. *)
CloseOpened == repos' = repos \ {Repository("artifact"), Repository("report")}

OpenReports ==
    /\ At("openReports")
    /\ \/ repos' = repos \cup {Repository("report")} /\ Proceed("bindVerifier") /\ UNCHANGED counts
       \/ AttemptFault /\ CloseOpened /\ Proceed(RepairFailed)
    /\ UNCHANGED <<durable, flags, attempt, owned, gpu, memory, returned>>

BindVerifier ==
    /\ At("bindVerifier")
    /\ \/ /\ owned' = owned \cup {Repository("artifact"), Repository("report")}
          /\ Proceed(IF attempt = 0 THEN "create" ELSE "repair")
          /\ UNCHANGED <<repos, counts>>
       \/ AttemptFault /\ CloseOpened /\ Proceed(RepairFailed) /\ UNCHANGED owned
    /\ UNCHANGED <<durable, flags, attempt, gpu, memory, returned>>

(* _start_prepared_job. *)
CreateJob ==
    /\ At("create")
    /\ Append1("CREATED", "ABSENT", "CREATED", "start")
    /\ UNCHANGED <<artifacts, reports, flags, attempt, files, gpu, memory, returned>>

RecordStart ==
    /\ At("start")
    /\ CASE Status = "CREATED" -> Append1("JOB_STARTED", "CREATED", "SPEC_VALIDATED", "start")
         [] Status = "SPEC_VALIDATED" ->
                Append1("SPEC_COMPILED", "SPEC_VALIDATED", "SPEC_COMPILED", "start")
         [] OTHER -> Append1("ATTEMPT_STARTED", "SPEC_COMPILED", "GENERATING", "generate")
    /\ UNCHANGED <<artifacts, reports, flags, attempt, files, gpu, memory, returned>>

-----------------------------------------------------------------------------
(* Generation, under the GPU lease. *)

(* A failed generation is recorded, unless the job was cancelled. *)
GenerationFailed == Proceed(IF CancellationWon THEN "unwind" ELSE "fatal")

(* DiffusersBackend.generate looks at the event, at the pipeline, at the   *)
(* request, and at the digests of the source and the control image.        *)
GenerateImage ==
    /\ At("generate")
    /\ step' = 0 /\ inputs' = "none" /\ late' = 0
    /\ \/ event /\ GenerationFailed /\ UNCHANGED counts
       \/ ~event /\ Proceed("styles") /\ UNCHANGED counts
       \/ AttemptFault /\ GenerationFailed
    /\ UNCHANGED <<durable, flags, attempt, files, memory, returned>>

AcceptAny(bytes) == TRUE  \* mutant: the digest is not compared

(* A style image must be the reference's. *)
Accept(bytes) == bytes = "right"

ResolveStyles ==
    /\ At("styles")
    /\ \/ \E bytes \in {"right", "wrong"} :
            /\ inputs' = bytes
            /\ IF Accept(bytes) THEN Proceed("denoise") ELSE GenerationFailed
            /\ bytes = "wrong" => attemptFaults < MaxAttemptFaults
            /\ attemptFaults' = attemptFaults + (IF bytes = "wrong" THEN 1 ELSE 0)
       \/ AttemptFault /\ GenerationFailed /\ UNCHANGED inputs
    /\ UNCHANGED <<durable, flags, attempt, files, step, late, memory, returned, runs>>

(* The pipeline calls back after each step, and is stopped there. *)
Callback == event

(* _quarantine_under_lease: the factory goes and the pipeline is closed. *)
Quarantine == quarantined' = TRUE

Denoise ==
    /\ At("denoise") /\ step < DenoisingSteps
    /\ late' = late + (IF event THEN 1 ELSE 0)
    /\ \/ /\ step' = step + 1
          /\ IF Callback THEN GenerationFailed ELSE Proceed("denoise")
          /\ UNCHANGED <<quarantined, counts>>
       \/ AttemptFault /\ GenerationFailed /\ UNCHANGED <<step, quarantined>>
       \/ AttemptFault /\ Quarantine /\ Proceed("oom") /\ UNCHANGED step
    /\ UNCHANGED <<durable, reason, event, attempt, files, inputs, memory, returned>>

ArtifactOf(quality) == [attempt |-> attempt, quality |-> quality, made |-> inputs]

(* One image of the right size, as a PNG without metadata. *)
EncodeImage ==
    /\ At("denoise") /\ step = DenoisingSteps
    /\ \/ /\ \E quality \in {"good", "poor"} : image' = ArtifactOf(quality)
          /\ Proceed("accept")
          /\ UNCHANGED counts
       \/ AttemptFault /\ GenerationFailed /\ UNCHANGED image
    /\ UNCHANGED <<durable, flags, attempt, files, gpu, verdict, returned>>

(* run_generation: the artifact is the request's, by its hashes and size. *)
AcceptArtifact ==
    /\ At("accept")
    /\ \/ Proceed("render") /\ UNCHANGED counts
       \/ AttemptFault /\ GenerationFailed
    /\ UNCHANGED <<durable, flags, attempt, files, gpu, memory, returned>>

(* The render contract shapes the image and names it by its new digest.    *)
(* An error of the image library is none of those the phase records.       *)
Render ==
    /\ At("render")
    /\ \/ Proceed("put") /\ UNCHANGED counts
       \/ AttemptFault /\ (GenerationFailed \/ Abort)
    /\ UNCHANGED <<durable, flags, attempt, files, gpu, memory, returned>>

-----------------------------------------------------------------------------
(* _persist_artifact: every error of it is recorded. *)
PutArtifact ==
    /\ At("put")
    /\ \/ artifacts' = [artifacts EXCEPT ![attempt] = image] /\ Proceed("readback") /\ UNCHANGED counts
       \/ /\ AttemptFault
          /\ artifacts' = [artifacts EXCEPT ![attempt] = image] \/ UNCHANGED artifacts
          /\ Proceed("fatal")
    /\ UNCHANGED <<log, reports, flags, attempt, files, gpu, memory, returned>>

ReadBack ==
    /\ At("readback")
    /\ \/ artifacts[attempt] = image /\ Proceed("finish") /\ UNCHANGED counts
       \/ artifacts[attempt] # image /\ Proceed("fatal") /\ UNCHANGED counts
       \/ AttemptFault /\ Proceed("fatal")
    /\ UNCHANGED <<durable, flags, attempt, files, gpu, memory, returned>>

Generating == IF attempt = 0 THEN "GENERATING" ELSE "REPAIRING"

FinishAttempt ==
    /\ At("finish")
    /\ Append1("ATTEMPT_FINISHED", Generating, "VERIFYING", "verify")
    /\ UNCHANGED <<artifacts, reports, flags, attempt, files, gpu, memory, returned>>

(* _run_verification_phase: the verifier takes the artifact from the store.*)
Says(quality) ==
    IF quality = "good" THEN {"pass", "unverifiable"} ELSE {"fail", "unverifiable"}

Verify ==
    /\ At("verify")
    /\ \/ /\ \E v \in Says(artifacts[attempt].quality) :
                verdict' = [artifact |-> artifacts[attempt], says |-> v]
          /\ Proceed("putReport")
          /\ UNCHANGED <<quarantined, counts>>
       \/ AttemptFault /\ Proceed("fatal") /\ UNCHANGED <<verdict, quarantined>>
       \/ AttemptFault /\ Quarantine /\ Proceed("oom") /\ UNCHANGED verdict
    /\ UNCHANGED <<durable, reason, event, attempt, files, gpu, image, returned>>

(* _persist_report. *)
PutReport ==
    /\ At("putReport")
    /\ \/ reports' = [reports EXCEPT ![attempt] = verdict] /\ Proceed("readReport") /\ UNCHANGED counts
       \/ /\ AttemptFault
          /\ reports' = [reports EXCEPT ![attempt] = verdict] \/ UNCHANGED reports
          /\ Proceed("fatal")
    /\ UNCHANGED <<log, artifacts, flags, attempt, files, gpu, memory, returned>>

ReadReport ==
    /\ At("readReport")
    /\ \/ reports[attempt] = verdict /\ Proceed("decide") /\ UNCHANGED counts
       \/ reports[attempt] # verdict /\ Proceed("fatal") /\ UNCHANGED counts
       \/ AttemptFault /\ Proceed("fatal")
    /\ UNCHANGED <<durable, flags, attempt, files, gpu, memory, returned>>

-----------------------------------------------------------------------------
(* What follows from the reports. *)

Decision(v) == CASE v.says = "pass" -> "APPROVED"
                 [] v.says = "fail" -> "REJECTED"
                 [] OTHER           -> "MANUAL_REVIEW"

RecordDecision(from, to, next) == Append1("VERIFIER_FINISHED", from, to, next)

(* A first attempt that failed is selected for repair.  Before a repair is *)
(* decided upon its repositories are closed.                               *)
Decide ==
    /\ At("decide")
    /\ repos' = repos \ {<<k, 1>> : k \in {"artifact", "report"}}
    /\ owned' = owned \ {<<k, 1>> : k \in {"artifact", "report"}}
    /\ \/ AttemptFault /\ Proceed("fatal") /\ UNCHANGED log
       \/ /\ attempt = 1 \/ verdict.says # "fail"
          /\ RecordDecision("VERIFYING", Decision(verdict), "return")
       \/ /\ attempt = 0 /\ verdict.says = "fail"
          /\ RecordDecision("VERIFYING", "REPAIR_SELECTING", "select")
    /\ UNCHANGED <<artifacts, reports, flags, attempt, gpu, memory, returned>>

(* There is nothing to try, or another attempt is opened. *)
Select ==
    /\ At("select")
    /\ \/ /\ RecordDecision("REPAIR_SELECTING", "REJECTED", "return")
          /\ UNCHANGED attempt
       \/ attempt' = 1 /\ Proceed("openArtifacts") /\ UNCHANGED <<log, counts>>
    /\ UNCHANGED <<artifacts, reports, flags, files, gpu, memory, returned>>

RecordRepair ==
    /\ At("repair")
    /\ Append1("REPAIR_STEP", "REPAIR_SELECTING", "REPAIRING", "generate")
    /\ UNCHANGED <<artifacts, reports, flags, attempt, files, gpu, memory, returned>>

(* _result loads the job; the repositories are closed and a last           *)
(* checkpoint passes.                                                      *)
ReturnResult ==
    /\ At("return")
    /\ repos' = repos \ owned /\ owned' = {}
    /\ returned' = [artifact |-> image, report |-> verdict, status |-> Status]
    /\ Proceed("last")
    /\ UNCHANGED <<durable, flags, attempt, gpu, memory, counts>>

LastCheckpoint == ~CancellationWon

FinishRun ==
    /\ attemptPc = "last"
    /\ returned' = IF LastCheckpoint THEN returned ELSE None
    /\ Proceed("ended")
    /\ UNCHANGED <<durable, flags, checked, attempt, files, gpu, memory, counts>>

-----------------------------------------------------------------------------
(* Failure. *)

Stage == CASE Status \in {"GENERATING", "REPAIRING", "VERIFYING", "REPAIR_SELECTING"} -> Status
           [] OTHER -> "none"

(* The phase's failure is recorded from the state it began in; a recording *)
(* that fails, or comes after a cancellation, is forgotten.                *)
RecordFatal ==
    /\ attemptPc \in {"fatal", "oom"}
    /\ \/ Stage # "none"
          /\ log' = Append(log, Entry(IF attemptPc = "oom" THEN "FATAL_OOM" ELSE "FATAL",
                                      "JOB_FAILED"))
          /\ UNCHANGED counts
       \/ Stage # "none" /\ AttemptFault /\ UNCHANGED log
       \/ Stage = "none" /\ UNCHANGED <<log, counts>>
    /\ Abort
    /\ UNCHANGED <<artifacts, reports, flags, checked, attempt, files, gpu, memory, returned>>

(* The handlers close the repair's repositories, then the first attempt's. *)
Unwind ==
    /\ attemptPc = "unwind"
    /\ repos' = repos \ owned /\ owned' = {}
    /\ Proceed("ended")
    /\ checked' = FALSE
    /\ UNCHANGED <<durable, flags, attempt, gpu, memory, returned, counts>>

Clear ==
    /\ reason' = FALSE /\ event' = FALSE /\ checked' = FALSE /\ attempt' = 0
    /\ owned' = {} /\ step' = 0 /\ inputs' = "none" /\ late' = 0
    /\ image' = None /\ verdict' = None

EndRun ==
    /\ attemptPc = "ended"
    /\ Proceed("idle")
    /\ Clear
    /\ UNCHANGED <<durable, quarantined, repos, returned, counts>>

(* The process dies; another one opens the stores again. *)
Die ==
    /\ attemptPc # "idle"
    /\ Proceed("idle")
    /\ Clear
    /\ repos' = {} /\ returned' = None /\ quarantined' = FALSE
    /\ UNCHANGED <<durable, counts>>

Reopen ==
    /\ attemptPc = "idle" /\ quarantined
    /\ quarantined' = FALSE
    /\ UNCHANGED <<durable, reason, event, attemptPc, checked, attempt, files, gpu, memory,
                   returned, counts>>

-----------------------------------------------------------------------------
(* The user cancels: the log first, then the event. *)

CancelDurable ==
    /\ Status \notin {"ABSENT", "CANCELLED", "JOB_FAILED"}
    /\ log' = Append(log, Entry("CANCEL_REQUESTED", "CANCELLED"))
    /\ reason' = (attemptPc \notin {"idle"})
    /\ UNCHANGED <<artifacts, reports, event, quarantined, attemptPc, checked, attempt, files, gpu,
                   memory, returned, counts>>

Signal ==
    /\ reason /\ ~event
    /\ attemptPc \notin {"idle", "ended"}
    /\ event' = TRUE
    /\ UNCHANGED <<durable, reason, quarantined, attemptPc, checked, attempt, files, gpu, memory,
                   returned, counts>>

AttemptNext ==
    \/ StartRun \/ Checkpoint \/ PrepareAttempt \/ BuildControl
    \/ OpenArtifacts \/ OpenReports \/ BindVerifier
    \/ CreateJob \/ RecordStart
    \/ GenerateImage \/ ResolveStyles \/ Denoise \/ EncodeImage
    \/ AcceptArtifact \/ Render
    \/ PutArtifact \/ ReadBack \/ FinishAttempt
    \/ Verify \/ PutReport \/ ReadReport
    \/ Decide \/ Select \/ RecordRepair \/ ReturnResult \/ FinishRun
    \/ RecordFatal \/ Unwind \/ EndRun \/ Die \/ Reopen
    \/ CancelDurable \/ Signal

AttemptSpec == AttemptInit /\ [][AttemptNext]_attemptVars

-----------------------------------------------------------------------------
(* Every variable has its type. *)
AttemptTypeOK ==
    /\ \A k \in DOMAIN log : log[k].attempt \in Attempts
    /\ {reason, event, quarantined, checked} \subseteq BOOLEAN
    /\ attempt \in Attempts
    /\ owned \subseteq repos
    /\ repos \subseteq {"artifact", "report"} \X Attempts
    /\ step \in 0..DenoisingSteps /\ late \in 0..DenoisingSteps
    /\ attemptFaults \in 0..MaxAttemptFaults /\ runs \in 0..MaxRuns

Events(type) == {k \in DOMAIN log : log[k].type = type}

(* An attempt the log calls finished has its artifact in the store, made   *)
(* for that attempt from the very images the request names: whatever       *)
(* failed or was answered on the way, and wherever the process died.       *)
FinishedIsStored ==
    \A k \in Events("ATTEMPT_FINISHED") :
        LET a == log[k].attempt IN
        /\ artifacts[a] # None
        /\ artifacts[a].attempt = a
        /\ artifacts[a].made = "right"

(* A decision in the log rests on a stored report about the stored         *)
(* artifact of the same attempt, and is the one that report calls for.     *)
DecidedIsReported ==
    \A k \in Events("VERIFIER_FINISHED") :
        LET a == log[k].attempt IN
        /\ reports[a] # None
        /\ reports[a].artifact = artifacts[a]
        /\ log[k].to = "APPROVED"      => reports[a].says = "pass"
        /\ log[k].to = "MANUAL_REVIEW" => reports[a].says = "unverifiable"
        /\ log[k].to \in {"REJECTED", "REPAIR_SELECTING"} => reports[a].says = "fail"

(* A run returns only what has been decided and stored, of the attempt     *)
(* that was decided last, and returns nothing for a cancelled job.         *)
ReturnedIsDecided ==
    [][attemptPc = "last" /\ attemptPc' = "ended" /\ returned' # None =>
        /\ Status = returned'.status /\ Status \in Decided
        /\ returned'.artifact = artifacts[log[Len(log)].attempt]
        /\ returned'.report = reports[log[Len(log)].attempt]]_attemptVars

(* However a run ends, none of its repositories is left open. *)
NothingLeftOpen == attemptPc \in {"idle", "ended"} => repos = {}

(* Once the event is set the pipeline begins at most one more step. *)
CancelStopsSteps == late <= 1

(* What the log says of an attempt rests on what is stored: an attempt     *)
(* that finished has its artifact, and a decision has the report it        *)
(* follows. *)
LogRestsOnStores == AttemptTypeOK /\ FinishedIsStored /\ DecidedIsReported

(* However a run ends it leaves nothing open, once it is cancelled the GPU *)
(* begins one more step at most, and it returns what was decided and       *)
(* stored, and nothing of a cancelled job. *)
RunEndsClean == [](NothingLeftOpen /\ CancelStopsSteps) /\ ReturnedIsDecided
=============================================================================
