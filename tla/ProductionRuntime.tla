------------------------- MODULE ProductionRuntime --------------------------
(***************************************************************************)
(* ProductionRuntime of workflow/production_service.py: one runtime object *)
(* whose callers, each a thread, run jobs, publish and recover exports,    *)
(* cancel jobs, reopen the pipeline after a GPU out-of-memory and close    *)
(* the runtime, all at once.                                               *)
(*                                                                         *)
(* One operation at a time holds the run lock.  A cancellation does not    *)
(* wait for it: it records CANCEL_REQUESTED under the job's own lock and   *)
(* leaves a reason for the run to find at its next checkpoint.  Closing    *)
(* asks the active run to stop in the same way, waits for the run lock and *)
(* closes the pipeline.                                                    *)
(*                                                                         *)
(* The job store is used as CommitRegister describes it and exports as     *)
(* ExportOutcome does.  Each hold of the state lock is one step, and so is *)
(* each hold of a job's lock.                                              *)
(***************************************************************************)
EXTENDS JobLifecycle, Naturals

CONSTANTS
    Callers,
    Jobs,
    MaxLoads,       \* bound: pipelines loaded, the first included
    MaxFaults,      \* bound: failing calls of the stores
    NoCaller, NoJob

ASSUME LoadsAssumption    == MaxLoads \in Nat \ {0}
ASSUME FaultsAssumption   == MaxFaults \in Nat
ASSUME SentinelAssumption == NoCaller \notin Callers /\ NoJob \notin Jobs

VARIABLES
    closed, readiness,  \* _closed, _readiness_value
    active,             \* _active_job_id
    reason,             \* _active_cancel_reason: "none", "user" or "closed"
    event,              \* _active_cancel is set
    runLock,            \* the caller that holds _run_lock, or NoCaller
    pipe, open, loads,  \* the pipeline in use, those open, those ever loaded
    status,             \* the stored jobs; "ABSENT" before the first snapshot
    staging,            \* the export holder's phase is STAGING
    lost,               \* what has gone wrong unrecorded for the job: "none", a
                        \* failing "call" of a store, or a "rendering"
    faults,
    closing,            \* [job, error, done] of the first close
    pc, job,            \* what each caller does next, and for which job
    at,                 \* the status the run believes its job to have
    checked,            \* the run has passed the checkpoint before this step
    repaired            \* the run's repair round is under way

fields  == <<closed, readiness, active, reason, event>>
pipes   == <<pipe, open, loads>>
store   == <<status, staging, lost, faults>>
locals  == <<job, at, checked, repaired>>
vars    == <<fields, runLock, pipes, store, closing, pc, locals>>

Decided == {"APPROVED", "MANUAL_REVIEW", "REJECTED"}
Finals  == {"COMPLETED", "JOB_FAILED"}

Init ==
    /\ closed = FALSE /\ readiness = "READY"
    /\ active = NoJob /\ reason = "none" /\ event = FALSE
    /\ runLock = NoCaller
    /\ pipe = 1 /\ open = {1} /\ loads = 1
    /\ status = [j \in Jobs |-> "ABSENT"]
    /\ staging = [j \in Jobs |-> FALSE]
    /\ lost = [j \in Jobs |-> "none"]
    /\ faults = 0
    /\ closing = [job |-> NoJob, error |-> FALSE, done |-> FALSE]
    /\ pc = [c \in Callers |-> "idle"]
    /\ job = [c \in Callers |-> NoJob]
    /\ at = [c \in Callers |-> "ABSENT"]
    /\ checked = [c \in Callers |-> FALSE]
    /\ repaired = [c \in Callers |-> FALSE]

-----------------------------------------------------------------------------
Goto(c, step) == pc' = [pc EXCEPT ![c] = step]

(* A call returns, and its local variables are no more. *)
Leave(c) ==
    /\ Goto(c, "idle")
    /\ job' = [job EXCEPT ![c] = NoJob]
    /\ at' = [at EXCEPT ![c] = "ABSENT"]
    /\ checked' = [checked EXCEPT ![c] = FALSE]
    /\ repaired' = [repaired EXCEPT ![c] = FALSE]

Set(j, to) == status' = [status EXCEPT ![j] = to]

(* A call for job j fails: of the job store, of the clock that dates an    *)
(* event, or the close of an attempt's repositories.                       *)
Miss(j) ==
    /\ faults < MaxFaults
    /\ faults' = faults + 1
    /\ lost' = [lost EXCEPT ![j] = "call"]

(* A reading that fails changes nothing, a recording may have landed. *)
FailReading(j) == Miss(j) /\ UNCHANGED status
Fail(j, to) == Miss(j) /\ (Set(j, to) \/ UNCHANGED status)

MarkNothing(j, why) == UNCHANGED reason  \* mutant: the run is not told

(* _mark_durable_cancel: tell the run, if it is this job's. *)
Mark(j, why) == reason' = IF active = j THEN why ELSE reason

(* _cancel_durable, by its outcome: "done" when the job is CANCELLED,      *)
(* "gone" when it is missing or terminal, "error" otherwise.               *)
CancelDurable(j, why, result) ==
    /\ UNCHANGED staging
    /\ \/ /\ result = "done"
          /\ status[j] = "CANCELLED"
          /\ Mark(j, why)
          /\ UNCHANGED <<status, lost, faults>>
       \/ /\ result = "gone"
          /\ status[j] \in Finals \cup {"ABSENT"}
          /\ UNCHANGED <<reason, status, lost, faults>>
       \/ /\ result = "error"
          /\ status[j] = "EXPORTING" /\ ~staging[j]
          /\ UNCHANGED <<reason, status, lost, faults>>
       \/ /\ status[j] \notin Finals \cup {"ABSENT", "CANCELLED"}
          /\ status[j] = "EXPORTING" => staging[j]
          /\ Mark(j, why)
          /\ \/ result = "done" /\ Set(j, "CANCELLED") /\ UNCHANGED <<lost, faults>>
             \/ result = "error" /\ Fail(j, "CANCELLED")

Outcomes == {"done", "gone", "error"}

-----------------------------------------------------------------------------
(* Starting and finishing what holds the run lock. *)

Occupy(c, j) ==
    /\ pc[c] = "idle"
    /\ ~closed
    /\ readiness = "READY"
    /\ runLock = NoCaller
    /\ runLock' = c
    /\ readiness' = "BUSY"
    /\ active' = j
    /\ reason' = "none"
    /\ event' = FALSE
    /\ UNCHANGED <<closed, pipes, store, closing>>

StartRun(c) ==
    \E j \in Jobs :
        /\ Occupy(c, j)
        /\ Goto(c, "prepare")
        /\ job' = [job EXCEPT ![c] = j]
        /\ UNCHANGED <<at, checked, repaired>>

StartExport(c) ==
    \E j \in Jobs :
        /\ Occupy(c, j)
        /\ Goto(c, "export")
        /\ job' = [job EXCEPT ![c] = j]
        /\ UNCHANGED <<at, checked, repaired>>

(* A recovery works through every job and is not cancelled. *)
StartRecovery(c) == Occupy(c, NoJob) /\ Goto(c, "recover") /\ UNCHANGED locals

ClearActive ==
    /\ active' = NoJob /\ reason' = "none" /\ event' = FALSE
    /\ readiness' = IF ~closed /\ readiness = "BUSY" THEN "READY" ELSE readiness
    /\ UNCHANGED closed

ReleaseFirst(c) ==  \* mutant: the run lock is released before the state
    \/ /\ pc[c] = "finish"
       /\ runLock' = NoCaller
       /\ Goto(c, "release")
       /\ UNCHANGED <<fields, pipes, store, closing, locals>>
    \/ /\ pc[c] = "release"
       /\ ClearActive
       /\ Leave(c)
       /\ UNCHANGED <<runLock, pipes, store, closing>>

KeepLockWhenClosed(c) ==  \* mutant: a closed runtime's run keeps the lock
    \/ /\ pc[c] = "finish"
       /\ ClearActive
       /\ Goto(c, "release")
       /\ UNCHANGED <<runLock, pipes, store, closing, locals>>
    \/ /\ pc[c] = "release"
       /\ runLock' = IF closed THEN runLock ELSE NoCaller
       /\ Leave(c)
       /\ UNCHANGED <<fields, pipes, store, closing>>

(* _finish_run: first the state, then the lock. *)
FinishRun(c) ==
    \/ /\ pc[c] = "finish"
       /\ ClearActive
       /\ Goto(c, "release")
       /\ UNCHANGED <<runLock, pipes, store, closing, locals>>
    \/ /\ pc[c] = "release"
       /\ runLock' = NoCaller
       /\ Leave(c)
       /\ UNCHANGED <<fields, pipes, store, closing>>

-----------------------------------------------------------------------------
(* A run: the steps of _run_request, with a checkpoint before each. *)

Checkpoints == {"prepare", "create", "record", "generate", "finishAttempt", "verify",
                "decide", "select", "return"}

(* _checkpoint: record the cancellation a closing runtime asked for, then  *)
(* give up if the job has been cancelled.  Only a run with a reason to be  *)
(* cancelled reads the store here, and a reading that fails ends it.       *)
CloseRequested(c) == closed /\ active = job[c] /\ event /\ reason = "closed"

Checkpoint(c) ==
    /\ pc[c] \in Checkpoints
    /\ ~checked[c]
    /\ UNCHANGED <<closed, readiness, active, event, runLock, pipes, closing, job, at, repaired>>
    /\ \/ /\ CloseRequested(c) /\ status[job[c]] # "ABSENT"
          /\ \E result \in Outcomes :
                /\ CancelDurable(job[c], "closed", result)
                /\ IF result = "gone"
                   THEN checked' = [checked EXCEPT ![c] = TRUE] /\ UNCHANGED pc
                   ELSE Goto(c, "finish") /\ UNCHANGED checked
       \/ /\ ~(CloseRequested(c) /\ status[job[c]] # "ABSENT")
          /\ UNCHANGED <<reason, store>>
          /\ IF reason # "none" /\ status[job[c]] = "CANCELLED"
             THEN Goto(c, "finish") /\ UNCHANGED checked
             ELSE checked' = [checked EXCEPT ![c] = TRUE] /\ UNCHANGED pc
       \/ /\ reason # "none"
          /\ FailReading(job[c])
          /\ Goto(c, "finish")
          /\ UNCHANGED <<checked, reason, staging>>

(* What every step of a run leaves alone. *)
RunStep(c, step) ==
    /\ pc[c] = step
    /\ checked[c]
    /\ checked' = [checked EXCEPT ![c] = FALSE]
    /\ UNCHANGED <<runLock, closing, job, staging>>

(* append_event from the status the run believes in. *)
Record(c, to, next) ==
    /\ UNCHANGED <<fields, pipes>>
    /\ \/ /\ status[job[c]] = at[c]
          /\ Set(job[c], to)
          /\ at' = [at EXCEPT ![c] = to]
          /\ Goto(c, next)
          /\ UNCHANGED <<lost, faults>>
       \/ /\ status[job[c]] = at[c]
          /\ Fail(job[c], to)
          /\ Goto(c, "finish")
          /\ UNCHANGED at
       \/ /\ status[job[c]] # at[c]
          /\ Goto(c, "finish")
          /\ UNCHANGED <<status, lost, faults, at>>

(* Work that changes nothing but what the run does next. *)
Work(c, next) == Goto(c, next) /\ UNCHANGED <<fields, pipes, status, lost, faults, at>>

(* _prepare_initial_attempt: the job id must be new. *)
Prepare(c) ==
    /\ RunStep(c, "prepare")
    /\ UNCHANGED repaired
    /\ \/ status[job[c]] = "ABSENT" /\ Work(c, "create")
       \/ Work(c, "finish")

Create(c) == RunStep(c, "create") /\ Record(c, "CREATED", "record") /\ UNCHANGED repaired

(* _record_attempt_start. *)
RecordStart(c) ==
    /\ RunStep(c, "record")
    /\ UNCHANGED repaired
    /\ \/ at[c] = "CREATED" /\ Record(c, "SPEC_VALIDATED", "record")
       \/ at[c] = "SPEC_VALIDATED" /\ Record(c, "SPEC_COMPILED", "record")
       \/ at[c] = "SPEC_COMPILED" /\ Record(c, "GENERATING", "generate")

QuarantineNothing(c) ==  \* mutant: an out-of-memory closes the pipeline only
    /\ open' = open \ {pipe}
    /\ Goto(c, "fatal")
    /\ UNCHANGED <<fields, pipe, loads, status, lost, faults, at>>

(* _quarantine_under_lease: nothing may use the pipeline any more. *)
Quarantine(c) ==
    /\ readiness' = IF closed THEN readiness ELSE "QUARANTINED"
    /\ open' = open \ {pipe}
    /\ Goto(c, "fatal")
    /\ UNCHANGED <<closed, active, reason, event, pipe, loads, status, lost, faults, at>>

(* render_production_output raises an error of the image library.  The     *)
(* phase records only domain and infrastructure errors: the run ends, and  *)
(* its job stays as it is.                                                 *)
LeaveUnrendered(c) ==
    /\ Goto(c, "finish")
    /\ lost' = [lost EXCEPT ![job[c]] = IF @ = "none" THEN "rendering" ELSE @]
    /\ UNCHANGED <<fields, pipes, status, faults, at>>

(* _run_generation_phase, and after it the artifact is persisted. *)
Generate(c) ==
    /\ RunStep(c, "generate")
    /\ UNCHANGED repaired
    /\ Work(c, "finishAttempt") \/ Work(c, "fatal") \/ Quarantine(c) \/ LeaveUnrendered(c)

FinishAttempt(c) ==
    /\ RunStep(c, "finishAttempt")
    /\ UNCHANGED repaired
    /\ Work(c, "fatal") \/ Record(c, "VERIFYING", "verify")

(* _run_verification_phase, and after it the report is persisted. *)
Verify(c) ==
    /\ RunStep(c, "verify")
    /\ UNCHANGED repaired
    /\ Work(c, "decide") \/ Work(c, "fatal") \/ Quarantine(c)

(* Record the decision, or choose the one repair a job may have.  Before   *)
(* it a repaired attempt closes its repositories; if that fails nothing    *)
(* is recorded.                                                            *)
Decide(c) ==
    /\ RunStep(c, "decide")
    /\ UNCHANGED repaired
    /\ \/ Work(c, "fatal")
       \/ repaired[c] /\ FailReading(job[c]) /\ Goto(c, "finish") /\ UNCHANGED <<fields, pipes, at>>
       \/ \E to \in Decided : Record(c, to, "return")
       \/ ~repaired[c] /\ Record(c, "REPAIR_SELECTING", "select")

Select(c) ==
    /\ RunStep(c, "select")
    /\ \/ Work(c, "fatal") /\ UNCHANGED repaired
       \/ Record(c, "REJECTED", "return") /\ UNCHANGED repaired
       \/ /\ Record(c, "REPAIRING", "generate")
          /\ repaired' = [repaired EXCEPT ![c] = TRUE]

(* _record_generation_fatal and its like: a recording that fails, because  *)
(* of the store or because the job has been cancelled, is forgotten.  A    *)
(* run with a reason to be cancelled reads the job first, and records      *)
(* nothing if that fails.                                                  *)
RecordFatal(c) ==
    /\ pc[c] = "fatal"
    /\ Goto(c, "finish")
    /\ UNCHANGED <<fields, runLock, pipes, staging, closing, locals>>
    /\ \/ status[job[c]] = at[c] /\ Set(job[c], "JOB_FAILED") /\ UNCHANGED <<lost, faults>>
       \/ status[job[c]] = at[c] /\ Fail(job[c], "JOB_FAILED")
       \/ reason # "none" /\ FailReading(job[c])
       \/ status[job[c]] # at[c] /\ UNCHANGED <<status, lost, faults>>

(* The result is returned once the last checkpoint has passed. *)
Return(c) == RunStep(c, "return") /\ Work(c, "finish") /\ UNCHANGED repaired

Run(c) ==
    \/ StartRun(c) \/ Checkpoint(c) \/ Prepare(c) \/ Create(c) \/ RecordStart(c)
    \/ Generate(c) \/ FinishAttempt(c) \/ Verify(c) \/ Decide(c) \/ Select(c)
    \/ RecordFatal(c) \/ Return(c)

-----------------------------------------------------------------------------
(* Exports, by their outcome. *)

ExportStep(c) == UNCHANGED <<fields, runLock, pipes, closing, locals>>

BeginExport(c) ==
    /\ pc[c] = "export"
    /\ ExportStep(c)
    /\ \/ /\ status[job[c]] \in Decided
          /\ Set(job[c], "EXPORTING")
          /\ staging' = [staging EXCEPT ![job[c]] = TRUE]
          /\ Goto(c, "commitExport")
          /\ UNCHANGED <<lost, faults>>
       \/ /\ status[job[c]] \in Decided
          /\ Fail(job[c], "EXPORTING")
          /\ Goto(c, "finish")
          /\ UNCHANGED staging
       \/ Goto(c, "finish") /\ UNCHANGED store

(* Staging may fail, the job may have been cancelled meanwhile, and once   *)
(* the bundle's name may have changed only a recovery may go on.           *)
CommitExport(c) ==
    /\ pc[c] = "commitExport"
    /\ ExportStep(c)
    /\ Goto(c, "finish")
    /\ \/ UNCHANGED store
       \/ /\ status[job[c]] = "EXPORTING"
          /\ staging' = [staging EXCEPT ![job[c]] = FALSE]
          /\ \/ Set(job[c], "COMPLETED") /\ UNCHANGED <<lost, faults>>
             \/ Fail(job[c], "COMPLETED")

Recover(c) ==
    /\ pc[c] = "recover"
    /\ ExportStep(c)
    /\ Goto(c, "finish")
    /\ \/ UNCHANGED store
       \/ \E j \in Jobs :
             /\ status[j] = "EXPORTING"
             /\ Set(j, "COMPLETED") \/ UNCHANGED status
             /\ \E known \in {FALSE, status'[j] = "EXPORTING"} :
                    staging' = [staging EXCEPT ![j] = known]
             /\ UNCHANGED <<lost, faults>>

(* The export's holder goes when nobody uses it, and the phase with it. *)
DropHolder ==
    /\ \E j \in Jobs :
          /\ staging[j]
          /\ \A c \in Callers : pc[c] # "commitExport" \/ job[c] # j
          /\ staging' = [staging EXCEPT ![j] = FALSE]
    /\ UNCHANGED <<fields, runLock, pipes, status, lost, faults, closing, pc, locals>>

Export(c) ==
    \/ StartExport(c) \/ BeginExport(c) \/ CommitExport(c)
    \/ StartRecovery(c) \/ Recover(c)

-----------------------------------------------------------------------------
(* cancel. *)

StartCancel(c) ==
    /\ pc[c] = "idle"
    /\ ~closed
    /\ \E j \in Jobs : job' = [job EXCEPT ![c] = j]
    /\ Goto(c, "cancel")
    /\ UNCHANGED <<fields, runLock, pipes, store, closing, at, checked, repaired>>

CancelJob(c) ==
    /\ pc[c] = "cancel"
    /\ \E result \in Outcomes :
          /\ CancelDurable(job[c], "user", result)
          /\ IF result = "done" THEN Goto(c, "signal") /\ UNCHANGED locals ELSE Leave(c)
    /\ UNCHANGED <<closed, readiness, active, event, runLock, pipes, closing>>

(* The event stops a generation under way. *)
Signal(c) ==
    /\ pc[c] = "signal"
    /\ IF active = job[c]
       THEN reason' = "user" /\ event' = TRUE
       ELSE UNCHANGED <<reason, event>>
    /\ Leave(c)
    /\ UNCHANGED <<closed, readiness, active, runLock, pipes, store, closing>>

Cancel(c) == StartCancel(c) \/ CancelJob(c) \/ Signal(c)

-----------------------------------------------------------------------------
(* reopen. *)

StartReopen(c) ==
    /\ pc[c] = "idle"
    /\ ~closed
    /\ readiness = "QUARANTINED"
    /\ runLock = NoCaller
    /\ runLock' = c
    /\ Goto(c, "reopen")
    /\ UNCHANGED <<fields, pipes, store, closing, locals>>

LoadPipeline(c) ==
    /\ pc[c] = "reopen"
    /\ \/ /\ loads < MaxLoads
          /\ loads' = loads + 1
          /\ open' = open \cup {loads + 1}
          /\ Goto(c, "install")
          /\ UNCHANGED pipe
       \/ Goto(c, "reopened") /\ UNCHANGED pipes
    /\ UNCHANGED <<fields, runLock, store, closing, locals>>

DiscardQuietly(c) ==  \* mutant: a pipeline loaded too late is not closed
    /\ pc[c] = "install"
    /\ Goto(c, "reopened")
    /\ UNCHANGED <<closed, active, reason, event, loads, runLock, store, closing, locals>>
    /\ IF closed
       THEN UNCHANGED <<pipe, open, readiness>>
       ELSE pipe' = loads /\ readiness' = "READY" /\ UNCHANGED open

(* A runtime closed meanwhile does not take the new pipeline. *)
Install(c) ==
    /\ pc[c] = "install"
    /\ Goto(c, "reopened")
    /\ UNCHANGED <<closed, active, reason, event, loads, runLock, store, closing, locals>>
    /\ IF closed
       THEN open' = open \ {loads} /\ UNCHANGED <<pipe, readiness>>
       ELSE pipe' = loads /\ readiness' = "READY" /\ UNCHANGED open

FinishReopen(c) ==
    /\ pc[c] = "reopened"
    /\ runLock' = NoCaller
    /\ Leave(c)
    /\ UNCHANGED <<fields, pipes, store, closing>>

Reopen(c) == StartReopen(c) \/ LoadPipeline(c) \/ Install(c) \/ FinishReopen(c)

-----------------------------------------------------------------------------
(* close. *)

CloseStep == UNCHANGED <<closed, readiness, active, pipes, locals>>

(* _begin_close: the first caller closes, the others wait for it. *)
StartClose(c) ==
    /\ pc[c] = "idle"
    /\ UNCHANGED <<active, event, runLock, pipes, store, locals>>
    /\ IF closed
       THEN Goto(c, "closeWait") /\ UNCHANGED <<closed, readiness, reason, closing>>
       ELSE /\ closed' = TRUE
            /\ readiness' = "CLOSED"
            /\ reason' = IF active # NoJob THEN "closed" ELSE reason
            /\ closing' = [closing EXCEPT !.job = active]
            /\ Goto(c, IF active = NoJob THEN "closeLock" ELSE "closePeek")

CloseWait(c) ==
    /\ pc[c] = "closeWait"
    /\ closing.done
    /\ Leave(c)
    /\ UNCHANGED <<fields, runLock, pipes, store, closing>>

(* _request_close_cancel: a job without a snapshot cannot be cancelled     *)
(* yet, so the run is asked to cancel it as soon as it has one.            *)
ClosePeek(c) ==
    /\ pc[c] = "closePeek"
    /\ CloseStep
    /\ UNCHANGED <<reason, event, runLock, status, staging, lost>>
    /\ \/ /\ Goto(c, IF status[closing.job] = "ABSENT" THEN "closeSignal" ELSE "closeCancel")
          /\ UNCHANGED <<faults, closing>>
       \/ /\ faults < MaxFaults
          /\ faults' = faults + 1
          /\ closing' = [closing EXCEPT !.error = TRUE]
          /\ Goto(c, "closeLock")

CloseCancel(c) ==
    /\ pc[c] = "closeCancel"
    /\ CloseStep
    /\ UNCHANGED <<event, runLock>>
    /\ \E result \in Outcomes :
          /\ CancelDurable(closing.job, "closed", result)
          /\ closing' = [closing EXCEPT !.error = @ \/ result = "error"]
          /\ Goto(c, IF result = "done" THEN "closeSignal" ELSE "closeLock")

CloseSignal(c) ==
    /\ pc[c] = "closeSignal"
    /\ CloseStep
    /\ UNCHANGED <<runLock, store, closing>>
    /\ Goto(c, "closeLock")
    /\ IF active = closing.job
       THEN reason' = "closed" /\ event' = TRUE
       ELSE UNCHANGED <<reason, event>>

(* Wait for whatever is running. *)
CloseLock(c) ==
    /\ pc[c] = "closeLock"
    /\ runLock = NoCaller
    /\ runLock' = c
    /\ Goto(c, "closeAgain")
    /\ UNCHANGED <<fields, pipes, store, closing, locals>>

CloseOnce(c) ==  \* mutant: the job is not looked at again
    /\ pc[c] = "closeAgain"
    /\ CloseStep
    /\ Goto(c, "closeResources")
    /\ UNCHANGED <<reason, event, runLock, store, closing>>

(* Cancel the job again, now that nothing runs. *)
CloseAgain(c) ==
    /\ pc[c] = "closeAgain"
    /\ CloseStep
    /\ Goto(c, "closeResources")
    /\ UNCHANGED <<event, runLock>>
    /\ IF closing.job = NoJob
       THEN UNCHANGED <<reason, store, closing>>
       ELSE \E result \in Outcomes :
               /\ CancelDurable(closing.job, "closed", result)
               /\ closing' = [closing EXCEPT !.error = @ \/ result = "error"]

CloseResources(c) ==
    /\ pc[c] = "closeResources"
    /\ open' = open \ {pipe}
    /\ runLock' = NoCaller
    /\ closing' = [closing EXCEPT !.done = TRUE]
    /\ Leave(c)
    /\ UNCHANGED <<fields, pipe, loads, store>>

Close(c) ==
    \/ StartClose(c) \/ CloseWait(c) \/ ClosePeek(c) \/ CloseCancel(c) \/ CloseSignal(c)
    \/ CloseLock(c) \/ CloseAgain(c) \/ CloseResources(c)

-----------------------------------------------------------------------------
Act(c) == Run(c) \/ Export(c) \/ FinishRun(c) \/ Cancel(c) \/ Reopen(c) \/ Close(c)

Next == DropHolder \/ \E c \in Callers : Act(c)

Spec == Init /\ [][Next]_vars

(* A thread that has entered the runtime goes on; a blocking acquisition   *)
(* of the run lock gets it sooner or later.                                *)
Continue(c) == pc[c] # "idle" /\ Act(c)

Fairness == \A c \in Callers : WF_vars(Continue(c)) /\ SF_vars(CloseLock(c))

FairSpec == Spec /\ Fairness

-----------------------------------------------------------------------------
RunSteps   == Checkpoints \cup {"fatal"}
Occupied   == RunSteps \cup {"export", "commitExport", "recover", "finish"}
CloseSteps == {"closeWait", "closePeek", "closeCancel", "closeSignal", "closeLock", "closeAgain",
               "closeResources"}
Steps      == Occupied \cup CloseSteps
              \cup {"idle", "release", "cancel", "signal", "reopen", "install", "reopened"}

(* The types of the variables; readiness reports a closed runtime as such, *)
(* whatever was going on when it was closed.                               *)
TypeOK ==
    /\ closed \in BOOLEAN
    /\ readiness \in {"READY", "BUSY", "QUARANTINED", "CLOSED"}
    /\ closed <=> readiness = "CLOSED"
    /\ active \in Jobs \cup {NoJob}
    /\ reason \in {"none", "user", "closed"}
    /\ event \in BOOLEAN
    /\ runLock \in Callers \cup {NoCaller}
    /\ pipe \in 1 .. MaxLoads /\ loads \in 1 .. MaxLoads /\ open \subseteq 1 .. MaxLoads
    /\ status \in [Jobs -> JobStatus \cup {"ABSENT"}]
    /\ staging \in [Jobs -> BOOLEAN]
    /\ lost \in [Jobs -> {"none", "call", "rendering"}]
    /\ faults \in 0 .. MaxFaults
    /\ closing \in [job : Jobs \cup {NoJob}, error : BOOLEAN, done : BOOLEAN]
    /\ pc \in [Callers -> Steps]
    /\ job \in [Callers -> Jobs \cup {NoJob}]
    /\ at \in [Callers -> JobStatus \cup {"ABSENT"}]
    /\ checked \in [Callers -> BOOLEAN]
    /\ repaired \in [Callers -> BOOLEAN]

(* A run, export or recovery owns the runtime until it has finished: no    *)
(* other has replaced or cleared the active job its cancellations go to.   *)
OwnsRuntime ==
    \A c \in Callers :
        pc[c] \in Occupied =>
            /\ runLock = c
            /\ readiness # "READY"
            /\ active = IF pc[c] = "recover" THEN NoJob
                        ELSE IF pc[c] = "finish" THEN active ELSE job[c]

(* A run generates and verifies on an open pipeline, never on one that an  *)
(* out-of-memory, a reopening or a closing has closed.                     *)
PipelineUsable ==
    \A c \in Callers : pc[c] \in {"generate", "verify"} => pipe \in open

(* Once a close has returned, nothing runs and no pipeline is left open,   *)
(* one loaded by a racing reopen included.                                 *)
ClosedForGood ==
    closing.done => open = {} /\ \A c \in Callers : pc[c] \notin Occupied \cup {"install"}

(* A close that reports no error leaves the job it found running either    *)
(* unborn or terminal, even if the run created it after the close looked.  *)
CloseSettlesActiveJob ==
    closing.done /\ ~closing.error /\ closing.job # NoJob =>
        status[closing.job] \in TERMINAL_STATUSES \cup {"ABSENT"}

(* The run of job j has generated an image that could not be rendered.     *)
Unrendered(j) == lost[j] = "rendering" /\ status[j] \in {"GENERATING", "REPAIRING"}

(* A job that nobody is running has been decided, exported or ended,       *)
(* unless a call of a store for it has failed, or its image could not be   *)
(* rendered in its output profile: production_service.py:1345 passes on    *)
(* the error of the image library, and the job stays GENERATING or         *)
(* REPAIRING without a FATAL event.  No other step leaves it like that.    *)
NoStrandedJob ==
    \A j \in Jobs :
        \/ lost[j] = "call"
        \/ Unrendered(j)
        \/ \E c \in Callers : pc[c] \in RunSteps /\ job[c] = j
        \/ status[j] \in Decided \cup TERMINAL_STATUSES \cup {"ABSENT", "EXPORTING"}

(* A job that a caller of this process took up is left in a status from    *)
(* which nothing goes on only by a failing call of a store or by an        *)
(* image that cannot be rendered, and the close of the runtime settles the *)
(* job it interrupts.                                                      *)
NoJobIsLeft == TypeOK /\ CloseSettlesActiveJob /\ NoStrandedJob

(* A run does not pass its last checkpoint, and so returns no result, for  *)
(* a job whose cancellation has been recorded by then.                     *)
ResultNeverCancelled ==
    [][\A c \in Callers :
          pc[c] = "return" /\ ~checked[c] /\ checked'[c] => status[job[c]] # "CANCELLED"]_vars

(* Every close returns: nothing that runs keeps the run lock for ever, and *)
(* no two threads wait for each other.                                     *)
CloseReturns ==
    \A c \in Callers : pc[c] \in CloseSteps ~> pc[c] = "idle"
=============================================================================
