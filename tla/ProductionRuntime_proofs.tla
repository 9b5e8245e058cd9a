----------------------- MODULE ProductionRuntime_proofs ---------------------
(***************************************************************************)
(* Proofs about ProductionRuntime, for any number of callers, jobs, loaded *)
(* pipelines and failures of the job store, and, at the end, about         *)
(* RuntimeOpening, for any number of threads, of image encoders and of     *)
(* failing calls.                                                          *)
(***************************************************************************)
EXTENDS ProductionRuntime, RuntimeOpening, TLAPS

(* The steps of a caller that has taken the run lock, and of the one that  *)
(* is closing the runtime. *)
Holding == Occupied \cup {"release", "reopen", "install", "reopened", "closeAgain",
                          "closeResources"}
Closing == CloseSteps \ {"closeWait"}

-----------------------------------------------------------------------------
(* Type correctness, one lemma for each helper and one for each operation. *)

(* The failures of the store stay within their bound. *)
LEMMA FailTyped ==
    ASSUME TypeOK, NEW j \in Jobs \cup {NoJob}, NEW to \in JobStatus \cup {"ABSENT"}, Fail(j, to)
    PROVE  /\ faults' \in 0 .. MaxFaults
           /\ lost' \in [Jobs -> {"none", "call", "rendering"}]
           /\ status' \in [Jobs -> JobStatus \cup {"ABSENT"}]
  <1>1. faults' \in 0 .. MaxFaults
        BY FaultsAssumption DEF TypeOK, Fail, Miss
  <1>2. lost' \in [Jobs -> {"none", "call", "rendering"}]
        BY DEF TypeOK, Fail, Miss
  <1>3. status' \in [Jobs -> JobStatus \cup {"ABSENT"}]
        BY DEF TypeOK, Fail, Miss, Set
  <1> QED BY <1>1, <1>2, <1>3

LEMMA ReadingTyped ==
    ASSUME TypeOK, NEW j \in Jobs \cup {NoJob}, FailReading(j)
    PROVE  /\ faults' \in 0 .. MaxFaults
           /\ lost' \in [Jobs -> {"none", "call", "rendering"}]
           /\ UNCHANGED status
  <1>1. faults' \in 0 .. MaxFaults
        BY FaultsAssumption DEF TypeOK, FailReading, Miss
  <1>2. lost' \in [Jobs -> {"none", "call", "rendering"}]
        BY DEF TypeOK, FailReading, Miss
  <1> QED BY <1>1, <1>2 DEF FailReading

(* Recording a cancellation keeps the types. *)
LEMMA CancelTyped ==
    ASSUME TypeOK, NEW j \in Jobs \cup {NoJob}, NEW why \in {"user", "closed"}, NEW result,
           CancelDurable(j, why, result)
    PROVE  /\ reason' \in {"none", "user", "closed"}
           /\ status' \in [Jobs -> JobStatus \cup {"ABSENT"}]
           /\ lost' \in [Jobs -> {"none", "call", "rendering"}]
           /\ faults' \in 0 .. MaxFaults
           /\ UNCHANGED staging
  <1>1. "CANCELLED" \in JobStatus
        BY DEF JobStatus, TERMINAL_STATUSES
  <1>2. CASE Fail(j, "CANCELLED")
        BY <1>1, <1>2, FailTyped DEF TypeOK, CancelDurable, Mark
  <1>3. CASE ~Fail(j, "CANCELLED")
        BY <1>1, <1>3 DEF TypeOK, CancelDurable, Mark, Set
  <1> QED BY <1>2, <1>3

(* So does recording what a run has come to. *)
LEMMA RecordTyped ==
    ASSUME TypeOK, NEW c \in Callers, NEW to \in JobStatus, NEW next \in Steps,
           Record(c, to, next)
    PROVE  /\ status' \in [Jobs -> JobStatus \cup {"ABSENT"}]
           /\ lost' \in [Jobs -> {"none", "call", "rendering"}]
           /\ faults' \in 0 .. MaxFaults
           /\ at' \in [Callers -> JobStatus \cup {"ABSENT"}]
           /\ pc' \in [Callers -> Steps]
           /\ UNCHANGED <<fields, pipes>>
  <1>1. "finish" \in Steps
        BY DEF Steps, Occupied
  <1>2. job[c] \in Jobs \cup {NoJob}
        BY DEF TypeOK
  <1>3. CASE Fail(job[c], to)
        BY <1>1, <1>2, <1>3, FailTyped DEF TypeOK, Record, Goto
  <1>4. CASE ~Fail(job[c], to)
        BY <1>1, <1>4 DEF TypeOK, Record, Goto, Set
  <1> QED BY <1>3, <1>4

(* Whatever takes the run lock starts with variables of their types. *)
LEMMA OccupyTyped ==
    ASSUME TypeOK, NEW c \in Callers, NEW j \in Jobs \cup {NoJob}, NEW step \in Steps,
           Occupy(c, j), Goto(c, step), job' \in [Callers -> Jobs \cup {NoJob}],
           UNCHANGED <<at, checked, repaired>>
    PROVE  TypeOK'
  BY DEF TypeOK, Occupy, Goto, pipes, store

(* Every step of a run keeps the types. *)
LEMMA RunTyped ==
    ASSUME TypeOK, NEW c \in Callers, Run(c)
    PROVE  TypeOK'
  <1> USE DEF TypeOK
  <1>1. ASSUME Checkpoint(c) PROVE TypeOK'
    <2>1. /\ checked' \in [Callers -> BOOLEAN]
          /\ pc' \in [Callers -> Steps]
          BY <1>1 DEF Checkpoint, Goto, Steps, Occupied
    <2>2. /\ reason' \in {"none", "user", "closed"}
          /\ status' \in [Jobs -> JobStatus \cup {"ABSENT"}]
          /\ staging' \in [Jobs -> BOOLEAN]
          /\ lost' \in [Jobs -> {"none", "call", "rendering"}]
          /\ faults' \in 0 .. MaxFaults
          BY <1>1, CancelTyped, ReadingTyped DEF Checkpoint, store
    <2> QED BY <1>1, <2>1, <2>2 DEF Checkpoint, pipes
  <1>2. ASSUME StartRun(c) PROVE TypeOK'
    <2>1. PICK j \in Jobs : Occupy(c, j) /\ job' = [job EXCEPT ![c] = j]
          BY <1>2 DEF StartRun
    <2>2. Goto(c, "prepare") /\ "prepare" \in Steps /\ UNCHANGED <<at, checked, repaired>>
          BY <1>2 DEF StartRun, Steps, Occupied, RunSteps, Checkpoints
    <2>3. job' \in [Callers -> Jobs \cup {NoJob}]
          BY <2>1
    <2> QED BY <2>1, <2>2, <2>3, OccupyTyped
  <1>4. ASSUME NEW to \in JobStatus, NEW next \in Steps, NEW step,
               RunStep(c, step), Record(c, to, next),
               repaired' \in [Callers -> BOOLEAN]
        PROVE TypeOK'
    <2>1. /\ status' \in [Jobs -> JobStatus \cup {"ABSENT"}]
          /\ lost' \in [Jobs -> {"none", "call", "rendering"}]
          /\ faults' \in 0 .. MaxFaults
          /\ at' \in [Callers -> JobStatus \cup {"ABSENT"}]
          /\ pc' \in [Callers -> Steps]
          /\ UNCHANGED <<fields, pipes>>
          BY <1>4, RecordTyped
    <2>2. checked' \in [Callers -> BOOLEAN] /\ UNCHANGED <<runLock, closing, job, staging>>
          BY <1>4 DEF RunStep
    <2> QED BY <1>4, <2>1, <2>2 DEF fields, pipes
  <1>5. ASSUME Create(c) PROVE TypeOK'
        BY <1>4, <1>5 DEF Create, Steps, Occupied, RunSteps, Checkpoints, JobStatus, Stages
  <1>6. ASSUME RecordStart(c) PROVE TypeOK'
        BY <1>4, <1>6 DEF RecordStart, Steps, Occupied, RunSteps, Checkpoints, JobStatus, Stages
  <1>7. ASSUME NEW next \in Steps, NEW step, RunStep(c, step), Work(c, next), UNCHANGED repaired
        PROVE TypeOK'
        BY <1>7 DEF RunStep, Work, Goto, fields, pipes
  <1>3. ASSUME Prepare(c) PROVE TypeOK'
        BY <1>3, <1>7 DEF Prepare, Steps, Occupied, RunSteps, Checkpoints
  <1>8. ASSUME NEW step, RunStep(c, step), Quarantine(c), UNCHANGED repaired PROVE TypeOK'
        BY <1>8 DEF RunStep, Quarantine, Goto, Steps, Occupied, RunSteps
  <1>9. ASSUME Generate(c) PROVE TypeOK'
    <2>1. ASSUME LeaveUnrendered(c) PROVE TypeOK'
      <3>1. pc' \in [Callers -> Steps]
            BY <2>1 DEF LeaveUnrendered, Goto, Steps, Occupied
      <3>2. lost' \in [Jobs -> {"none", "call", "rendering"}]
            BY <2>1 DEF LeaveUnrendered
      <3>3. /\ UNCHANGED <<fields, pipes, status, faults, at, repaired>>
            /\ UNCHANGED <<runLock, closing, job, staging>>
            BY <1>9, <2>1 DEF Generate, LeaveUnrendered, RunStep
      <3>4. checked' \in [Callers -> BOOLEAN]
            BY <1>9 DEF Generate, RunStep
      <3> QED BY <3>1, <3>2, <3>3, <3>4 DEF fields, pipes
    <2> QED BY <1>7, <1>8, <1>9, <2>1 DEF Generate, Steps, Occupied, RunSteps, Checkpoints
  <1>10. ASSUME FinishAttempt(c) PROVE TypeOK'
         BY <1>4, <1>7, <1>10
            DEF FinishAttempt, Steps, Occupied, RunSteps, Checkpoints, JobStatus, Stages
  <1>11. ASSUME Verify(c) PROVE TypeOK'
         BY <1>7, <1>8, <1>11 DEF Verify, Steps, Occupied, RunSteps, Checkpoints
  <1>12. ASSUME Decide(c) PROVE TypeOK'
    <2>1. ASSUME FailReading(job[c]), Goto(c, "finish"), UNCHANGED <<fields, pipes, at>>
          PROVE TypeOK'
      <3>1. job[c] \in Jobs \cup {NoJob}
            OBVIOUS
      <3>2. /\ faults' \in 0 .. MaxFaults
            /\ lost' \in [Jobs -> {"none", "call", "rendering"}]
            /\ UNCHANGED status
            BY <2>1, <3>1, ReadingTyped
      <3> QED BY <1>12, <2>1, <3>2 DEF Decide, RunStep, Goto, Steps, Occupied, fields, pipes
    <2>2. ASSUME NEW to \in Decided, Record(c, to, "return") PROVE TypeOK'
          BY <1>4, <1>12, <2>2
             DEF Decide, Decided, Steps, Occupied, RunSteps, Checkpoints, JobStatus, Stages
    <2>3. ASSUME Record(c, "REPAIR_SELECTING", "select") PROVE TypeOK'
          BY <1>4, <1>12, <2>3
             DEF Decide, Steps, Occupied, RunSteps, Checkpoints, JobStatus, Stages
    <2>4. ASSUME Work(c, "fatal") PROVE TypeOK'
          BY <1>7, <1>12, <2>4 DEF Decide, Steps, Occupied, RunSteps
    <2> QED BY <1>12, <2>1, <2>2, <2>3, <2>4 DEF Decide
  <1>13. ASSUME Select(c) PROVE TypeOK'
    <2>1. repaired' \in [Callers -> BOOLEAN]
          BY <1>13 DEF Select
    <2> QED BY <1>4, <1>7, <1>13, <2>1
            DEF Select, Steps, Occupied, RunSteps, Checkpoints, JobStatus, Stages
  <1>14. ASSUME RecordFatal(c) PROVE TypeOK'
    <2>1. job[c] \in Jobs \cup {NoJob} /\ "JOB_FAILED" \in JobStatus
          BY DEF JobStatus, TERMINAL_STATUSES
    <2>2. CASE Fail(job[c], "JOB_FAILED")
          BY <1>14, <2>1, <2>2, FailTyped
             DEF RecordFatal, Goto, Steps, Occupied, fields, pipes, locals
    <2>3. CASE FailReading(job[c])
          BY <1>14, <2>1, <2>3, ReadingTyped
             DEF RecordFatal, Goto, Steps, Occupied, fields, pipes, locals
    <2>4. CASE ~Fail(job[c], "JOB_FAILED") /\ ~FailReading(job[c])
          BY <1>14, <2>1, <2>4 DEF RecordFatal, Set, Goto, Steps, Occupied, fields, pipes, locals
    <2> QED BY <2>2, <2>3, <2>4
  <1>15. ASSUME Return(c) PROVE TypeOK'
         BY <1>7, <1>15 DEF Return, Steps, Occupied
  <1> QED BY <1>1, <1>2, <1>3, <1>5, <1>6, <1>9, <1>10, <1>11, <1>12, <1>13, <1>14, <1>15 DEF Run

(* So does every step of an export or a recovery, *)
LEMMA ExportTyped ==
    ASSUME TypeOK, NEW c \in Callers, Export(c)
    PROVE  TypeOK'
  <1>1. ASSUME StartExport(c) PROVE TypeOK'
    <2>1. PICK j \in Jobs : Occupy(c, j) /\ job' = [job EXCEPT ![c] = j]
          BY <1>1 DEF StartExport
    <2>2. /\ Goto(c, "export") /\ "export" \in Steps
          /\ UNCHANGED <<at, checked, repaired>>
          /\ job' \in [Callers -> Jobs \cup {NoJob}]
          BY <1>1, <2>1 DEF StartExport, Steps, Occupied, TypeOK
    <2> QED BY <2>1, <2>2, OccupyTyped
  <1>2. ASSUME StartRecovery(c) PROVE TypeOK'
    <2>1. /\ Occupy(c, NoJob) /\ Goto(c, "recover") /\ "recover" \in Steps
          /\ UNCHANGED <<at, checked, repaired>>
          /\ job' \in [Callers -> Jobs \cup {NoJob}]
          BY <1>2 DEF StartRecovery, Steps, Occupied, TypeOK, locals
    <2> QED BY <2>1, OccupyTyped
  <1> DEFINE StoreTyped == /\ status' \in [Jobs -> JobStatus \cup {"ABSENT"}]
                           /\ staging' \in [Jobs -> BOOLEAN]
                           /\ lost' \in [Jobs -> {"none", "call", "rendering"}]
                           /\ faults' \in 0 .. MaxFaults
  <1>3. ASSUME StoreTyped, ExportStep(c), NEW step \in Steps, Goto(c, step) PROVE TypeOK'
        BY <1>3 DEF TypeOK, ExportStep, Goto, fields, pipes, locals
  <1>4. job[c] \in Jobs \cup {NoJob} /\ {"EXPORTING", "COMPLETED"} \subseteq JobStatus
        BY DEF TypeOK, JobStatus, Stages, TERMINAL_STATUSES
  <1>5. {"finish", "commitExport"} \subseteq Steps
        BY DEF Steps, Occupied
  <1>6. ASSUME BeginExport(c) PROVE TypeOK'
    <2>1. CASE Fail(job[c], "EXPORTING") /\ UNCHANGED staging
          BY <1>3, <1>4, <1>5, <1>6, <2>1, FailTyped DEF BeginExport, TypeOK
    <2>2. CASE ~(Fail(job[c], "EXPORTING") /\ UNCHANGED staging)
      <3>1. StoreTyped
        <4>1. CASE UNCHANGED store
              BY <4>1 DEF TypeOK, store
        <4>2. CASE /\ Set(job[c], "EXPORTING")
                   /\ staging' = [staging EXCEPT ![job[c]] = TRUE]
                   /\ UNCHANGED <<lost, faults>>
              BY <1>4, <4>2 DEF TypeOK, Set
        <4> QED BY <1>6, <2>2, <4>1, <4>2 DEF BeginExport
      <3> QED BY <1>3, <1>5, <1>6, <3>1 DEF BeginExport
    <2> QED BY <2>1, <2>2
  <1>7. ASSUME CommitExport(c) PROVE TypeOK'
    <2>1. staging' \in [Jobs -> BOOLEAN]
          BY <1>7 DEF CommitExport, TypeOK, store
    <2>2. CASE Fail(job[c], "COMPLETED")
          BY <1>3, <1>4, <1>5, <1>7, <2>1, <2>2, FailTyped DEF CommitExport
    <2>3. CASE ~Fail(job[c], "COMPLETED")
      <3>1. StoreTyped
            BY <1>4, <1>7, <2>1, <2>3 DEF CommitExport, TypeOK, Set, store
      <3> QED BY <1>3, <1>5, <1>7, <3>1 DEF CommitExport
    <2> QED BY <2>2, <2>3
  <1>8. ASSUME Recover(c) PROVE TypeOK'
    <2>1. StoreTyped
      <3>1. CASE UNCHANGED store
            BY <3>1 DEF TypeOK, store
      <3>2. ASSUME NEW j \in Jobs,
                   Set(j, "COMPLETED") \/ UNCHANGED status,
                   NEW known \in {FALSE, status'[j] = "EXPORTING"},
                   staging' = [staging EXCEPT ![j] = known],
                   UNCHANGED <<lost, faults>>
            PROVE StoreTyped
        <4>1. known \in BOOLEAN
              OBVIOUS
        <4> QED BY <1>4, <3>2, <4>1 DEF TypeOK, Set
      <3> QED BY <1>8, <3>1, <3>2 DEF Recover
    <2> QED BY <1>3, <1>5, <1>8, <2>1 DEF Recover
  <1> QED BY <1>1, <1>2, <1>6, <1>7, <1>8 DEF Export

(* the loss of an export holder, *)
LEMMA DropTyped ==
    ASSUME TypeOK, DropHolder
    PROVE  TypeOK'
  BY DEF TypeOK, DropHolder, fields, pipes, locals

(* What every operation does to its caller's local variables on return. *)
LEMMA LeaveTyped ==
    ASSUME TypeOK, NEW c \in Callers, Leave(c)
    PROVE  /\ pc' \in [Callers -> Steps]
           /\ job' \in [Callers -> Jobs \cup {NoJob}]
           /\ at' \in [Callers -> JobStatus \cup {"ABSENT"}]
           /\ checked' \in [Callers -> BOOLEAN]
           /\ repaired' \in [Callers -> BOOLEAN]
  BY DEF TypeOK, Leave, Goto, Steps

(* the end of what held the run lock, *)
LEMMA FinishTyped ==
    ASSUME TypeOK, NEW c \in Callers, FinishRun(c)
    PROVE  TypeOK'
  <1>1. CASE pc[c] = "finish"
    <2>1. ClearActive /\ Goto(c, "release") /\ UNCHANGED <<runLock, pipes, store, closing, locals>>
          BY <1>1 DEF FinishRun
    <2> QED BY <2>1 DEF TypeOK, ClearActive, Goto, Steps, pipes, store, locals
  <1>2. CASE pc[c] = "release"
    <2>1. /\ runLock' = NoCaller /\ Leave(c)
          /\ UNCHANGED <<fields, pipes, store, closing>>
          BY <1>2 DEF FinishRun
    <2> QED BY <2>1, LeaveTyped DEF TypeOK, fields, pipes, store
  <1> QED BY <1>1, <1>2 DEF FinishRun

(* every step of a cancellation, *)
LEMMA CancelOperationTyped ==
    ASSUME TypeOK, NEW c \in Callers, Cancel(c)
    PROVE  TypeOK'
  <1>1. ASSUME StartCancel(c) PROVE TypeOK'
        BY <1>1 DEF StartCancel, TypeOK, Goto, Steps, fields, pipes, store
  <1>2. ASSUME CancelJob(c) PROVE TypeOK'
    <2>1. job[c] \in Jobs \cup {NoJob}
          BY DEF TypeOK
    <2>2. /\ reason' \in {"none", "user", "closed"}
          /\ status' \in [Jobs -> JobStatus \cup {"ABSENT"}]
          /\ staging' \in [Jobs -> BOOLEAN]
          /\ lost' \in [Jobs -> {"none", "call", "rendering"}]
          /\ faults' \in 0 .. MaxFaults
          BY <1>2, <2>1, CancelTyped DEF CancelJob, TypeOK
    <2>3. \/ Leave(c)
          \/ pc' \in [Callers -> Steps] /\ UNCHANGED locals
          BY <1>2 DEF CancelJob, Goto, Steps, TypeOK
    <2>4. CASE Leave(c)
          BY <1>2, <2>2, <2>4, LeaveTyped DEF CancelJob, TypeOK, pipes
    <2>5. CASE pc' \in [Callers -> Steps] /\ UNCHANGED locals
          BY <1>2, <2>2, <2>5 DEF CancelJob, TypeOK, pipes, locals
    <2> QED BY <2>3, <2>4, <2>5
  <1>3. ASSUME Signal(c) PROVE TypeOK'
    <2>1. /\ pc' \in [Callers -> Steps]
          /\ job' \in [Callers -> Jobs \cup {NoJob}]
          /\ at' \in [Callers -> JobStatus \cup {"ABSENT"}]
          /\ checked' \in [Callers -> BOOLEAN]
          /\ repaired' \in [Callers -> BOOLEAN]
          BY <1>3, LeaveTyped DEF Signal
    <2>2. /\ reason' \in {"none", "user", "closed"} /\ event' \in BOOLEAN
          /\ UNCHANGED <<closed, readiness, active, runLock, pipe, open, loads,
                         status, staging, lost, faults, closing>>
          BY <1>3 DEF Signal, TypeOK, pipes, store
    <2> QED BY <2>1, <2>2 DEF TypeOK
  <1> QED BY <1>1, <1>2, <1>3 DEF Cancel

(* of a reopening, *)
LEMMA ReopenTyped ==
    ASSUME TypeOK, NEW c \in Callers, Reopen(c)
    PROVE  TypeOK'
  <1>1. ASSUME StartReopen(c) PROVE TypeOK'
        BY <1>1 DEF StartReopen, TypeOK, Goto, Steps, fields, pipes, store, locals
  <1>2. ASSUME LoadPipeline(c) PROVE TypeOK'
    <2>1. pipe' \in 1 .. MaxLoads /\ loads' \in 1 .. MaxLoads /\ open' \subseteq 1 .. MaxLoads
      <3>1. CASE UNCHANGED pipes
            BY <3>1 DEF TypeOK, pipes
      <3>2. CASE /\ loads < MaxLoads /\ loads' = loads + 1
                 /\ open' = open \cup {loads + 1} /\ UNCHANGED pipe
        <4>1. loads + 1 \in 1 .. MaxLoads
              BY <3>2, LoadsAssumption DEF TypeOK
        <4> QED BY <3>2, <4>1 DEF TypeOK
      <3> QED BY <1>2, <3>1, <3>2 DEF LoadPipeline
    <2> QED BY <1>2, <2>1 DEF LoadPipeline, TypeOK, Goto, Steps, fields, store, locals
  <1>3. ASSUME Install(c) PROVE TypeOK'
        BY <1>3 DEF Install, TypeOK, Goto, Steps, store, locals
  <1>4. ASSUME FinishReopen(c) PROVE TypeOK'
        BY <1>4, LeaveTyped DEF FinishReopen, TypeOK, fields, pipes, store
  <1> QED BY <1>1, <1>2, <1>3, <1>4 DEF Reopen

(* and of a close. *)
LEMMA CloseTyped ==
    ASSUME TypeOK, NEW c \in Callers, Close(c)
    PROVE  TypeOK'
  <1>1. ASSUME StartClose(c) PROVE TypeOK'
    <2>1. pc' \in [Callers -> Steps]
          BY <1>1 DEF StartClose, TypeOK, Goto, Steps, CloseSteps
    <2> QED BY <1>1, <2>1 DEF StartClose, TypeOK, pipes, store, locals
  <1>2. ASSUME CloseWait(c) PROVE TypeOK'
        BY <1>2, LeaveTyped DEF CloseWait, TypeOK, fields, pipes, store
  <1>3. ASSUME ClosePeek(c) PROVE TypeOK'
    <2>1. faults' \in 0 .. MaxFaults
          BY <1>3, FaultsAssumption DEF ClosePeek, TypeOK
    <2>2. pc' \in [Callers -> Steps]
          BY <1>3 DEF ClosePeek, TypeOK, Goto, Steps, CloseSteps
    <2> QED BY <1>3, <2>1, <2>2 DEF ClosePeek, CloseStep, TypeOK, pipes, locals
  <1>4. closing.job \in Jobs \cup {NoJob}
        BY DEF TypeOK
  <1>5. ASSUME NEW result \in Outcomes, CancelDurable(closing.job, "closed", result)
        PROVE  /\ reason' \in {"none", "user", "closed"}
               /\ status' \in [Jobs -> JobStatus \cup {"ABSENT"}]
               /\ staging' \in [Jobs -> BOOLEAN]
               /\ lost' \in [Jobs -> {"none", "call", "rendering"}]
               /\ faults' \in 0 .. MaxFaults
        BY <1>4, <1>5, CancelTyped DEF TypeOK
  <1>6. ASSUME CloseCancel(c) PROVE TypeOK'
    <2>1. PICK result \in Outcomes :
             /\ CancelDurable(closing.job, "closed", result)
             /\ closing' = [closing EXCEPT !.error = @ \/ result = "error"]
             /\ Goto(c, IF result = "done" THEN "closeSignal" ELSE "closeLock")
          BY <1>6 DEF CloseCancel
    <2>2. /\ reason' \in {"none", "user", "closed"}
          /\ status' \in [Jobs -> JobStatus \cup {"ABSENT"}]
          /\ staging' \in [Jobs -> BOOLEAN]
          /\ lost' \in [Jobs -> {"none", "call", "rendering"}]
          /\ faults' \in 0 .. MaxFaults
          BY <1>5, <2>1
    <2>3. pc' \in [Callers -> Steps]
          BY <2>1 DEF TypeOK, Goto, Steps, CloseSteps
    <2> QED BY <1>6, <2>1, <2>2, <2>3 DEF CloseCancel, CloseStep, TypeOK, pipes, locals
  <1>7. ASSUME CloseSignal(c) PROVE TypeOK'
    <2>1. pc' \in [Callers -> Steps]
          BY <1>7 DEF CloseSignal, TypeOK, Goto, Steps, CloseSteps
    <2>2. /\ reason' \in {"none", "user", "closed"} /\ event' \in BOOLEAN
          /\ UNCHANGED <<closed, readiness, active, runLock, pipe, open, loads,
                         status, staging, lost, faults, closing, job, at, checked, repaired>>
          BY <1>7 DEF CloseSignal, CloseStep, TypeOK, pipes, store, locals
    <2> QED BY <2>1, <2>2 DEF TypeOK
  <1>8. ASSUME CloseLock(c) PROVE TypeOK'
        BY <1>8 DEF CloseLock, TypeOK, Goto, Steps, CloseSteps, fields, pipes, store, locals
  <1>9. ASSUME CloseAgain(c) PROVE TypeOK'
    <2>1. CASE closing.job = NoJob
          BY <1>9, <2>1
             DEF CloseAgain, CloseStep, TypeOK, Goto, Steps, CloseSteps, pipes, store, locals
    <2>2. CASE closing.job # NoJob
      <3>1. PICK result \in Outcomes :
               /\ CancelDurable(closing.job, "closed", result)
               /\ closing' = [closing EXCEPT !.error = @ \/ result = "error"]
            BY <1>9, <2>2 DEF CloseAgain
      <3> QED BY <1>5, <1>9, <3>1
              DEF CloseAgain, CloseStep, TypeOK, Goto, Steps, CloseSteps, pipes, locals
    <2> QED BY <2>1, <2>2
  <1>10. ASSUME CloseResources(c) PROVE TypeOK'
         BY <1>10, LeaveTyped DEF CloseResources, TypeOK, fields, store
  <1> QED BY <1>1, <1>2, <1>3, <1>6, <1>7, <1>8, <1>9, <1>10 DEF Close

(* Every step preserves the types. *)
LEMMA TypePreserved == TypeOK /\ [Next]_vars => TypeOK'
  <1>1. ASSUME TypeOK, UNCHANGED vars PROVE TypeOK'
        BY <1>1 DEF TypeOK, vars, fields, pipes, store, locals
  <1> QED BY <1>1, RunTyped, ExportTyped, DropTyped, FinishTyped, CancelOperationTyped,
             ReopenTyped, CloseTyped DEF Next, Act

-----------------------------------------------------------------------------
(* One caller holds the run lock, and it is the one runLock names. *)
LockHeld == \A c \in Callers : pc[c] \in Holding => runLock = c

(* A runtime that takes work has an open pipeline, and keeps it open until *)
(* the work is done or an out-of-memory has ended it.  Every other open    *)
(* pipeline is one that a reopening, of a runtime without an open one, is  *)
(* about to install.                                                       *)
Pipelines ==
    /\ pipe <= loads
    /\ readiness = "QUARANTINED" => pipe \notin open
    /\ \A c \in Callers :
          pc[c] \in {"reopen", "install"} => readiness \in {"QUARANTINED", "CLOSED"}
    /\ readiness \in {"READY", "BUSY"} => pipe \in open
    /\ \A c \in Callers : pc[c] \in Checkpoints => pipe \in open
    /\ \A c \in Callers : pc[c] = "install" => loads \in open
    /\ \A p \in open : p = pipe \/ (p = loads /\ \E c \in Callers : pc[c] = "install")

(* One caller closes the runtime, and once it has nobody holds the lock.   *)
OneCloser ==
    /\ \A c \in Callers :
          pc[c] \in Closing =>
              closed /\ ~closing.done /\ \A d \in Callers : pc[d] \in Closing => c = d
    /\ closing.done => closed /\ open = {} /\ \A c \in Callers : pc[c] \notin Holding

Safety == LockHeld /\ OwnsRuntime /\ Pipelines /\ OneCloser

IInv == TypeOK /\ Safety

(* The invariant holds initially. *)
LEMMA InitInvariant == Init => IInv
  <1> SUFFICES ASSUME Init PROVE TypeOK /\ Safety
      BY DEF IInv
  <1>1. TypeOK
    <2>1. 1 \in 1 .. MaxLoads /\ 0 \in 0 .. MaxFaults
          BY LoadsAssumption, FaultsAssumption
    <2>2. "idle" \in Steps
          BY DEF Steps
    <2> QED BY <2>1, <2>2 DEF Init, TypeOK
  <1>2. Safety
        BY DEF Init, Safety, LockHeld, OwnsRuntime, Pipelines, OneCloser, Holding, Occupied,
               RunSteps, Checkpoints, Closing, CloseSteps
  <1> QED BY <1>1, <1>2

(* Nothing that Safety speaks of has changed. *)
LEMMA StutterSafe ==
    ASSUME Safety, UNCHANGED <<closed, readiness, active, runLock, pipes, closing, pc, job>>
    PROVE  Safety'
  BY DEF Safety, LockHeld, OwnsRuntime, Pipelines, OneCloser, pipes

(* What a caller may do without taking or returning the run lock and       *)
(* without touching the pipeline: go on with the kind of work it is doing. *)
GoesOn(c, step) ==
    /\ step \in Holding => pc[c] \in Holding
    /\ step \in Occupied => pc[c] \in Occupied /\ job'[c] = job[c]
    /\ step \in Occupied \ {"finish"} =>
           pc[c] # "finish" /\ (step = "recover" <=> pc[c] = "recover")
    /\ step \in Checkpoints => pc[c] \in Checkpoints
    /\ step \in {"reopen", "install"} <=> pc[c] \in {"reopen", "install"}
    /\ step = "install" <=> pc[c] = "install"
    /\ step \in Closing => pc[c] \in Closing

(* A step that only goes on preserves Safety. *)
LEMMA QuietSafe ==
    ASSUME TypeOK, Safety, NEW c \in Callers, NEW step, Goto(c, step), GoesOn(c, step),
           UNCHANGED <<closed, readiness, active, runLock, pipes>>,
           closing'.done = closing.done,
           \A d \in Callers \ {c} : job'[d] = job[d]
    PROVE  Safety'
  <1> USE DEF GoesOn
  <1>1. /\ pc'[c] = step
        /\ \A d \in Callers \ {c} : pc'[d] = pc[d]
        BY DEF TypeOK, Goto
  <1>2. LockHeld'
        BY <1>1 DEF Safety, LockHeld
  <1>3. OwnsRuntime'
        BY <1>1 DEF Safety, OwnsRuntime
  <1>4. Pipelines'
        BY <1>1 DEF Safety, Pipelines, pipes
  <1>5. OneCloser'
        BY <1>1 DEF Safety, OneCloser, pipes
  <1> QED BY <1>2, <1>3, <1>4, <1>5 DEF Safety

(* A run, export or recovery begins. *)
LEMMA OccupySafe ==
    ASSUME TypeOK, Safety, NEW c \in Callers, NEW j, NEW step \in {"prepare", "export", "recover"},
           Occupy(c, j), Goto(c, step),
           IF step = "recover" THEN j = NoJob ELSE job'[c] = j,
           \A d \in Callers \ {c} : job'[d] = job[d]
    PROVE  Safety'
  <1>1. /\ pc'[c] = step
        /\ \A d \in Callers \ {c} : pc'[d] = pc[d]
        BY DEF TypeOK, Goto
  <1>2. \A d \in Callers : pc[d] \notin Holding
        BY SentinelAssumption DEF Safety, LockHeld, Occupy
  <1>3. Occupied \subseteq Holding /\ Checkpoints \subseteq Holding
        /\ {"reopen", "install"} \subseteq Holding
        BY DEF Holding, Occupied, RunSteps
  <1>4. LockHeld'
        BY <1>1, <1>2 DEF LockHeld, Occupy
  <1>5. OwnsRuntime'
        BY <1>1, <1>2, <1>3 DEF OwnsRuntime, Occupy, Occupied
  <1>6. Pipelines'
        BY <1>1, <1>2, <1>3 DEF Safety, Pipelines, Occupy, pipes
  <1>7. step \notin Closing /\ ~closed
        BY DEF Closing, CloseSteps, Occupy
  <1>8. OneCloser'
        BY <1>1, <1>7 DEF Safety, OneCloser, Occupy, pipes
  <1> QED BY <1>4, <1>5, <1>6, <1>8 DEF Safety

(* An out-of-memory ends a run's work on the pipeline. *)
LEMMA QuarantineSafe ==
    ASSUME TypeOK, Safety, NEW c \in Callers, pc[c] \in {"generate", "verify"}, Quarantine(c),
           UNCHANGED <<runLock, closing, job>>
    PROVE  Safety'
  <1>1. /\ pc'[c] = "fatal"
        /\ \A d \in Callers \ {c} : pc'[d] = pc[d]
        BY DEF TypeOK, Goto, Quarantine
  <1>2. pc[c] \in Holding /\ pc[c] \in Occupied /\ "fatal" \in Occupied /\ "fatal" \in Holding
        BY DEF Holding, Occupied, RunSteps, Checkpoints
  <1>3. \A d \in Callers \ {c} : pc[d] \notin Holding
        BY <1>2 DEF Safety, LockHeld
  <1>4. Occupied \subseteq Holding /\ Checkpoints \subseteq Holding
        /\ {"reopen", "install"} \subseteq Holding
        BY DEF Holding, Occupied, RunSteps
  <1>5. LockHeld'
        BY <1>1, <1>2, <1>3 DEF Safety, LockHeld
  <1>6. OwnsRuntime'
    <2>1. readiness' # "READY"
          BY <1>2 DEF Quarantine, Safety, OwnsRuntime
    <2>2. pc[c] # "recover" /\ pc[c] # "finish"
          OBVIOUS
    <2> QED BY <1>1, <1>2, <1>3, <1>4, <2>1, <2>2 DEF Safety, OwnsRuntime, Quarantine
  <1>7. Pipelines'
    <2>1. readiness' \notin {"READY", "BUSY"}
          BY DEF Quarantine, TypeOK
    <2>2. open' = open \ {pipe} /\ UNCHANGED <<pipe, loads>>
          BY DEF Quarantine
    <2>3. \A d \in Callers : pc'[d] \notin Checkpoints /\ pc'[d] # "install"
          BY <1>1, <1>3, <1>4 DEF Checkpoints
    <2>4. pc[c] # "install"
          OBVIOUS
    <2> QED BY <1>1, <1>3, <1>4, <2>1, <2>2, <2>3, <2>4 DEF Safety, Pipelines
  <1>8. OneCloser'
    <2>1. "fatal" \notin Closing /\ pc[c] \notin Closing
          BY DEF Closing, CloseSteps
    <2>2. ~closing.done
          BY <1>2 DEF Safety, OneCloser
    <2> QED BY <1>1, <2>1, <2>2 DEF Safety, OneCloser, Quarantine
  <1> QED BY <1>5, <1>6, <1>7, <1>8 DEF Safety

(* Every step of a run. *)
LEMMA RunSafe ==
    ASSUME TypeOK, Safety, NEW c \in Callers, Run(c)
    PROVE  Safety'
  <1> DEFINE Keep == /\ UNCHANGED <<closed, readiness, active, runLock, pipes, job>>
                     /\ closing' = closing
  <1>1. ASSUME NEW step \in RunSteps \cup {"finish"}, pc[c] \in RunSteps, Goto(c, step), Keep,
               step \in Checkpoints => pc[c] \in Checkpoints
        PROVE Safety'
    <2>1. GoesOn(c, step)
          BY <1>1 DEF GoesOn, Holding, Occupied, RunSteps, Checkpoints, Closing, CloseSteps
    <2> QED BY <1>1, <2>1, QuietSafe
  <1>2. ASSUME StartRun(c) PROVE Safety'
    <2>1. PICK j \in Jobs : Occupy(c, j) /\ job' = [job EXCEPT ![c] = j]
          BY <1>2 DEF StartRun
    <2>2. job'[c] = j /\ \A d \in Callers \ {c} : job'[d] = job[d]
          BY <2>1 DEF TypeOK
    <2> QED BY <1>2, <2>1, <2>2, OccupySafe DEF StartRun
  <1>3. ASSUME Checkpoint(c) PROVE Safety'
    <2>1. Keep /\ pc[c] \in Checkpoints
          BY <1>3 DEF Checkpoint
    <2>2. Goto(c, "finish") \/ UNCHANGED pc
          BY <1>3 DEF Checkpoint
    <2> QED BY <1>1, <2>1, <2>2, StutterSafe DEF RunSteps
  <1>4. ASSUME NEW from \in Checkpoints, RunStep(c, from), NEW next \in RunSteps \cup {"finish"},
               Goto(c, next) \/ Goto(c, "finish"), UNCHANGED <<fields, pipes>>
        PROVE Safety'
        BY <1>1, <1>4 DEF RunStep, RunSteps, fields
  <1>5. ASSUME NEW from \in Checkpoints, RunStep(c, from), NEW to,
               NEW next \in RunSteps \cup {"finish"}, Record(c, to, next)
        PROVE Safety'
        BY <1>4, <1>5 DEF Record
  <1>6. ASSUME NEW from \in Checkpoints, RunStep(c, from),
               NEW next \in RunSteps \cup {"finish"}, Work(c, next)
        PROVE Safety'
        BY <1>4, <1>6 DEF Work, fields
  <1>7. ASSUME NEW from \in {"generate", "verify"}, RunStep(c, from), Quarantine(c) PROVE Safety'
        BY <1>7, QuarantineSafe DEF RunStep
  <1>8. ASSUME Prepare(c) \/ Create(c) \/ RecordStart(c) PROVE Safety'
        BY <1>5, <1>6, <1>8 DEF Prepare, Create, RecordStart, RunSteps, Checkpoints
  <1>9. ASSUME Generate(c) \/ FinishAttempt(c) \/ Verify(c) PROVE Safety'
    <2>1. ASSUME RunStep(c, "generate"), LeaveUnrendered(c) PROVE Safety'
          BY <1>4, <2>1 DEF LeaveUnrendered, Checkpoints
    <2> QED BY <1>5, <1>6, <1>7, <1>9, <2>1 DEF Generate, FinishAttempt, Verify, RunSteps, Checkpoints
  <1>10. ASSUME Decide(c) \/ Select(c) PROVE Safety'
         BY <1>4, <1>5, <1>6, <1>10 DEF Decide, Select, RunSteps, Checkpoints
  <1>11. ASSUME RecordFatal(c) PROVE Safety'
         BY <1>1, <1>11 DEF RecordFatal, RunSteps, Checkpoints, fields, locals
  <1>12. ASSUME Return(c) PROVE Safety'
         BY <1>6, <1>12 DEF Return, Checkpoints
  <1> QED BY <1>2, <1>3, <1>8, <1>9, <1>10, <1>11, <1>12 DEF Run

(* Every step of an export, a recovery or a cancellation. *)
LEMMA ExportSafe ==
    ASSUME TypeOK, Safety, NEW c \in Callers, Export(c)
    PROVE  Safety'
  <1>1. ASSUME StartExport(c) PROVE Safety'
    <2>1. PICK j \in Jobs : Occupy(c, j) /\ job' = [job EXCEPT ![c] = j]
          BY <1>1 DEF StartExport
    <2>2. job'[c] = j /\ \A d \in Callers \ {c} : job'[d] = job[d]
          BY <2>1 DEF TypeOK
    <2> QED BY <1>1, <2>1, <2>2, OccupySafe DEF StartExport
  <1>2. ASSUME StartRecovery(c) PROVE Safety'
        BY <1>2, OccupySafe DEF StartRecovery, locals
  <1>3. ASSUME NEW step \in {"commitExport", "finish"}, Goto(c, step), ExportStep(c),
               pc[c] \in {"export", "commitExport", "recover"},
               step = "commitExport" => pc[c] = "export"
        PROVE Safety'
    <2>1. GoesOn(c, step)
          BY <1>3 DEF GoesOn, Holding, Occupied, RunSteps, Checkpoints, Closing, CloseSteps,
                      ExportStep, locals
    <2> QED BY <1>3, <2>1, QuietSafe DEF ExportStep, fields, locals
  <1>4. ASSUME BeginExport(c) PROVE Safety'
        BY <1>3, <1>4 DEF BeginExport
  <1>5. ASSUME CommitExport(c) \/ Recover(c) PROVE Safety'
        BY <1>3, <1>5 DEF CommitExport, Recover
  <1> QED BY <1>1, <1>2, <1>4, <1>5 DEF Export

(* A cancellation takes neither the lock nor the pipeline. *)
LEMMA CancelSafe ==
    ASSUME TypeOK, Safety, NEW c \in Callers, Cancel(c)
    PROVE  Safety'
  <1>1. PICK step \in {"idle", "cancel", "signal"} : Goto(c, step)
        BY DEF Cancel, StartCancel, CancelJob, Signal, Leave
  <1>2. pc[c] \notin Occupied /\ pc[c] \notin {"reopen", "install"}
        BY DEF Cancel, StartCancel, CancelJob, Signal, Occupied, RunSteps, Checkpoints
  <1>3. \A d \in Callers \ {c} : job'[d] = job[d]
        BY DEF Cancel, StartCancel, CancelJob, Signal, Leave, TypeOK, locals
  <1>4. GoesOn(c, step)
        BY <1>1, <1>2 DEF GoesOn, Holding, Occupied, RunSteps, Checkpoints, Closing, CloseSteps
  <1>5. UNCHANGED <<closed, readiness, active, runLock, pipes, closing>>
        BY DEF Cancel, StartCancel, CancelJob, Signal, fields
  <1> QED BY <1>1, <1>3, <1>4, <1>5, QuietSafe

(* The holder of the run lock is alone: whatever it does to the pipeline   *)
(* or the lock, nobody else is working.                                    *)
LEMMA HolderAlone ==
    ASSUME Safety, NEW c \in Callers, pc[c] \in Holding
    PROVE  /\ runLock = c /\ ~closing.done
           /\ \A d \in Callers \ {c} :
                 pc[d] \notin Holding /\ pc[d] \notin Occupied /\ pc[d] \notin Checkpoints
                 /\ pc[d] # "install" /\ pc[d] # "reopen"
  <1>1. "reopen" \in Holding /\ Occupied \subseteq Holding /\ Checkpoints \subseteq Holding /\ "install" \in Holding
        BY DEF Holding, Occupied, RunSteps
  <1> QED BY <1>1 DEF Safety, LockHeld, OneCloser

(* A step of the holder that ends its work or only prepares other work.    *)
LEMMA HolderSafe ==
    ASSUME TypeOK, Safety, NEW c \in Callers, pc[c] \in Holding,
           NEW step, step \notin Occupied, Goto(c, step),
           step \in Holding => UNCHANGED runLock,
           \A p \in open' : p = pipe' \/ (p = loads' /\ step = "install"),
           step = "install" => loads' \in open',
           pipe' <= loads',
           readiness' \in {"READY", "BUSY"} => pipe' \in open',
           readiness' = "QUARANTINED" => pipe' \notin open',
           step \in {"reopen", "install"} => readiness' \in {"QUARANTINED", "CLOSED"},
           step \in Closing => pc[c] \in Closing,
           UNCHANGED closed,
           closing'.done =>
               closed /\ open' = {} /\ step \notin Holding \cup Closing /\ pc[c] \in Closing
    PROVE  Safety'
  <1>1. /\ pc'[c] = step
        /\ \A d \in Callers \ {c} : pc'[d] = pc[d]
        BY DEF TypeOK, Goto
  <1>2. step \notin Checkpoints /\ (step = "install" => step \in Holding)
        BY DEF Occupied, RunSteps, Holding
  <1>3. LockHeld'
        BY <1>1, HolderAlone DEF LockHeld
  <1>4. OwnsRuntime'
        BY <1>1, HolderAlone DEF OwnsRuntime
  <1>5. Pipelines'
        BY <1>1, <1>2, HolderAlone DEF Pipelines
  <1>6. OneCloser'
    <2>1. ASSUME NEW d \in Callers, pc'[d] \in Closing
          PROVE  pc[d] \in Closing /\ closed /\ \A e \in Callers : pc'[e] \in Closing => d = e
          BY <1>1, <2>1 DEF Safety, OneCloser
    <2>2. ASSUME NEW d \in Callers, pc'[d] \in Closing
          PROVE  ~closing'.done
      <3>1. d # c => pc[d] \in Closing
            BY <1>1, <2>2
      <3> QED BY <1>1, <2>2, <3>1 DEF Safety, OneCloser
    <2>3. closing'.done => closed' /\ open' = {} /\ \A d \in Callers : pc'[d] \notin Holding
          BY <1>1, HolderAlone
    <2> QED BY <2>1, <2>2, <2>3 DEF OneCloser
  <1> QED BY <1>3, <1>4, <1>5, <1>6 DEF Safety

(* The holder clears the state while it still has the lock. *)
LEMMA FinishSafe ==
    ASSUME TypeOK, Safety, NEW c \in Callers, FinishRun(c)
    PROVE  Safety'
  <1>1. pc[c] \in Holding /\ pc[c] \notin {"install"} /\ pc[c] \notin Closing
        BY DEF FinishRun, Holding, Occupied, Closing, CloseSteps
  <1>2. PICK step \in {"release", "idle"} :
           /\ Goto(c, step)
           /\ step = "release" => UNCHANGED runLock
           /\ step = "release" \/ UNCHANGED fields
        BY DEF FinishRun, Leave
  <1>3. step \notin Occupied /\ step \notin Closing /\ step # "install" /\ "idle" \notin Holding
        BY DEF Occupied, RunSteps, Checkpoints, Closing, CloseSteps, Holding
  <1>4. UNCHANGED <<closed, pipes, closing>>
        BY DEF FinishRun, ClearActive, fields
  <1>5. readiness' \in {"READY", "BUSY"} => readiness \in {"READY", "BUSY"}
        BY DEF FinishRun, ClearActive, fields
  <1>6. \A p \in open : p = pipe
        BY <1>1, HolderAlone DEF Safety, Pipelines
  <1>7. ~closing.done
        BY <1>1, HolderAlone
  <1>8. /\ readiness' \in {"READY", "BUSY"} => pipe' \in open'
        /\ readiness' = "QUARANTINED" => pipe' \notin open'
        /\ pipe' <= loads'
    <2>1. readiness' = "QUARANTINED" => readiness = "QUARANTINED"
          BY DEF FinishRun, ClearActive, fields
    <2> QED BY <1>4, <1>5, <2>1 DEF Safety, Pipelines, pipes
  <1> QED BY <1>1, <1>2, <1>3, <1>4, <1>6, <1>7, <1>8, HolderSafe DEF pipes

(* A reopening installs its pipeline in a runtime that has none. *)
LEMMA ReopenSafe ==
    ASSUME TypeOK, Safety, NEW c \in Callers, Reopen(c)
    PROVE  Safety'
  <1>0. /\ {"reopen", "install", "reopened"} \subseteq Holding
        /\ {"reopen", "install", "reopened", "idle"} \cap (Occupied \cup Closing) = {}
        BY DEF Holding, Occupied, RunSteps, Checkpoints, Closing, CloseSteps
  <1>1. ASSUME StartReopen(c) PROVE Safety'
    <2>1. /\ pc'[c] = "reopen"
          /\ \A d \in Callers \ {c} : pc'[d] = pc[d]
          BY <1>1 DEF StartReopen, TypeOK, Goto
    <2>2. \A d \in Callers : pc[d] \notin Holding
          BY <1>1, SentinelAssumption DEF Safety, LockHeld, StartReopen
    <2>3. "install" \in Holding /\ Occupied \subseteq Holding /\ Checkpoints \subseteq Occupied
          BY DEF Holding, Occupied, RunSteps
    <2>4. LockHeld'
          BY <1>1, <2>1, <2>2 DEF LockHeld, StartReopen
    <2>5. OwnsRuntime'
          BY <1>0, <2>1, <2>2, <2>3 DEF OwnsRuntime
    <2>6. Pipelines'
          BY <1>0, <1>1, <2>1, <2>2, <2>3 DEF Safety, Pipelines, StartReopen, fields, pipes
    <2>7. OneCloser'
          BY <1>0, <1>1, <2>1 DEF Safety, OneCloser, StartReopen, fields, pipes
    <2> QED BY <2>4, <2>5, <2>6, <2>7 DEF Safety
  <1>2. ASSUME LoadPipeline(c) PROVE Safety'
    <2>1. pc[c] = "reopen" /\ UNCHANGED <<fields, runLock, closing, pipe>>
          BY <1>2 DEF LoadPipeline, pipes
    <2>2. \A p \in open : p = pipe
          BY <1>0, <2>1, HolderAlone DEF Safety, Pipelines
    <2>3. PICK step \in {"install", "reopened"} :
             /\ Goto(c, step)
             /\ \/ step = "install" /\ loads' = loads + 1 /\ open' = open \cup {loads'}
                \/ step = "reopened" /\ UNCHANGED pipes
          BY <1>2 DEF LoadPipeline
    <2>4. /\ readiness' \in {"READY", "BUSY"} => pipe' \in open'
          /\ readiness' = "QUARANTINED" => pipe' \notin open'
          /\ pipe' <= loads'
          /\ readiness' \in {"QUARANTINED", "CLOSED"}
          BY <2>1, <2>3 DEF TypeOK, Safety, Pipelines, fields, pipes
    <2>5. ~closing.done
          BY <1>0, <2>1, HolderAlone
    <2> QED BY <1>0, <2>1, <2>2, <2>3, <2>4, <2>5, HolderSafe DEF fields, pipes
  <1>3. ASSUME Install(c) PROVE Safety'
    <2>1. /\ pc[c] = "install" /\ Goto(c, "reopened") /\ UNCHANGED <<closed, runLock, closing>>
          /\ IF closed
             THEN open' = open \ {loads} /\ UNCHANGED <<pipe, readiness>>
             ELSE pipe' = loads /\ readiness' = "READY" /\ UNCHANGED open
          BY <1>3 DEF Install
    <2>2. /\ readiness' \in {"READY", "BUSY"} => pipe' \in open'
          /\ readiness' = "QUARANTINED" => pipe' \notin open'
          /\ pipe' <= loads'
          /\ UNCHANGED loads
          BY <1>3, <2>1 DEF Install, TypeOK, Safety, Pipelines
    <2>5. ~closed => pipe \notin open
          BY <2>1 DEF TypeOK, Safety, Pipelines
    <2>3. \A p \in open' : p = pipe'
          BY <1>0, <2>1, <2>5, HolderAlone DEF Safety, Pipelines
    <2>4. ~closing.done
          BY <1>0, <2>1, HolderAlone
    <2> QED BY <1>0, <2>1, <2>2, <2>3, <2>4, HolderSafe
  <1>4. ASSUME FinishReopen(c) PROVE Safety'
    <2>1. /\ pc[c] = "reopened" /\ Goto(c, "idle")
          /\ UNCHANGED <<fields, pipes, closing>>
          BY <1>4 DEF FinishReopen, Leave
    <2>2. \A p \in open : p = pipe
          BY <1>0, <2>1, HolderAlone DEF Safety, Pipelines
    <2>3. ~closing.done /\ "idle" \notin Holding
          BY <1>0, <2>1, HolderAlone DEF Holding, Occupied, RunSteps, Checkpoints
    <2>4. /\ readiness' \in {"READY", "BUSY"} => pipe' \in open'
          /\ readiness' = "QUARANTINED" => pipe' \notin open'
          /\ pipe' <= loads'
          BY <2>1 DEF Safety, Pipelines, fields, pipes
    <2> QED BY <1>0, <2>1, <2>2, <2>3, <2>4, HolderSafe DEF fields, pipes
  <1> QED BY <1>1, <1>2, <1>3, <1>4 DEF Reopen

(* A close waits for the lock before it closes the pipeline. *)
LEMMA CloseSafe ==
    ASSUME TypeOK, Safety, NEW c \in Callers, Close(c)
    PROVE  Safety'
  <1>0. /\ {"idle", "closeWait"} \cap (Occupied \cup Closing \cup Holding) = {}
        /\ {"closePeek", "closeCancel", "closeSignal", "closeLock"} \cap (Occupied \cup Holding) = {}
        /\ {"closeAgain", "closeResources"} \subseteq Holding \cap Closing
        /\ {"closePeek", "closeCancel", "closeSignal", "closeLock"} \subseteq Closing
        /\ {"closeAgain", "closeResources"} \cap Occupied = {}
        /\ {"reopen", "install"} \subseteq Holding
        /\ Checkpoints \subseteq Occupied /\ Occupied \subseteq Holding
        BY DEF Occupied, Holding, RunSteps, Checkpoints, Closing, CloseSteps
  <1>1. ASSUME NEW step, Goto(c, step), closing'.done = closing.done,
               UNCHANGED <<closed, readiness, active, runLock, pipes>>,
               \A d \in Callers \ {c} : job'[d] = job[d],
               step \notin Occupied, step \in Holding => pc[c] \in Holding,
               step \in Closing => pc[c] \in Closing,
               step \notin {"reopen", "install"}, pc[c] \notin {"reopen", "install"}
        PROVE Safety'
        BY <1>0, <1>1, QuietSafe DEF GoesOn
  <1>2. ASSUME StartClose(c) PROVE Safety'
    <2>1. CASE closed
          BY <1>0, <1>1, <1>2, <2>1 DEF StartClose, locals
    <2>2. CASE ~closed
      <3>1. PICK step \in {"closeLock", "closePeek"} : Goto(c, step)
            BY <1>2, <2>2 DEF StartClose
      <3>2. /\ pc'[c] = step /\ pc[c] = "idle"
            /\ \A d \in Callers \ {c} : pc'[d] = pc[d]
            BY <1>2, <3>1 DEF StartClose, TypeOK, Goto
      <3>3. /\ closed' /\ readiness' = "CLOSED" /\ closing'.done = closing.done
            /\ UNCHANGED <<active, runLock, pipe, open, loads, job>>
            BY <1>2, <2>2 DEF StartClose, TypeOK, pipes, locals
      <3>4. ~closing.done /\ \A d \in Callers : pc[d] \notin Closing
            BY <2>2 DEF Safety, OneCloser
      <3>5. LockHeld'
            BY <1>0, <3>2, <3>3 DEF Safety, LockHeld
      <3>6. OwnsRuntime'
            BY <1>0, <3>2, <3>3 DEF Safety, OwnsRuntime
      <3>7. Pipelines'
            BY <1>0, <3>2, <3>3 DEF Safety, Pipelines
      <3>8. OneCloser'
            BY <3>2, <3>3, <3>4 DEF OneCloser
      <3> QED BY <3>5, <3>6, <3>7, <3>8 DEF Safety
    <2> QED BY <2>1, <2>2
  <1>3. ASSUME CloseWait(c) PROVE Safety'
    <2>1. Goto(c, "idle") /\ pc[c] = "closeWait" /\ UNCHANGED <<fields, runLock, pipes, closing>>
          /\ \A d \in Callers \ {c} : job'[d] = job[d]
          BY <1>3 DEF CloseWait, Leave, TypeOK
    <2> QED BY <1>0, <1>1, <2>1 DEF fields
  <1>4. ASSUME ClosePeek(c) \/ CloseCancel(c) \/ CloseSignal(c) PROVE Safety'
    <2>1. PICK step \in {"closeSignal", "closeCancel", "closeLock"} : Goto(c, step)
          BY <1>4 DEF ClosePeek, CloseCancel, CloseSignal
    <2>2. /\ pc[c] \in {"closePeek", "closeCancel", "closeSignal"}
          /\ UNCHANGED <<closed, readiness, active, runLock, pipes, job>>
          BY <1>4 DEF ClosePeek, CloseCancel, CloseSignal, CloseStep, locals
    <2>3. closing'.done = closing.done
          BY <1>4 DEF ClosePeek, CloseCancel, CloseSignal, TypeOK
    <2> QED BY <1>0, <1>1, <2>1, <2>2, <2>3
  <1>5. ASSUME CloseLock(c) PROVE Safety'
    <2>1. /\ pc'[c] = "closeAgain" /\ pc[c] = "closeLock"
          /\ \A d \in Callers \ {c} : pc'[d] = pc[d]
          BY <1>5 DEF CloseLock, TypeOK, Goto
    <2>2. /\ runLock' = c /\ UNCHANGED <<closed, readiness, active, pipe, open, loads, closing, job>>
          BY <1>5 DEF CloseLock, fields, pipes, locals
    <2>3. \A d \in Callers : pc[d] \notin Holding
          BY <1>5, SentinelAssumption DEF Safety, LockHeld, CloseLock
    <2>4. LockHeld'
          BY <2>1, <2>2, <2>3 DEF LockHeld
    <2>5. OwnsRuntime'
          BY <1>0, <2>1, <2>3 DEF OwnsRuntime
    <2>6. Pipelines'
          BY <1>0, <2>1, <2>2, <2>3 DEF Safety, Pipelines
    <2>7. OneCloser'
          BY <1>0, <2>1, <2>2 DEF Safety, OneCloser
    <2> QED BY <2>4, <2>5, <2>6, <2>7 DEF Safety
  <1>6. ASSUME CloseAgain(c) PROVE Safety'
    <2>1. /\ pc[c] = "closeAgain" /\ Goto(c, "closeResources")
          /\ UNCHANGED <<closed, readiness, active, runLock, pipes, job>>
          BY <1>6 DEF CloseAgain, CloseStep, locals
    <2>2. closing'.done = closing.done
          BY <1>6 DEF CloseAgain, TypeOK
    <2> QED BY <1>0, <1>1, <2>1, <2>2
  <1>7. ASSUME CloseResources(c) PROVE Safety'
    <2>1. /\ pc[c] = "closeResources" /\ Goto(c, "idle") /\ open' = open \ {pipe}
          /\ UNCHANGED <<fields, pipe, loads>>
          BY <1>7 DEF CloseResources, Leave
    <2>2. closed /\ readiness = "CLOSED"
          BY <1>0, <2>1 DEF Safety, OneCloser, TypeOK
    <2>3. open' = {}
          BY <1>0, <2>1, HolderAlone DEF Safety, Pipelines
    <2>4. pipe' <= loads'
          BY <2>1 DEF Safety, Pipelines
    <2> QED BY <1>0, <2>1, <2>2, <2>3, <2>4, HolderSafe DEF fields
  <1> QED BY <1>2, <1>3, <1>4, <1>5, <1>6, <1>7 DEF Close

(* Every step preserves Safety. *)
LEMMA SafetyPreserved == IInv /\ [Next]_vars => Safety'
  <1>1. ASSUME IInv, UNCHANGED vars PROVE Safety'
        BY <1>1, StutterSafe DEF IInv, vars, fields, locals
  <1>2. ASSUME IInv, DropHolder PROVE Safety'
        BY <1>2, StutterSafe DEF IInv, DropHolder, fields, locals
  <1> QED BY <1>1, <1>2, RunSafe, ExportSafe, FinishSafe, CancelSafe, ReopenSafe, CloseSafe
          DEF IInv, Next, Act

(* The invariant holds in every state. *)
LEMMA Invariant == Spec => []IInv
  <1>1. IInv /\ [Next]_vars => IInv'
        BY TypePreserved, SafetyPreserved DEF IInv
  <1> QED BY <1>1, InitInvariant, PTL DEF Spec

-----------------------------------------------------------------------------
(* What is stored about a job, and what its run believes of it. *)

(* A run that has found its job id unused, and has not finished. *)
Running == RunSteps \ {"prepare"}

(* The statuses a job may rest in. *)
Resting == Decided \cup TERMINAL_STATUSES \cup {"ABSENT", "EXPORTING"}

(* A job between two such statuses is in the hands of its run, unless a    *)
(* call for it has failed or its image could not be rendered. *)
Excused(j) == lost[j] = "call" \/ Unrendered(j) \/ status[j] \in Resting
ExcusedNext(j) ==
    \/ lost'[j] = "call"
    \/ lost'[j] = "rendering" /\ status'[j] \in {"GENERATING", "REPAIRING"}
    \/ status'[j] \in Resting
AccountedFor(j) == Excused(j) \/ \E c \in Callers : pc[c] \in Running /\ job[c] = j

(* What has gone wrong is not forgotten. *)
Lasts(j) == lost'[j] \in {lost[j], "call"}

(* Until a call fails a run knows its job's status, or the job has    *)
(* been cancelled, and then the run has been given a reason. *)
Knows(c) ==
    /\ pc[c] \notin Running \cup {"finish", "release"} => at[c] = "ABSENT"
    /\ pc[c] = "create" => at[c] = "ABSENT"
    /\ pc[c] = "generate" => at[c] \in {"GENERATING", "REPAIRING"}
    /\ pc[c] = "return" => at[c] \in Decided
    /\ pc[c] \in Running =>
          /\ at[c] # "CANCELLED"
          /\ lost[job[c]] = "call" \/ status[job[c]] \in {at[c], "CANCELLED"}
          /\ status[job[c]] = "CANCELLED" => reason # "none"
    /\ pc[c] \in RunSteps \cup {"export", "commitExport", "cancel", "signal"} => job[c] \in Jobs

(* A close that has looked at its job for the second time without an error *)
(* leaves it settled. *)
Settled ==
    /\ closing.done \/ \E c \in Callers : pc[c] = "closeResources"
    /\ ~closing.error
    /\ closing.job # NoJob
    => status[closing.job] \in TERMINAL_STATUSES \cup {"ABSENT"}

Accounts == (\A j \in Jobs : AccountedFor(j)) /\ (\A c \in Callers : Knows(c)) /\ Settled

(* Nothing is stored, and nobody runs, initially. *)
LEMMA InitAccounts == Init => Accounts
  BY DEF Init, Accounts, AccountedFor, Excused, Unrendered, Knows, Settled, Resting, Running, RunSteps, Checkpoints

(* All that may happen to the jobs without the run lock: some are          *)
(* cancelled, and the run among them is told. *)
CancelsOnly ==
    /\ \A j \in Jobs :
          /\ Lasts(j)
          /\ \/ status'[j] = status[j]
             \/ /\ status[j] \notin TERMINAL_STATUSES \cup {"ABSENT"}
                /\ status'[j] = "CANCELLED"
                /\ active = j => reason' # "none"
    /\ reason # "none" => reason' # "none"

(* That is what _cancel_durable does, and its result says what it leaves. *)
LEMMA CancelCancels ==
    ASSUME TypeOK, NEW j \in Jobs \cup {NoJob}, NEW why \in {"user", "closed"},
           NEW result \in Outcomes, CancelDurable(j, why, result)
    PROVE  /\ CancelsOnly
           /\ j \in Jobs =>
                 /\ \A i \in Jobs \ {j} : status'[i] = status[i] /\ lost'[i] = lost[i]
                 /\ result = "done" => status'[j] = "CANCELLED"
                 /\ result = "gone" =>
                       status'[j] = status[j] /\ status[j] \in Finals \cup {"ABSENT"}
                 /\ result = "error" => lost'[j] = "call" \/ status'[j] = "EXPORTING"
  <1>1. /\ Mark(j, why) => (reason # "none" => reason' # "none") /\ (active = j => reason' # "none")
        /\ Finals \cup {"CANCELLED"} = TERMINAL_STATUSES
        BY DEF Mark, Finals, TERMINAL_STATUSES
  <1>2. ASSUME Fail(j, "CANCELLED")
        PROVE  /\ j \in Jobs => lost'[j] = "call"
               /\ \A i \in Jobs : Lasts(i)
               /\ \A i \in Jobs \ {j} : status'[i] = status[i] /\ lost'[i] = lost[i]
               /\ j \in Jobs => status'[j] = status[j] \/ status'[j] = "CANCELLED"
        BY <1>2 DEF Fail, Miss, Set, Lasts, TypeOK
  <1>3. ASSUME Set(j, "CANCELLED")
        PROVE  /\ j \in Jobs => status'[j] = "CANCELLED"
               /\ \A i \in Jobs \ {j} : status'[i] = status[i]
        BY <1>3 DEF Set, TypeOK
  <1>4. CASE UNCHANGED <<status, lost>>
        BY <1>1, <1>4 DEF CancelDurable, CancelsOnly, Lasts, Finals, Fail, Miss, TERMINAL_STATUSES, Set, TypeOK
  <1>5. CASE ~UNCHANGED <<status, lost>>
    <2>1. /\ status[j] \notin TERMINAL_STATUSES \cup {"ABSENT"} /\ Mark(j, why)
          /\ \/ result = "done" /\ Set(j, "CANCELLED") /\ UNCHANGED lost
             \/ result = "error" /\ Fail(j, "CANCELLED")
          BY <1>1, <1>5 DEF CancelDurable
    <2> QED BY <1>1, <1>2, <1>3, <2>1 DEF CancelsOnly, Lasts
  <1> QED BY <1>4, <1>5

(* A caller that takes no step knows what it knew, if all that happened to *)
(* the jobs is that some were cancelled. *)
LEMMA OtherKnows ==
    ASSUME TypeOK, Safety, NEW c \in Callers, Knows(c),
           pc'[c] = pc[c], job'[c] = job[c], at'[c] = at[c],
           pc[c] \in Running => CancelsOnly
    PROVE  Knows(c)'
  <1>1. CASE pc[c] \in Running
    <2>1. active = job[c] /\ job[c] \in Jobs
          BY <1>1 DEF Safety, OwnsRuntime, Knows, Running, Occupied, RunSteps, Checkpoints
    <2>2. /\ at'[c] # "CANCELLED"
          /\ lost'[job'[c]] = "call" \/ status'[job'[c]] \in {at'[c], "CANCELLED"}
          /\ status'[job'[c]] = "CANCELLED" => reason' # "none"
          BY <1>1, <2>1 DEF Knows, CancelsOnly, Lasts
    <2> QED BY <2>2 DEF Knows
  <1>2. CASE pc[c] \notin Running
        BY <1>2 DEF Knows
  <1> QED BY <1>1, <1>2

(* A step outside a run that at most cancels a job. *)
LEMMA OutsideAccounts ==
    ASSUME TypeOK, Safety, Accounts, NEW c \in Callers, NEW step, Goto(c, step),
           pc[c] \notin Running, step \notin Running, Knows(c)',
           \A d \in Callers \ {c} : job'[d] = job[d] /\ at'[d] = at[d],
           \A j \in Jobs :
              /\ Lasts(j)
              /\ status'[j] = status[j] \/ status'[j] = "CANCELLED",
           CancelsOnly \/ \A d \in Callers : pc[d] \notin Running,
           Settled'
    PROVE  Accounts'
  <1>1. /\ pc'[c] = step
        /\ \A d \in Callers \ {c} : pc'[d] = pc[d]
        BY DEF TypeOK, Goto
  <1>2. \A d \in Callers : Knows(d)'
        BY <1>1, OtherKnows DEF Accounts
  <1>3. ASSUME NEW j \in Jobs PROVE AccountedFor(j)'
    <2>1. CASE \E d \in Callers : pc[d] \in Running /\ job[d] = j
          BY <1>1, <2>1 DEF AccountedFor, Excused, Unrendered
    <2>2. CASE ~\E d \in Callers : pc[d] \in Running /\ job[d] = j
      <3>1. Excused(j)
            BY <2>2 DEF Accounts, AccountedFor, Excused, Unrendered
      <3>2. "CANCELLED" \in Resting
            BY DEF Resting, TERMINAL_STATUSES
      <3> QED BY <3>1, <3>2 DEF AccountedFor, Excused, Unrendered, Lasts
    <2> QED BY <2>1, <2>2
  <1> QED BY <1>2, <1>3 DEF Accounts

(* A settled job stays settled, whatever is cancelled. *)
LEMMA StaysSettled ==
    ASSUME TypeOK, Settled, closing'.job = closing.job, closing.error => closing'.error,
           \A j \in Jobs : \/ status'[j] = status[j]
                           \/ /\ status[j] \notin TERMINAL_STATUSES \cup {"ABSENT"}
                              /\ status'[j] = "CANCELLED",
           closing'.done => closing.done \/ \E d \in Callers : pc[d] = "closeResources",
           \A d \in Callers : pc'[d] = "closeResources" => pc[d] = "closeResources"
    PROVE  Settled'
  <1>1. closing.job # NoJob => closing.job \in Jobs
        BY DEF TypeOK
  <1>2. "CANCELLED" \in TERMINAL_STATUSES
        BY DEF TERMINAL_STATUSES
  <1> QED BY <1>1, <1>2 DEF Settled

(* While the run lock is held for other work no close is about to end. *)
LEMMA HolderSettles ==
    ASSUME TypeOK, Safety, NEW c \in Callers, pc[c] \in Holding \ {"closeResources"},
           NEW step, step # "closeResources", Goto(c, step), UNCHANGED closing
    PROVE  Settled'
  <1>1. /\ pc'[c] = step
        /\ \A d \in Callers \ {c} : pc'[d] = pc[d]
        BY DEF TypeOK, Goto
  <1>2. ~closing.done /\ \A d \in Callers \ {c} : pc[d] # "closeResources"
        BY HolderAlone DEF Holding
  <1> QED BY <1>1, <1>2 DEF Settled

(* A step of a run touches one job, its own. *)
LEMMA RunAccounts ==
    ASSUME TypeOK, Safety, Accounts, NEW c \in Callers, pc[c] \in RunSteps,
           NEW step \in RunSteps \cup {"finish"}, Goto(c, step), UNCHANGED <<job, closing>>,
           \A d \in Callers \ {c} : at'[d] = at[d],
           \A j \in Jobs \ {job[c]} : status'[j] = status[j] /\ lost'[j] = lost[j],
           Knows(c)',
           step \notin Running => ExcusedNext(job[c])
    PROVE  Accounts'
  <1>1. /\ pc'[c] = step
        /\ \A d \in Callers \ {c} : pc'[d] = pc[d]
        BY DEF TypeOK, Goto
  <1>2. /\ pc[c] \in Holding \ {"closeResources"} /\ step # "closeResources"
        /\ Running \subseteq Holding
        BY DEF Holding, Occupied, RunSteps, Checkpoints, Running
  <1>3. \A d \in Callers \ {c} : pc[d] \notin Running
        BY <1>2, HolderAlone
  <1>4. \A d \in Callers : Knows(d)'
        BY <1>1, <1>3, OtherKnows DEF Accounts
  <1>5. Settled'
        BY <1>2, HolderSettles
  <1>6. job[c] \in Jobs
        BY DEF Accounts, Knows
  <1>7. ASSUME NEW j \in Jobs PROVE AccountedFor(j)'
    <2>1. CASE j = job[c]
      <3>1. pc'[c] \in Running \/ ExcusedNext(job[c])
            BY <1>1
      <3> QED BY <1>1, <2>1, <3>1 DEF AccountedFor, Excused, ExcusedNext, Unrendered
    <2>2. CASE j # job[c]
      <3>1. Excused(j)
            BY <1>3, <2>2 DEF Accounts, AccountedFor, Excused, Unrendered
      <3> QED BY <2>2, <3>1 DEF AccountedFor, Excused, Unrendered
    <2> QED BY <2>1, <2>2
  <1> QED BY <1>4, <1>5, <1>7 DEF Accounts

(* What a run knows once it has finished. *)
LEMMA FinishedKnows ==
    ASSUME TypeOK, NEW c \in Callers, Goto(c, "finish")
    PROVE  Knows(c)'
  <1>1. pc'[c] = "finish"
        BY DEF TypeOK, Goto
  <1> QED BY <1>1 DEF Knows, Running, RunSteps, Checkpoints

(* A recording moves the job to where the run then believes it to be, or   *)
(* ends the run: by a failure, or because the job has been cancelled.      *)
LEMMA RecordAccounts ==
    ASSUME TypeOK, Safety, Accounts, NEW c \in Callers, pc[c] \in Running,
           NEW to \in JobStatus \ {"CANCELLED"}, NEW next \in Running \ {"create"},
           next = "return" => to \in Decided,
           next = "generate" => to \in {"GENERATING", "REPAIRING"},
           UNCHANGED <<job, closing>>, Record(c, to, next)
    PROVE  Accounts'
  <1>0. /\ pc[c] \in RunSteps /\ next \in RunSteps /\ "finish" \notin Running
        /\ job[c] \in Jobs /\ "CANCELLED" \in Resting
        BY DEF Running, Accounts, Knows, RunSteps, Checkpoints, Resting, TERMINAL_STATUSES
  <1>1. ASSUME Goto(c, "finish"), UNCHANGED at, ExcusedNext(job[c]),
               \A j \in Jobs \ {job[c]} : status'[j] = status[j] /\ lost'[j] = lost[j]
        PROVE  Accounts'
    <2>1. Knows(c)'
          BY <1>1, FinishedKnows
    <2> QED BY <1>0, <1>1, <2>1, RunAccounts
  <1>2. ASSUME Fail(job[c], to)
        PROVE  /\ lost'[job[c]] = "call"
               /\ \A j \in Jobs \ {job[c]} : status'[j] = status[j] /\ lost'[j] = lost[j]
        BY <1>0, <1>2 DEF Fail, Miss, Set, TypeOK
  <1>3. CASE /\ Set(job[c], to) /\ at' = [at EXCEPT ![c] = to] /\ Goto(c, next)
             /\ UNCHANGED <<lost, faults, fields>>
    <2>1. /\ status'[job[c]] = to /\ at'[c] = to /\ pc'[c] = next
          /\ \A j \in Jobs \ {job[c]} : status'[j] = status[j] /\ lost'[j] = lost[j]
          /\ \A d \in Callers \ {c} : at'[d] = at[d]
          BY <1>0, <1>3 DEF Set, Goto, TypeOK
    <2>2. Knows(c)'
          BY <1>0, <2>1 DEF Knows
    <2> QED BY <1>0, <1>3, <2>1, <2>2, RunAccounts
  <1>4. CASE Fail(job[c], to) /\ Goto(c, "finish") /\ UNCHANGED at
        BY <1>1, <1>2, <1>4 DEF ExcusedNext
  <1>5. CASE status[job[c]] # at[c] /\ Goto(c, "finish") /\ UNCHANGED <<status, lost, faults, at>>
    <2>1. lost[job[c]] = "call" \/ status[job[c]] \in Resting
          BY <1>0, <1>5 DEF Accounts, Knows
    <2> QED BY <1>1, <1>5, <2>1 DEF ExcusedNext
  <1> QED BY <1>3, <1>4, <1>5 DEF Record

(* Work that records nothing. *)
LEMMA WorkAccounts ==
    ASSUME TypeOK, Safety, Accounts, NEW c \in Callers, pc[c] \in Running,
           NEW next \in Running \ {"create", "generate", "return"},
           UNCHANGED <<job, at, closing, reason, status, lost>>, Goto(c, next)
    PROVE  Accounts'
  <1>1. pc'[c] = next /\ pc[c] \in RunSteps /\ next \in RunSteps
        BY DEF Goto, TypeOK, Running
  <1>2. Knows(c)'
        BY <1>1 DEF Accounts, Knows
  <1> QED BY <1>1, <1>2, RunAccounts

(* A reading that fails ends the run, and its job is excused. *)
LEMMA MissAccounts ==
    ASSUME TypeOK, Safety, Accounts, NEW c \in Callers, pc[c] \in RunSteps, FailReading(job[c]),
           Goto(c, "finish"), UNCHANGED <<job, closing>>,
           \A d \in Callers \ {c} : at'[d] = at[d]
    PROVE  Accounts'
  <1>1. job[c] \in Jobs
        BY DEF Accounts, Knows
  <1>2. /\ lost'[job[c]] = "call"
        /\ \A j \in Jobs \ {job[c]} : status'[j] = status[j] /\ lost'[j] = lost[j]
        BY <1>1 DEF FailReading, Miss, TypeOK
  <1>3. Knows(c)'
        BY FinishedKnows
  <1> QED BY <1>2, <1>3, RunAccounts DEF ExcusedNext

(* A checkpoint stops a run whose job it finds or makes cancelled. *)
LEMMA CheckpointAccounts ==
    ASSUME TypeOK, Safety, Accounts, NEW c \in Callers, Checkpoint(c)
    PROVE  Accounts'
  <1>1. /\ pc[c] \in RunSteps /\ job[c] \in Jobs /\ pc[c] \in Checkpoints
        /\ UNCHANGED <<job, at, closing, active>>
        BY DEF Checkpoint, Accounts, Knows, RunSteps
  <1>2. /\ {"CANCELLED", "EXPORTING", "ABSENT"} \cup Finals \subseteq Resting
        /\ "finish" \notin Running
        BY DEF Resting, TERMINAL_STATUSES, Finals, Running, RunSteps, Checkpoints
  <1>3. ASSUME NEW result \in Outcomes, CancelDurable(job[c], "closed", result),
               IF result = "gone" THEN UNCHANGED pc ELSE Goto(c, "finish")
        PROVE  Accounts'
    <2>1. /\ CancelDurable(job[c], "closed", result)
          /\ IF result = "gone" THEN UNCHANGED pc ELSE Goto(c, "finish")
          BY <1>3
    <2>2. /\ \A j \in Jobs \ {job[c]} : status'[j] = status[j] /\ lost'[j] = lost[j]
          /\ result = "done" => status'[job[c]] = "CANCELLED"
          /\ result = "gone" => /\ status'[job[c]] = status[job[c]]
                                /\ status[job[c]] \in Finals \cup {"ABSENT"}
          /\ result = "error" => lost'[job[c]] = "call" \/ status'[job[c]] = "EXPORTING"
          /\ CancelsOnly
          BY <1>1, <2>1, CancelCancels
    <2>3. CASE result # "gone"
      <3>1. Goto(c, "finish") /\ Knows(c)'
            BY <2>1, <2>3, FinishedKnows
      <3>2. ExcusedNext(job[c])
            BY <1>2, <2>2, <2>3 DEF Outcomes, ExcusedNext
      <3> QED BY <1>1, <1>2, <2>2, <3>1, <3>2, RunAccounts
    <2>4. CASE result = "gone"
      <3>1. Goto(c, pc[c]) /\ pc'[c] = pc[c]
            BY <2>1, <2>4 DEF Goto, TypeOK
      <3>2. Knows(c)'
            BY <1>1, <2>2, <3>1, OtherKnows DEF Accounts
      <3>3. status'[job[c]] \in Resting
            BY <1>2, <2>2, <2>4
      <3> QED BY <1>1, <2>2, <3>1, <3>2, <3>3, RunAccounts DEF ExcusedNext
    <2> QED BY <2>3, <2>4
  <1>4. ASSUME UNCHANGED <<reason, status, lost>>,
               (Goto(c, "finish") /\ status[job[c]] = "CANCELLED") \/ UNCHANGED pc
        PROVE  Accounts'
    <2>1. /\ UNCHANGED <<reason, status, lost>>
          /\ \/ Goto(c, "finish") /\ status[job[c]] = "CANCELLED"
             \/ UNCHANGED pc
          BY <1>4
    <2>2. CASE UNCHANGED pc
          BY <1>1, <2>1, <2>2 DEF Accounts, AccountedFor, Excused, Unrendered, Knows, Settled
    <2>3. CASE Goto(c, "finish") /\ status[job[c]] = "CANCELLED"
      <3>1. Knows(c)' /\ status'[job[c]] \in Resting
            BY <1>2, <2>1, <2>3, FinishedKnows
      <3> QED BY <1>1, <1>2, <2>1, <2>3, <3>1, RunAccounts DEF ExcusedNext
    <2> QED BY <2>1, <2>2, <2>3
  <1>5. CASE FailReading(job[c]) /\ Goto(c, "finish") /\ UNCHANGED reason
    <2>1. \A d \in Callers \ {c} : at'[d] = at[d]
          BY <1>1
    <2> QED BY <1>1, <1>5, <2>1, MissAccounts
  <1> QED BY <1>3, <1>4, <1>5 DEF Checkpoint, store

(* Every step of a run. *)
LEMMA RunStepAccounts ==
    ASSUME TypeOK, Safety, Accounts, NEW c \in Callers, Run(c)
    PROVE  Accounts'
  <1>0. /\ {"create", "record", "generate", "finishAttempt", "verify", "decide", "select", "return",
            "fatal"} = Running
        /\ "finish" \notin Running
        /\ {"SPEC_VALIDATED", "SPEC_COMPILED", "CREATED", "GENERATING", "VERIFYING", "REPAIRING",
            "REJECTED", "REPAIR_SELECTING"} \cup Decided \subseteq JobStatus \ {"CANCELLED"}
        /\ "REJECTED" \in Decided /\ "ABSENT" \in Resting /\ "JOB_FAILED" \in Resting
        /\ "prepare" \in RunSteps \ Running
        /\ Running \subseteq RunSteps /\ Decided \subseteq Resting /\ "CANCELLED" \in Resting
        BY DEF Running, RunSteps, Checkpoints, JobStatus, Stages, TERMINAL_STATUSES, Decided,
               Resting
  <1>1. ASSUME NEW from \in Running, RunStep(c, from), NEW to \in JobStatus \ {"CANCELLED"},
               NEW next \in Running \ {"create"}, next = "return" => to \in Decided,
               next = "generate" => to \in {"GENERATING", "REPAIRING"},
               Record(c, to, next)
        PROVE  Accounts'
        BY <1>1, RecordAccounts DEF RunStep
  <1>2. ASSUME NEW from \in Running, RunStep(c, from),
               NEW next \in Running \ {"create", "generate", "return"}, Work(c, next)
        PROVE  Accounts'
        BY <1>2, WorkAccounts DEF RunStep, Work, fields
  <1>3. ASSUME NEW from \in Running, RunStep(c, from), Quarantine(c) PROVE Accounts'
        BY <1>0, <1>3, WorkAccounts DEF RunStep, Quarantine
  <1>4. ASSUME StartRun(c) PROVE Accounts'
    <2>1. PICK j \in Jobs : Occupy(c, j) /\ job' = [job EXCEPT ![c] = j]
          BY <1>4 DEF StartRun
    <2>2. /\ Goto(c, "prepare") /\ pc[c] = "idle" /\ UNCHANGED <<at, status, lost, closing>>
          /\ pc'[c] = "prepare" /\ job'[c] = j /\ \A d \in Callers \ {c} : job'[d] = job[d]
          BY <1>4, <2>1 DEF StartRun, Occupy, store, Goto, TypeOK
    <2>3. \A d \in Callers : pc[d] \notin Holding
          BY <2>1, SentinelAssumption DEF Safety, LockHeld, Occupy
    <2>4. Running \subseteq Holding
          BY DEF Running, Holding, Occupied
    <2>5. "idle" \notin Running \cup {"finish", "release"} /\ Knows(c)
          BY DEF Running, RunSteps, Checkpoints, Accounts
    <2>6. Knows(c)'
          BY <1>0, <2>2, <2>5 DEF Knows
    <2>7. Settled'
      <3>1. Settled /\ \A d \in Callers : pc'[d] = "closeResources" => pc[d] = "closeResources"
            BY <2>2 DEF Accounts, Goto, TypeOK
      <3> QED BY <2>2, <3>1, StaysSettled
    <2>8. \A i \in Jobs : Lasts(i) /\ status'[i] = status[i]
          BY <2>2 DEF Lasts
    <2> QED BY <1>0, <2>2, <2>3, <2>4, <2>5, <2>6, <2>7, <2>8, OutsideAccounts
  <1>5. ASSUME Prepare(c) PROVE Accounts'
    <2>1. /\ pc[c] = "prepare" /\ UNCHANGED <<job, at, closing, reason, status, lost>>
          /\ \/ status[job[c]] = "ABSENT" /\ Goto(c, "create")
             \/ Goto(c, "finish")
          BY <1>5 DEF Prepare, RunStep, Work, fields
    <2>2. job[c] \in Jobs /\ at[c] = "ABSENT"
          BY <1>0, <2>1 DEF Accounts, Knows
    <2>3. CASE status[job[c]] = "ABSENT" /\ Goto(c, "create")
      <3>1. pc'[c] = "create"
            BY <2>3 DEF Goto, TypeOK
      <3>2. Knows(c)'
            BY <2>1, <2>2, <2>3, <3>1 DEF Knows
      <3> QED BY <1>0, <2>1, <2>3, <3>2, RunAccounts
    <2>4. CASE Goto(c, "finish")
      <3>1. Knows(c)'
            BY <2>4, FinishedKnows
      <3>2. \A d \in Callers : pc[d] \notin Running
        <4>1. pc[c] \in Holding /\ Running \subseteq Holding
              BY <2>1 DEF Holding, Occupied, RunSteps, Checkpoints, Running
        <4> QED BY <1>0, <2>1, <4>1, HolderAlone
      <3>3. ExcusedNext(job[c])
            BY <2>1, <2>2, <3>2 DEF Accounts, AccountedFor, Excused, ExcusedNext, Unrendered
      <3> QED BY <1>0, <2>1, <2>4, <3>1, <3>3, RunAccounts
    <2> QED BY <2>1, <2>3, <2>4
  <1>6. ASSUME Create(c) \/ RecordStart(c) PROVE Accounts'
        BY <1>0, <1>1, <1>6 DEF Create, RecordStart
  <1>7. ASSUME Generate(c) \/ FinishAttempt(c) \/ Verify(c) PROVE Accounts'
    <2>1. ASSUME RunStep(c, "generate"), LeaveUnrendered(c) PROVE Accounts'
      <3>1. /\ pc[c] = "generate" /\ job[c] \in Jobs /\ Goto(c, "finish")
            /\ UNCHANGED <<job, closing, at>>
            BY <1>0, <2>1 DEF RunStep, LeaveUnrendered, Accounts, Knows
      <3>2. /\ lost'[job[c]] \in {"call", "rendering"} /\ UNCHANGED status
            /\ \A j \in Jobs \ {job[c]} : lost'[j] = lost[j]
            /\ lost[job[c]] = "call" => lost'[job[c]] = "call"
            BY <2>1, <3>1 DEF LeaveUnrendered, TypeOK
      <3>3. lost[job[c]] = "call" \/ status[job[c]] \in {"GENERATING", "REPAIRING", "CANCELLED"}
            BY <1>0, <3>1 DEF Accounts, Knows
      <3>4. ExcusedNext(job[c])
            BY <1>0, <3>2, <3>3 DEF ExcusedNext
      <3>5. Knows(c)'
            BY <3>1, FinishedKnows
      <3> QED BY <1>0, <3>1, <3>2, <3>4, <3>5, RunAccounts
    <2> QED BY <1>0, <1>1, <1>2, <1>3, <1>7, <2>1 DEF Generate, FinishAttempt, Verify
  <1>8. ASSUME Decide(c) PROVE Accounts'
    <2>1. ASSUME FailReading(job[c]), Goto(c, "finish"), UNCHANGED <<fields, pipes, at>>
          PROVE  Accounts'
      <3>1. pc[c] \in RunSteps /\ UNCHANGED <<job, closing>>
            BY <1>0, <1>8 DEF Decide, RunStep
      <3> QED BY <2>1, <3>1, MissAccounts
    <2> QED BY <1>0, <1>1, <1>2, <1>8, <2>1 DEF Decide
  <1>9. ASSUME Select(c) PROVE Accounts'
        BY <1>0, <1>1, <1>2, <1>9 DEF Select
  <1>10. ASSUME RecordFatal(c) PROVE Accounts'
    <2>1. /\ pc[c] \in RunSteps /\ pc[c] \in Running /\ job[c] \in Jobs /\ Goto(c, "finish")
          /\ UNCHANGED <<job, at, closing>>
          BY <1>0, <1>10 DEF RecordFatal, Accounts, Knows, locals
    <2>2. /\ \A j \in Jobs \ {job[c]} : status'[j] = status[j] /\ lost'[j] = lost[j]
          /\ ExcusedNext(job[c])
      <3>1. CASE status[job[c]] = at[c] /\ Set(job[c], "JOB_FAILED") /\ UNCHANGED <<lost, faults>>
            BY <1>0, <2>1, <3>1 DEF Set, TypeOK, ExcusedNext
      <3>2. CASE Fail(job[c], "JOB_FAILED")
            BY <2>1, <3>2 DEF Fail, Miss, Set, TypeOK, ExcusedNext
      <3>4. CASE FailReading(job[c])
            BY <2>1, <3>4 DEF FailReading, Miss, TypeOK, ExcusedNext
      <3>3. CASE status[job[c]] # at[c] /\ UNCHANGED <<status, lost, faults>>
            BY <1>0, <2>1, <3>3 DEF Accounts, Knows, ExcusedNext
      <3> QED BY <1>10, <3>1, <3>2, <3>3, <3>4 DEF RecordFatal
    <2>3. Knows(c)'
          BY <2>1, FinishedKnows
    <2> QED BY <2>1, <2>2, <2>3, RunAccounts
  <1>11. ASSUME Return(c) PROVE Accounts'
    <2>1. /\ pc[c] = "return" /\ Goto(c, "finish")
          /\ UNCHANGED <<job, at, closing, status, lost>>
          BY <1>11 DEF Return, RunStep, Work
    <2>2. ExcusedNext(job[c])
          BY <1>0, <2>1 DEF Accounts, Knows, ExcusedNext
    <2>3. Knows(c)'
          BY <2>1, FinishedKnows
    <2> QED BY <1>0, <2>1, <2>2, <2>3, RunAccounts
  <1> QED BY <1>4, <1>5, <1>6, <1>7, <1>8, <1>9, <1>10, <1>11, CheckpointAccounts DEF Run

(* Every step of an export or a recovery: it moves a decided job to         *)
(* EXPORTING, or an exported one on, while nobody runs. *)
LEMMA ExportAccounts ==
    ASSUME TypeOK, Safety, Accounts, NEW c \in Callers, Export(c)
    PROVE  Accounts'
  <1>0. /\ {"idle", "export", "commitExport", "recover", "finish"} \cap Running = {}
        /\ {"export", "commitExport", "recover"} \subseteq Holding \ {"closeResources"}
        /\ Running \subseteq Holding
        /\ {"EXPORTING", "COMPLETED"} \subseteq Resting
        BY DEF Running, RunSteps, Checkpoints, Holding, Occupied, Resting, TERMINAL_STATUSES
  <1> DEFINE Moves == \A j \in Jobs :
                         /\ Lasts(j)
                         /\ status'[j] = status[j] \/ status'[j] \in {"EXPORTING", "COMPLETED"}
  <1>1. ASSUME NEW step \in {"export", "commitExport", "recover", "finish"}, Goto(c, step),
               \A d \in Callers : pc[d] \notin Running,
               \A d \in Callers \ {c} : job'[d] = job[d], at' = at, Moves, Settled',
               step # "finish" => at[c] = "ABSENT",
               step \in {"export", "commitExport"} => job'[c] \in Jobs
        PROVE  Accounts'
    <2>1. pc'[c] = step /\ \A d \in Callers \ {c} : pc'[d] = pc[d]
          BY <1>1 DEF Goto, TypeOK
    <2>2. Knows(c)'
          BY <1>1, <2>1 DEF Knows, Running, RunSteps, Checkpoints
    <2>3. \A d \in Callers : Knows(d)'
          BY <1>1, <2>1, <2>2, OtherKnows DEF Accounts
    <2>4. \A j \in Jobs : AccountedFor(j)'
          BY <1>0, <1>1 DEF Accounts, AccountedFor, Excused, Unrendered, Lasts
    <2> QED BY <1>1, <2>3, <2>4 DEF Accounts
  <1>2. ASSUME NEW step \in {"export", "recover"}, NEW j, Occupy(c, j), Goto(c, step),
               \A d \in Callers \ {c} : job'[d] = job[d], at' = at,
               step = "export" => job'[c] \in Jobs
        PROVE  Accounts'
    <2>1. \A d \in Callers : pc[d] \notin Running
          BY <1>0, <1>2, SentinelAssumption DEF Safety, LockHeld, Occupy
    <2>2. Moves /\ pc[c] = "idle" /\ UNCHANGED <<status, closing>>
          BY <1>2 DEF Occupy, store, Lasts
    <2>3. at[c] = "ABSENT"
          BY <1>0, <2>2 DEF Accounts, Knows
    <2>4. Settled'
      <3>1. Settled /\ \A d \in Callers : pc'[d] = "closeResources" => pc[d] = "closeResources"
            BY <1>2 DEF Accounts, Goto, TypeOK
      <3> QED BY <2>2, <3>1, StaysSettled
    <2> QED BY <1>1, <1>2, <2>1, <2>2, <2>3, <2>4
  <1>3. ASSUME StartExport(c) PROVE Accounts'
    <2>1. PICK j \in Jobs : Occupy(c, j) /\ job' = [job EXCEPT ![c] = j]
          BY <1>3 DEF StartExport
    <2>2. job'[c] = j /\ \A d \in Callers \ {c} : job'[d] = job[d]
          BY <2>1 DEF TypeOK
    <2> QED BY <1>2, <1>3, <2>1, <2>2 DEF StartExport
  <1>4. ASSUME StartRecovery(c) PROVE Accounts'
        BY <1>2, <1>4 DEF StartRecovery, locals
  <1>5. ASSUME pc[c] \in {"export", "commitExport", "recover"}, ExportStep(c), Moves,
               NEW step \in {"commitExport", "finish"}, Goto(c, step),
               step = "commitExport" => pc[c] = "export"
        PROVE  Accounts'
    <2>1. UNCHANGED <<closing, job, at>>
          BY <1>5 DEF ExportStep, locals
    <2>2. \A d \in Callers : pc[d] \notin Running
          BY <1>0, <1>5, HolderAlone
    <2>3. Settled'
          BY <1>0, <1>5, <2>1, HolderSettles
    <2>4. step # "finish" => at[c] = "ABSENT" /\ job[c] \in Jobs
          BY <1>0, <1>5 DEF Accounts, Knows
    <2> QED BY <1>1, <1>5, <2>1, <2>2, <2>3, <2>4
  <1>6. ASSUME NEW j, NEW to \in {"EXPORTING", "COMPLETED"},
               \/ Set(j, to) /\ UNCHANGED lost
               \/ UNCHANGED <<status, lost>>
               \/ Fail(j, to)
        PROVE  Moves
        BY <1>6 DEF Set, Fail, Miss, Lasts, TypeOK
  <1>7. ASSUME BeginExport(c) PROVE Accounts'
        BY <1>5, <1>6, <1>7 DEF BeginExport, store, Lasts
  <1>8. ASSUME CommitExport(c) PROVE Accounts'
        BY <1>5, <1>6, <1>8 DEF CommitExport, store, Lasts
  <1>9. ASSUME Recover(c) PROVE Accounts'
        BY <1>5, <1>6, <1>9 DEF Recover, store, Lasts
  <1> QED BY <1>3, <1>4, <1>7, <1>8, <1>9 DEF Export

(* The steps that touch no job: those of a reopening, of what has finished, *)
(* and the beginning and the end of a cancellation or a close.             *)
LEMMA IdleAccounts ==
    ASSUME TypeOK, Safety, Accounts, NEW c \in Callers, NEW step \in Steps \ Running, Goto(c, step),
           pc[c] \notin Running, UNCHANGED <<status, lost>>, Knows(c)',
           \A d \in Callers \ {c} : job'[d] = job[d] /\ at'[d] = at[d],
           (reason # "none" => reason' # "none") \/ pc[c] \in Holding,
           Settled'
    PROVE  Accounts'
  <1>1. /\ \A j \in Jobs :
              /\ Lasts(j)
              /\ status'[j] = status[j] \/ status'[j] = "CANCELLED"
        /\ Running \subseteq Holding
        BY DEF Running, Holding, Occupied, Lasts
  <1>2. CASE pc[c] \in Holding
    <2>1. \A d \in Callers : pc[d] \notin Running
          BY <1>1, <1>2, HolderAlone
    <2> QED BY <1>1, <2>1, OutsideAccounts
  <1>3. CASE reason # "none" => reason' # "none"
    <2>1. CancelsOnly
          BY <1>3 DEF CancelsOnly, Lasts
    <2> QED BY <1>1, <2>1, OutsideAccounts
  <1> QED BY <1>2, <1>3

(* What a caller knows that has returned, or that neither runs nor works    *)
(* on a job.                                                               *)
LEMMA LeaveKnows ==
    ASSUME TypeOK, NEW c \in Callers, Leave(c)
    PROVE  /\ Knows(c)' /\ Goto(c, "idle") /\ "idle" \in Steps \ Running
           /\ \A d \in Callers \ {c} : job'[d] = job[d] /\ at'[d] = at[d]
           /\ \A d \in Callers : pc'[d] = "closeResources" => pc[d] = "closeResources"
  <1>1. /\ pc'[c] = "idle" /\ at'[c] = "ABSENT" /\ Goto(c, "idle")
        /\ \A d \in Callers \ {c} : job'[d] = job[d] /\ at'[d] = at[d] /\ pc'[d] = pc[d]
        BY DEF Leave, Goto, TypeOK
  <1> QED BY <1>1 DEF Knows, Running, RunSteps, Checkpoints, Steps

(* The steps a caller takes without a job or a run in its hands. *)
Elsewhere == {"idle", "release", "reopen", "install", "reopened"} \cup CloseSteps

LEMMA ElsewhereKnows ==
    ASSUME TypeOK, NEW c \in Callers, Knows(c), pc[c] \in Elsewhere \ {"release"},
           NEW step \in Elsewhere, Goto(c, step), UNCHANGED <<job, at>>
    PROVE  Knows(c)'
  <1>1. pc'[c] = step
        BY DEF Goto, TypeOK
  <1>2. /\ Elsewhere \cap (RunSteps \cup {"export", "commitExport", "cancel", "signal", "finish"}) = {}
        /\ Running \subseteq RunSteps
        BY DEF Elsewhere, CloseSteps, RunSteps, Checkpoints, Running
  <1>3. {"create", "generate", "return"} \subseteq RunSteps
        BY DEF RunSteps, Checkpoints
  <1>4. at[c] = "ABSENT"
        BY <1>2 DEF Knows
  <1> QED BY <1>1, <1>2, <1>3, <1>4 DEF Knows

LEMMA FinishAccounts ==
    ASSUME TypeOK, Safety, Accounts, NEW c \in Callers, FinishRun(c)
    PROVE  Accounts'
  <1>1. /\ pc[c] \in {"finish", "release"} /\ UNCHANGED <<status, lost, closing>>
        BY DEF FinishRun, store
  <1>2. pc[c] \in Holding \ {"closeResources"} /\ pc[c] \notin Running
        BY <1>1 DEF Holding, Occupied, Running, RunSteps, Checkpoints
  <1>3. CASE pc[c] = "finish"
    <2>1. Goto(c, "release") /\ UNCHANGED <<job, at>> /\ pc'[c] = "release"
          BY <1>3 DEF FinishRun, locals, Goto, TypeOK
    <2>2. Knows(c)' /\ "release" \in Steps \ Running
          BY <2>1 DEF Knows, Running, RunSteps, Checkpoints, Steps
    <2>3. Settled'
          BY <1>1, <1>2, <2>1, HolderSettles
    <2> QED BY <1>1, <1>2, <2>1, <2>2, <2>3, IdleAccounts
  <1>4. CASE pc[c] = "release"
    <2>1. Leave(c)
          BY <1>4 DEF FinishRun
    <2>2. Settled'
          BY <1>1, <1>2, <2>1, LeaveKnows, HolderSettles
    <2> QED BY <1>1, <1>2, <2>1, <2>2, LeaveKnows, IdleAccounts
  <1> QED BY <1>1, <1>3, <1>4

LEMMA ReopenAccounts ==
    ASSUME TypeOK, Safety, Accounts, NEW c \in Callers, Reopen(c)
    PROVE  Accounts'
  <1>1. /\ pc[c] \in {"idle", "reopen", "install", "reopened"}
        /\ UNCHANGED <<status, lost, closing, reason>>
        /\ pc[c] \notin Running /\ pc[c] \in Elsewhere \ {"release"} /\ Knows(c)
        BY DEF Reopen, StartReopen, LoadPipeline, Install, FinishReopen, store, fields, Running,
               RunSteps, Checkpoints, Elsewhere, Accounts
  <1>2. Knows(c)' /\ (\A d \in Callers \ {c} : job'[d] = job[d] /\ at'[d] = at[d])
        /\ \E step \in {"idle", "reopen", "install", "reopened"} : Goto(c, step)
    <2>1. CASE FinishReopen(c)
          BY <2>1, LeaveKnows DEF FinishReopen
    <2>2. CASE ~FinishReopen(c)
      <3>1. PICK step \in {"reopen", "install", "reopened"} : Goto(c, step) /\ UNCHANGED <<job, at>>
            BY <2>2 DEF Reopen, StartReopen, LoadPipeline, Install, locals
      <3>2. step \in Elsewhere
            BY DEF Elsewhere
      <3> QED BY <1>1, <3>1, <3>2, ElsewhereKnows
    <2> QED BY <2>1, <2>2
  <1>3. PICK step \in {"idle", "reopen", "install", "reopened"} : Goto(c, step)
        BY <1>2
  <1>4. step \in Steps \ Running
        BY DEF Steps, Running, RunSteps, Checkpoints
  <1>5. Settled'
    <2>1. Settled /\ \A d \in Callers : pc'[d] = "closeResources" => pc[d] = "closeResources"
          BY <1>3 DEF Accounts, Goto, TypeOK
    <2> QED BY <1>1, <2>1, StaysSettled
  <1> QED BY <1>1, <1>2, <1>3, <1>4, <1>5, IdleAccounts

LEMMA CancelAccounts ==
    ASSUME TypeOK, Safety, Accounts, NEW c \in Callers, Cancel(c)
    PROVE  Accounts'
  <1>1. /\ {"idle", "cancel", "signal"} \subseteq Steps \ Running
        /\ {"idle", "cancel", "signal"} \cap {"finish", "release", "create", "return"} = {}
        BY DEF Steps, Running, RunSteps, Checkpoints
  <1>2. ASSUME StartCancel(c) PROVE Accounts'
    <2>1. /\ pc[c] = "idle" /\ Goto(c, "cancel") /\ pc'[c] = "cancel" /\ job'[c] \in Jobs
          /\ UNCHANGED <<status, lost, closing, reason, at>>
          /\ \A d \in Callers \ {c} : job'[d] = job[d]
          /\ \A d \in Callers : pc'[d] = "closeResources" => pc[d] = "closeResources"
          BY <1>2 DEF StartCancel, Goto, TypeOK, store, fields
    <2>2. Knows(c)'
          BY <1>1, <2>1 DEF Accounts, Knows
    <2>3. Settled'
          BY <2>1, StaysSettled DEF Accounts
    <2> QED BY <1>1, <2>1, <2>2, <2>3, IdleAccounts
  <1>3. ASSUME CancelJob(c) PROVE Accounts'
    <2>1. pc[c] = "cancel" /\ job[c] \in Jobs /\ UNCHANGED closing
          BY <1>3 DEF CancelJob, Accounts, Knows
    <2>2. PICK result \in Outcomes :
             /\ CancelDurable(job[c], "user", result)
             /\ IF result = "done" THEN Goto(c, "signal") /\ UNCHANGED locals ELSE Leave(c)
          BY <1>3 DEF CancelJob
    <2>3. CancelsOnly
          BY <2>1, <2>2, CancelCancels
    <2>4. PICK step \in {"idle", "signal"} :
             /\ Goto(c, step) /\ Knows(c)'
             /\ \A d \in Callers \ {c} : job'[d] = job[d] /\ at'[d] = at[d]
      <3>1. CASE Leave(c)
            BY <3>1, LeaveKnows
      <3>2. CASE Goto(c, "signal") /\ UNCHANGED locals
        <4>1. pc'[c] = "signal" /\ UNCHANGED <<job, at>>
              BY <3>2 DEF Goto, TypeOK, locals
        <4> QED BY <1>1, <2>1, <3>2, <4>1 DEF Accounts, Knows
      <3> QED BY <2>2, <3>1, <3>2
    <2>5. /\ Settled
          /\ \A d \in Callers : pc'[d] = "closeResources" => pc[d] = "closeResources"
          BY <2>4 DEF Accounts, Goto, TypeOK
    <2>6. Settled'
          BY <2>1, <2>3, <2>5, StaysSettled DEF CancelsOnly
    <2>7. \A j \in Jobs :
              /\ Lasts(j)
              /\ status'[j] = status[j] \/ status'[j] = "CANCELLED"
          BY <2>3 DEF CancelsOnly
    <2> QED BY <1>1, <2>1, <2>3, <2>4, <2>6, <2>7, OutsideAccounts
  <1>4. ASSUME Signal(c) PROVE Accounts'
    <2>1. /\ pc[c] = "signal" /\ Leave(c) /\ UNCHANGED <<status, lost, closing>>
          /\ reason # "none" => reason' # "none"
          BY <1>4 DEF Signal, store
    <2>2. Settled'
          BY <2>1, LeaveKnows, StaysSettled DEF Accounts
    <2> QED BY <1>1, <2>1, <2>2, LeaveKnows, IdleAccounts
  <1> QED BY <1>2, <1>3, <1>4 DEF Cancel

LEMMA CloseAccounts ==
    ASSUME TypeOK, Safety, Accounts, NEW c \in Callers, Close(c)
    PROVE  Accounts'
  <1>0. /\ CloseSteps \subseteq (Steps \cap Elsewhere) \ (Running \cup {"idle", "release"})
        /\ {"idle"} \subseteq Elsewhere \ Running
        /\ {"closeWait", "closePeek", "closeCancel", "closeSignal", "closeLock", "closeAgain",
            "closeResources"} = CloseSteps
        BY DEF CloseSteps, Steps, Elsewhere, Running, RunSteps, Checkpoints
  <1>1. pc[c] \in Elsewhere \ {"release"} /\ pc[c] \notin Running /\ Knows(c) /\ Settled
        BY <1>0 DEF Accounts, Close, StartClose, CloseWait, ClosePeek, CloseCancel, CloseSignal,
                    CloseLock, CloseAgain, CloseResources
  <1>2. ASSUME NEW step \in CloseSteps, Goto(c, step), UNCHANGED <<status, lost, job, at>>,
               reason # "none" => reason' # "none", Settled'
        PROVE  Accounts'
    <2>1. Knows(c)'
          BY <1>0, <1>1, <1>2, ElsewhereKnows
    <2> QED BY <1>0, <1>1, <1>2, <2>1, IdleAccounts
  <1>3. ASSUME NEW step \in CloseSteps, Goto(c, step), CancelsOnly, UNCHANGED <<job, at>>, Settled'
        PROVE  Accounts'
    <2>1. Knows(c)'
          BY <1>0, <1>1, <1>3, ElsewhereKnows
    <2>2. \A j \in Jobs :
              /\ Lasts(j)
              /\ status'[j] = status[j] \/ status'[j] = "CANCELLED"
          BY <1>3 DEF CancelsOnly, Lasts
    <2> QED BY <1>0, <1>1, <1>3, <2>1, <2>2, OutsideAccounts
  <1>4. ASSUME NEW step \in CloseSteps \ {"closeResources"}, Goto(c, step)
        PROVE  \A d \in Callers : pc'[d] = "closeResources" => pc[d] = "closeResources"
        BY <1>4 DEF Goto, TypeOK
  <1>5. ASSUME StartClose(c) PROVE Accounts'
    <2>1. PICK step \in {"closeWait", "closeLock", "closePeek"} : Goto(c, step)
          BY <1>5 DEF StartClose
    <2>2. UNCHANGED <<status, lost, job, at>> /\ (reason # "none" => reason' # "none")
          BY <1>5 DEF StartClose, store, locals
    <2>3. Settled'
      <3>1. CASE closed
            BY <1>0, <1>1, <1>4, <1>5, <2>1, <3>1, StaysSettled DEF StartClose, store
      <3>2. CASE ~closed
        <4>1. ~closing.done /\ \A d \in Callers : pc[d] # "closeResources"
              BY <3>2 DEF Safety, OneCloser, Closing, CloseSteps
        <4>2. closing'.done = closing.done
              BY <1>5, <3>2 DEF StartClose, TypeOK
        <4> QED BY <1>0, <1>4, <2>1, <4>1, <4>2 DEF Settled
      <3> QED BY <3>1, <3>2
    <2> QED BY <1>0, <1>2, <2>1, <2>2, <2>3
  <1>6. ASSUME CloseWait(c) PROVE Accounts'
    <2>1. Leave(c) /\ UNCHANGED <<status, lost, reason, closing>>
          BY <1>6 DEF CloseWait, fields, store
    <2>2. Settled'
          BY <1>1, <2>1, LeaveKnows, StaysSettled
    <2> QED BY <1>1, <2>1, <2>2, LeaveKnows, IdleAccounts
  <1>7. ASSUME ClosePeek(c) \/ CloseSignal(c) \/ CloseLock(c) PROVE Accounts'
    <2>1. PICK step \in CloseSteps \ {"closeResources"} : Goto(c, step)
          BY <1>0, <1>7 DEF ClosePeek, CloseSignal, CloseLock
    <2>2. UNCHANGED <<status, lost, job, at>> /\ (reason # "none" => reason' # "none")
          BY <1>7 DEF ClosePeek, CloseSignal, CloseLock, CloseStep, store, fields, locals
    <2>3. /\ closing'.job = closing.job /\ (closing.error => closing'.error)
          /\ closing'.done = closing.done
          BY <1>7 DEF ClosePeek, CloseSignal, CloseLock, TypeOK
    <2>4. Settled'
          BY <1>1, <1>4, <2>1, <2>2, <2>3, StaysSettled
    <2> QED BY <1>2, <2>1, <2>2, <2>4
  <1>8. ASSUME CloseCancel(c) PROVE Accounts'
    <2>1. PICK result \in Outcomes :
             /\ CancelDurable(closing.job, "closed", result)
             /\ closing' = [closing EXCEPT !.error = @ \/ result = "error"]
          BY <1>8 DEF CloseCancel
    <2>2. PICK step \in CloseSteps \ {"closeResources"} : Goto(c, step)
          BY <1>0, <1>8 DEF CloseCancel
    <2>3. CancelsOnly
          BY <2>1, CancelCancels DEF TypeOK
    <2>4. /\ closing'.job = closing.job /\ (closing.error => closing'.error)
          /\ closing'.done = closing.done /\ UNCHANGED <<job, at>>
          BY <1>8, <2>1 DEF CloseCancel, CloseStep, locals, TypeOK
    <2>5. Settled'
          BY <1>1, <1>4, <2>2, <2>3, <2>4, StaysSettled DEF CancelsOnly
    <2> QED BY <1>3, <2>2, <2>3, <2>4, <2>5
  <1>9. ASSUME CloseAgain(c) PROVE Accounts'
    <2>1. Goto(c, "closeResources") /\ "closeResources" \in CloseSteps /\ UNCHANGED <<job, at>>
          BY <1>0, <1>9 DEF CloseAgain, CloseStep, locals
    <2>2. CASE closing.job = NoJob
      <3>1. UNCHANGED <<status, lost, reason, closing>>
            BY <1>9, <2>2 DEF CloseAgain, store
      <3>2. Settled'
            BY <2>2, <3>1 DEF Settled
      <3> QED BY <1>2, <2>1, <3>1, <3>2
    <2>3. CASE closing.job # NoJob
      <3>1. PICK result \in Outcomes :
               /\ CancelDurable(closing.job, "closed", result)
               /\ closing' = [closing EXCEPT !.error = @ \/ result = "error"]
            BY <1>9, <2>3 DEF CloseAgain
      <3>2. closing.job \in Jobs
            BY <2>3 DEF TypeOK
      <3>3. /\ CancelsOnly
            /\ result = "done" => status'[closing.job] = "CANCELLED"
            /\ result = "gone" => status'[closing.job] \in Finals \cup {"ABSENT"}
            BY <3>1, <3>2, CancelCancels
      <3>4. closing'.job = closing.job /\ (result = "error" => closing'.error)
            BY <3>1 DEF TypeOK
      <3>5. Finals \cup {"CANCELLED"} = TERMINAL_STATUSES
            BY DEF Finals, TERMINAL_STATUSES
      <3>6. Settled'
            BY <3>3, <3>4, <3>5 DEF Settled, Outcomes
      <3> QED BY <1>3, <2>1, <3>3, <3>6
    <2> QED BY <2>2, <2>3
  <1>10. ASSUME CloseResources(c) PROVE Accounts'
    <2>1. Leave(c) /\ pc[c] = "closeResources" /\ UNCHANGED <<status, lost, reason>>
          BY <1>10 DEF CloseResources, fields, store
    <2>2. closing'.job = closing.job /\ closing'.error = closing.error
          BY <1>10 DEF CloseResources, TypeOK
    <2>3. Settled'
          BY <1>1, <2>1, <2>2, LeaveKnows, StaysSettled
    <2> QED BY <1>1, <2>1, <2>3, LeaveKnows, IdleAccounts
  <1> QED BY <1>5, <1>6, <1>7, <1>8, <1>9, <1>10 DEF Close

(* Every step keeps the accounts of the jobs. *)
LEMMA AccountsPreserved == IInv /\ Accounts /\ [Next]_vars => Accounts'
  <1>1. ASSUME Accounts, UNCHANGED <<status, lost, reason, closing, pc, job, at>> PROVE Accounts'
        BY <1>1 DEF Accounts, AccountedFor, Excused, Unrendered, Knows, Settled
  <1>2. ASSUME Accounts, UNCHANGED vars PROVE Accounts'
        BY <1>1, <1>2 DEF vars, fields, store, locals
  <1>3. ASSUME Accounts, DropHolder PROVE Accounts'
        BY <1>1, <1>3 DEF DropHolder, fields, locals
  <1> QED BY <1>2, <1>3, RunStepAccounts, ExportAccounts, FinishAccounts, CancelAccounts,
             ReopenAccounts, CloseAccounts DEF IInv, Next, Act

LEMMA AccountsInvariant == Spec => []Accounts
  <1>1. Accounts /\ IInv /\ [Next]_vars => Accounts'
        BY AccountsPreserved
  <1> QED BY <1>1, InitAccounts, Invariant, PTL DEF Spec

(* Only a checkpoint says of a run that it has passed one. *)
LEMMA OnlyACheckpointChecks ==
    ASSUME TypeOK, [Next]_vars, NEW c \in Callers, pc[c] = "return", ~checked[c], checked'[c]
    PROVE  Checkpoint(c)
  <1>1. ~UNCHANGED checked
        OBVIOUS
  <1>2. PICK d \in Callers : Act(d)
        BY <1>1 DEF Next, vars, locals, DropHolder
  <1>3. CASE d # c
    <2>1. \/ UNCHANGED checked
          \/ \E b \in BOOLEAN : checked' = [checked EXCEPT ![d] = b]
      <3>1. CASE Run(d)
            BY <3>1 DEF Run, StartRun, Checkpoint, Prepare, Create, RecordStart, Generate,
                        FinishAttempt, Verify, Decide, Select, RecordFatal, Return, RunStep, locals
      <3>2. CASE Export(d) \/ FinishRun(d) \/ Cancel(d)
            BY <3>2 DEF Export, StartExport, BeginExport, CommitExport, StartRecovery, Recover,
                        ExportStep, FinishRun, Cancel, StartCancel, CancelJob, Signal, Leave, locals
      <3>3. CASE Reopen(d) \/ Close(d)
            BY <3>3 DEF Reopen, StartReopen, LoadPipeline, Install, FinishReopen, Close, CloseStep,
                        StartClose, CloseWait, ClosePeek, CloseCancel, CloseSignal, CloseLock,
                        CloseAgain, CloseResources, Leave, locals
      <3> QED BY <1>2, <3>1, <3>2, <3>3 DEF Act
    <2> QED BY <1>3, <2>1 DEF TypeOK
  <1>4. CASE d = c
    <2>1. Run(c)
          BY <1>2, <1>4 DEF Act, Export, StartExport, Occupy, BeginExport, CommitExport,
             StartRecovery, Recover, FinishRun, Cancel, StartCancel, CancelJob, Signal, Reopen,
             StartReopen, LoadPipeline, Install, FinishReopen, Close, StartClose, CloseWait,
             ClosePeek, CloseCancel, CloseSignal, CloseLock, CloseAgain, CloseResources
    <2> QED BY <2>1 DEF Run, StartRun, Occupy, Prepare, Create, RecordStart, Generate,
               FinishAttempt, Verify, Decide, Select, RecordFatal, Return, RunStep
  <1> QED BY <1>3, <1>4

-----------------------------------------------------------------------------
(* The variables have their types, and readiness tells of a closed runtime *)
(* that it is closed, whatever else is going on.                           *)
THEOREM TypeCorrect == Spec => []TypeOK
  BY Invariant, PTL DEF IInv

(* A run, export or recovery owns the runtime until it has finished: the   *)
(* run lock and the active job are its own, for any number of callers that *)
(* run, export, cancel, reopen and close at the same time.                 *)
THEOREM Ownership == Spec => []OwnsRuntime
  BY Invariant, PTL DEF IInv, Safety

(* No run generates or verifies on a closed pipeline.                      *)
THEOREM NoClosedPipeline == Spec => []PipelineUsable
  <1>1. IInv => PipelineUsable
        BY DEF IInv, Safety, Pipelines, PipelineUsable, Checkpoints
  <1> QED BY <1>1, Invariant, PTL

(* After a close has returned nothing runs and no pipeline is left open.   *)
THEOREM NothingLeftOpen == Spec => []ClosedForGood
  <1>1. IInv => ClosedForGood
        BY DEF IInv, Safety, OneCloser, ClosedForGood, Holding
  <1> QED BY <1>1, Invariant, PTL

(* A job is never left where nothing goes on: outside its run it rests, or  *)
(* a recording for it has failed; and a close that reports no error leaves  *)
(* the job it interrupted terminal, or unborn. *)
THEOREM NoneLeft == Spec => []NoJobIsLeft
  <1>1. IInv /\ Accounts => NoJobIsLeft
    <2>1. Running \subseteq RunSteps
          BY DEF Running
    <2>2. Accounts => NoStrandedJob
          BY <2>1 DEF Accounts, AccountedFor, Excused, Unrendered, NoStrandedJob, Resting
    <2>3. Accounts => CloseSettlesActiveJob
          BY DEF Accounts, Settled, CloseSettlesActiveJob
    <2> QED BY <2>2, <2>3 DEF IInv, NoJobIsLeft
  <1> QED BY <1>1, Invariant, AccountsInvariant, PTL

(* No run returns a result for a job whose cancellation has been recorded   *)
(* by the time of its last checkpoint: whoever recorded it has told the run *)
(* why, and nobody has taken the reason back. *)
THEOREM CancelledGetsNoResult == Spec => ResultNeverCancelled
  <1>1. ASSUME IInv, Accounts, [Next]_vars
        PROVE  [\A c \in Callers :
                   pc[c] = "return" /\ ~checked[c] /\ checked'[c] => status[job[c]] # "CANCELLED"]_vars
    <2>1. ASSUME NEW c \in Callers, pc[c] = "return", ~checked[c], checked'[c],
                 status[job[c]] = "CANCELLED"
          PROVE  FALSE
      <3>1. Checkpoint(c)
            BY <1>1, <2>1, OnlyACheckpointChecks DEF IInv
      <3>2. reason # "none" /\ job[c] \in Jobs
            BY <1>1, <2>1 DEF Accounts, Knows, Running, RunSteps, Checkpoints
      <3>3. PICK result \in Outcomes :
               CancelDurable(job[c], "closed", result) /\ result = "gone"
        <4>1. ~(checked' = checked)
              BY <2>1
        <4> QED BY <2>1, <3>1, <3>2, <4>1 DEF Checkpoint
      <3>4. status[job[c]] \in Finals \cup {"ABSENT"}
            BY <1>1, <3>2, <3>3, CancelCancels DEF IInv
      <3> QED BY <2>1, <3>4 DEF Finals
    <2> QED BY <2>1
  <1> QED BY <1>1, Invariant, AccountsInvariant, PTL DEF Spec, ResultNeverCancelled

-----------------------------------------------------------------------------
(***************************************************************************)
(* The opening of a runtime (RuntimeOpening): what an opening has taken is *)
(* always known from the step it has reached.                              *)
(***************************************************************************)

(* Nobody is not a thread, and None is not a capability. *)
Sentinels == Nobody \notin Openers /\ None \notin [encoder : Encoders]

(* The steps of a thread that holds nothing, of one that is loading under  *)
(* the lease, and of one whose pipeline has been issued. *)
Early   == {"idle", "load", "failed", "detached"}
Loading == {"control", "pipeline", "adapter", "issue", "undoLoad"}
Issued  == {"factory", "inFactory", "closePipeline", "verifier", "artifacts", "reports", "open",
            "cleanup"}

Stores == {"artifacts", "reports"}

(* What OpeningTypeOK leaves open: the variables are functions over threads. *)
Typed ==
    /\ openingPc \in [Openers -> Early \cup Loading \cup Issued]
    /\ kind \in [Openers -> {"runtime", "context"}]
    /\ openingLoads \in [Openers -> 0 .. 1]
    /\ loaded \in [Openers -> [encoder : Encoders] \cup {None}]
    /\ context \in [Openers -> Encoders \cup {None}]

(* What a thread has taken, by the step it has reached. *)
Holds(o) ==
    /\ openingPc[o] \in Early => lease # o /\ o \notin control
    /\ openingPc[o] \in Loading => lease = o
    /\ openingPc[o] \in Early \cup Loading => loaded[o] = None
    /\ openingPc[o] \in Early \cup Loading \cup {"factory", "inFactory", "closePipeline"} =>
          o \notin verifier /\ \A s \in Stores : <<o, s>> \notin fds
    /\ openingPc[o] \in Early \cup {"control", "pipeline"} => o \notin openingPipe
    /\ openingPc[o] \in {"adapter", "issue"} => o \in openingPipe
    /\ openingPc[o] \in Issued => o \in openingPipe /\ loaded[o] \in [encoder : Encoders]
    /\ openingPc[o] \in {"verifier", "artifacts", "reports", "open"} => context[o] = loaded[o].encoder
    /\ openingLoads[o] = IF o \in openingPipe THEN 1 ELSE 0

OpeningIInv == OpeningTypeOK /\ Typed /\ \A o \in Openers : Holds(o)

-----------------------------------------------------------------------------
(* Initially every thread is idle and holds nothing. *)
LEMMA OpeningInitInvariant ==
    ASSUME Sentinels, MaxOpeningFaults \in Nat, OpeningInit
    PROVE  OpeningIInv
  <1>1. OpeningTypeOK
        BY DEF OpeningInit, OpeningTypeOK
  <1>2. Typed
        BY DEF OpeningInit, Typed, Early
  <1>3. \A o \in Openers : Holds(o)
        BY DEF OpeningInit, Holds, Sentinels, Early, Loading, Issued
  <1> QED BY <1>1, <1>2, <1>3 DEF OpeningIInv

(* The three kinds of steps are disjoint. *)
LEMMA StepsApart ==
    /\ Early \cap Loading = {} /\ Early \cap Issued = {} /\ Loading \cap Issued = {}
    /\ {"control", "pipeline", "adapter", "issue"} \subseteq Loading
    /\ {"verifier", "artifacts", "reports", "open"} \subseteq Issued
  BY DEF Early, Loading, Issued

(* A thread may take the lease when it is free and give back its own:      *)
(* another thread's steps leave a thread what it holds. *)
LEMMA OthersHold ==
    ASSUME Sentinels, OpeningIInv, NEW o \in Openers, NEW d \in Openers, d # o,
           openingPc'[d] = openingPc[d], loaded'[d] = loaded[d], context'[d] = context[d], openingLoads'[d] = openingLoads[d],
           d \in control' <=> d \in control, d \in openingPipe' <=> d \in openingPipe,
           d \in verifier' <=> d \in verifier,
           \A s \in Stores : <<d, s>> \in fds' <=> <<d, s>> \in fds,
           lease' = lease \/ (lease \in {Nobody, o} /\ lease' \in {Nobody, o})
    PROVE  Holds(d)'
  <1>1. Holds(d)
        BY DEF OpeningIInv
  <1>2. (lease = d => lease' = d) /\ (lease # d => lease' # d)
        BY DEF Sentinels
  <1> QED BY <1>1, <1>2 DEF Holds

(* What every step has to show: its own thread is where it should be.      *)
LEMMA StepHolds ==
    ASSUME Sentinels, OpeningIInv, NEW o \in Openers, OpeningTypeOK', Typed', Holds(o)',
           \A d \in Openers \ {o} :
              /\ openingPc'[d] = openingPc[d] /\ loaded'[d] = loaded[d] /\ context'[d] = context[d]
              /\ openingLoads'[d] = openingLoads[d]
              /\ d \in control' <=> d \in control
              /\ d \in openingPipe' <=> d \in openingPipe
              /\ d \in verifier' <=> d \in verifier
              /\ \A s \in Stores : <<d, s>> \in fds' <=> <<d, s>> \in fds,
           lease' = lease \/ (lease \in {Nobody, o} /\ lease' \in {Nobody, o})
    PROVE  OpeningIInv'
  <1>1. ASSUME NEW d \in Openers \ {o} PROVE Holds(d)'
        BY <1>1, OthersHold
  <1> QED BY <1>1 DEF OpeningIInv
(* The lease goes from hand to hand, and failures stay within their bound. *)
LEMMA FaultTyped ==
    ASSUME MaxOpeningFaults \in Nat, OpeningTypeOK, Fault
    PROVE  openingFaults' \in 0 .. MaxOpeningFaults
  BY DEF Fault, OpeningTypeOK

(* A thread that is loading, under the lease from one step to the next.    *)
LEMMA LoadPreserves ==
    ASSUME Sentinels, MaxOpeningFaults \in Nat, OpeningIInv, NEW o \in Openers,
           Start(o) \/ BeginLoad(o) \/ LoadControl(o) \/ LoadBase(o) \/ LoadAdapter(o)
           \/ Issue(o) \/ UndoLoad(o)
    PROVE  OpeningIInv'
  <1> USE DEF OpeningIInv
  <1>0. /\ Holds(o)
        /\ openingFaults' = openingFaults \/ Fault
        BY DEF Start, BeginLoad, LoadControl, LoadBase, LoadAdapter, Issue, UndoLoad
  <1>1. openingFaults' \in 0 .. MaxOpeningFaults
        BY <1>0, FaultTyped DEF OpeningTypeOK
  <1>2. ASSUME Start(o) PROVE OpeningIInv'
    <2>1. OpeningTypeOK' /\ Typed' /\ Holds(o)'
          BY <1>0, <1>2 DEF Start, OpeningTypeOK, Typed, Holds, Proceed, gpu, owned, Early,
             Loading, Issued
    <2> QED BY <1>2, <2>1, StepHolds DEF Start, Typed, Proceed, gpu, owned
  <1>3. ASSUME BeginLoad(o) PROVE OpeningIInv'
    <2>1. OpeningTypeOK' /\ Typed'
          BY <1>1, <1>3 DEF BeginLoad, Take, OpeningTypeOK, Typed, Proceed, gpu, owned, Early,
             Loading, Issued
    <2>2. Holds(o)'
          BY <1>0, <1>3 DEF BeginLoad, Take, OpeningTypeOK, Typed, Holds, Proceed, gpu, owned,
             Early, Loading, Issued, Sentinels
    <2> QED BY <1>3, <2>1, <2>2, StepHolds DEF BeginLoad, Take, Typed, Proceed, gpu, owned
  <1>4. ASSUME LoadControl(o) PROVE OpeningIInv'
    <2>1. OpeningTypeOK' /\ Typed'
          BY <1>1, <1>4 DEF LoadControl, OpeningTypeOK, Typed, Proceed, owned, Early, Loading,
             Issued
    <2>2. Holds(o)'
          BY <1>0, <1>4 DEF LoadControl, Typed, Holds, Proceed, owned, Early, Loading, Issued
    <2> QED BY <1>4, <2>1, <2>2, StepHolds DEF LoadControl, Typed, Proceed, owned
  <1>5. ASSUME LoadBase(o) PROVE OpeningIInv'
    <2>0. openingLoads[o] = 0 /\ o \notin openingPipe
          BY <1>0, <1>5 DEF LoadBase, Holds
    <2>1. OpeningTypeOK' /\ Typed'
          BY <1>1, <1>5, <2>0
             DEF LoadBase, OpeningTypeOK, Typed, Proceed, owned, Early, Loading, Issued
    <2>2. Holds(o)'
          BY <1>0, <1>5, <2>0 DEF LoadBase, Typed, Holds, Proceed, owned, Early, Loading, Issued
    <2> QED BY <1>5, <2>1, <2>2, StepHolds DEF LoadBase, Typed, Proceed, owned
  <1>6. ASSUME LoadAdapter(o) PROVE OpeningIInv'
    <2>1. OpeningTypeOK' /\ Typed' /\ Holds(o)'
          BY <1>0, <1>1, <1>6 DEF LoadAdapter, OpeningTypeOK, Typed, Holds, Proceed, gpu, owned,
             Early, Loading, Issued
    <2> QED BY <1>6, <2>1, StepHolds DEF LoadAdapter, Typed, Proceed, gpu, owned
  <1>7. ASSUME Issue(o) PROVE OpeningIInv'
    <2>1. lease = o
          BY <1>0, <1>7, StepsApart DEF Issue, Holds
    <2>2. OpeningTypeOK' /\ Typed'
          BY <1>1, <1>7 DEF Issue, Release, OpeningTypeOK, Typed, Proceed, gpu, Early, Loading,
             Issued
    <2>3. Holds(o)'
          BY <1>0, <1>7 DEF Issue, Release, Typed, Holds, Proceed, gpu, Early, Loading, Issued
    <2> QED BY <1>7, <2>1, <2>2, <2>3, StepHolds DEF Issue, Release, Typed, Proceed, gpu
  <1>8. ASSUME UndoLoad(o) PROVE OpeningIInv'
    <2>1. lease = o
          BY <1>0, <1>8 DEF UndoLoad, Holds, Loading
    <2>2. openingLoads' = [openingLoads EXCEPT ![o] = 0]
          BY <1>0, <1>8 DEF UndoLoad, Freed, Holds, Typed
    <2>3. OpeningTypeOK' /\ Typed'
          BY <1>1, <1>8, <2>2
             DEF UndoLoad, Release, OpeningTypeOK, Typed, Proceed, owned, Early, Loading, Issued
    <2>4. Holds(o)'
          BY <1>0, <1>8, <2>2 DEF UndoLoad, Release, Typed, Holds, Proceed, owned, Early,
             Loading, Issued, Sentinels
    <2> QED BY <1>8, <2>1, <2>2, <2>3, <2>4, StepHolds DEF UndoLoad, Release, Typed, Proceed,
               owned
  <1> QED BY <1>2, <1>3, <1>4, <1>5, <1>6, <1>7, <1>8

(* A thread in the caller's factory, also when it tries to open again.     *)
LEMMA FactoryPreserves ==
    ASSUME Sentinels, MaxOpeningFaults \in Nat, OpeningIInv, NEW o \in Openers,
           CallFactory(o) \/ Help(o) \/ OpenInside(o) \/ FactoryReturns(o)
    PROVE  OpeningIInv'
  <1> USE DEF OpeningIInv
  <1>0. /\ Holds(o)
        /\ openingFaults' = openingFaults \/ Fault
        BY DEF CallFactory, Help, OpenInside, FactoryReturns
  <1>1. openingFaults' \in 0 .. MaxOpeningFaults
        BY <1>0, FaultTyped DEF OpeningTypeOK
  <1>2. ASSUME CallFactory(o) PROVE OpeningIInv'
    <2>1. OpeningTypeOK' /\ Typed' /\ Holds(o)'
          BY <1>0, <1>2 DEF CallFactory, OpeningTypeOK, Typed, Holds, Proceed, gpu, owned,
             Early, Loading, Issued
    <2> QED BY <1>2, <2>1, StepHolds DEF CallFactory, Typed, Proceed, gpu, owned
  <1>3. ASSUME Help(o) PROVE OpeningIInv'
    <2>1. OpeningTypeOK' /\ Typed' /\ Holds(o)'
          BY <1>0, <1>3 DEF Help, OpeningTypeOK, Typed, Holds, gpu, owned
    <2> QED BY <1>3, <2>1, StepHolds DEF Help, gpu, owned
  <1>4. ASSUME OpenInside(o) PROVE OpeningIInv'
    <2>1. UNCHANGED openingLoads
          BY <1>4 DEF OpenInside, MayOpen, Typed
    <2>2. OpeningTypeOK' /\ Typed' /\ Holds(o)'
          BY <1>0, <1>4, <2>1
             DEF OpenInside, OpeningTypeOK, Typed, Holds, Proceed, owned, Early, Loading, Issued
    <2> QED BY <1>4, <2>1, <2>2, StepHolds DEF OpenInside, Typed, Proceed, owned
  <1>5. ASSUME FactoryReturns(o) PROVE OpeningIInv'
    <2>1. OpeningTypeOK' /\ Typed'
          BY <1>1, <1>5 DEF FactoryReturns, OpeningTypeOK, Typed, Proceed, gpu, owned, Early,
             Loading, Issued
    <2>2. Holds(o)'
          BY <1>0, <1>5 DEF FactoryReturns, Match, Typed, Holds, Proceed, gpu, owned, Early,
             Loading, Issued
    <2> QED BY <1>5, <2>1, <2>2, StepHolds DEF FactoryReturns, Typed, Proceed, gpu, owned
  <1> QED BY <1>2, <1>3, <1>4, <1>5
(* A runtime's resources, one after the other. *)
LEMMA MakePreserves ==
    ASSUME Sentinels, MaxOpeningFaults \in Nat, OpeningIInv, NEW o \in Openers,
           MakeVerifier(o) \/ OpenArtifactStore(o) \/ OpenReportStore(o)
    PROVE  OpeningIInv'
  <1> USE DEF OpeningIInv
  <1>0. /\ Holds(o)
        /\ openingFaults' = openingFaults \/ Fault
        BY DEF MakeVerifier, OpenArtifactStore, OpenReportStore
  <1>1. openingFaults' \in 0 .. MaxOpeningFaults
        BY <1>0, FaultTyped DEF OpeningTypeOK
  <1>2. ASSUME MakeVerifier(o) PROVE OpeningIInv'
    <2>1. OpeningTypeOK' /\ Typed' /\ Holds(o)'
          BY <1>0, <1>1, <1>2
             DEF MakeVerifier, OpeningTypeOK, Typed, Holds, Proceed, gpu, Early, Loading, Issued
    <2> QED BY <1>2, <2>1, StepHolds DEF MakeVerifier, Typed, Proceed, gpu
  <1>3. ASSUME OpenArtifactStore(o) PROVE OpeningIInv'
    <2>1. OpeningTypeOK' /\ Typed' /\ Holds(o)'
          BY <1>0, <1>1, <1>3 DEF OpenArtifactStore, OpeningTypeOK, Typed, Holds, Proceed, gpu,
             Early, Loading, Issued
    <2>2. \A d \in Openers \ {o}, s \in Stores : <<d, s>> \in fds' <=> <<d, s>> \in fds
          BY <1>3 DEF OpenArtifactStore
    <2> QED BY <1>3, <2>1, <2>2, StepHolds DEF OpenArtifactStore, Typed, Proceed, gpu
  <1>4. ASSUME OpenReportStore(o) PROVE OpeningIInv'
    <2>1. OpeningTypeOK' /\ Typed' /\ Holds(o)'
          BY <1>0, <1>1, <1>4 DEF OpenReportStore, OpeningTypeOK, Typed, Holds, Proceed, gpu,
             Early, Loading, Issued
    <2>2. \A d \in Openers \ {o}, s \in Stores : <<d, s>> \in fds' <=> <<d, s>> \in fds
          BY <1>4 DEF OpenReportStore
    <2> QED BY <1>4, <2>1, <2>2, StepHolds DEF OpenReportStore, Typed, Proceed, gpu
  <1> QED BY <1>2, <1>3, <1>4

(* Giving back, whether or not it fails. *)
LEMMA GiveBackPreserves ==
    ASSUME Sentinels, MaxOpeningFaults \in Nat, OpeningIInv, NEW o \in Openers,
           Cleanup(o) \/ ReturnContext(o) \/ CloseOpened(o) \/ Again(o)
    PROVE  OpeningIInv'
  <1> USE DEF OpeningIInv
  <1>0. Holds(o)
        OBVIOUS
  <1>1. openingFaults' \in 0 .. MaxOpeningFaults
        BY FaultTyped DEF OpeningTypeOK, Cleanup, ReturnContext, CloseOpened, Again
  <1>2. ASSUME openingPc[o] \in Issued, ClosePipeline(o)
        PROVE  /\ openingLoads' = [openingLoads EXCEPT ![o] = 0]
               /\ lease \in {Nobody, o} /\ lease' = Nobody
               /\ loaded' = [loaded EXCEPT ![o] = None]
               /\ openingPipe' = openingPipe \ {o} /\ control' = control \ {o}
    <2>1. openingLoads[o] = 1
          BY <1>0, <1>2 DEF Holds
    <2> QED BY <1>2, <2>1 DEF ClosePipeline, Release
  <1>3. /\ DropStores(o) => /\ \A s \in Stores : <<o, s>> \notin fds'
                            /\ fds' \subseteq fds
        /\ DropStores(o) => \A d \in Openers \ {o}, s \in Stores :
                               <<d, s>> \in fds' <=> <<d, s>> \in fds
        BY DEF DropStores, Stores
  <1>4. ASSUME Cleanup(o) \/ CloseOpened(o) PROVE OpeningIInv'
    <2>1. /\ openingPc[o] \in Issued /\ ClosePipeline(o) /\ DropStores(o)
          /\ verifier' = verifier \ {o}
          /\ context' = [context EXCEPT ![o] = None]
          /\ Proceed(o, "failed") \/ Proceed(o, "idle")
          /\ UNCHANGED <<kind, helping>>
          BY <1>4 DEF Cleanup, CloseOpened, Issued
    <2>2. OpeningTypeOK' /\ Typed'
          BY <1>1, <1>2, <1>3, <2>1 DEF OpeningTypeOK, Typed, Proceed, Early
    <2>3. Holds(o)'
          BY <1>2, <1>3, <2>1 DEF Typed, Holds, Proceed, Early, Loading, Issued, Sentinels
    <2> QED BY <1>2, <1>3, <2>1, <2>2, <2>3, StepHolds DEF Typed, Proceed
  <1>5. ASSUME ReturnContext(o) PROVE OpeningIInv'
    <2>1. /\ openingPc[o] = "closePipeline" /\ openingPc[o] \in Issued /\ ClosePipeline(o)
          /\ Proceed(o, "failed") \/ Proceed(o, "detached")
          /\ UNCHANGED <<kind, verifier, fds, helping>>
          /\ context' = context \/ context' = [context EXCEPT ![o] = None]
          BY <1>5 DEF ReturnContext, Issued
    <2>2. OpeningTypeOK' /\ Typed'
          BY <1>1, <1>2, <2>1 DEF OpeningTypeOK, Typed, Proceed, Early
    <2>3. Holds(o)'
          BY <1>0, <1>2, <2>1 DEF Typed, Holds, Proceed, Early, Loading, Issued, Sentinels
    <2> QED BY <1>2, <2>1, <2>2, <2>3, StepHolds DEF Typed, Proceed
  <1>6. ASSUME Again(o) PROVE OpeningIInv'
    <2>1. OpeningTypeOK' /\ Typed' /\ Holds(o)'
          BY <1>0, <1>6 DEF Again, OpeningTypeOK, Typed, Holds, Proceed, gpu, Early, Loading,
             Issued
    <2> QED BY <1>6, <2>1, StepHolds DEF Again, Typed, Proceed, gpu
  <1> QED BY <1>4, <1>5, <1>6

(* Every step preserves the invariant. *)
LEMMA StepPreserves ==
    ASSUME Sentinels, MaxOpeningFaults \in Nat, OpeningIInv, [OpeningNext]_openingVars
    PROVE  OpeningIInv'
  <1>1. CASE UNCHANGED openingVars
        BY <1>1 DEF OpeningIInv, OpeningTypeOK, Typed, Holds, openingVars, gpu, owned
  <1> QED BY <1>1, LoadPreserves, FactoryPreserves, MakePreserves, GiveBackPreserves
          DEF OpeningNext, Opening

-----------------------------------------------------------------------------
(* An opening takes everything or leaves nothing behind, wherever it fails  *)
(* and even when giving back fails; a runtime and a context that it hands   *)
(* out belong to the encoder of its own pipeline; and no factory, opening a *)
(* runtime itself, puts a second pipeline on the GPU. *)
THEOREM OpeningSound ==
    ASSUME Sentinels, MaxOpeningFaults \in Nat
    PROVE  OpeningSpec => []OpeningIsSound
  <1>1. OpeningInit => OpeningIInv
        BY OpeningInitInvariant
  <1>2. OpeningIInv /\ [OpeningNext]_openingVars => OpeningIInv'
        BY StepPreserves
  <1>3. OpeningIInv => OpeningIsSound
    <2>1. OpeningIInv => AllOrNothing
          BY DEF OpeningIInv, AllOrNothing, Holds, Early, Loading, Stores
    <2>2. OpeningIInv => ContextIsThePipelines
      <3>1. ASSUME OpeningIInv, NEW o \in Openers, openingPc[o] = "open"
            PROVE  loaded[o] # None /\ context[o] = loaded[o].encoder
            BY <3>1, StepsApart DEF OpeningIInv, Holds, Sentinels
      <3> QED BY <3>1 DEF ContextIsThePipelines
    <2>3. OpeningIInv => OneLoadPerOpening
          BY DEF OpeningIInv, Typed, OneLoadPerOpening
    <2> QED BY <2>1, <2>2, <2>3 DEF OpeningIInv, OpeningIsSound
  <1> QED BY <1>1, <1>2, <1>3, PTL DEF OpeningSpec
=============================================================================
