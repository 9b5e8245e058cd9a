----------------------------- MODULE ProductionUi -----------------------------
(***************************************************************************)
(* The production controls of the user interface: ui/production_ui_state.py *)
(* and ui/production_run.py, over the execution of one job                 *)
(* (workflow/run_one.py) and the GPU lane                                  *)
(* (generation/gpu_runtime_lane.py).                                       *)
(*                                                                         *)
(* Threads of the web server call run, batch and replay; one invocation    *)
(* runs at a time.  Others press cancel or ask for the status meanwhile.   *)
(* An execution takes the lane, which preview runs take too, and keeps it  *)
(* until its resources are closed.  The state lock is held for one action  *)
(* at a time; the gate that keeps cancel and close apart is a variable.    *)
(***************************************************************************)
EXTENDS Naturals, Sequences, FiniteSets

CONSTANTS
    Callers,
    Kinds,          \* a subset of {"single", "batch", "replay"}
    BatchSize,
    MaxRuns,        \* bound on invocations
    MaxJobs,        \* bound on jobs reserved
    None

Jobs == 1..MaxJobs
PreviewRun == 0

VARIABLES
    pc, res,        \* of a caller: the next step, how its execution ended
    flight,         \* who holds _single_flight
    active,         \* the active invocation
    items,          \* the statuses of its items
    token, issued,  \* invocations begun, jobs reserved
    gate,           \* who holds _cancel_close_gate
    exec,           \* an execution: "none", "open", "closed"; started; pending
    jobs,           \* the status of a job in the store
    lane,           \* who owns the GPU
    terminal, baseline,
    cpc, cjob,      \* the canceller, and the execution it was told to cancel
    answered,       \* what it was last told of the active invocation
    rpc, seen       \* the reader of the status

caller == <<pc, res>>
ui == <<active, items, token, terminal, baseline>>
work == <<exec, jobs, lane, issued>>
cancel == <<cpc, cjob, answered>>
reader == <<rpc, seen>>
vars == <<caller, flight, ui, gate, work, cancel, reader>>

Invocation(c, kind) ==
    [caller |-> c, kind |-> kind, phase |-> "STAGING", index |-> 0, job |-> None,
     exec |-> None, cancel |-> FALSE]

Init ==
    /\ pc = [c \in Callers |-> "idle"] /\ res = [c \in Callers |-> None]
    /\ flight = None /\ active = None /\ items = <<>> /\ token = 0 /\ issued = 0
    /\ gate = None
    /\ exec = [j \in Jobs |-> [state |-> "none", started |-> FALSE, pending |-> FALSE]]
    /\ jobs = [j \in Jobs |-> "absent"]
    /\ lane = None /\ terminal = None /\ baseline = None
    /\ cpc = "idle" /\ cjob = None /\ answered = "nothing"
    /\ rpc = "idle" /\ seen = None

Total == IF active.kind = "batch" THEN BatchSize ELSE 1
Goto(c, step) == pc' = [pc EXCEPT ![c] = step]
End(c, how, step) == res' = [res EXCEPT ![c] = how] /\ Goto(c, step)

-----------------------------------------------------------------------------
(* An invocation *)

\* try_begin; a caller that finds the flight taken is told that it is busy.
Begin(c) ==
    /\ pc[c] = "idle" /\ flight = None /\ token < MaxRuns
    /\ flight' = c /\ token' = token + 1
    /\ End(c, None, "entered")
    /\ UNCHANGED <<active, items, terminal, baseline, gate, work, cancel, reader>>
Enter(c) ==
    /\ pc[c] = "entered"
    /\ \E kind \in Kinds :
          /\ issued + (IF kind = "batch" THEN BatchSize ELSE 1) <= MaxJobs
          /\ active' = Invocation(c, kind)
          /\ Goto(c, IF kind = "replay" /\ baseline = None THEN "abandon" ELSE "stage")
    /\ UNCHANGED <<res, flight, items, token, terminal, baseline, gate, work, cancel, reader>>

\* stage_inputs: a bad upload, or another form than the baseline's.
Stage(c) ==
    /\ pc[c] = "stage"
    /\ \/ Goto(c, IF active.kind = "batch" THEN "loop" ELSE "reserve") /\ UNCHANGED res
       \/ IF active.kind = "replay" THEN Goto(c, "abandon") /\ UNCHANGED res
          ELSE End(c, "infra", "finish")
    /\ UNCHANGED <<flight, ui, gate, work, cancel, reader>>

\* _run_batch, before an item.
Loop(c) ==
    /\ pc[c] = "loop"
    /\ IF active.cancel \/ Len(items) = BatchSize
       THEN Goto(c, "finish") /\ UNCHANGED active
       ELSE /\ Goto(c, "reserve")
            /\ active' = [active EXCEPT !.phase = "STAGING", !.job = None, !.index = Len(items)]
    /\ UNCHANGED <<res, flight, items, token, terminal, baseline, gate, work, cancel, reader>>

Reserve(c) ==
    /\ pc[c] = "reserve"
    /\ issued' = issued + 1
    /\ active' = [active EXCEPT !.phase = "RESERVED", !.job = issued']
    /\ End(c, None, "reserved")
    /\ UNCHANGED <<flight, items, token, terminal, baseline, gate, exec, jobs, lane, cancel, reader>>

CheckCancel(c) ==
    /\ pc[c] = "reserved"
    /\ IF active.cancel THEN End(c, "domain", "view") /\ UNCHANGED active
       ELSE /\ Goto(c, "lane") /\ UNCHANGED res
            /\ active' = [active EXCEPT !.phase = "OPENING"]
    /\ UNCHANGED <<flight, items, token, terminal, baseline, gate, work, cancel, reader>>

\* open_production_run_one: the lane, and then everything else.
AcquireLane(c) ==
    /\ pc[c] = "lane" /\ lane = None
    /\ lane' = active.job /\ Goto(c, "open")
    /\ UNCHANGED <<res, flight, ui, gate, exec, jobs, issued, cancel, reader>>
Open(c) ==
    /\ pc[c] = "open"
    /\ \/ /\ exec' = [exec EXCEPT ![active.job].state = "open"]
          /\ Goto(c, "register") /\ UNCHANGED <<res, lane>>
       \/ /\ lane' = None /\ End(c, "infra", "view") /\ UNCHANGED exec
    /\ UNCHANGED <<flight, ui, gate, jobs, issued, cancel, reader>>

RegisterLate(c) ==  \* mutant: the pending cancel is not delivered
    /\ pc[c] = "register"
    /\ active' = [active EXCEPT !.exec = active.job, !.phase = "ACTIVE"]
    /\ Goto(c, "start")
    /\ UNCHANGED <<res, flight, items, token, terminal, baseline, gate, work, cancel, reader>>

\* register_execution says whether a cancel is pending.
Register(c) ==
    /\ pc[c] = "register"
    /\ active' = [active EXCEPT !.exec = active.job, !.phase = "ACTIVE"]
    /\ Goto(c, IF active.cancel THEN "deliver" ELSE "start")
    /\ UNCHANGED <<res, flight, items, token, terminal, baseline, gate, work, cancel, reader>>

\* cancel_registered_execution, of an execution that has not started.
Deliver(c) ==
    /\ pc[c] = "deliver" /\ gate = None
    /\ exec' = [exec EXCEPT ![active.exec].pending = TRUE]
    /\ Goto(c, "start")
    /\ UNCHANGED <<res, flight, ui, gate, jobs, lane, issued, cancel, reader>>

\* ProductionRunOneExecution.run.
Start(c) ==
    /\ pc[c] = "start"
    /\ exec' = [exec EXCEPT ![active.job].started = TRUE]
    /\ IF exec[active.job].pending THEN End(c, "domain", "close")
       ELSE Goto(c, "genesis") /\ UNCHANGED res
    /\ UNCHANGED <<flight, ui, gate, jobs, lane, issued, cancel, reader>>
Genesis(c) ==
    /\ pc[c] = "genesis"
    /\ \/ jobs' = [jobs EXCEPT ![active.job] = "active"] /\ Goto(c, "work") /\ UNCHANGED res
       \/ End(c, "infra", "close") /\ UNCHANGED jobs
    /\ UNCHANGED <<flight, ui, gate, exec, lane, issued, cancel, reader>>
\* The runtime's run and its export end the job, unless it was cancelled before.
Work(c) ==
    /\ pc[c] = "work"
    /\ \/ /\ jobs[active.job] = "active"
          /\ \/ /\ jobs' = [jobs EXCEPT ![active.job] = "completed"]
                /\ End(c, "result", "ready") \/ End(c, "infra", "close")
             \/ /\ jobs' = [jobs EXCEPT ![active.job] = "failed"]
                /\ \E how \in {"domain", "infra"} : End(c, how, "close")
             \/ /\ UNCHANGED jobs
                /\ \E how \in {"infra", "interrupt"} : End(c, how, "close")
       \/ /\ jobs[active.job] = "cancelled" /\ UNCHANGED jobs
          /\ End(c, "domain", "close")
    /\ UNCHANGED <<flight, ui, gate, exec, lane, issued, cancel, reader>>

Ready(c) ==
    /\ pc[c] = "ready"
    /\ active' = [active EXCEPT !.phase = "RESULT_READY"] /\ Goto(c, "close")
    /\ UNCHANGED <<res, flight, items, token, terminal, baseline, gate, work, cancel, reader>>

\* close_execution, with the gate held throughout.
Close(c) ==
    /\ pc[c] = "close" /\ gate = None
    /\ gate' = c
    /\ active' = [active EXCEPT !.exec = None, !.phase = "CLEANUP"] /\ Goto(c, "closing")
    /\ UNCHANGED <<res, flight, items, token, terminal, baseline, work, cancel, reader>>

ClosedExecution == [state |-> "closed", started |-> TRUE, pending |-> FALSE]

LaneFirst(c) ==  \* mutant: the lane is given back before the resources
    /\ pc[c] = "closing"
    /\ lane' = None /\ Goto(c, "closed")
    /\ UNCHANGED <<res, flight, ui, gate, exec, jobs, issued, cancel, reader>>

\* ProductionRunOneExecution.close: the resources, then the lane.
CloseResources(c) ==
    /\ pc[c] = "closing"
    /\ exec' = [exec EXCEPT ![active.job] = ClosedExecution] /\ Goto(c, "closed")
    /\ UNCHANGED <<res, flight, ui, gate, jobs, lane, issued, cancel, reader>>

\* A cleanup that failed and kept no result loses it.
Closed(c) ==
    /\ pc[c] = "closed"
    /\ lane' = None /\ exec' = [exec EXCEPT ![active.job] = ClosedExecution]
    /\ gate' = IF gate = c THEN None ELSE gate
    /\ \/ End(c, res[c], IF res[c] = "interrupt" THEN "abandon" ELSE "view")
       \/ res[c] = "result" /\ End(c, "lost", "view")
    /\ UNCHANGED <<flight, ui, jobs, issued, cancel, reader>>

\* Any domain error after a cancel was accepted is shown as the cancel.
StatusShown(c) ==
    CASE res[c] = "result" -> "COMPLETED"
      [] res[c] = "domain" /\ active.cancel -> "CANCELLED"
      [] res[c] = "lost" /\ active.kind # "batch" /\ jobs[active.job] = "completed" -> "COMPLETED"
      [] OTHER -> "JOB_FAILED"
\* The view of the item; the batch goes on unless it is cancelled.
View(c) ==
    /\ pc[c] = "view"
    /\ items' = Append(items, [job |-> active.job, status |-> StatusShown(c)])
    /\ Goto(c, IF active.kind = "batch" THEN "loop" ELSE "finish")
    /\ UNCHANGED <<res, flight, active, token, terminal, baseline, gate, work, cancel, reader>>

\* batch_view: the status of the whole.
Completed == {i \in DOMAIN items : items[i].status = "COMPLETED"}
Overall ==
    IF items = <<>> THEN "JOB_FAILED"
    ELSE IF active.kind # "batch" THEN items[1].status
    ELSE IF Completed = {} /\ \E i \in DOMAIN items : items[i].status = "CANCELLED" THEN "CANCELLED"
    ELSE IF Completed = {} THEN "JOB_FAILED"
    ELSE IF Completed = DOMAIN items THEN "COMPLETED" ELSE "PARTIAL"

\* finish keeps one terminal view; a single run that completed is the replay's baseline.
Finish(c) ==
    /\ pc[c] = "finish"
    /\ terminal' = [status |-> Overall, items |-> items]
    /\ \/ /\ active.kind = "single" /\ res[c] = "result" /\ baseline' = active.job
       \/ UNCHANGED baseline       \* also when the evidence cannot be captured
    /\ active' = None /\ items' = <<>> /\ answered' = "nothing" /\ Goto(c, "release")
    /\ UNCHANGED <<res, flight, token, gate, work, cpc, cjob, reader>>
Abandon(c) ==
    /\ pc[c] = "abandon"
    /\ active' = None /\ items' = <<>> /\ answered' = "nothing" /\ Goto(c, "release")
    /\ UNCHANGED <<res, flight, token, terminal, baseline, gate, work, cpc, cjob, reader>>
Release(c) ==
    /\ pc[c] = "release"
    /\ flight' = None /\ End(c, None, "idle")
    /\ UNCHANGED <<ui, gate, work, cancel, reader>>

-----------------------------------------------------------------------------
(* Cancel, status and previews *)

Answer(what) == answered' = what /\ cpc' = "idle" /\ cjob' = None

\* cancel_job up to the call of the execution, for which it keeps the gate.
CancelJob ==
    /\ cpc = "idle" /\ gate = None /\ active # None /\ ~active.cancel
    /\ IF active.phase \in {"RESULT_READY", "CLEANUP"}
       THEN Answer("terminal") /\ UNCHANGED <<active, gate>>
       ELSE IF active.exec = None
       THEN Answer("early") /\ active' = [active EXCEPT !.cancel = TRUE] /\ UNCHANGED gate
       ELSE /\ active' = [active EXCEPT !.cancel = TRUE, !.phase = "CANCEL_REQUESTED"]
            /\ gate' = "canceller" /\ cpc' = "call" /\ cjob' = active.exec /\ UNCHANGED answered
    /\ UNCHANGED <<caller, flight, items, token, terminal, baseline, work, reader>>
\* ProductionRunOneExecution.cancel, up to its look into the store.
CancelExecution ==
    /\ cpc = "call"
    /\ IF exec[cjob].started THEN cpc' = "look" /\ UNCHANGED <<cjob, exec, answered, gate>>
       ELSE /\ exec' = [exec EXCEPT ![cjob].pending = TRUE]
            /\ Answer("requested") /\ gate' = None
    /\ UNCHANGED <<caller, flight, ui, jobs, lane, issued, reader>>
\* No job yet: the cancel is noted, and nobody reads the note.
CancelDurably ==
    /\ cpc = "look" /\ gate' = None
    /\ \/ /\ jobs[cjob] = "absent" /\ Answer("requested")
          /\ exec' = [exec EXCEPT ![cjob].pending = TRUE] /\ UNCHANGED jobs
       \/ /\ jobs[cjob] \in {"active", "cancelled"} /\ Answer("cancelled")
          /\ jobs' = [jobs EXCEPT ![cjob] = "cancelled"] /\ UNCHANGED exec
       \/ jobs[cjob] \in {"completed", "failed"} /\ Answer("refused") /\ UNCHANGED <<exec, jobs>>
    /\ UNCHANGED <<caller, flight, ui, lane, issued, reader>>

\* get_job_status: look, read the store without the lock, look again.  Only while an
\* execution is registered is there a status to read; otherwise the phase is shown.
Readable == {"ACTIVE", "CANCEL_REQUESTED"}
Glance ==
    /\ rpc \in {"idle", "again"} /\ active # None
    /\ seen' = [token |-> token, job |-> active.job, phase |-> active.phase, index |-> active.index,
                again |-> rpc = "again"]
    /\ rpc' = IF active.job # None /\ active.phase \in Readable THEN "read" ELSE "absent"
    /\ UNCHANGED <<caller, flight, ui, gate, work, cancel>>
\* A reading that fails counts as no status.
ReadStatus ==
    /\ rpc = "read"
    /\ rpc' \in {jobs[seen.job], "absent"}
    /\ UNCHANGED <<caller, flight, ui, gate, work, cancel, seen>>

JobStatuses == {"absent", "active", "completed", "cancelled", "failed"}

StillSeen ==
    /\ active # None /\ token = seen.token
    /\ active.job = seen.job /\ active.phase = seen.phase /\ active.index = seen.index
Show ==
    /\ rpc \in JobStatuses
    /\ rpc' = IF StillSeen THEN "idle" ELSE IF seen.again THEN "last" ELSE "again"
    /\ seen' = None
    /\ UNCHANGED <<caller, flight, ui, gate, work, cancel>>
\* The latest run is over by the second look, or two looks did not agree: what there
\* is now is shown.
ShowLatest ==
    /\ rpc = "last" \/ (rpc = "again" /\ active = None)
    /\ rpc' = "idle"
    /\ UNCHANGED <<caller, flight, ui, gate, work, cancel, seen>>

\* _status_view: what is shown of the active invocation, and whether a cancel is offered.
Displayed == IF rpc \in {"absent", "last", "again"} THEN active.phase ELSE rpc
CanCancel == Displayed \notin {"completed", "failed", "cancelled", "RESULT_READY", "CLEANUP"}

\* try_acquire_gpu_runtime_lane by a preview run, and its release.
Preview ==
    /\ \/ lane = None /\ lane' = PreviewRun
       \/ lane = PreviewRun /\ lane' = None
    /\ UNCHANGED <<caller, flight, ui, gate, exec, jobs, issued, cancel, reader>>

Step(c) ==
    \/ Enter(c) \/ Stage(c) \/ Loop(c) \/ Reserve(c) \/ CheckCancel(c)
    \/ AcquireLane(c) \/ Open(c) \/ Register(c) \/ Deliver(c)
    \/ Start(c) \/ Genesis(c) \/ Work(c) \/ Ready(c)
    \/ Close(c) \/ CloseResources(c) \/ Closed(c)
    \/ View(c) \/ Finish(c) \/ Abandon(c) \/ Release(c)
Cancelling == CancelExecution \/ CancelDurably
Reading == ReadStatus \/ Show \/ ShowLatest

Next ==
    \/ \E c \in Callers : Begin(c) \/ Step(c)
    \/ CancelJob \/ Cancelling \/ Glance \/ Reading \/ Preview

Spec == Init /\ [][Next]_vars

\* Threads go on.  The semaphore of the lane serves its waiter although previews keep
\* trying, and a preview run gives it back.
FairSpec ==
    /\ Spec
    /\ \A c \in Callers : WF_vars(Step(c)) /\ SF_vars(AcquireLane(c))
    /\ WF_vars(Cancelling) /\ WF_vars(lane = PreviewRun /\ Preview)

-----------------------------------------------------------------------------
(* Properties *)

Phases == {"STAGING", "RESERVED", "OPENING", "ACTIVE", "CANCEL_REQUESTED", "RESULT_READY", "CLEANUP"}
Statuses == {"COMPLETED", "CANCELLED", "JOB_FAILED", "PARTIAL"}

\* One invocation is active and its caller holds the flight; the rest is in its type.
TypeOK ==
    /\ active # None => /\ flight = active.caller /\ active.phase \in Phases
                        /\ active.job \in Jobs \cup {None} /\ Len(items) <= Total
    /\ active = None => items = <<>>
    /\ gate \in Callers \cup {None, "canceller"}
    /\ lane \in Jobs \cup {None, PreviewRun}
    /\ \A j \in Jobs : jobs[j] \in JobStatuses
    /\ terminal # None => terminal.status \in Statuses

\* From the opening of an execution to the end of its close, the GPU is its own.
RuntimeExclusive == \A j \in Jobs : exec[j].state = "open" => lane = j

\* cancel never calls an execution that is closed.
CancelOnOpen == cpc \in {"call", "look"} => exec[cjob].state = "open"

\* What the interface keeps showing agrees with the store: a completed job is never
\* shown as cancelled, however late the cancel was, nor an unfinished one as completed.
ShownIsStored ==
    terminal # None => \A i \in DOMAIN terminal.items :
        LET item == terminal.items[i] IN
        /\ item.status = "COMPLETED" => jobs[item.job] = "completed"
        /\ item.status = "CANCELLED" => item.job = None \/ jobs[item.job] # "completed"

\* While an execution is open the GPU is its own, what is cancelled is open, and what
\* the interface keeps showing agrees with the store.
ShownIsTrue == TypeOK /\ RuntimeExclusive /\ CancelOnOpen /\ ShownIsStored

\* A cancel that was accepted before there was an execution to call prevents its job:
\* it is delivered before the run starts.
EarlyCancelWins ==
    [][answered = "early" => \A j \in Jobs : jobs[j] = "absent" => jobs'[j] # "active"]_vars

\* An offer to cancel is about the invocation as it is when it is shown: its execution
\* is open, or it has none yet and its job is not in the store, so that a cancel is
\* still in time to prevent it.  (The job of an open execution may have ended since its
\* status was read; a cancel is then refused.)
OfferIsLive ==
    [][rpc # "idle" /\ rpc' = "idle" /\ active # None /\ CanCancel =>
          \/ active.exec = active.job /\ active.job # None /\ exec[active.job].state = "open"
          \/ /\ active.exec = None
             /\ active.phase \in {"STAGING", "RESERVED", "OPENING"}
             /\ active.job # None => jobs[active.job] = "absent"]_vars

\* A cancel that comes before there is an execution prevents its job, and every offer
\* to cancel comes in time for one or the other: production_ui_state.py:264-272 offers
\* a cancel in every phase but the last two, the ones before there is an execution
\* included.
CancelIsServed == EarlyCancelWins /\ OfferIsLive

\* Every invocation ends, and the next one may begin.
Ends == \A c \in Callers : pc[c] # "idle" ~> pc[c] = "idle"

=============================================================================
