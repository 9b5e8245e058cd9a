-------------------------- MODULE Interface_proofs --------------------------
(***************************************************************************)
(* Proofs about what a user starts. ProductionUi, for any number of        *)
(* threads, of invocations and of jobs: what the interface keeps showing   *)
(* agrees with the store, an open execution owns the GPU, and a cancel     *)
(* calls only an open one. ProductionBatch, for any number of runs of one  *)
(* batch: they make one result, and it is the recorded one. PreviewWall,   *)
(* for any calls: pictures, records, manifests and answers agree, also     *)
(* after a death of the processes or a loss of power.                      *)
(***************************************************************************)
EXTENDS ProductionUi, ProductionBatch, PreviewWall, SequenceTheorems, TLAPS

(* The steps of a caller: of one with an active invocation, of one that    *)
(* has reserved the job it works on, of one whose execution is open, and   *)
(* of one whose execution a cancel may call. *)
Callable == {"deliver", "start", "genesis", "work", "ready", "close"}
Opened   == Callable \cup {"register", "closing"}
Unopened == {"reserved", "lane", "open"}
OnJob    == Opened \cup Unopened \cup {"closed", "view"}
Inside   == OnJob \cup {"stage", "loop", "reserve", "finish", "abandon"}
Steps    == Inside \cup {"idle", "entered", "release"}

Invocations == [caller : Callers, kind : {"single", "batch", "replay"}, phase : Phases,
                index : Nat, job : Jobs \cup {None}, exec : Jobs \cup {None}, cancel : BOOLEAN]
Executions  == [state : {"none", "open", "closed"}, started : BOOLEAN, pending : BOOLEAN]
Items       == [job : Jobs, status : Statuses]
Views       == [status : Statuses, items : Seq(Items)]

(* None is no thread, job or record, and no thread is the canceller.       *)
Sentinels ==
    /\ None \notin Callers \cup Nat \cup Invocations \cup Views \cup {"canceller"}
    /\ "canceller" \notin Callers

Bounds == BatchSize \in Nat /\ MaxJobs \in Nat /\ Kinds \subseteq {"single", "batch", "replay"}

(* The types, in full. *)
Typed ==
    /\ pc \in [Callers -> Steps]
    /\ res \in [Callers -> {"domain", "infra", "result", "lost", "interrupt", None}]
    /\ flight \in Callers \cup {None}
    /\ active \in Invocations \cup {None}
    /\ items \in Seq(Items)
    /\ issued \in 0 .. MaxJobs
    /\ gate \in Callers \cup {None, "canceller"}
    /\ exec \in [Jobs -> Executions]
    /\ jobs \in [Jobs -> JobStatuses]
    /\ lane \in Jobs \cup {None, PreviewRun}
    /\ terminal \in Views \cup {None}
    /\ cpc \in {"idle", "call", "look"}
    /\ cjob \in Jobs \cup {None}

(* One caller has the flight, and the active invocation is its own.        *)
OneFlight ==
    /\ \A c \in Callers : pc[c] # "idle" => flight = c
    /\ \A c \in Callers : pc[c] \in Inside => active # None /\ active.caller = c
    /\ active # None => pc[active.caller] \in Inside
    /\ active = None => items = <<>>

(* The gate is held by the caller that closes, or by a cancel in its call. *)
GateHeld ==
    /\ \A c \in Callers : pc[c] \in {"closing", "closed"} <=> gate = c
    /\ gate = "canceller" <=> cpc # "idle"

(* The jobs that an invocation may still reserve are there. *)
Room ==
    /\ active # None => Len(items) <= Total
    /\ \A c \in Callers :
          /\ pc[c] = "stage" => items = <<>>
          /\ pc[c] = "loop" => active.kind = "batch"
          /\ pc[c] \in {"stage", "loop", "reserve"} => issued + Total - Len(items) <= MaxJobs
          /\ pc[c] \in OnJob \cup {"reserve"} => Len(items) < Total
          /\ pc[c] \in OnJob => issued + Total - Len(items) - 1 <= MaxJobs

(* What a caller knows of the job it works on, which is the last reserved, *)
KnowsJob ==
    /\ \A j \in Jobs : j > issued => exec[j].state = "none" /\ jobs[j] = "absent"
    /\ \A c \in Callers :
          /\ pc[c] \in OnJob => issued \in Jobs /\ active.job = issued
          /\ pc[c] \in Unopened => exec[issued].state = "none"
          /\ pc[c] \in Opened => exec[issued].state = "open"
          /\ pc[c] \in Opened \cup {"open", "closed"} => lane = issued
          /\ pc[c] \in Unopened \cup {"register", "deliver", "start", "genesis"} =>
                jobs[issued] = "absent"

(* and of how its execution ended. *)
KnowsEnd ==
    \A c \in Callers :
        /\ pc[c] = "ready" => res[c] = "result"
        /\ pc[c] \in {"ready", "close", "closing", "closed", "view"} =>
              /\ res[c] = "result" => jobs[issued] = "completed"
              /\ res[c] = "domain" => jobs[issued] # "completed"

(* A cancel calls the execution of the active invocation. *)
CallsActive ==
    /\ active # None /\ active.exec # None =>
          active.exec = active.job /\ pc[active.caller] \in Callable
    /\ cpc # "idle" => active # None /\ active.exec # None /\ cjob = active.exec

(* A list of items is true of jobs that nobody works on any more.          *)
Told(list) ==
    \A i \in DOMAIN list :
        /\ list[i].job <= issued
        /\ \A c \in Callers : pc[c] \in OnJob => list[i].job # issued
        /\ list[i].status = "COMPLETED" => jobs[list[i].job] = "completed"
        /\ list[i].status = "CANCELLED" => jobs[list[i].job] # "completed"
ToldTruly == Told(items) /\ (terminal # None => Told(terminal.items))

(* What is promised to who cancels, and offered to who looks: an invocation *)
(* that is cancelled early does not get past its start, and in the phases   *)
(* in which the status is read an execution is open. *)
Cancellable == {"ACTIVE", "CANCEL_REQUESTED"}
Promises ==
    /\ \A c \in Callers : pc[c] \in Callable => active.exec # None
    /\ active # None /\ active.phase \in Cancellable => pc[active.caller] \in Callable
    /\ answered = "early" =>
          /\ active # None /\ active.cancel
          /\ \A c \in Callers :
                pc[c] # "genesis" /\ (pc[c] = "start" => exec[issued].pending)
    /\ rpc \in {"read", "active"} => seen.phase \in Cancellable
    /\ rpc = "read" => seen.job \in Jobs

(* Before these phases are over there is no execution, and no job yet. *)
Early == {"STAGING", "RESERVED", "OPENING"}
NotYet ==
    active # None /\ active.phase \in Early =>
        /\ active.exec = None
        /\ active.job # None => jobs[active.job] = "absent"

IInv ==
    /\ Typed /\ OneFlight /\ GateHeld /\ Room /\ KnowsJob /\ KnowsEnd /\ CallsActive
    /\ RuntimeExclusive /\ ToldTruly

-----------------------------------------------------------------------------
(* The names of sets of steps and of groups of variables stand for what    *)
(* they abbreviate everywhere below. *)
USE DEF Steps, Inside, OnJob, Opened, Callable, Unopened, Goto, End,
        caller, ui, work, cancel, reader

(* A caller inside an invocation is alone, the invocation is its own, and  *)
(* once it has reserved a job that is the last one. *)
LEMMA Working ==
    ASSUME IInv, NEW c \in Callers, pc[c] # "idle"
    PROVE  /\ \A d \in Callers : pc[d] # "idle" => d = c
           /\ pc[c] \in Inside => active \in Invocations /\ active # None /\ active.caller = c
           /\ pc[c] \in OnJob => active.job = issued /\ issued \in Jobs
  BY DEF IInv, Typed, OneFlight, KnowsJob

(* The items of the two lists are about jobs. *)
LEMMA ListsTyped ==
    ASSUME Typed
    PROVE  /\ \A i \in DOMAIN items : items[i] \in Items /\ items[i].job \in Jobs
           /\ terminal # None =>
                 /\ terminal.items \in Seq(Items)
                 /\ \A i \in DOMAIN terminal.items : terminal.items[i].job \in Jobs
  <1>1. \A i \in DOMAIN items : items[i] \in Items
        BY DEF Typed
  <1>2. terminal # None => terminal.items \in Seq(Items)
        BY DEF Typed, Views
  <1>3. terminal # None => \A i \in DOMAIN terminal.items : terminal.items[i] \in Items
        BY <1>2
  <1> QED BY <1>1, <1>2, <1>3 DEF Items

(* One field of an execution changes. *)
LEMMA ExecutionTyped ==
    ASSUME Typed, NEW j \in Jobs, NEW v,
           \/ v \in {"none", "open", "closed"} /\ exec' = [exec EXCEPT ![j].state = v]
           \/ v \in BOOLEAN /\ exec' = [exec EXCEPT ![j].started = v]
           \/ v \in BOOLEAN /\ exec' = [exec EXCEPT ![j].pending = v]
    PROVE  exec' \in [Jobs -> Executions]
  <1>1. exec[j] \in Executions
        BY DEF Typed
  <1>2. exec'[j] \in Executions
        BY DEF Typed, Executions
  <1> QED BY <1>2 DEF Typed

(* What a list says of earlier jobs stays true while somebody works on the *)
(* last one. *)
LEMMA StillTold ==
    ASSUME IInv, NEW list \in Seq(Items), Told(list), NEW c \in Callers, pc[c] \in OnJob,
           issued' = issued, \A j \in Jobs : j # issued => jobs'[j] = jobs[j]
    PROVE  \A i \in DOMAIN list :
              /\ list[i].job <= issued'
              /\ list[i].job # issued'
              /\ list[i].status = "COMPLETED" => jobs'[list[i].job] = "completed"
              /\ list[i].status = "CANCELLED" => jobs'[list[i].job] # "completed"
  <1>1. \A i \in DOMAIN list : list[i] \in Items
        OBVIOUS
  <1> QED BY <1>1 DEF Told, Items

LEMMA ToldWhileWorking ==
    ASSUME IInv, NEW c \in Callers, pc[c] \in OnJob,
           issued' = issued, \A j \in Jobs : j # issued => jobs'[j] = jobs[j],
           UNCHANGED <<items, terminal>>
    PROVE  ToldTruly'
  <1>1. Told(items)'
        BY StillTold DEF IInv, ToldTruly, Told, Typed
  <1>2. ASSUME terminal # None PROVE Told(terminal.items)'
        BY <1>2, StillTold, ListsTyped DEF IInv, ToldTruly, Told
  <1> QED BY <1>1, <1>2 DEF ToldTruly

-----------------------------------------------------------------------------

(* One lemma for each step of a caller. *)
LEMMA BeginStep ==
    ASSUME Sentinels, Bounds, IInv, NEW c \in Callers, Begin(c)
    PROVE  IInv'
  <1>1. Typed'
        BY DEF IInv, Typed, Begin
  <1>2. OneFlight'
        BY DEF IInv, Sentinels, OneFlight, Begin
  <1>3. GateHeld'
        BY DEF IInv, GateHeld, Begin
  <1>4. Room'
        BY DEF IInv, Room, Total, Begin
  <1>5. KnowsJob'
        BY DEF IInv, KnowsJob, Begin
  <1>6. KnowsEnd'
        BY DEF IInv, KnowsEnd, Begin
  <1>7. CallsActive'
        BY DEF IInv, CallsActive, Begin
  <1>8. RuntimeExclusive'
        BY DEF IInv, RuntimeExclusive, Begin
  <1>9. ToldTruly'
        BY DEF IInv, ToldTruly, Told, Begin
  <1> QED BY <1>1, <1>2, <1>3, <1>4, <1>5, <1>6, <1>7, <1>8, <1>9 DEF IInv

LEMMA EnterStep ==
    ASSUME Sentinels, Bounds, IInv, NEW c \in Callers, Enter(c)
    PROVE  IInv'
  <1>a. /\ active' \in Invocations /\ active' # None /\ active'.caller = c /\ active'.exec = None
        /\ issued + (IF active'.kind = "batch" THEN BatchSize ELSE 1) <= MaxJobs
    <2>1. PICK kind \in Kinds :
             /\ active' = Invocation(c, kind)
             /\ issued + (IF kind = "batch" THEN BatchSize ELSE 1) <= MaxJobs
          BY DEF Enter
    <2>2. Invocation(c, kind) \in Invocations
          BY DEF Bounds, Invocation, Invocations, Phases
    <2> QED BY <2>1, <2>2 DEF Sentinels, Invocation
  <1>1. Typed'
        BY <1>a DEF IInv, Typed, Enter
  <1>2. OneFlight'
        BY <1>a DEF IInv, Typed, OneFlight, Enter
  <1>3. GateHeld'
        BY DEF IInv, GateHeld, Enter
  <1>4. Room'
    <2>1. active = None
          BY DEF IInv, Typed, OneFlight, Invocations, Enter
    <2>2. items' = <<>> /\ issued' = issued /\ pc'[c] \in {"stage", "abandon"}
          BY <2>1 DEF IInv, Typed, OneFlight, Enter
    <2>3. \A d \in Callers : d # c => pc'[d] = "idle"
          BY Working DEF IInv, Enter
    <2>4. Total' \in Nat /\ issued' + Total' <= MaxJobs /\ Len(items') = 0
          BY <1>a, <2>2 DEF Bounds, Total
    <2> QED BY <2>2, <2>3, <2>4 DEF Room
  <1>5. KnowsJob'
        BY DEF IInv, KnowsJob, OneFlight, Enter
  <1>6. KnowsEnd'
        BY DEF IInv, KnowsEnd, Enter
  <1>7. CallsActive'
        BY <1>a DEF IInv, Typed, CallsActive, OneFlight, Invocations, Enter
  <1>8. RuntimeExclusive'
        BY DEF IInv, RuntimeExclusive, Enter
  <1>9. ToldTruly'
        BY DEF IInv, ToldTruly, Told, Enter
  <1> QED BY <1>1, <1>2, <1>3, <1>4, <1>5, <1>6, <1>7, <1>8, <1>9 DEF IInv

LEMMA StageStep ==
    ASSUME Sentinels, Bounds, IInv, NEW c \in Callers, Stage(c)
    PROVE  IInv'
  <1>1. Typed'
    <2>1. /\ pc' \in [Callers -> Steps]
          /\ res' \in [Callers -> {"domain", "infra", "result", "lost", "interrupt", None}]
      <3>1. PICK how \in {"infra"}, step \in {"loop", "reserve", "abandon", "finish"} :
               /\ res' = res \/ res' = [res EXCEPT ![c] = how]
               /\ pc' = [pc EXCEPT ![c] = step]
            BY DEF Stage
      <3> QED BY <3>1 DEF IInv, Typed
    <2> QED BY <2>1 DEF IInv, Typed, Stage
  <1>2. OneFlight'
        BY DEF IInv, Typed, OneFlight, Stage
  <1>3. GateHeld'
        BY DEF IInv, Typed, GateHeld, Stage
  <1>4. Room'
        BY DEF IInv, Typed, Room, Total, Stage
  <1>5. KnowsJob'
        BY DEF IInv, Typed, KnowsJob, Stage
  <1>6. KnowsEnd'
        BY DEF IInv, Typed, KnowsEnd, Stage
  <1>7. CallsActive'
        BY DEF IInv, CallsActive, OneFlight, Stage
  <1>8. RuntimeExclusive'
        BY DEF IInv, RuntimeExclusive, Stage
  <1>9. ToldTruly'
        BY DEF IInv, Typed, ToldTruly, Told, Stage
  <1> QED BY <1>1, <1>2, <1>3, <1>4, <1>5, <1>6, <1>7, <1>8, <1>9 DEF IInv

LEMMA LoopStep ==
    ASSUME Sentinels, Bounds, IInv, NEW c \in Callers, Loop(c)
    PROVE  IInv'
  <1>a. /\ active' \in Invocations /\ active' # None /\ active'.caller = c
        /\ active'.kind = active.kind /\ active'.exec = active.exec
    <2>1. active \in Invocations /\ active.caller = c /\ active # None
          BY Working DEF Loop
    <2>2. \/ UNCHANGED active
          \/ active' = [active EXCEPT !.phase = "STAGING", !.job = None, !.index = Len(items)]
          BY DEF Loop
    <2>3. Len(items) \in Nat
          BY DEF IInv
    <2>4. active' \in Invocations
          BY <2>1, <2>2, <2>3 DEF Invocations, Phases
    <2> QED BY <2>1, <2>2, <2>4 DEF Sentinels, Invocations
  <1>1. Typed'
        BY <1>a DEF IInv, Typed, Loop
  <1>2. OneFlight'
        BY <1>a DEF IInv, Typed, OneFlight, Loop
  <1>3. GateHeld'
        BY DEF IInv, Typed, GateHeld, Loop
  <1>4. Room'
        BY <1>a DEF IInv, Bounds, Typed, Room, Total, OneFlight, Loop
  <1>5. KnowsJob'
        BY DEF IInv, Typed, KnowsJob, OneFlight, Loop
  <1>6. KnowsEnd'
        BY DEF IInv, Typed, KnowsEnd, Loop
  <1>7. CallsActive'
        BY <1>a DEF IInv, CallsActive, OneFlight, Loop
  <1>8. RuntimeExclusive'
        BY DEF IInv, RuntimeExclusive, Loop
  <1>9. ToldTruly'
        BY DEF IInv, Typed, ToldTruly, Told, Loop
  <1> QED BY <1>1, <1>2, <1>3, <1>4, <1>5, <1>6, <1>7, <1>8, <1>9 DEF IInv

LEMMA ReserveStep ==
    ASSUME Sentinels, Bounds, IInv, NEW c \in Callers, Reserve(c)
    PROVE  IInv'
  <1>r. issued' = issued + 1 /\ issued' \in Jobs
        BY Working DEF IInv, Typed, Bounds, Room, Total, Jobs, Reserve
  <1>a. /\ active' \in Invocations /\ active' # None /\ active'.caller = c /\ active'.kind = active.kind
        /\ active'.exec = active.exec /\ active'.job = issued'
    <2>1. active \in Invocations /\ active.caller = c
          BY Working DEF Reserve
    <2>2. active' = [active EXCEPT !.phase = "RESERVED", !.job = issued']
          BY DEF Reserve
    <2>3. active' \in Invocations
          BY <2>1, <2>2, <1>r DEF Invocations, Phases
    <2> QED BY <2>1, <2>2, <2>3 DEF Sentinels
  <1>1. Typed'
        BY <1>r, <1>a DEF IInv, Typed, Jobs, Reserve
  <1>2. OneFlight'
        BY <1>a DEF IInv, OneFlight, Reserve
  <1>3. GateHeld'
        BY DEF IInv, GateHeld, Reserve
  <1>4. Room'
        BY DEF IInv, Bounds, Typed, Room, Total, OneFlight, Reserve
  <1>5. KnowsJob'
        BY <1>r DEF IInv, Typed, KnowsJob, OneFlight, Jobs, Reserve
  <1>6. KnowsEnd'
        BY DEF IInv, KnowsEnd, OneFlight, Reserve
  <1>7. CallsActive'
        BY DEF IInv, CallsActive, OneFlight, Reserve
  <1>8. RuntimeExclusive'
        BY DEF IInv, RuntimeExclusive, Reserve
  <1>9. ToldTruly'
        BY ListsTyped DEF IInv, Typed, ToldTruly, Told, Jobs, Reserve
  <1> QED BY <1>1, <1>2, <1>3, <1>4, <1>5, <1>6, <1>7, <1>8, <1>9 DEF IInv

LEMMA CheckCancelStep ==
    ASSUME Sentinels, Bounds, IInv, NEW c \in Callers, CheckCancel(c)
    PROVE  IInv'
  <1>a. /\ active' \in Invocations /\ active' # None /\ active'.caller = c /\ active'.kind = active.kind
        /\ active'.exec = active.exec /\ active'.job = active.job
        BY Working DEF IInv, Sentinels, Invocations, Phases, CheckCancel
  <1>1. Typed'
        BY <1>a DEF IInv, Typed, CheckCancel
  <1>2. OneFlight'
        BY <1>a DEF IInv, Typed, OneFlight, CheckCancel
  <1>3. GateHeld'
        BY DEF IInv, Typed, GateHeld, CheckCancel
  <1>4. Room'
        BY <1>a DEF IInv, Typed, Room, Total, OneFlight, CheckCancel
  <1>5. KnowsJob'
        BY <1>a DEF IInv, Typed, KnowsJob, CheckCancel
  <1>6. KnowsEnd'
        BY DEF IInv, Typed, KnowsEnd, KnowsJob, CheckCancel
  <1>7. CallsActive'
        BY <1>a DEF IInv, CallsActive, OneFlight, CheckCancel
  <1>8. RuntimeExclusive'
        BY DEF IInv, RuntimeExclusive, CheckCancel
  <1>9. ToldTruly'
        BY DEF IInv, ToldTruly, Told, CheckCancel
  <1> QED BY <1>1, <1>2, <1>3, <1>4, <1>5, <1>6, <1>7, <1>8, <1>9 DEF IInv

LEMMA AcquireLaneStep ==
    ASSUME Sentinels, Bounds, IInv, NEW c \in Callers, AcquireLane(c)
    PROVE  IInv'
  <1>1. Typed'
        BY DEF IInv, Typed, OneFlight, Invocations, AcquireLane
  <1>2. OneFlight'
        BY DEF IInv, OneFlight, AcquireLane
  <1>3. GateHeld'
        BY DEF IInv, GateHeld, AcquireLane
  <1>4. Room'
        BY DEF IInv, Room, Total, AcquireLane
  <1>5. KnowsJob'
        BY DEF IInv, KnowsJob, AcquireLane
  <1>6. KnowsEnd'
        BY DEF IInv, KnowsEnd, AcquireLane
  <1>7. CallsActive'
        BY DEF IInv, CallsActive, AcquireLane
  <1>8. RuntimeExclusive'
        BY DEF IInv, Sentinels, RuntimeExclusive, Jobs, AcquireLane
  <1>9. ToldTruly'
        BY DEF IInv, ToldTruly, Told, AcquireLane
  <1> QED BY <1>1, <1>2, <1>3, <1>4, <1>5, <1>6, <1>7, <1>8, <1>9 DEF IInv

LEMMA OpenStep ==
    ASSUME Sentinels, Bounds, IInv, NEW c \in Callers, Open(c)
    PROVE  IInv'
  <1>a. active.job = issued /\ issued \in Jobs
        BY Working DEF Open
  <1>e. exec' \in [Jobs -> Executions]
    <2>1. Typed /\ exec \in [Jobs -> Executions]
          BY DEF IInv, Typed
    <2>2. exec' = exec \/ exec' = [exec EXCEPT ![active.job].state = "open"]
          BY DEF Open
    <2> QED BY <1>a, <2>1, <2>2, ExecutionTyped
  <1>1. Typed'
        BY <1>e DEF IInv, Typed, Open
  <1>2. OneFlight'
        BY DEF IInv, Typed, OneFlight, Open
  <1>3. GateHeld'
        BY DEF IInv, Typed, GateHeld, Open
  <1>4. Room'
        BY DEF IInv, Typed, Room, Total, Open
  <1>5. KnowsJob'
    <2>1. /\ \A j \in Jobs : j # issued => exec'[j] = exec[j]
          /\ \/ pc'[c] = "register" /\ exec'[issued].state = "open" /\ lane' = lane
             \/ pc'[c] = "view" /\ exec' = exec
      <3>1. CASE /\ exec' = [exec EXCEPT ![active.job].state = "open"]
                 /\ Goto(c, "register") /\ UNCHANGED <<res, lane>>
            BY <1>a, <3>1 DEF IInv, Typed
      <3>2. CASE lane' = None /\ End(c, "infra", "view") /\ UNCHANGED exec
            BY <3>2 DEF IInv, Typed
      <3> QED BY <3>1, <3>2 DEF Open
    <2>2. /\ UNCHANGED <<jobs, active, issued>>
          /\ \A d \in Callers : d # c => pc'[d] = "idle"
          BY Working DEF IInv, Typed, Open
    <2>3. \A j \in Jobs : j > issued => exec'[j].state = "none" /\ jobs'[j] = "absent"
          BY <2>1, <2>2 DEF IInv, KnowsJob, Jobs
    <2>4. /\ pc[c] = "open" /\ pc[c] \in Opened \cup {"open", "closed"} /\ pc[c] \in Unopened
          /\ lane = issued /\ jobs[issued] = "absent"
          BY DEF IInv, KnowsJob, Open
    <2> QED BY <1>a, <2>1, <2>2, <2>3, <2>4 DEF KnowsJob
  <1>6. KnowsEnd'
        BY DEF IInv, Typed, KnowsEnd, Open
  <1>7. CallsActive'
        BY DEF IInv, CallsActive, OneFlight, Open
  <1>8. RuntimeExclusive'
        BY <1>e DEF IInv, RuntimeExclusive, KnowsJob, Open
  <1>9. ToldTruly'
        BY DEF IInv, ToldTruly, Told, Open
  <1> QED BY <1>1, <1>2, <1>3, <1>4, <1>5, <1>6, <1>7, <1>8, <1>9 DEF IInv

LEMMA RegisterStep ==
    ASSUME Sentinels, Bounds, IInv, NEW c \in Callers, Register(c)
    PROVE  IInv'
  <1>b. active.job = issued /\ issued \in Jobs
        BY Working DEF Register
  <1>a. /\ active' \in Invocations /\ active' # None /\ active'.caller = c /\ active'.kind = active.kind
        /\ active'.exec = issued /\ active'.job = issued
    <2>1. active \in Invocations /\ active.caller = c
          BY Working DEF Register
    <2>2. active' = [active EXCEPT !.exec = active.job, !.phase = "ACTIVE"]
          BY DEF Register
    <2>3. active' \in Invocations
          BY <2>1, <2>2 DEF Invocations, Phases
    <2> QED BY <1>b, <2>1, <2>2, <2>3 DEF Sentinels
  <1>1. Typed'
        BY <1>a DEF IInv, Typed, Register
  <1>2. OneFlight'
        BY <1>a DEF IInv, OneFlight, Register
  <1>3. GateHeld'
        BY DEF IInv, GateHeld, Register
  <1>4. Room'
        BY DEF IInv, Room, Total, OneFlight, Register
  <1>5. KnowsJob'
        BY DEF IInv, KnowsJob, Register
  <1>6. KnowsEnd'
        BY DEF IInv, KnowsEnd, Register
  <1>7. CallsActive'
        BY <1>a DEF IInv, Typed, CallsActive, Register
  <1>8. RuntimeExclusive'
        BY DEF IInv, RuntimeExclusive, Register
  <1>9. ToldTruly'
        BY DEF IInv, ToldTruly, Told, Register
  <1> QED BY <1>1, <1>2, <1>3, <1>4, <1>5, <1>6, <1>7, <1>8, <1>9 DEF IInv

LEMMA DeliverStep ==
    ASSUME Sentinels, Bounds, IInv, NEW c \in Callers, Deliver(c)
    PROVE  IInv'
  <1>e. exec' \in [Jobs -> Executions]
        BY ExecutionTyped DEF IInv, Typed, Deliver
  <1>1. Typed'
        BY <1>e DEF IInv, Typed, Deliver
  <1>2. OneFlight'
        BY DEF IInv, OneFlight, Deliver
  <1>3. GateHeld'
        BY DEF IInv, GateHeld, Deliver
  <1>4. Room'
        BY DEF IInv, Room, Total, Deliver
  <1>5. KnowsJob'
        BY DEF IInv, KnowsJob, Deliver
  <1>6. KnowsEnd'
        BY DEF IInv, KnowsEnd, Deliver
  <1>7. CallsActive'
        BY DEF IInv, CallsActive, Deliver
  <1>8. RuntimeExclusive'
        BY DEF IInv, RuntimeExclusive, Deliver
  <1>9. ToldTruly'
        BY DEF IInv, ToldTruly, Told, Deliver
  <1> QED BY <1>1, <1>2, <1>3, <1>4, <1>5, <1>6, <1>7, <1>8, <1>9 DEF IInv

LEMMA StartStep ==
    ASSUME Sentinels, Bounds, IInv, NEW c \in Callers, Start(c)
    PROVE  IInv'
  <1>a. active.job = issued /\ issued \in Jobs
        BY Working DEF Start
  <1>e. exec' \in [Jobs -> Executions]
        BY <1>a, ExecutionTyped DEF IInv, Start
  <1>1. Typed'
        BY <1>e DEF IInv, Typed, Start
  <1>2. OneFlight'
        BY DEF IInv, Typed, OneFlight, Start
  <1>3. GateHeld'
        BY DEF IInv, Typed, GateHeld, Start
  <1>4. Room'
        BY DEF IInv, Typed, Room, Total, Start
  <1>5. KnowsJob'
        BY DEF IInv, Typed, KnowsJob, Start
  <1>6. KnowsEnd'
        BY DEF IInv, Typed, KnowsEnd, KnowsJob, Start
  <1>7. CallsActive'
        BY DEF IInv, Typed, CallsActive, OneFlight, Start
  <1>8. RuntimeExclusive'
        BY DEF IInv, RuntimeExclusive, Start
  <1>9. ToldTruly'
        BY DEF IInv, ToldTruly, Told, Start
  <1> QED BY <1>1, <1>2, <1>3, <1>4, <1>5, <1>6, <1>7, <1>8, <1>9 DEF IInv

LEMMA GenesisStep ==
    ASSUME Sentinels, Bounds, IInv, NEW c \in Callers, Genesis(c)
    PROVE  IInv'
  <1>a. active.job = issued /\ issued \in Jobs
        BY Working DEF Genesis
  <1>1. Typed'
    <2>1. jobs' \in [Jobs -> JobStatuses]
          BY DEF IInv, Typed, JobStatuses, Genesis
    <2> QED BY <2>1 DEF IInv, Typed, Genesis
  <1>2. OneFlight'
        BY DEF IInv, Typed, OneFlight, Genesis
  <1>3. GateHeld'
        BY DEF IInv, Typed, GateHeld, Genesis
  <1>4. Room'
        BY DEF IInv, Typed, Room, Total, Genesis
  <1>5. KnowsJob'
        BY DEF IInv, Sentinels, Typed, KnowsJob, OneFlight, Genesis
  <1>6. KnowsEnd'
        BY DEF IInv, Typed, KnowsEnd, OneFlight, Genesis
  <1>7. CallsActive'
        BY DEF IInv, Typed, CallsActive, OneFlight, Genesis
  <1>8. RuntimeExclusive'
        BY DEF IInv, RuntimeExclusive, Genesis
  <1>9. ToldTruly'
        BY <1>a, ToldWhileWorking DEF IInv, Typed, Genesis
  <1> QED BY <1>1, <1>2, <1>3, <1>4, <1>5, <1>6, <1>7, <1>8, <1>9 DEF IInv

LEMMA WorkStep ==
    ASSUME Sentinels, Bounds, IInv, NEW c \in Callers, Work(c)
    PROVE  IInv'
  <1>a. active.job = issued /\ issued \in Jobs
        BY Working DEF Work
  <1>1. Typed'
    <2>1. jobs' \in [Jobs -> JobStatuses]
          BY DEF IInv, Typed, JobStatuses, Work
    <2> QED BY <2>1 DEF IInv, Typed, Work
  <1>2. OneFlight'
        BY DEF IInv, Typed, OneFlight, Work
  <1>3. GateHeld'
        BY DEF IInv, Typed, GateHeld, Work
  <1>4. Room'
        BY DEF IInv, Typed, Room, Total, Work
  <1>5. KnowsJob'
        BY DEF IInv, Sentinels, Typed, KnowsJob, Work
  <1>6. KnowsEnd'
        BY <1>a DEF IInv, Typed, KnowsEnd, OneFlight, Work
  <1>7. CallsActive'
        BY DEF IInv, Typed, CallsActive, OneFlight, Work
  <1>8. RuntimeExclusive'
        BY DEF IInv, RuntimeExclusive, Work
  <1>9. ToldTruly'
        BY <1>a, ToldWhileWorking DEF IInv, Typed, Work
  <1> QED BY <1>1, <1>2, <1>3, <1>4, <1>5, <1>6, <1>7, <1>8, <1>9 DEF IInv

LEMMA ReadyStep ==
    ASSUME Sentinels, Bounds, IInv, NEW c \in Callers, Ready(c)
    PROVE  IInv'
  <1>a. /\ active' \in Invocations /\ active' # None /\ active'.caller = c /\ active'.kind = active.kind
        /\ active'.exec = active.exec /\ active'.job = active.job
        BY Working DEF IInv, Sentinels, Invocations, Phases, Ready
  <1>1. Typed'
        BY <1>a DEF IInv, Typed, Ready
  <1>2. OneFlight'
        BY <1>a DEF IInv, OneFlight, Ready
  <1>3. GateHeld'
        BY DEF IInv, GateHeld, Ready
  <1>4. Room'
        BY DEF IInv, Room, Total, OneFlight, Ready
  <1>5. KnowsJob'
        BY DEF IInv, KnowsJob, Ready
  <1>6. KnowsEnd'
        BY DEF IInv, KnowsEnd, Ready
  <1>7. CallsActive'
        BY <1>a DEF IInv, CallsActive, OneFlight, Ready
  <1>8. RuntimeExclusive'
        BY DEF IInv, RuntimeExclusive, Ready
  <1>9. ToldTruly'
        BY DEF IInv, ToldTruly, Told, Ready
  <1> QED BY <1>1, <1>2, <1>3, <1>4, <1>5, <1>6, <1>7, <1>8, <1>9 DEF IInv

LEMMA CloseStep ==
    ASSUME Sentinels, Bounds, IInv, NEW c \in Callers, Close(c)
    PROVE  IInv'
  <1>a. /\ active' \in Invocations /\ active' # None /\ active'.caller = c /\ active'.kind = active.kind
        /\ active'.exec = None /\ active'.job = active.job
    <2>1. active \in Invocations /\ active.caller = c
          BY Working DEF Close
    <2>2. active' = [active EXCEPT !.exec = None, !.phase = "CLEANUP"]
          BY DEF Close
    <2>3. active' \in Invocations
          BY <2>1, <2>2 DEF Invocations, Phases
    <2> QED BY <2>1, <2>2, <2>3 DEF Sentinels
  <1>1. Typed'
        BY <1>a DEF IInv, Typed, Close
  <1>2. OneFlight'
        BY <1>a DEF IInv, OneFlight, Close
  <1>3. GateHeld'
        BY DEF IInv, Sentinels, Typed, GateHeld, Close
  <1>4. Room'
        BY DEF IInv, Room, Total, OneFlight, Close
  <1>5. KnowsJob'
        BY DEF IInv, KnowsJob, Close
  <1>6. KnowsEnd'
        BY DEF IInv, KnowsEnd, Close
  <1>7. CallsActive'
        BY DEF IInv, Sentinels, CallsActive, GateHeld, Close
  <1>8. RuntimeExclusive'
        BY DEF IInv, RuntimeExclusive, Close
  <1>9. ToldTruly'
        BY DEF IInv, ToldTruly, Told, Close
  <1> QED BY <1>1, <1>2, <1>3, <1>4, <1>5, <1>6, <1>7, <1>8, <1>9 DEF IInv

LEMMA CloseResourcesStep ==
    ASSUME Sentinels, Bounds, IInv, NEW c \in Callers, CloseResources(c)
    PROVE  IInv'
  <1>1. Typed'
        BY DEF IInv, Typed, KnowsJob, Executions, CloseResources, ClosedExecution
  <1>2. OneFlight'
        BY DEF IInv, OneFlight, CloseResources
  <1>3. GateHeld'
        BY DEF IInv, GateHeld, CloseResources
  <1>4. Room'
        BY DEF IInv, Room, Total, CloseResources
  <1>5. KnowsJob'
        BY DEF IInv, Typed, KnowsJob, OneFlight, CloseResources
  <1>6. KnowsEnd'
        BY DEF IInv, KnowsEnd, CloseResources
  <1>7. CallsActive'
        BY DEF IInv, CallsActive, CloseResources
  <1>8. RuntimeExclusive'
        BY DEF IInv, RuntimeExclusive, CloseResources, ClosedExecution
  <1>9. ToldTruly'
        BY DEF IInv, ToldTruly, Told, CloseResources
  <1> QED BY <1>1, <1>2, <1>3, <1>4, <1>5, <1>6, <1>7, <1>8, <1>9 DEF IInv

LEMMA ClosedStep ==
    ASSUME Sentinels, Bounds, IInv, NEW c \in Callers, Closed(c)
    PROVE  IInv'
  <1>1. Typed'
        BY DEF IInv, Typed, Executions, Closed, ClosedExecution
  <1>2. OneFlight'
        BY DEF IInv, Typed, OneFlight, Closed
  <1>3. GateHeld'
        BY DEF IInv, Sentinels, Typed, GateHeld, Closed
  <1>4. Room'
        BY DEF IInv, Typed, Room, Total, Closed
  <1>5. KnowsJob'
        BY DEF IInv, Typed, KnowsJob, OneFlight, Closed
  <1>6. KnowsEnd'
        BY DEF IInv, Typed, KnowsEnd, Closed
  <1>7. CallsActive'
        BY DEF IInv, CallsActive, OneFlight, Closed
  <1>8. RuntimeExclusive'
        BY DEF IInv, Typed, RuntimeExclusive, KnowsJob, Closed, ClosedExecution
  <1>9. ToldTruly'
        BY DEF IInv, ToldTruly, Told, Closed
  <1> QED BY <1>1, <1>2, <1>3, <1>4, <1>5, <1>6, <1>7, <1>8, <1>9 DEF IInv

LEMMA ViewStep ==
    ASSUME Sentinels, Bounds, IInv, NEW c \in Callers, View(c)
    PROVE  IInv'
  <1>1. Typed'
        BY DEF IInv, Typed, KnowsJob, Items, Statuses, View, StatusShown
  <1>2. OneFlight'
        BY DEF IInv, OneFlight, View
  <1>3. GateHeld'
        BY DEF IInv, GateHeld, View
  <1>4. Room'
        BY DEF IInv, Bounds, Typed, Room, Total, OneFlight, View
  <1>5. KnowsJob'
        BY DEF IInv, KnowsJob, View
  <1>6. KnowsEnd'
        BY DEF IInv, KnowsEnd, View
  <1>7. CallsActive'
        BY DEF IInv, CallsActive, View
  <1>8. RuntimeExclusive'
        BY DEF IInv, RuntimeExclusive, View
  <1>9. ToldTruly'
    <2>1. active.job = issued /\ issued \in Jobs
          BY Working DEF View
    <2>2. /\ StatusShown(c) = "COMPLETED" => jobs[issued] = "completed"
          /\ StatusShown(c) = "CANCELLED" => jobs[issued] # "completed"
          BY <2>1 DEF IInv, KnowsEnd, StatusShown, View
    <2>3. \A d \in Callers : pc'[d] \notin OnJob
          BY Working DEF IInv, Typed, View
    <2>4. UNCHANGED <<issued, jobs, terminal>> /\ pc[c] \in OnJob
          BY DEF View
    <2>5. Told(items)'
      <3> SUFFICES ASSUME NEW i \in DOMAIN items'
                   PROVE  /\ items'[i].job <= issued
                          /\ items'[i].status = "COMPLETED" => jobs[items'[i].job] = "completed"
                          /\ items'[i].status = "CANCELLED" => jobs[items'[i].job] # "completed"
          BY <2>3, <2>4 DEF Told
      <3>1. \/ i \in DOMAIN items /\ items'[i] = items[i]
            \/ items'[i] = [job |-> issued, status |-> StatusShown(c)]
          BY <2>1 DEF IInv, View
      <3> QED BY <2>1, <2>2, <3>1 DEF IInv, ToldTruly, Told, Jobs
    <2>6. terminal # None => Told(terminal.items)'
          BY <2>3, <2>4 DEF IInv, ToldTruly, Told
    <2> QED BY <2>4, <2>5, <2>6 DEF ToldTruly
  <1> QED BY <1>1, <1>2, <1>3, <1>4, <1>5, <1>6, <1>7, <1>8, <1>9 DEF IInv

LEMMA FinishStep ==
    ASSUME Sentinels, Bounds, IInv, NEW c \in Callers, Finish(c)
    PROVE  IInv'
  <1>1. Typed'
    <2>1. Overall \in Statuses
          BY ListsTyped DEF IInv, Typed, Overall, Statuses, Items
    <2>2. terminal' \in Views
          BY <2>1 DEF IInv, Typed, Views, Finish
    <2> QED BY <2>2 DEF IInv, Typed, Finish
  <1>2. OneFlight'
        BY DEF IInv, Typed, OneFlight, Finish
  <1>3. GateHeld'
        BY DEF IInv, GateHeld, Finish
  <1>4. Room'
        BY DEF IInv, Room, OneFlight, Finish
  <1>5. KnowsJob'
        BY DEF IInv, KnowsJob, OneFlight, Finish
  <1>6. KnowsEnd'
        BY DEF IInv, KnowsEnd, Finish
  <1>7. CallsActive'
        BY DEF IInv, CallsActive, OneFlight, Finish
  <1>8. RuntimeExclusive'
        BY DEF IInv, RuntimeExclusive, Finish
  <1>9. ToldTruly'
        BY DEF IInv, ToldTruly, Told, Finish
  <1> QED BY <1>1, <1>2, <1>3, <1>4, <1>5, <1>6, <1>7, <1>8, <1>9 DEF IInv

LEMMA AbandonStep ==
    ASSUME Sentinels, Bounds, IInv, NEW c \in Callers, Abandon(c)
    PROVE  IInv'
  <1>1. Typed'
        BY DEF IInv, Typed, Abandon
  <1>2. OneFlight'
        BY DEF IInv, Typed, OneFlight, Abandon
  <1>3. GateHeld'
        BY DEF IInv, GateHeld, Abandon
  <1>4. Room'
        BY DEF IInv, Room, OneFlight, Abandon
  <1>5. KnowsJob'
        BY DEF IInv, KnowsJob, OneFlight, Abandon
  <1>6. KnowsEnd'
        BY DEF IInv, KnowsEnd, Abandon
  <1>7. CallsActive'
        BY DEF IInv, CallsActive, OneFlight, Abandon
  <1>8. RuntimeExclusive'
        BY DEF IInv, RuntimeExclusive, Abandon
  <1>9. ToldTruly'
        BY DEF IInv, ToldTruly, Told, Abandon
  <1> QED BY <1>1, <1>2, <1>3, <1>4, <1>5, <1>6, <1>7, <1>8, <1>9 DEF IInv

LEMMA ReleaseStep ==
    ASSUME Sentinels, Bounds, IInv, NEW c \in Callers, Release(c)
    PROVE  IInv'
  <1>1. Typed'
        BY DEF IInv, Typed, Release
  <1>2. OneFlight'
        BY DEF IInv, Typed, OneFlight, Release
  <1>3. GateHeld'
        BY DEF IInv, GateHeld, Release
  <1>4. Room'
        BY DEF IInv, Typed, Room, OneFlight, Invocations, Release
  <1>5. KnowsJob'
        BY DEF IInv, KnowsJob, Release
  <1>6. KnowsEnd'
        BY DEF IInv, KnowsEnd, Release
  <1>7. CallsActive'
        BY DEF IInv, CallsActive, Release
  <1>8. RuntimeExclusive'
        BY DEF IInv, RuntimeExclusive, Release
  <1>9. ToldTruly'
        BY DEF IInv, ToldTruly, Told, Release
  <1> QED BY <1>1, <1>2, <1>3, <1>4, <1>5, <1>6, <1>7, <1>8, <1>9 DEF IInv

(* The steps of a cancel and of a preview. *)
LEMMA CancelJobStep ==
    ASSUME Sentinels, Bounds, IInv, CancelJob
    PROVE  IInv'
  <1>a. /\ active' \in Invocations /\ active' # None /\ active'.caller = active.caller
        /\ active'.kind = active.kind /\ active'.exec = active.exec /\ active'.job = active.job
    <2>1. active \in Invocations
          BY DEF IInv, Typed, CancelJob
    <2>2. \/ UNCHANGED active
          \/ active' = [active EXCEPT !.cancel = TRUE]
          \/ active' = [active EXCEPT !.cancel = TRUE, !.phase = "CANCEL_REQUESTED"]
          BY DEF CancelJob
    <2>3. active' \in Invocations
          BY <2>1, <2>2 DEF Invocations, Phases
    <2> QED BY <2>1, <2>2, <2>3 DEF Sentinels, Invocations
  <1>1. Typed'
        BY <1>a DEF IInv, Typed, Invocations, CancelJob, Answer
  <1>2. OneFlight'
        BY <1>a DEF IInv, OneFlight, CancelJob, Answer
  <1>3. GateHeld'
        BY DEF IInv, Sentinels, GateHeld, CancelJob, Answer
  <1>4. Room'
        BY <1>a DEF IInv, Room, Total, CancelJob, Answer
  <1>5. KnowsJob'
        BY <1>a DEF IInv, KnowsJob, CancelJob, Answer
  <1>6. KnowsEnd'
        BY DEF IInv, KnowsEnd, CancelJob, Answer
  <1>7. CallsActive'
        BY <1>a DEF IInv, CallsActive, CancelJob, Answer
  <1>8. RuntimeExclusive'
        BY DEF IInv, RuntimeExclusive, CancelJob, Answer
  <1>9. ToldTruly'
        BY DEF IInv, ToldTruly, Told, CancelJob, Answer
  <1> QED BY <1>1, <1>2, <1>3, <1>4, <1>5, <1>6, <1>7, <1>8, <1>9 DEF IInv

LEMMA CancelExecutionStep ==
    ASSUME Sentinels, Bounds, IInv, CancelExecution
    PROVE  IInv'
  <1>e. exec' \in [Jobs -> Executions]
        BY ExecutionTyped DEF IInv, Typed, CancelExecution
  <1>f. \A j \in Jobs : exec'[j].state = exec[j].state
        BY DEF IInv, Typed, Executions, CancelExecution
  <1>1. Typed'
        BY <1>e DEF IInv, Typed, CancelExecution, Answer
  <1>2. OneFlight'
        BY DEF IInv, OneFlight, CancelExecution, Answer
  <1>3. GateHeld'
        BY DEF IInv, Sentinels, GateHeld, CancelExecution, Answer
  <1>4. Room'
        BY DEF IInv, Room, Total, CancelExecution, Answer
  <1>5. KnowsJob'
    <2>1. UNCHANGED <<pc, active, jobs, issued, lane>>
          BY DEF CancelExecution
    <2> QED BY <1>f, <2>1 DEF IInv, KnowsJob
  <1>6. KnowsEnd'
        BY DEF IInv, KnowsEnd, CancelExecution, Answer
  <1>7. CallsActive'
        BY DEF IInv, CallsActive, CancelExecution, Answer
  <1>8. RuntimeExclusive'
        BY <1>f DEF IInv, RuntimeExclusive, CancelExecution, Answer
  <1>9. ToldTruly'
        BY DEF IInv, ToldTruly, Told, CancelExecution, Answer
  <1> QED BY <1>1, <1>2, <1>3, <1>4, <1>5, <1>6, <1>7, <1>8, <1>9 DEF IInv

LEMMA CancelDurablyStep ==
    ASSUME Sentinels, Bounds, IInv, CancelDurably
    PROVE  IInv'
  <1>a. /\ active \in Invocations /\ active.exec = issued /\ active.job = issued
        /\ cjob = issued /\ issued \in Jobs
        /\ active.caller \in Callers /\ pc[active.caller] \in Callable
        BY DEF IInv, Typed, CallsActive, KnowsJob, Invocations, CancelDurably
  <1>e. exec' \in [Jobs -> Executions]
        BY ExecutionTyped DEF IInv, Typed, CancelDurably
  <1>f. \A j \in Jobs : exec'[j].state = exec[j].state
    <2>1. UNCHANGED exec \/ exec' = [exec EXCEPT ![cjob].pending = TRUE]
          BY DEF CancelDurably
    <2> QED BY <2>1 DEF IInv, Typed, Executions
  <1>1. Typed'
        BY <1>e DEF IInv, Typed, JobStatuses, CancelDurably, Answer
  <1>2. OneFlight'
        BY DEF IInv, OneFlight, CancelDurably, Answer
  <1>3. GateHeld'
        BY DEF IInv, Sentinels, GateHeld, CancelDurably, Answer
  <1>4. Room'
        BY DEF IInv, Room, Total, CancelDurably, Answer
  <1>5. KnowsJob'
        BY <1>f DEF IInv, Typed, KnowsJob, CancelDurably, Answer
  <1>6. KnowsEnd'
        BY <1>a DEF IInv, Typed, KnowsEnd, CancelDurably, Answer
  <1>7. CallsActive'
        BY DEF IInv, CallsActive, CancelDurably, Answer
  <1>8. RuntimeExclusive'
        BY <1>f DEF IInv, RuntimeExclusive, CancelDurably, Answer
  <1>9. ToldTruly'
        BY <1>a, ToldWhileWorking DEF IInv, Typed, CancelDurably
  <1> QED BY <1>1, <1>2, <1>3, <1>4, <1>5, <1>6, <1>7, <1>8, <1>9 DEF IInv

LEMMA PreviewStep ==
    ASSUME Sentinels, Bounds, IInv, Preview
    PROVE  IInv'
  <1>1. Typed'
        BY DEF IInv, Typed, Preview, Answer, PreviewRun
  <1>2. OneFlight'
        BY DEF IInv, OneFlight, Preview, Answer, PreviewRun
  <1>3. GateHeld'
        BY DEF IInv, GateHeld, Preview, Answer, PreviewRun
  <1>4. Room'
        BY DEF IInv, Room, Total, Preview, Answer, PreviewRun
  <1>5. KnowsJob'
        BY <1>1 DEF IInv, Sentinels, Typed, KnowsJob, OneFlight, Preview, Answer, PreviewRun
  <1>6. KnowsEnd'
        BY DEF IInv, KnowsEnd, Preview, Answer, PreviewRun
  <1>7. CallsActive'
        BY DEF IInv, CallsActive, Preview, Answer, PreviewRun
  <1>8. RuntimeExclusive'
        BY DEF IInv, Sentinels, RuntimeExclusive, Jobs, Preview, Answer, PreviewRun
  <1>9. ToldTruly'
        BY DEF IInv, ToldTruly, Told, Preview, Answer, PreviewRun
  <1> QED BY <1>1, <1>2, <1>3, <1>4, <1>5, <1>6, <1>7, <1>8, <1>9 DEF IInv

(* Looking at the status, and doing nothing, touches none of it.           *)
LEMMA LookStep ==
    ASSUME IInv, UNCHANGED <<caller, flight, ui, gate, work, cancel>>
    PROVE  IInv'
  BY DEF IInv, Typed, OneFlight, GateHeld, Room, Total, KnowsJob, KnowsEnd, CallsActive,
     RuntimeExclusive, ToldTruly, Told

(* The invariant holds at first, and after every step. *)
LEMMA InitInvariant ==
    ASSUME Sentinels, Bounds, Init
    PROVE  IInv
  <1>1. Typed
        BY DEF Bounds, Init, Typed, Executions, JobStatuses
  <1>2. OneFlight /\ GateHeld
        BY DEF Sentinels, Init, OneFlight, GateHeld
  <1>3. Room /\ KnowsJob /\ KnowsEnd
        BY DEF Init, Room, KnowsJob, KnowsEnd
  <1>4. CallsActive /\ RuntimeExclusive /\ ToldTruly
        BY DEF Init, CallsActive, RuntimeExclusive, ToldTruly, Told
  <1> QED BY <1>1, <1>2, <1>3, <1>4 DEF IInv

LEMMA CallerStep ==
    ASSUME Sentinels, Bounds, IInv, NEW c \in Callers, Begin(c) \/ Step(c)
    PROVE  IInv'
  BY BeginStep, EnterStep, StageStep, LoopStep, ReserveStep, CheckCancelStep, AcquireLaneStep,
     OpenStep, RegisterStep, DeliverStep, StartStep, GenesisStep, WorkStep, ReadyStep, CloseStep,
     CloseResourcesStep, ClosedStep, ViewStep, FinishStep, AbandonStep, ReleaseStep DEF Step

LEMMA StepInvariant ==
    ASSUME Sentinels, Bounds, IInv, [Next]_vars
    PROVE  IInv'
  <1>1. CASE \E c \in Callers : Begin(c) \/ Step(c)
        BY <1>1, CallerStep
  <1>2. CASE CancelJob
        BY <1>2, CancelJobStep
  <1>3. CASE Cancelling
        BY <1>3, CancelExecutionStep, CancelDurablyStep DEF Cancelling
  <1>4. CASE Glance \/ Reading
        BY <1>4, LookStep DEF Glance, Reading, ReadStatus, Show, ShowLatest
  <1>5. CASE Preview
        BY <1>5, PreviewStep
  <1>6. CASE UNCHANGED vars
        BY <1>6, LookStep DEF vars
  <1> QED BY <1>1, <1>2, <1>3, <1>4, <1>5, <1>6 DEF Next

(* The invariant implies what the run checks. *)
LEMMA InvariantShows ==
    ASSUME Sentinels, Bounds, IInv
    PROVE  ShownIsTrue
  <1>1. TypeOK
    <2>1. active # None => /\ flight = active.caller /\ active.phase \in Phases
                           /\ active.job \in Jobs \cup {None} /\ Len(items) <= Total
          BY DEF IInv, Typed, OneFlight, Room, Invocations
    <2>2. terminal # None => terminal.status \in Statuses
          BY DEF IInv, Typed, Views
    <2> QED BY <2>1, <2>2 DEF IInv, Typed, OneFlight, TypeOK
  <1>2. CancelOnOpen
    <2>1. ASSUME cpc # "idle" PROVE exec[cjob].state = "open"
          BY <2>1 DEF IInv, Typed, CallsActive, KnowsJob, Invocations
    <2> QED BY <2>1 DEF CancelOnOpen
  <1>3. ShownIsStored
        BY DEF IInv, ToldTruly, Told, ShownIsStored
  <1> QED BY <1>1, <1>2, <1>3 DEF IInv, ShownIsTrue

(* While an execution is open the GPU is its own, a cancel calls only an   *)
(* open one, and no completed job is shown as cancelled, nor an unfinished *)
(* one as completed, whatever callers, cancels and previews do in between  *)
(* (ui/production_run.py, ui/production_ui_state.py). *)
THEOREM Shown ==
    ASSUME Sentinels, Bounds
    PROVE  Spec => []ShownIsTrue
  <1>1. Init => IInv
        BY InitInvariant
  <1>2. IInv /\ [Next]_vars => IInv'
        BY StepInvariant
  <1>3. IInv => ShownIsTrue
        BY InvariantShows
  <1> QED BY <1>1, <1>2, <1>3, PTL DEF Spec

-----------------------------------------------------------------------------
(* The promises hold at first, and each step keeps them.                   *)
LEMMA InitPromises ==
    ASSUME Sentinels, Init
    PROVE  Promises
  BY DEF Init, Promises

LEMMA CallerKeepsPromises ==
    ASSUME Sentinels, Bounds, IInv, Promises, NEW c \in Callers, Begin(c) \/ Step(c)
    PROVE  Promises'
  <1>1. CASE Begin(c)
        BY <1>1 DEF IInv, Promises, Begin
  <1>2. CASE Enter(c)
        BY <1>2 DEF IInv, Typed, OneFlight, Invocations, Promises, Cancellable, Enter,
           Invocation
  <1>3. CASE Stage(c)
        BY <1>3, Working DEF IInv, Typed, Promises, Stage
  <1>4. CASE Loop(c)
    <2>1. active \in Invocations /\ active # None /\ active.caller = c /\ active.job \in Jobs \cup {None}
          BY <1>4, Working DEF Loop, Invocations
    <2>2. /\ active'.exec = active.exec /\ active'.cancel = active.cancel /\ active'.caller = c
          /\ active'.phase \in {active.phase, "STAGING"}
      <3>1. \/ UNCHANGED active
            \/ active' = [active EXCEPT !.phase = "STAGING", !.job = None, !.index = Len(items)]
            BY <1>4 DEF Loop
      <3> QED BY <2>1, <3>1 DEF Invocations
    <2>3. active' # None
      <3>1. OneFlight'
            BY <1>4, CallerStep DEF Step, IInv
      <3>2. pc'[c] \in Inside
            BY <1>4 DEF IInv, Typed, Loop
      <3> QED BY <3>1, <3>2 DEF OneFlight
    <2>4. \A d \in Callers : d # c => pc'[d] = "idle"
          BY <1>4, Working DEF IInv, Typed, Loop
    <2> QED BY <1>4, <2>1, <2>2, <2>3, <2>4 DEF IInv, Typed, Promises, Cancellable, Loop
  <1>5. CASE Reserve(c)
    <2>1. active \in Invocations /\ active # None /\ active.caller = c /\ active.job \in Jobs \cup {None}
          BY <1>5, Working DEF Reserve, Invocations
    <2>2. /\ active'.exec = active.exec /\ active'.cancel = active.cancel /\ active'.caller = c
          /\ active'.phase = "RESERVED"
          BY <1>5, <2>1 DEF Reserve
    <2>3. active' # None
      <3>1. OneFlight'
            BY <1>5, CallerStep DEF Step, IInv
      <3>2. pc'[c] \in Inside
            BY <1>5 DEF IInv, Typed, Reserve
      <3> QED BY <3>1, <3>2 DEF OneFlight
    <2>4. \A d \in Callers : d # c => pc'[d] = "idle"
          BY <1>5, Working DEF IInv, Reserve
    <2> QED BY <1>5, <2>1, <2>2, <2>3, <2>4 DEF IInv, Promises, Cancellable, Reserve
  <1>6. CASE CheckCancel(c)
        BY <1>6, Working DEF IInv, Typed, Invocations, Promises, Cancellable, CheckCancel
  <1>7. CASE AcquireLane(c)
        BY <1>7 DEF IInv, Promises, AcquireLane
  <1>8. CASE Open(c)
        BY <1>8, Working DEF IInv, Typed, Promises, Open
  <1>9. CASE Register(c)
    <2>1. active \in Invocations /\ active # None /\ active.caller = c /\ active.job \in Jobs \cup {None}
          BY <1>9, Working DEF Register
    <2>2. /\ active'.exec = issued /\ active'.cancel = active.cancel /\ active'.caller = c
          BY <1>9, <2>1, Working DEF Register
    <2>3. active' # None
      <3>1. OneFlight'
            BY <1>9, CallerStep DEF Step, IInv
      <3>2. pc'[c] \in Inside
            BY <1>9 DEF IInv, Typed, Register
      <3> QED BY <3>1, <3>2 DEF OneFlight
    <2>4. \A d \in Callers : d # c => pc'[d] = "idle"
          BY <1>9, Working DEF IInv, Register
    <2> QED BY <1>9, <2>1, <2>2, <2>3, <2>4 DEF IInv, Typed, Sentinels, Promises, Register
  <1>10. CASE Deliver(c)
        BY <1>10, Working DEF IInv, Typed, CallsActive, Promises, Deliver
  <1>11. CASE Start(c)
        BY <1>11, Working DEF IInv, Typed, Promises, Start
  <1>12. CASE Genesis(c)
        BY <1>12, Working DEF IInv, Typed, Promises, Genesis
  <1>13. CASE Work(c)
        BY <1>13, Working DEF IInv, Typed, Promises, Work
  <1>14. CASE Ready(c)
    <2>1. active \in Invocations /\ active # None /\ active.caller = c /\ active.job \in Jobs \cup {None}
          BY <1>14, Working DEF Ready
    <2>2. /\ active'.exec = active.exec /\ active'.cancel = active.cancel /\ active'.caller = c
          /\ active'.phase = "RESULT_READY"
          BY <1>14, <2>1 DEF Ready
    <2>3. active' # None
      <3>1. OneFlight'
            BY <1>14, CallerStep DEF Step, IInv
      <3>2. pc'[c] \in Inside
            BY <1>14 DEF IInv, Typed, Ready
      <3> QED BY <3>1, <3>2 DEF OneFlight
    <2>4. \A d \in Callers : d # c => pc'[d] = "idle"
          BY <1>14, Working DEF IInv, Ready
    <2> QED BY <1>14, <2>1, <2>2, <2>3, <2>4 DEF IInv, Promises, Ready
  <1>15. CASE Close(c)
    <2>1. active \in Invocations /\ active # None /\ active.caller = c /\ active.job \in Jobs \cup {None}
          BY <1>15, Working DEF Close
    <2>2. /\ active'.cancel = active.cancel /\ active'.caller = c
          /\ active'.phase = "CLEANUP"
          BY <1>15, <2>1 DEF Close
    <2>3. active' # None
      <3>1. OneFlight'
            BY <1>15, CallerStep DEF Step, IInv
      <3>2. pc'[c] \in Inside
            BY <1>15 DEF IInv, Typed, Close
      <3> QED BY <3>1, <3>2 DEF OneFlight
    <2>4. \A d \in Callers : d # c => pc'[d] = "idle"
          BY <1>15, Working DEF IInv, Close
    <2>5. \A d \in Callers : pc'[d] \notin Callable /\ pc'[d] \notin {"genesis", "start"}
          BY <1>15, <2>4 DEF IInv, Typed, Close
    <2>6. active'.phase \notin Cancellable
          BY <2>2 DEF Cancellable
    <2>7. UNCHANGED <<answered, rpc, seen>>
          BY <1>15 DEF Close
    <2> QED BY <2>1, <2>2, <2>3, <2>5, <2>6, <2>7 DEF Promises
  <1>16. CASE CloseResources(c)
        BY <1>16, Working DEF IInv, Promises, CloseResources
  <1>17. CASE Closed(c)
        BY <1>17, Working DEF IInv, Typed, Promises, Closed
  <1>18. CASE View(c)
        BY <1>18 DEF IInv, Promises, View
  <1>19. CASE Finish(c)
        BY <1>19, Working DEF IInv, Promises, Finish
  <1>20. CASE Abandon(c)
        BY <1>20, Working DEF IInv, Promises, Abandon
  <1>21. CASE Release(c)
        BY <1>21 DEF IInv, Promises, Release
  <1> QED BY <1>1, <1>2, <1>3, <1>4, <1>5, <1>6, <1>7, <1>8, <1>9, <1>10, <1>11, <1>12, <1>13,
             <1>14, <1>15, <1>16, <1>17, <1>18, <1>19, <1>20, <1>21 DEF Step

LEMMA CancelKeepsPromises ==
    ASSUME Sentinels, Bounds, IInv, Promises, CancelJob \/ Cancelling
    PROVE  Promises'
  <1>1. CASE CancelJob
    <2>1. active \in Invocations
          BY <1>1 DEF IInv, Typed, CancelJob
    <2>2. \/ UNCHANGED active /\ answered' = "terminal"
          \/ /\ active' = [active EXCEPT !.cancel = TRUE]
             /\ answered' = "early" /\ active.exec = None
          \/ /\ active' = [active EXCEPT !.cancel = TRUE, !.phase = "CANCEL_REQUESTED"]
             /\ UNCHANGED answered /\ active.exec # None
          BY <1>1 DEF CancelJob, Answer
    <2>3. /\ active'.exec = active.exec /\ active'.caller = active.caller
          /\ active.cancel => active'.cancel
          BY <2>1, <2>2 DEF Invocations
    <2>4. active'.phase = active.phase \/ (active'.phase = "CANCEL_REQUESTED" /\ active.exec # None)
          BY <2>1, <2>2 DEF Invocations
    <2>5. answered' = "early" => (active.exec = None /\ active'.cancel) \/ answered = "early"
          BY <2>1, <2>2 DEF Invocations
    <2>6. active # None /\ active' # None
          BY <1>1, <2>1, <2>2, CancelJobStep DEF IInv, OneFlight, CancelJob, Invocations
    <2>7. UNCHANGED <<pc, exec, issued, rpc, seen>>
          BY <1>1 DEF CancelJob
    <2> QED BY <2>3, <2>4, <2>5, <2>6, <2>7 DEF IInv, CallsActive, Promises
  <1>2. CASE CancelExecution
        BY <1>2 DEF IInv, Promises, CancelExecution, Answer
  <1>3. CASE CancelDurably
        BY <1>3 DEF IInv, Promises, CancelDurably, Answer
  <1> QED BY <1>1, <1>2, <1>3 DEF Cancelling

LEMMA StepKeepsPromises ==
    ASSUME Sentinels, Bounds, IInv, Promises, [Next]_vars
    PROVE  Promises'
  <1>1. CASE Glance
        BY <1>1 DEF IInv, Typed, Invocations, Promises, Cancellable, Readable, Glance
  <1>2. CASE ReadStatus
        BY <1>2 DEF IInv, Typed, JobStatuses, Promises, ReadStatus
  <1>3. CASE Show
        BY <1>3 DEF Promises, Show
  <1>4. CASE ShowLatest
        BY <1>4 DEF Promises, ShowLatest
  <1>5. CASE Preview
        BY <1>5 DEF Promises, Preview
  <1>6. CASE UNCHANGED vars
        BY <1>6 DEF Promises, vars
  <1> QED BY <1>1, <1>2, <1>3, <1>4, <1>5, <1>6, CallerKeepsPromises, CancelKeepsPromises DEF Next,
             Reading

(* Only the start of a job makes it active, which an early cancel rules out. *)
LEMMA EarlyCancelStep ==
    ASSUME Sentinels, Bounds, IInv, Promises, [Next]_vars, answered = "early",
           NEW j \in Jobs, jobs[j] = "absent"
    PROVE  jobs'[j] # "active"
  <1>1. ASSUME NEW c \in Callers, Genesis(c) PROVE FALSE
        BY <1>1 DEF Promises, Genesis
  <1>2. ASSUME NEW c \in Callers, Work(c) PROVE jobs'[j] # "active"
        BY <1>2 DEF IInv, Typed, Work
  <1>3. CASE CancelDurably
        BY <1>3 DEF IInv, Typed, CancelDurably
  <1>4. CASE UNCHANGED jobs
        BY <1>4
  <1>5. ASSUME NEW c \in Callers, Begin(c) \/ Step(c), ~Genesis(c), ~Work(c)
        PROVE  UNCHANGED jobs
        BY <1>5 DEF Step, work, Begin, Enter, Stage, Loop, Reserve, CheckCancel, AcquireLane, Open,
           Register, Deliver, Start, Ready, Close, CloseResources, Closed, View, Finish, Abandon,
           Release
  <1>6. CASE \E c \in Callers : Begin(c) \/ Step(c)
        BY <1>1, <1>2, <1>4, <1>5, <1>6
  <1>7. CASE CancelJob \/ CancelExecution \/ Glance \/ Reading \/ Preview
        BY <1>4, <1>7 DEF Reading, work, CancelJob, CancelExecution, Glance, ReadStatus, Show, ShowLatest,
           Preview
  <1>8. CASE UNCHANGED vars
        BY <1>4, <1>8 DEF vars, work
  <1> QED BY <1>3, <1>6, <1>7, <1>8 DEF Next, Cancelling

(* No step of a caller gives an early invocation an execution or a job, *)
LEMMA CallerNotYet ==
    ASSUME Sentinels, Bounds, IInv, Promises, NotYet, NEW c \in Callers, Begin(c) \/ Step(c)
    PROVE  NotYet'
  <1>1. CASE UNCHANGED <<active, jobs>>
        BY <1>1 DEF NotYet
  <1>2. CASE Enter(c)
        BY <1>2 DEF NotYet, Enter, Invocation
  <1>3. ASSUME pc[c] \in Inside \ {"abandon"}
        PROVE  active \in Invocations /\ active # None /\ active.caller = c
        BY <1>3, Working
  <1>4. CASE Loop(c)
    <2>1. /\ pc[c] = "loop" /\ UNCHANGED jobs
          /\ \/ UNCHANGED active
             \/ active' = [active EXCEPT !.phase = "STAGING", !.job = None, !.index = Len(items)]
          BY <1>4 DEF Loop
    <2>2. CASE active' = [active EXCEPT !.phase = "STAGING", !.job = None, !.index = Len(items)]
      <3>1. active.exec = None
            BY <1>3, <2>1 DEF IInv, CallsActive
      <3>2. active'.exec = active.exec /\ active'.job = None
            BY <1>3, <2>1, <2>2 DEF Invocations
      <3> QED BY <3>1, <3>2 DEF NotYet
    <2> QED BY <1>1, <2>1, <2>2
  <1>5. CASE Reserve(c)
    <2>1. /\ pc[c] = "reserve" /\ UNCHANGED jobs
          /\ active' = [active EXCEPT !.phase = "RESERVED", !.job = issued']
          BY <1>5 DEF Reserve
    <2>2. active.exec = None
          BY <1>3, <2>1 DEF IInv, CallsActive
    <2>3. active'.exec = active.exec /\ active'.job = issued'
          BY <1>3, <2>1 DEF Invocations
    <2>4. issued' \in Jobs /\ issued' > issued
          BY <1>3, <1>5 DEF IInv, Typed, Bounds, Room, Total, Jobs, Reserve
    <2> QED BY <2>1, <2>2, <2>3, <2>4 DEF NotYet, IInv, KnowsJob
  <1>6. CASE CheckCancel(c)
    <2>1. /\ pc[c] = "reserved" /\ UNCHANGED jobs
          /\ UNCHANGED active \/ active' = [active EXCEPT !.phase = "OPENING"]
          BY <1>6 DEF CheckCancel
    <2>2. active'.exec = active.exec /\ active'.job = active.job
          BY <1>3, <2>1 DEF Invocations
    <2>3. active.exec = None /\ jobs[active.job] = "absent"
          BY <1>3, <2>1 DEF IInv, CallsActive, KnowsJob
    <2> QED BY <2>1, <2>2, <2>3 DEF NotYet
  <1>7. CASE Register(c)
    <2>1. active'.phase = "ACTIVE"
          BY <1>3, <1>7 DEF Register, Invocations
    <2> QED BY <2>1 DEF NotYet, Early
  <1>8. CASE Ready(c)
    <2>1. active'.phase = "RESULT_READY"
          BY <1>3, <1>8 DEF Ready, Invocations
    <2> QED BY <2>1 DEF NotYet, Early
  <1>9. CASE Close(c)
    <2>1. active'.phase = "CLEANUP"
          BY <1>3, <1>9 DEF Close, Invocations
    <2> QED BY <2>1 DEF NotYet, Early
  <1>10. CASE Finish(c) \/ Abandon(c)
        BY <1>10 DEF NotYet, Finish, Abandon
  <1>11. CASE Genesis(c) \/ Work(c)
    <2>1. pc[c] \in {"genesis", "work"} /\ UNCHANGED active
          BY <1>11 DEF Genesis, Work
    <2>2. active.exec # None
          BY <2>1 DEF Promises
    <2> QED BY <2>1, <2>2 DEF NotYet
  <1>12. CASE \/ Begin(c) \/ Stage(c) \/ AcquireLane(c) \/ Open(c) \/ Deliver(c) \/ Start(c)
              \/ CloseResources(c) \/ Closed(c) \/ View(c) \/ Release(c)
    <2>1. UNCHANGED <<active, jobs>>
          BY <1>12 DEF Begin, Stage, AcquireLane, Open, Deliver, Start, CloseResources, Closed,
             View, Release
    <2> QED BY <1>1, <2>1
  <1> QED BY <1>2, <1>4, <1>5, <1>6, <1>7, <1>8, <1>9, <1>10, <1>11, <1>12 DEF Step

(* and a cancel touches only the job of an execution. *)
LEMMA StepNotYet ==
    ASSUME Sentinels, Bounds, IInv, Promises, NotYet, [Next]_vars
    PROVE  NotYet'
  <1>1. CASE UNCHANGED <<active, jobs>>
        BY <1>1 DEF NotYet
  <1>2. CASE CancelJob
    <2>1. active \in Invocations /\ active # None /\ UNCHANGED jobs
          BY <1>2 DEF IInv, Typed, CancelJob
    <2>2. \/ UNCHANGED active
          \/ active' = [active EXCEPT !.cancel = TRUE]
          \/ active' = [active EXCEPT !.cancel = TRUE, !.phase = "CANCEL_REQUESTED"]
          BY <1>2 DEF CancelJob
    <2>3. /\ active'.exec = active.exec /\ active'.job = active.job
          /\ active'.phase \in {active.phase, "CANCEL_REQUESTED"}
          BY <2>1, <2>2 DEF Invocations
    <2> QED BY <2>1, <2>3 DEF NotYet, Early
  <1>3. CASE CancelDurably
    <2>1. active # None /\ active.exec # None /\ UNCHANGED active
          BY <1>3 DEF IInv, CallsActive, CancelDurably
    <2> QED BY <2>1 DEF NotYet
  <1>4. CASE CancelExecution \/ Glance \/ Reading \/ Preview \/ UNCHANGED vars
    <2>1. UNCHANGED <<active, jobs>>
          BY <1>4 DEF CancelExecution, Glance, Reading, ReadStatus, Show, ShowLatest, Preview, vars
    <2> QED BY <1>1, <2>1
  <1> QED BY <1>2, <1>3, <1>4, CallerNotYet DEF Next, Cancelling

(* A status is shown by one of two steps: of what a second look finds       *)
(* unchanged, or of what there is then. *)
LEMMA OfferStep ==
    ASSUME Sentinels, Bounds, IInv, Promises, NotYet, [Next]_vars,
           rpc # "idle", rpc' = "idle", active # None, CanCancel
    PROVE  \/ active.exec = active.job /\ active.job # None /\ exec[active.job].state = "open"
           \/ /\ active.exec = None
              /\ active.phase \in {"STAGING", "RESERVED", "OPENING"}
              /\ active.job # None => jobs[active.job] = "absent"
  <1>1. Show \/ ShowLatest
    <2>1. CASE \E c \in Callers : Begin(c) \/ Step(c)
      <3>1. UNCHANGED reader
            BY <2>1 DEF Step, Begin, Enter, Stage, Loop, Reserve, CheckCancel, AcquireLane, Open,
               Register, Deliver, Start, Genesis, Work, Ready, Close, CloseResources, Closed, View,
               Finish, Abandon, Release
      <3> QED BY <3>1
    <2>2. CASE CancelJob \/ Cancelling \/ Preview
          BY <2>2 DEF Cancelling, CancelJob, CancelExecution, CancelDurably, Preview
    <2>3. CASE Glance
          BY <2>3 DEF Glance
    <2>4. CASE ReadStatus
          BY <2>4 DEF IInv, Typed, JobStatuses, ReadStatus, Promises
    <2>5. CASE UNCHANGED vars
          BY <2>5 DEF vars
    <2> QED BY <2>1, <2>2, <2>3, <2>4, <2>5 DEF Next, Reading
  <1>2. active.phase \in Cancellable \cup Early
    <2>1. active.phase \in Phases
          BY DEF IInv, Typed, Invocations
    <2>2. CASE Displayed = active.phase
          BY <2>1, <2>2 DEF CanCancel, Phases, Cancellable, Early
    <2>3. CASE Displayed # active.phase
      <3>1. Show /\ rpc = "active"
            BY <1>1, <2>3 DEF Displayed, CanCancel, Show, ShowLatest, JobStatuses
      <3>2. StillSeen
            BY <3>1 DEF Show
      <3> QED BY <3>1, <3>2 DEF StillSeen, Promises
    <2> QED BY <2>2, <2>3
  <1>3. CASE active.phase \in Cancellable
    <2>1. active.caller \in Callers /\ pc[active.caller] \in Callable
          BY <1>3 DEF IInv, Typed, Invocations, Promises
    <2>2. active.exec # None
          BY <2>1 DEF Promises
    <2>3. active.exec = active.job /\ active.job = issued /\ exec[issued].state = "open"
          BY <2>1, <2>2 DEF IInv, CallsActive, KnowsJob
    <2> QED BY <2>2, <2>3
  <1>4. CASE active.phase \in Early
        BY <1>4 DEF NotYet, Early
  <1> QED BY <1>2, <1>3, <1>4

(* A cancel that is accepted before there is an execution to call prevents *)
(* the job, although it is delivered by another thread and later; and an   *)
(* offer to cancel comes, when it is shown, either while there is an open  *)
(* execution to call or while the job can still be prevented (cancel_job,  *)
(* get_job_status and register_execution of ui/production_ui_state.py).    *)
THEOREM CancelServed ==
    ASSUME Sentinels, Bounds
    PROVE  Spec => CancelIsServed
  <1>1. Init => IInv /\ Promises /\ NotYet
    <2>1. Init => NotYet
          BY DEF Init, NotYet
    <2> QED BY <2>1, InitInvariant, InitPromises
  <1>2. IInv /\ Promises /\ NotYet /\ [Next]_vars => IInv' /\ Promises' /\ NotYet'
        BY StepInvariant, StepKeepsPromises, StepNotYet
  <1>3. IInv /\ Promises /\ [Next]_vars =>
           [answered = "early" => \A j \in Jobs : jobs[j] = "absent" => jobs'[j] # "active"]_vars
        BY EarlyCancelStep
  <1>4. IInv /\ Promises /\ NotYet /\ [Next]_vars =>
           [rpc # "idle" /\ rpc' = "idle" /\ active # None /\ CanCancel =>
               \/ active.exec = active.job /\ active.job # None /\ exec[active.job].state = "open"
               \/ /\ active.exec = None
                  /\ active.phase \in {"STAGING", "RESERVED", "OPENING"}
                  /\ active.job # None => jobs[active.job] = "absent"]_vars
        BY OfferStep
  <1>5. Spec => EarlyCancelWins
        BY <1>1, <1>2, <1>3, PTL DEF Spec, EarlyCancelWins
  <1>6. Spec => OfferIsLive
        BY <1>1, <1>2, <1>4, PTL DEF Spec, OfferIsLive
  <1> QED BY <1>5, <1>6 DEF CancelIsServed

-----------------------------------------------------------------------------
(* A batch, for any number of runs, of cohorts and of members, with any    *)
(* number of failures and of losses of power.                              *)

BatchSteps == {"idle", "open", "mkdir", "syncParent", "read", "link", "sync", "verify",
               "checkpoint"}

(* What is not there yet is no record. *)
NoRecord == Unset \notin Bindings

BatchTyped ==
    /\ batchPc \in [BatchRuns -> (0 .. 6) \X BatchSteps]
    /\ DOMAIN cohort = BatchRuns /\ DOMAIN batchItems = BatchRuns
    /\ DOMAIN verdict = BatchRuns /\ DOMAIN batchStaged = BatchRuns
    /\ journal \in [BatchPhases -> Bindings \cup {Unset}]
    /\ losses \in Nat

(* A run has what its phase is about; the records of the phases behind it, *)
(* and at a checkpoint that of its own phase, are those it would write.    *)
(* What it has staged is what the routing recorded.                        *)
Candidate(r) ==
    /\ batchPc[r][1] # 0 => cohort[r] \in Cohorts /\ batchItems[r] \in [Members -> ItemStatuses]
    /\ batchPc[r][1] >= 3 => verdict[r] \in BatchStatuses
Behind(r) == {j \in BatchPhases : j < batchPc[r][1] \/ batchPc[r] = <<j, "checkpoint">>}
Records(r) == \A j \in Behind(r) : journal[j] = Binding(r, j)
Carries(r) ==
    batchStaged[r] # Unset =>
        batchPc[r][1] >= Staged /\ batchStaged[r] = Binding(r, Routed)
RunKnows(r) == Candidate(r) /\ Records(r) /\ Carries(r)

BatchInv ==
    /\ BatchTyped /\ BatchTypeOK /\ OneStory
    /\ \A r \in BatchRuns : RunKnows(r)

(* What a phase binds is a record that agrees with what the earlier ones bind. *)
LEMMA BindingIsRecord ==
    ASSUME NEW r \in BatchRuns, NEW k \in BatchPhases, cohort[r] \in Cohorts,
           k >= 3 => verdict[r] \in BatchStatuses
    PROVE  Binding(r, k) \in Bindings
  <1>1. CASE k \in {1, 2}
        BY <1>1 DEF Binding, Bindings
  <1>2. CASE k = 3
        BY <1>2 DEF Binding, Bindings
  <1>3. CASE k \in {4, 5, 6}
    <2>1. Binding(r, k) = <<cohort[r], verdict[r], Decisions(r)>>
          BY <1>3 DEF Binding
    <2>2. \A item, batch : Decide(item, batch) \in {"APPROVED", "MANUAL_REVIEW", "REJECTED"}
          BY DEF Decide
    <2>3. Decisions(r) \in [Members -> {"APPROVED", "MANUAL_REVIEW", "REJECTED"}]
          BY <2>2 DEF Decisions
    <2>4. verdict[r] \in BatchStatuses
          BY <1>3
    <2> QED BY <2>1, <2>3, <2>4 DEF Bindings
  <1> QED BY <1>1, <1>2, <1>3 DEF BatchPhases

LEMMA BindingsAgree ==
    ASSUME NEW r \in BatchRuns, NEW j \in BatchPhases, NEW k \in BatchPhases, j < k
    PROVE  Agrees(Binding(r, j), Binding(r, k))
  <1>1. CASE j \in {1, 2} /\ k = 2
        BY <1>1 DEF Binding, Agrees
  <1>2. CASE j \in {1, 2} /\ k = 3
        BY <1>2 DEF Binding, Agrees
  <1>3. CASE j \in {1, 2} /\ k \in {4, 5, 6}
        BY <1>3 DEF Binding, Agrees
  <1>4. CASE j = 3 /\ k \in {4, 5, 6}
        BY <1>4 DEF Binding, Agrees
  <1>5. CASE j \in {4, 5} /\ k \in {5, 6}
        BY <1>5 DEF Binding, Agrees
  <1> QED BY <1>1, <1>2, <1>3, <1>4, <1>5 DEF BatchPhases

(* A record that is in its place stays there while the machine runs. *)
Stay == \A j \in BatchPhases : journal[j] # Unset => journal'[j] = journal[j]
(* A step of another run. *)
Apart(q) ==
    /\ batchPc'[q] = batchPc[q] /\ cohort'[q] = cohort[q] /\ batchItems'[q] = batchItems[q]
    /\ verdict'[q] = verdict[q] /\ batchStaged'[q] = batchStaged[q]

LEMMA SameBinding ==
    ASSUME NEW q \in BatchRuns, Apart(q), NEW j
    PROVE  Binding(q, j)' = Binding(q, j)
  <1>1. Decisions(q)' = Decisions(q)
        BY DEF Decisions, Apart
  <1> QED BY <1>1 DEF Binding, Apart

LEMMA OthersKnow ==
    ASSUME NoRecord, BatchTyped, NEW q \in BatchRuns, RunKnows(q), Apart(q), Stay
    PROVE  RunKnows(q)'
  <1>1. Candidate(q)'
        BY DEF RunKnows, Candidate, Apart
  <1>2. Records(q)'
    <2> SUFFICES ASSUME NEW j \in Behind(q)
                 PROVE  journal'[j] = Binding(q, j)'
        BY DEF Records, Behind, Apart
    <2>1. j \in BatchPhases /\ journal[j] = Binding(q, j)
          BY DEF RunKnows, Records, Behind
    <2>2. cohort[q] \in Cohorts /\ (j >= 3 => verdict[q] \in BatchStatuses)
          BY DEF RunKnows, Candidate, Behind, BatchPhases, BatchTyped
    <2>3. journal[j] # Unset
          BY <2>1, <2>2, BindingIsRecord DEF NoRecord
    <2> QED BY <2>1, <2>3, SameBinding DEF Stay
  <1>3. Carries(q)'
        BY SameBinding DEF RunKnows, Carries, Apart
  <1> QED BY <1>1, <1>2, <1>3 DEF RunKnows

(* The step of a run that keeps to itself, and of one that ends.           *)
LEMMA RunStep ==
    ASSUME NoRecord, BatchInv, NEW r \in BatchRuns, BatchTyped', RunKnows(r)', Stay,
           \A q \in BatchRuns : q # r => Apart(q), BatchTypeOK', OneStory'
    PROVE  BatchInv'
  <1>1. \A q \in BatchRuns : q # r => RunKnows(q)'
        BY OthersKnow DEF BatchInv
  <1> QED BY <1>1 DEF BatchInv

LEMMA QuietStep ==
    ASSUME NoRecord, BatchInv, NEW r \in BatchRuns, BatchTyped', RunKnows(r)',
           \A q \in BatchRuns : q # r => Apart(q),
           UNCHANGED <<journal, synced, bundle, losses>>, dir' \in {"absent", "made", "synced"}
    PROVE  BatchInv'
  <1>1. Stay
        BY DEF Stay
  <1>2. BatchTypeOK' /\ OneStory'
        BY DEF BatchInv, BatchTypeOK, OneStory
  <1> QED BY <1>1, <1>2, RunStep

LEMMA RunEnds ==
    ASSUME BatchTyped, NEW r \in BatchRuns, EndRun(r), UNCHANGED <<journal, losses>>
    PROVE  /\ BatchTyped' /\ RunKnows(r)'
           /\ \A q \in BatchRuns : q # r => Apart(q)
  <1>1. BatchTyped'
        BY DEF BatchTyped, EndRun, GotoPhase, BatchSteps
  <1>2. batchPc'[r] = <<0, "idle">> /\ batchStaged'[r] = Unset
        BY DEF BatchTyped, EndRun, GotoPhase
  <1>3. Behind(r)' = {}
        BY <1>2 DEF Behind, BatchPhases
  <1>4. RunKnows(r)'
        BY <1>2, <1>3 DEF RunKnows, Candidate, Records, Carries
  <1>5. \A q \in BatchRuns : q # r => Apart(q)
        BY DEF Apart, EndRun, GotoPhase, BatchTyped
  <1> QED BY <1>1, <1>4, <1>5

LEMMA RaiseStep ==
    ASSUME NoRecord, BatchInv, NEW r \in BatchRuns, Raise(r), UNCHANGED losses
    PROVE  BatchInv'
  <1>1. BatchTyped' /\ RunKnows(r)' /\ \A q \in BatchRuns : q # r => Apart(q)
        BY RunEnds DEF Raise, disk, BatchInv
  <1>2. dir' \in {"absent", "made", "synced"}
        BY DEF BatchInv, BatchTypeOK, Raise, disk
  <1> QED BY <1>1, <1>2, QuietStep DEF Raise, disk

(* A run that goes to another step of its phase, to its checkpoint, and to *)
(* the next phase.                                                         *)
LEMMA MovesOn ==
    ASSUME NoRecord, BatchInv, NEW r \in BatchRuns, NEW k \in BatchPhases, NEW from, NEW step,
           batchPc[r] = <<k, from>>, GotoPhase(r, k, step), step \in BatchSteps \ {"checkpoint"},
           UNCHANGED <<candidates, batchStaged, losses>>, Stay,
           journal' \in [BatchPhases -> Bindings \cup {Unset}]
    PROVE  /\ BatchTyped' /\ RunKnows(r)'
           /\ \A q \in BatchRuns : q # r => Apart(q)
  <1>1. BatchTyped'
        BY DEF BatchInv, BatchTyped, GotoPhase, candidates, BatchPhases
  <1>2. batchPc'[r] = <<k, step>>
        BY DEF BatchInv, BatchTyped, GotoPhase
  <1>3. Behind(r)' \subseteq Behind(r)
        BY <1>2 DEF Behind
  <1>4. \A j : Binding(r, j)' = Binding(r, j)
    <2>1. Decisions(r)' = Decisions(r)
          BY DEF Decisions, candidates
    <2> QED BY <2>1 DEF Binding, candidates
  <1>5. Candidate(r)' /\ Carries(r)'
        BY <1>2, <1>4 DEF BatchInv, RunKnows, Candidate, Carries, candidates
  <1>6. Records(r)'
    <2> SUFFICES ASSUME NEW j \in Behind(r)
                 PROVE  journal'[j] = Binding(r, j)'
        BY <1>3 DEF Records
    <2>1. j \in BatchPhases /\ journal[j] = Binding(r, j)
          BY DEF BatchInv, RunKnows, Records, Behind
    <2>2. cohort[r] \in Cohorts /\ (j >= 3 => verdict[r] \in BatchStatuses)
          BY DEF BatchInv, RunKnows, Candidate, Behind, BatchPhases
    <2>3. journal[j] # Unset
          BY <2>1, <2>2, BindingIsRecord DEF NoRecord
    <2> QED BY <2>1, <2>3, <1>4 DEF Stay
  <1>7. \A q \in BatchRuns : q # r => Apart(q)
        BY DEF Apart, GotoPhase, BatchInv, BatchTyped, candidates
  <1> QED BY <1>1, <1>5, <1>6, <1>7 DEF RunKnows

LEMMA ReachesCheckpoint ==
    ASSUME NoRecord, BatchInv, NEW r \in BatchRuns, NEW k \in BatchPhases, NEW from,
           batchPc[r] = <<k, from>>, Recorded(r, k), UNCHANGED <<journal, synced>>,
           journal[k] = Binding(r, k)
    PROVE  BatchInv'
  <1>1. BatchTyped'
        BY DEF BatchInv, BatchTyped, GotoPhase, Recorded, candidates, BatchPhases, BatchSteps
  <1>2. batchPc'[r] = <<k, "checkpoint">>
        BY DEF BatchInv, BatchTyped, GotoPhase, Recorded
  <1>3. Behind(r)' \subseteq Behind(r) \cup {k}
        BY <1>2 DEF Behind
  <1>4. \A j : Binding(r, j)' = Binding(r, j)
    <2>1. Decisions(r)' = Decisions(r)
          BY DEF Decisions, candidates, Recorded
    <2> QED BY <2>1 DEF Binding, candidates, Recorded
  <1>5. Candidate(r)' /\ Carries(r)'
        BY <1>2, <1>4 DEF BatchInv, RunKnows, Candidate, Carries, candidates, Recorded
  <1>6. Records(r)'
        BY <1>3, <1>4 DEF Records, BatchInv, RunKnows
  <1>7. \A q \in BatchRuns : q # r => Apart(q)
        BY DEF Apart, GotoPhase, BatchInv, BatchTyped, candidates, Recorded
  <1>8. dir' \in {"absent", "made", "synced"}
        BY DEF BatchInv, BatchTypeOK, Recorded
  <1> QED BY <1>1, <1>5, <1>6, <1>7, <1>8, QuietStep DEF RunKnows, Recorded

(* The steps of the journal. *)
LEMMA JournalStep ==
    ASSUME NoRecord, BatchInv, NEW r \in BatchRuns, NEW k \in BatchPhases,
           OpenDirectory(r, k) \/ MakeDirectory(r, k) \/ SyncParent(r, k) \/ ReadRecord(r, k)
              \/ SyncRecord(r, k) \/ VerifyRecord(r, k)
    PROVE  BatchInv'
  <1>0. UNCHANGED journal => Stay /\ journal' \in [BatchPhases -> Bindings \cup {Unset}]
        BY DEF Stay, BatchInv, BatchTyped
  <1>d. dir \in {"absent", "made", "synced"}
        BY DEF BatchInv, BatchTypeOK
  <1>1. CASE OpenDirectory(r, k)
    <2>1. PICK step \in {"mkdir", "read"} : GotoPhase(r, k, step)
          BY <1>1 DEF OpenDirectory
    <2> QED BY <1>0, <1>1, <1>d, <2>1, MovesOn, QuietStep DEF OpenDirectory, candidates, disk, BatchSteps
  <1>2. CASE MakeDirectory(r, k)
    <2>1. CASE dir = "absent"
          BY <1>0, <1>2, <2>1, MovesOn, QuietStep DEF MakeDirectory, candidates, BatchSteps
    <2>2. CASE dir # "absent"
          BY <1>2, <2>2, RaiseStep DEF MakeDirectory, Refused
    <2> QED BY <2>1, <2>2
  <1>3. CASE SyncParent(r, k)
        BY <1>0, <1>3, MovesOn, QuietStep DEF SyncParent, candidates, BatchSteps
  <1>4. CASE ReadRecord(r, k)
    <2>1. CASE Refused(r)
          BY <2>1, RaiseStep DEF Refused
    <2>2. CASE GotoPhase(r, k, "link") /\ UNCHANGED <<candidates, batchStaged, disk, bundle, told, faults, losses>>
          BY <1>0, <1>d, <1>4, <2>2, MovesOn, QuietStep DEF ReadRecord, candidates, disk, BatchSteps
    <2>3. CASE journal[k] = Binding(r, k) /\ Recorded(r, k) /\ UNCHANGED <<journal, synced>>
          BY <1>4, <2>3, ReachesCheckpoint DEF ReadRecord
    <2> QED BY <1>4, <2>1, <2>2, <2>3 DEF ReadRecord
  <1>5. CASE SyncRecord(r, k)
    <2>1. UNCHANGED <<candidates, batchStaged, journal, dir, bundle, losses>>
          BY <1>5 DEF SyncRecord
    <2>2. BatchTyped' /\ RunKnows(r)' /\ \A q \in BatchRuns : q # r => Apart(q)
          BY <1>0, <1>5, <2>1, MovesOn DEF SyncRecord, BatchSteps
    <2>3. BatchTypeOK' /\ OneStory'
          BY <1>5, <2>1 DEF BatchInv, BatchTypeOK, OneStory, SyncRecord
    <2> QED BY <1>0, <2>1, <2>2, <2>3, RunStep
  <1>6. CASE VerifyRecord(r, k)
    <2>1. CASE journal[k] = Binding(r, k)
          BY <1>6, <2>1, ReachesCheckpoint DEF VerifyRecord
    <2>2. CASE journal[k] # Binding(r, k)
          BY <1>6, <2>2, RaiseStep DEF VerifyRecord, Refused
    <2> QED BY <2>1, <2>2
  <1> QED BY <1>1, <1>2, <1>3, <1>4, <1>5, <1>6

(* A record is linked under a name that is free; the earlier ones are there. *)
LEMMA LinkStep ==
    ASSUME NoRecord, BatchInv, NEW r \in BatchRuns, NEW k \in BatchPhases, LinkRecord(r, k)
    PROVE  BatchInv'
  <1>1. batchPc[r] = <<k, "link">> /\ UNCHANGED <<candidates, batchStaged, dir, synced, bundle, losses>>
        BY DEF LinkRecord
  <1>2. CASE journal[k] = Unset
    <2>1. journal' = [journal EXCEPT ![k] = Binding(r, k)] /\ GotoPhase(r, k, "sync")
          BY <1>2 DEF LinkRecord
    <2>2. cohort[r] \in Cohorts /\ (k >= 3 => verdict[r] \in BatchStatuses)
          BY <1>1 DEF BatchInv, RunKnows, Candidate, BatchPhases
    <2>3. Binding(r, k) \in Bindings
          BY <2>2, BindingIsRecord
    <2>4. Stay /\ journal' \in [BatchPhases -> Bindings \cup {Unset}]
          BY <1>2, <2>1, <2>3 DEF Stay, BatchInv, BatchTyped
    <2>5. BatchTyped' /\ RunKnows(r)' /\ \A q \in BatchRuns : q # r => Apart(q)
          BY <1>1, <2>1, <2>4, MovesOn DEF BatchSteps
    <2>6. \A j \in BatchPhases : j < k => journal[j] = Binding(r, j) /\ Binding(r, j) \in Bindings
      <3> SUFFICES ASSUME NEW j \in BatchPhases, j < k
                   PROVE  journal[j] = Binding(r, j) /\ Binding(r, j) \in Bindings
          OBVIOUS
      <3>1. j \in Behind(r)
            BY <1>1 DEF Behind
      <3>2. j >= 3 => verdict[r] \in BatchStatuses
            BY <2>2 DEF BatchPhases
      <3> QED BY <2>2, <3>1, <3>2, BindingIsRecord DEF BatchInv, RunKnows, Records
    <2>7. OneStory'
      <3> SUFFICES ASSUME losses = 0, NEW i \in BatchPhases, NEW j \in BatchPhases, i < j,
                          journal'[j] # Unset
                   PROVE  journal'[i] # Unset /\ Agrees(journal'[i], journal'[j])
          BY <1>1 DEF OneStory, Agrees
      <3>1. CASE j = k
        <4>1. journal'[j] = Binding(r, k) /\ journal'[i] = Binding(r, i)
              BY <2>1, <2>6, <3>1 DEF BatchInv, BatchTyped
        <4>2. Binding(r, i) # Unset
              BY <2>6, <3>1 DEF NoRecord
        <4> QED BY <3>1, <4>1, <4>2, BindingsAgree
      <3>2. CASE j # k
        <4>1. journal'[j] = journal[j]
              BY <2>1, <3>2 DEF BatchInv, BatchTyped
        <4>2. journal[i] # Unset /\ Agrees(journal[i], journal[j])
              BY <4>1 DEF BatchInv, OneStory
        <4>3. journal'[i] = journal[i]
              BY <2>4, <4>2 DEF Stay
        <4> QED BY <4>1, <4>2, <4>3
      <3> QED BY <3>1, <3>2
    <2>8. BatchTypeOK'
          BY <1>1, <2>1, <2>3, <2>4 DEF BatchInv, BatchTyped, BatchTypeOK, Stay, NoRecord
    <2> QED BY <2>4, <2>5, <2>7, <2>8, RunStep
  <1>3. CASE journal[k] # Unset
    <2>1. UNCHANGED journal /\ GotoPhase(r, k, "verify")
          BY <1>3 DEF LinkRecord
    <2>2. Stay /\ journal' \in [BatchPhases -> Bindings \cup {Unset}]
          BY <2>1 DEF Stay, BatchInv, BatchTyped
    <2>3. BatchTyped' /\ RunKnows(r)' /\ \A q \in BatchRuns : q # r => Apart(q)
          BY <1>1, <2>1, <2>2, MovesOn DEF BatchSteps
    <2>4. dir' \in {"absent", "made", "synced"}
          BY <1>1 DEF BatchInv, BatchTypeOK
    <2> QED BY <1>1, <2>1, <2>3, <2>4, QuietStep
  <1> QED BY <1>2, <1>3

(* The steps between two phases. *)
LEMMA BuildStep ==
    ASSUME NoRecord, BatchInv, NEW r \in BatchRuns, Build(r)
    PROVE  BatchInv'
  <1>1. PICK c \in Cohorts, s \in [Members -> ItemStatuses] :
           cohort' = [cohort EXCEPT ![r] = c] /\ batchItems' = [batchItems EXCEPT ![r] = s]
        BY DEF Build
  <1>2. /\ batchPc[r] = <<0, "idle">> /\ GotoPhase(r, 1, "open")
        /\ UNCHANGED <<verdict, batchStaged, dir, journal, synced, bundle, losses>>
        BY DEF Build, disk
  <1>3. BatchTyped'
        BY <1>1, <1>2 DEF BatchInv, BatchTyped, GotoPhase, BatchSteps
  <1>4. /\ batchPc'[r] = <<1, "open">> /\ cohort'[r] \in Cohorts
        /\ batchItems'[r] \in [Members -> ItemStatuses]
        BY <1>1, <1>2 DEF BatchInv, BatchTyped, GotoPhase
  <1>5. Behind(r)' = {}
        BY <1>4 DEF Behind, BatchPhases
  <1>6. batchStaged'[r] = Unset
        BY <1>2 DEF BatchInv, RunKnows, Carries, Staged
  <1>7. RunKnows(r)'
        BY <1>4, <1>5, <1>6 DEF RunKnows, Candidate, Records, Carries
  <1>8. \A q \in BatchRuns : q # r => Apart(q)
        BY <1>1, <1>2 DEF Apart, GotoPhase, BatchInv, BatchTyped
  <1>9. dir' \in {"absent", "made", "synced"}
        BY <1>2 DEF BatchInv, BatchTypeOK
  <1> QED BY <1>2, <1>3, <1>7, <1>8, <1>9, QuietStep

(* The records of a phase that is done are behind the next one.            *)
LEMMA NextPhase ==
    ASSUME NoRecord, BatchInv, NEW r \in BatchRuns, NEW k \in 1 .. 5,
           batchPc[r] = <<k, "checkpoint">>, GotoPhase(r, k + 1, "open"),
           UNCHANGED <<cohort, batchItems, journal, losses>>,
           \A q \in BatchRuns : q # r =>
               verdict'[q] = verdict[q] /\ batchStaged'[q] = batchStaged[q],
           DOMAIN verdict' = BatchRuns, DOMAIN batchStaged' = BatchRuns,
           \/ k = 2 /\ verdict'[r] \in BatchStatuses
           \/ k # 2 /\ verdict'[r] = verdict[r],
           batchStaged'[r] # Unset => k >= Routed /\ batchStaged'[r] = Binding(r, Routed)
    PROVE  /\ BatchTyped' /\ RunKnows(r)'
           /\ \A q \in BatchRuns : q # r => Apart(q)
  <1>1. BatchTyped'
        BY DEF BatchInv, BatchTyped, GotoPhase, BatchSteps
  <1>2. batchPc'[r] = <<k + 1, "open">>
        BY DEF BatchInv, BatchTyped, GotoPhase
  <1>3. \A j \in BatchPhases : j <= k \/ k # 2 => Binding(r, j)' = Binding(r, j)
    <2>1. CASE k # 2
      <3>1. verdict'[r] = verdict[r]
            BY <2>1
      <3>2. Decisions(r)' = Decisions(r)
            BY <3>1 DEF Decisions
      <3> QED BY <3>1, <3>2 DEF Binding
    <2>2. CASE k = 2
          BY <2>2 DEF Binding, BatchPhases
    <2> QED BY <2>1, <2>2
  <1>4. Behind(r)' = Behind(r)
        BY <1>2 DEF Behind, BatchPhases
  <1>5. Behind(r) = {j \in BatchPhases : j <= k}
        BY DEF Behind, BatchPhases
  <1>6. Candidate(r)'
        BY <1>2 DEF BatchInv, RunKnows, Candidate
  <1>7. Records(r)'
        BY <1>3, <1>4, <1>5 DEF BatchInv, RunKnows, Records
  <1>8. Carries(r)'
        BY <1>2, <1>3 DEF Carries, Routed, Staged, BatchPhases
  <1>9. \A q \in BatchRuns : q # r => Apart(q)
        BY DEF Apart, GotoPhase, BatchInv, BatchTyped
  <1> QED BY <1>1, <1>6, <1>7, <1>8, <1>9 DEF RunKnows

LEMMA PhaseStep ==
    ASSUME NoRecord, BatchInv, NEW r \in BatchRuns,
           (\E k \in BatchPhases : Proceed(r, k)) \/ Verify(r) \/ StageExport(r) \/ Commit(r)
    PROVE  BatchInv'
  <1>d. dir \in {"absent", "made", "synced"}
        BY DEF BatchInv, BatchTypeOK
  <1>n. batchPc[r][1] < Staged => batchStaged[r] = Unset
        BY DEF BatchInv, RunKnows, Carries, Staged, BatchTyped
  <1>t. DOMAIN verdict = BatchRuns /\ DOMAIN batchStaged = BatchRuns
        BY DEF BatchInv, BatchTyped
  <1>1. CASE \E k \in BatchPhases : Proceed(r, k)
    <2>1. PICK k \in {1, 3} : batchPc[r] = <<k, "checkpoint">> /\ GotoPhase(r, k + 1, "open")
                             /\ UNCHANGED <<candidates, batchStaged, disk, bundle, losses>>
          BY <1>1 DEF Proceed
    <2>2. batchStaged'[r] = Unset
          BY <1>n, <2>1 DEF Staged
    <2>3. BatchTyped' /\ RunKnows(r)' /\ \A q \in BatchRuns : q # r => Apart(q)
          BY <1>t, <2>1, <2>2, NextPhase DEF candidates, disk
    <2> QED BY <1>d, <2>1, <2>3, QuietStep DEF disk
  <1>2. CASE Verify(r)
    <2>1. PICK v \in BatchStatuses : verdict' = [verdict EXCEPT ![r] = v]
          BY <1>2 DEF Verify
    <2>2. batchPc[r] = <<2, "checkpoint">> /\ GotoPhase(r, 2 + 1, "open")
          /\ UNCHANGED <<cohort, batchItems, batchStaged, disk, bundle, losses>>
          BY <1>2 DEF Verify
    <2>3. batchStaged'[r] = Unset
          BY <1>n, <2>2 DEF Staged
    <2>4. verdict'[r] \in BatchStatuses /\ DOMAIN verdict' = BatchRuns
          /\ \A q \in BatchRuns : q # r => verdict'[q] = verdict[q]
          BY <1>t, <2>1
    <2>5. BatchTyped' /\ RunKnows(r)' /\ \A q \in BatchRuns : q # r => Apart(q)
          BY <1>t, <2>2, <2>3, <2>4, NextPhase DEF disk
    <2> QED BY <1>d, <2>2, <2>5, QuietStep DEF disk
  <1>3. CASE StageExport(r)
    <2>1. CASE Refused(r)
          BY <2>1, RaiseStep DEF Refused
    <2>2. CASE /\ batchStaged' = [batchStaged EXCEPT ![r] = Binding(r, Routed)]
               /\ GotoPhase(r, Staged, "open")
               /\ UNCHANGED <<candidates, disk, bundle, told, faults, losses>>
      <3>1. batchPc[r] = <<4, "checkpoint">> /\ GotoPhase(r, 4 + 1, "open")
            /\ UNCHANGED <<cohort, batchItems, verdict, dir, journal, synced, bundle, losses>>
            BY <1>3, <2>2 DEF StageExport, Routed, Staged, candidates, disk
      <3>2. batchStaged'[r] = Binding(r, Routed) /\ DOMAIN batchStaged' = BatchRuns
            /\ \A q \in BatchRuns : q # r => batchStaged'[q] = batchStaged[q]
            BY <1>t, <2>2
      <3>3. BatchTyped' /\ RunKnows(r)' /\ \A q \in BatchRuns : q # r => Apart(q)
            BY <1>t, <3>1, <3>2, NextPhase DEF Routed
      <3> QED BY <1>d, <3>1, <3>3, QuietStep
    <2> QED BY <1>3, <2>1, <2>2 DEF StageExport
  <1>4. CASE Commit(r)
    <2>1. batchPc[r] = <<5, "checkpoint">>
          BY <1>4 DEF Commit, Staged
    <2>2. batchStaged[r] \in Bindings \cup {Unset}
      <3>1. cohort[r] \in Cohorts /\ verdict[r] \in BatchStatuses
            BY <2>1 DEF BatchInv, RunKnows, Candidate
      <3> QED BY <3>1, BindingIsRecord DEF BatchInv, RunKnows, Carries, Routed, BatchPhases
    <2>3. CASE /\ bundle' = batchStaged[r] /\ batchStaged' = [batchStaged EXCEPT ![r] = Unset]
               /\ GotoPhase(r, BatchCompleted, "open")
               /\ UNCHANGED <<candidates, disk, told, faults, losses>>
      <3>1. GotoPhase(r, 5 + 1, "open")
            /\ UNCHANGED <<cohort, batchItems, verdict, dir, journal, synced, losses>>
            BY <2>3 DEF BatchCompleted, candidates, disk
      <3>2. batchStaged'[r] = Unset /\ DOMAIN batchStaged' = BatchRuns
            /\ \A q \in BatchRuns : q # r => batchStaged'[q] = batchStaged[q]
            BY <1>t, <2>3
      <3>3. BatchTyped' /\ RunKnows(r)' /\ \A q \in BatchRuns : q # r => Apart(q)
            BY <1>t, <2>1, <3>1, <3>2, NextPhase
      <3>4. Stay /\ BatchTypeOK' /\ OneStory'
            BY <2>2, <2>3, <3>1 DEF Stay, BatchInv, BatchTypeOK, OneStory
      <3> QED BY <3>3, <3>4, RunStep
    <2>4. CASE Refused(r)
          BY <2>4, RaiseStep DEF Refused
    <2>5. CASE bundle' = batchStaged[r] /\ EndRun(r) /\ UNCHANGED <<disk, told, losses>>
      <3>1. BatchTyped' /\ RunKnows(r)' /\ \A q \in BatchRuns : q # r => Apart(q)
            BY <2>5, RunEnds DEF BatchInv, disk
      <3>2. Stay /\ BatchTypeOK' /\ OneStory'
            BY <2>2, <2>5 DEF Stay, BatchInv, BatchTypeOK, OneStory, disk
      <3> QED BY <3>1, <3>2, RunStep
    <2> QED BY <1>4, <2>3, <2>4, <2>5 DEF Commit
  <1> QED BY <1>1, <1>2, <1>3, <1>4

(* A loss of power ends every run; it takes names that were not synced.    *)
LEMMA PowerLossStep ==
    ASSUME NoRecord, BatchInv, PowerLoss
    PROVE  BatchInv'
  <1>1. losses' # 0 /\ losses' \in Nat
        BY DEF PowerLoss, BatchInv, BatchTyped
  <1>2. /\ journal' \in [BatchPhases -> Bindings \cup {Unset}]
        /\ synced' \subseteq {k \in BatchPhases : journal'[k] # Unset}
        /\ dir' \in {"absent", "made", "synced"} /\ UNCHANGED bundle
        BY DEF PowerLoss, BatchInv, BatchTyped, BatchTypeOK
  <1>3. BatchTyped'
        BY <1>1, <1>2 DEF PowerLoss, BatchTyped, BatchSteps
  <1>4. BatchTypeOK'
        BY <1>2 DEF BatchTypeOK, BatchInv
  <1>5. OneStory'
        BY <1>1 DEF OneStory
  <1>6. ASSUME NEW r \in BatchRuns PROVE RunKnows(r)'
    <2>1. batchPc'[r] = <<0, "idle">> /\ batchStaged'[r] = Unset
          BY DEF PowerLoss
    <2>2. Behind(r)' = {}
          BY <2>1 DEF Behind, BatchPhases
    <2> QED BY <2>1, <2>2 DEF RunKnows, Candidate, Records, Carries
  <1> QED BY <1>3, <1>4, <1>5, <1>6 DEF BatchInv

LEMMA BatchInitially ==
    ASSUME BatchInit PROVE BatchInv
  <1>1. BatchTyped /\ BatchTypeOK /\ OneStory
        BY DEF BatchInit, BatchTyped, BatchTypeOK, OneStory, BatchSteps
  <1>2. ASSUME NEW r \in BatchRuns PROVE RunKnows(r)
    <2>1. batchPc[r] = <<0, "idle">> /\ batchStaged[r] = Unset
          BY DEF BatchInit
    <2>2. Behind(r) = {}
          BY <2>1 DEF Behind, BatchPhases
    <2> QED BY <2>1, <2>2 DEF RunKnows, Candidate, Records, Carries
  <1> QED BY <1>1, <1>2 DEF BatchInv

LEMMA StepKeepsBatch ==
    ASSUME NoRecord, BatchInv, [BatchNext]_batchVars
    PROVE  BatchInv'
  <1>1. ASSUME NEW r \in BatchRuns, Build(r) PROVE BatchInv'
        BY <1>1, BuildStep
  <1>2. ASSUME NEW r \in BatchRuns, NEW k \in BatchPhases, Record(r, k) PROVE BatchInv'
        BY <1>2, JournalStep, LinkStep DEF Record
  <1>3. ASSUME NEW r \in BatchRuns, NEW k \in BatchPhases, Cancel(r, k) PROVE BatchInv'
        BY <1>3, RaiseStep DEF Cancel, Refused
  <1>4. ASSUME NEW r \in BatchRuns,
               (\E k \in BatchPhases : Proceed(r, k)) \/ Verify(r) \/ StageExport(r) \/ Commit(r)
        PROVE  BatchInv'
        BY <1>4, PhaseStep
  <1>5. ASSUME NEW r \in BatchRuns, FinishBatch(r) PROVE BatchInv'
    <2>1. BatchTyped' /\ RunKnows(r)' /\ \A q \in BatchRuns : q # r => Apart(q)
          BY <1>5, RunEnds DEF FinishBatch, BatchInv, disk
    <2> QED BY <1>5, <2>1, QuietStep DEF FinishBatch, disk, BatchInv, BatchTypeOK
  <1>6. ASSUME NEW r \in BatchRuns, Fail(r) PROVE BatchInv'
        BY <1>6, RaiseStep DEF Fail
  <1>7. CASE PowerLoss
        BY <1>7, PowerLossStep
  <1>8. CASE UNCHANGED batchVars
    <2>1. \A r \in BatchRuns : Apart(r) /\ Stay
          BY <1>8 DEF Apart, Stay, batchVars, candidates, disk
    <2>2. \A r \in BatchRuns : RunKnows(r)'
          BY <2>1, OthersKnow DEF BatchInv
    <2>3. BatchTyped' /\ BatchTypeOK' /\ OneStory'
          BY <1>8 DEF BatchInv, BatchTyped, BatchTypeOK, OneStory, batchVars, candidates, disk
    <2> QED BY <2>2, <2>3 DEF BatchInv
  <1> QED BY <1>1, <1>2, <1>3, <1>4, <1>5, <1>6, <1>7, <1>8 DEF BatchNext

(* Only PASS of the member and of the batch decide for an approval. *)
LEMMA ApprovalNeedsBoth ==
    ASSUME NEW item, NEW batch, Decide(item, batch) = "APPROVED"
    PROVE  (item \in ItemStatuses => item = "PASS") /\ (batch \in BatchStatuses => batch = "PASS")
  <1>1. /\ batch # "UNVERIFIABLE" /\ StopReason(Required(item, batch)) # "NO_IMPROVEMENT"
        /\ ~(item = "UNVERIFIABLE" /\ OnUnverifiable = "reject") /\ ~Manual(item)
        BY DEF Decide
  <1>2. ~(item = "UNVERIFIABLE")
        BY <1>1, BatchAssumptions DEF Manual
  <1>3. CASE "UNVERIFIABLE" \in Required(item, batch)
        BY <1>1, <1>2, <1>3 DEF Required
  <1>4. CASE "UNVERIFIABLE" \notin Required(item, batch)
    <2>1. Required(item, batch) = {"PASS"}
          BY <1>1, <1>4 DEF StopReason
    <2> QED BY <2>1 DEF Required
  <1> QED BY <1>3, <1>4

LEMMA CarriedApproval ==
    ASSUME BatchInv PROVE ApprovedByBoth
  <1> SUFFICES ASSUME NEW r \in BatchRuns, batchStaged[r] # Unset, NEW m \in Members,
                      batchStaged[r][3][m] = "APPROVED"
               PROVE  batchItems[r][m] = "PASS" /\ batchStaged[r][2] = "PASS"
      BY DEF ApprovedByBoth
  <1>1. batchPc[r][1] >= Staged /\ batchStaged[r] = <<cohort[r], verdict[r], Decisions(r)>>
        BY DEF BatchInv, RunKnows, Carries, Binding, Routed
  <1>2. verdict[r] \in BatchStatuses /\ batchItems[r][m] \in ItemStatuses
        BY <1>1 DEF BatchInv, RunKnows, Candidate, Staged, BatchTyped
  <1>3. Decide(batchItems[r][m], verdict[r]) = "APPROVED"
        BY <1>1 DEF Decisions
  <1> QED BY <1>1, <1>2, <1>3, ApprovalNeedsBoth

(* Only commit publishes. *)
LEMMA PublishStep ==
    ASSUME NoRecord, BatchInv, [BatchNext]_batchVars, bundle' # bundle
    PROVE  bundle = Unset /\ bundle' = journal[Staged] /\ bundle' = journal[Routed]
  <1>1. PICK r \in BatchRuns : Commit(r)
        BY DEF BatchNext, Build, Record, OpenDirectory, MakeDirectory, SyncParent, ReadRecord,
           LinkRecord, SyncRecord, VerifyRecord, Recorded, Cancel, Proceed, Verify, StageExport,
           FinishBatch, Fail, Refused, Raise, PowerLoss, batchVars
  <1>2. batchPc[r] = <<Staged, "checkpoint">> /\ bundle' = batchStaged[r] /\ bundle = Unset
        BY <1>1 DEF Commit, Refused, Raise
  <1>3. Routed \in Behind(r) /\ Staged \in Behind(r)
        BY <1>2 DEF Behind, Routed, Staged, BatchPhases
  <1>4. journal[Routed] = Binding(r, Routed) /\ journal[Staged] = Binding(r, Staged)
        BY <1>3 DEF BatchInv, RunKnows, Records
  <1>5. Binding(r, Staged) = Binding(r, Routed)
        BY DEF Binding, Routed, Staged
  <1> QED BY <1>2, <1>4, <1>5 DEF BatchInv, RunKnows, Carries

(* One batch has one result, whatever its runs do, at the same time or one *)
(* after the other: a member is approved only by its own report and the    *)
(* batch's, the records agree, and the bundle that is published is the one *)
(* they recorded (run_atomic_production_batch, ProductionBatchJournal.record *)
(* and the publisher's commit). *)
THEOREM OneBatch ==
    ASSUME NoRecord
    PROVE  BatchSpec => BatchIsOne
  <1>1. BatchInit => BatchInv
        BY BatchInitially
  <1>2. BatchInv /\ [BatchNext]_batchVars => BatchInv'
        BY StepKeepsBatch
  <1>3. BatchInv => BatchTypeOK /\ ApprovedByBoth /\ OneStory
        BY CarriedApproval DEF BatchInv
  <1>4. BatchInv /\ [BatchNext]_batchVars => [bundle # Unset => bundle' = bundle]_batchVars
        BY PublishStep
  <1>5. BatchInv /\ [BatchNext]_batchVars =>
           [bundle' # bundle => bundle' = journal[Staged] /\ bundle' = journal[Routed]]_batchVars
        BY PublishStep
  <1>6. BatchSpec => OneResult
        BY <1>1, <1>2, <1>4, PTL DEF BatchSpec, OneResult
  <1>7. BatchSpec => PublishedAsRecorded
        BY <1>1, <1>2, <1>5, PTL DEF BatchSpec, PublishedAsRecorded
  <1>8. BatchSpec => [](BatchTypeOK /\ ApprovedByBoth /\ OneStory)
        BY <1>1, <1>2, <1>3, PTL DEF BatchSpec
  <1> QED BY <1>6, <1>7, <1>8 DEF BatchIsOne

-----------------------------------------------------------------------------
(* The previews, for any calls, any size of a wall, any deaths, losses of  *)
(* power and second processes.                                             *)

(* The steps of a call: in the lane, before the publication of its current *)
(* item, in it, and with an item to come.                                  *)
InLane == {"open", "generate", "private", "syncPrivate", "stageDisplay", "renameDisplay",
           "syncDisplay", "closeInput", "close", "release"}
Unpublished == {"idle", "bind", "lane", "open", "generate", "private"}
WithRecord == {"stageDisplay", "renameDisplay", "syncDisplay", "closeInput"}
InPublication == {"syncPrivate"} \cup WithRecord
WithItem == {"generate", "private"} \cup InPublication
Answered == {"unstage", "end"}
WallPlaces == InLane \cup Unpublished \cup Answered \cup {"manifest", "syncManifest", "show"}

Scanners == [who : {"app", "other"}, valid : SUBSET Runs, left : SUBSET Runs, removed : BOOLEAN]

WallTypes ==
    /\ record \in [Runs -> {"none", "named", "durable"}]
    /\ picture \in [Runs -> {"none", "staged", "named", "durable"}]
    /\ manifest \in [Walls -> {"none", "named", "durable"}] /\ listed \in [Walls -> Seq(ItemResults)]
    /\ previewPc \in [Calls -> WallPlaces] /\ staged \in [Calls -> BOOLEAN]
    /\ session \subseteq Calls /\ previewLane \in {FreeLane} \cup {{c} : c \in Calls}
    /\ results \in [Calls -> Seq(ItemResults)] /\ answer = [c \in Calls |-> answer[c]]
    /\ app \in {"down", "reconciling", "up", "unavailable"}
    /\ scan \subseteq Scanners
    /\ crashes \in Nat /\ intruders \in Nat

(* A call works in its session under the lane, and keeps its uploads.      *)
HoldsLane(c) ==
    /\ previewPc[c] \in InLane <=> previewLane = {c}
    /\ c \in session => previewPc[c] \in InLane
HoldsUploads(c) ==
    /\ previewPc[c] = "idle" => ~staged[c]
    /\ previewPc[c] = "end" /\ staged[c] =>
           answer[c].status = "STAGING_CLEANUP_FAILED" \/ crashes > 0

(* How far a call is, and that nothing is on disk of an item to come.      *)
Untouched(r) == record[r] = "none" /\ picture[r] = "none"
Counts(c) ==
    /\ Len(results[c]) <= Count(c)
    /\ previewPc[c] \in {"idle", "bind", "lane", "open"} => results[c] = <<>>
    /\ previewPc[c] \in WithItem => Len(results[c]) < Count(c)
Fresh(c) ==
    \A i \in 1 .. WallSize :
        /\ previewPc[c] \in Unpublished /\ i > Len(results[c]) => Untouched(<<c, i>>)
        /\ previewPc[c] \in InPublication /\ i > Len(results[c]) + 1 => Untouched(<<c, i>>)

(* What is on disk of the current item, of those with a result, of the     *)
(* manifest, and of what the caller was shown.                             *)
Safe(r) == record[r] = "durable" /\ (picture[r] = "durable" \/ intruders > 0)
HasPublished(c) ==
    /\ previewPc[c] = "syncPrivate" => record[Current(c)] \in Present
    /\ previewPc[c] \in WithRecord => record[Current(c)] = "durable"
    /\ previewPc[c] = "closeInput" => Safe(Current(c))
Earned(c) ==
    \A i \in DOMAIN results[c] :
        /\ results[c][i].status = "COMPLETED" =>
               results[c][i].attempted /\ results[c][i].reason = "OK" /\ Safe(<<c, i>>)
        /\ results[c][i].status = "BUSY" => ~results[c][i].attempted
        /\ ~results[c][i].attempted => Untouched(<<c, i>>)
Lists(c) ==
    /\ c \in Walls /\ manifest[c] # "none" =>
           listed[c] = results[c] /\ previewPc[c] \in {"syncManifest", "show"} \cup Answered
    /\ previewPc[c] \in {"manifest", "syncManifest"} => c \in Walls
    /\ previewPc[c] = "syncManifest" => manifest[c] \in Present
    /\ previewPc[c] = "show" /\ c \in Walls => manifest[c] = "durable"
Shows(c) ==
    /\ \A r \in answer[c].shown : \E i \in CompletedItems(results[c]) : r = <<c, i>>
    /\ answer[c].shown # {} =>
           previewPc[c] \in Answered /\ (c \in Walls => manifest[c] = "durable")

CallInv(c) ==
    /\ HoldsLane(c) /\ HoldsUploads(c) /\ Counts(c) /\ Fresh(c)
    /\ HasPublished(c) /\ Earned(c) /\ Lists(c) /\ Shows(c)

(* The reconciler of a starting application is alone, and knows every      *)
(* record that is durable.                                                 *)
Backed == \A r \in Runs : picture[r] # "none" => record[r] = "durable"
Scans ==
    /\ app = "down" => scan = {}
    /\ \A s \in scan :
          /\ s.who = "other" => intruders > 0
          /\ s.who = "app" =>
                 /\ app = "reconciling"
                 /\ \A r \in Runs : record[r] = "durable" => r \in s.valid
                 /\ \A r \in Runs \ s.left : picture[r] # "staged"
    /\ \A s, t \in scan : s.who = "app" /\ t.who = "app" => s = t

WallInv == WallTypes /\ Backed /\ Scans /\ \A c \in Calls : CallInv(c)

LEMMA CountOf == ASSUME NEW c \in Calls PROVE Count(c) \in Nat /\ 1 <= Count(c) /\ Count(c) <= WallSize
  BY WallAssumptions DEF Count

LEMMA CurrentRun ==
    ASSUME NEW c \in Calls, WallTypes, Len(results[c]) < Count(c)
    PROVE  Len(results[c]) \in Nat /\ Len(results[c]) + 1 \in 1 .. WallSize /\ Current(c) \in Runs
  <1>1. results[c] \in Seq(ItemResults) /\ Len(results[c]) \in Nat
        BY DEF WallTypes
  <1>2. Len(results[c]) + 1 \in 1 .. WallSize
        BY <1>1, CountOf, WallAssumptions
  <1> QED BY <1>1, <1>2 DEF Current, Runs

LEMMA WallInitially == WallInit => WallInv
  <1> SUFFICES ASSUME WallInit PROVE WallInv
      OBVIOUS
  <1> USE DEF WallInit
  <1>1. WallTypes
        BY DEF WallTypes, WallPlaces, InLane, Unpublished, FreeLane
  <1>2. Backed /\ Scans
        BY DEF Backed, Scans
  <1>3. ASSUME NEW c \in Calls PROVE CallInv(c)
    <2>1. FreeLane # {c}
          BY WallAssumptions DEF FreeLane, Calls
    <2>2. previewPc[c] = "idle" /\ results[c] = <<>> /\ Len(results[c]) = 0
          OBVIOUS
    <2>3. HoldsLane(c) /\ HoldsUploads(c)
          BY <2>1, <2>2 DEF HoldsLane, HoldsUploads, InLane
    <2>4. Counts(c) /\ HasPublished(c)
          BY <2>2, CountOf DEF Counts, HasPublished, WithItem, InPublication, WithRecord
    <2>5. Fresh(c)
          BY <2>2 DEF Fresh, Untouched, Runs, InPublication, WithRecord
    <2>6. Earned(c) /\ Lists(c) /\ Shows(c)
          BY <2>2 DEF Earned, Lists, Shows, NoAnswer
    <2> QED BY <2>3, <2>4, <2>5, <2>6 DEF CallInv
  <1> QED BY <1>1, <1>2, <1>3 DEF WallInv

(* What may happen to a run, or to a manifest, behind the back of its      *)
(* call: a sync, and the reconciliation.                                   *)
FirmAt(r) ==
    /\ record[r] = "none" => record'[r] = "none"
    /\ record[r] \in Present => record'[r] \in Present
    /\ record[r] = "durable" => record'[r] = "durable"
    /\ picture[r] = "none" => picture'[r] = "none"
    /\ record[r] = "durable" /\ picture[r] = "durable" => picture'[r] = "durable" \/ intruders' > 0
FirmManifest(w) ==
    /\ manifest[w] = "none" => manifest'[w] = "none"
    /\ manifest[w] \in Present => manifest'[w] \in Present
    /\ manifest[w] = "durable" => manifest'[w] = "durable"
Firm(c) ==
    /\ \A i \in 1 .. WallSize : FirmAt(<<c, i>>)
    /\ c \in Walls => FirmManifest(c) /\ listed'[c] = listed[c]
    /\ previewPc'[c] = previewPc[c] /\ results'[c] = results[c]
    /\ staged'[c] = staged[c] /\ answer'[c] = answer[c]
    /\ previewLane' = {c} <=> previewLane = {c}
    /\ c \in session' => c \in session
    /\ (intruders > 0 => intruders' > 0) /\ (crashes > 0 => crashes' > 0)

LEMMA SafeKept ==
    ASSUME NEW r, FirmAt(r), intruders > 0 => intruders' > 0
    PROVE  (Safe(r) => Safe(r)') /\ (Untouched(r) => Untouched(r)')
  BY DEF FirmAt, Safe, Untouched

LEMMA CallKept ==
    ASSUME WallTypes, NEW c \in Calls, CallInv(c), Firm(c)
    PROVE  CallInv(c)'
  <1>1. /\ HoldsLane(c) /\ HoldsUploads(c) /\ Counts(c) /\ Fresh(c)
        /\ HasPublished(c) /\ Earned(c) /\ Lists(c) /\ Shows(c)
        BY DEF CallInv
  <1>2. /\ previewPc'[c] = previewPc[c] /\ results'[c] = results[c] /\ Current(c)' = Current(c)
        /\ answer'[c] = answer[c]
        BY DEF Firm, Current
  <1>3. \A i \in 1 .. WallSize : /\ FirmAt(<<c, i>>) /\ (Safe(<<c, i>>) => Safe(<<c, i>>)')
                                 /\ (Untouched(<<c, i>>) => Untouched(<<c, i>>)')
        BY SafeKept DEF Firm
  <1>4. HoldsLane(c)' /\ HoldsUploads(c)' /\ Counts(c)'
        BY <1>1 DEF Firm, HoldsLane, HoldsUploads, Counts
  <1>5. Fresh(c)'
        BY <1>1, <1>2, <1>3 DEF Fresh
  <1>6. HasPublished(c)'
    <2>1. CASE previewPc[c] \in InPublication
      <3>1. PICK i \in 1 .. WallSize : Current(c) = <<c, i>>
            BY <1>1, <2>1, CurrentRun DEF Counts, WithItem, Current
      <3> QED BY <1>1, <1>2, <1>3, <3>1 DEF HasPublished, FirmAt
    <2>2. CASE previewPc[c] \notin InPublication
          BY <1>2, <2>2 DEF HasPublished, InPublication, WithRecord
    <2> QED BY <2>1, <2>2
  <1>7. Earned(c)'
    <2>1. \A i \in DOMAIN results[c] : i \in 1 .. WallSize
          BY <1>1, CountOf, WallAssumptions DEF Counts, WallTypes
    <2> QED BY <1>1, <1>2, <1>3, <2>1 DEF Earned
  <1>8. Lists(c)' /\ Shows(c)'
        BY <1>1, <1>2 DEF Firm, FirmManifest, Lists, Shows, CompletedItems, Present, WallTypes
  <1> QED BY <1>4, <1>5, <1>6, <1>7, <1>8 DEF CallInv

(* A call's step: the others are left alone, and no reconciler of the      *)
(* application is at work while it is up.                                  *)
LEMMA CallStepKeeps ==
    ASSUME WallInv, NEW c \in Calls, app = "up", UNCHANGED <<app, scan, wallBounds>>,
           WallTypes', Backed', CallInv(c)', \A d \in Calls \ {c} : Firm(d)
    PROVE  WallInv'
  <1>1. Scans'
        BY DEF WallInv, Scans, wallBounds
  <1>2. ASSUME NEW d \in Calls PROVE CallInv(d)'
        BY <1>2, CallKept DEF WallInv
  <1> QED BY <1>1, <1>2 DEF WallInv


(* What the step of one call writes of the others: nothing, and it takes   *)
(* the lane only when it is free.                                          *)
Moves(c, place) ==
    /\ previewPc' = [previewPc EXCEPT ![c] = place]
    /\ \A d \in Calls \ {c} :
          results'[d] = results[d] /\ staged'[d] = staged[d] /\ answer'[d] = answer[d]
    /\ \A w \in Walls \ {c} : listed'[w] = listed[w]
    /\ \/ previewLane' = previewLane
       \/ previewLane = FreeLane /\ previewLane' = {c}
       \/ previewLane = {c} /\ previewLane' = FreeLane
    /\ session' \subseteq session \cup {c}
    /\ UNCHANGED <<app, scan, wallBounds>>

LEMMA OthersFirm ==
    ASSUME WallTypes, NEW c \in Calls, NEW place \in WallPlaces, Moves(c, place),
           \A d \in Calls \ {c} : \A i \in 1 .. WallSize : FirmAt(<<d, i>>),
           \A w \in Walls \ {c} : FirmManifest(w)
    PROVE  /\ previewPc' \in [Calls -> WallPlaces] /\ previewPc'[c] = place
           /\ previewLane' \in {FreeLane} \cup {{d} : d \in Calls} /\ session' \subseteq Calls
           /\ \A d \in Calls \ {c} : Firm(d)
  <1>1. /\ previewPc' \in [Calls -> WallPlaces] /\ previewPc'[c] = place
        /\ previewLane' \in {FreeLane} \cup {{d} : d \in Calls} /\ session' \subseteq Calls
        BY DEF Moves, WallTypes
  <1>2. ASSUME NEW d \in Calls \ {c} PROVE Firm(d)
    <2>1. previewPc'[d] = previewPc[d] /\ (d \in session' => d \in session)
          BY DEF Moves, WallTypes
    <2>2. previewLane' = {d} <=> previewLane = {d}
      <3>1. FreeLane # {d} /\ {c} # {d}
            BY WallAssumptions DEF FreeLane, Calls
      <3> QED BY <3>1 DEF Moves
    <2> QED BY <2>1, <2>2 DEF Firm, Moves, wallBounds
  <1> QED BY <1>1, <1>2

LEMMA DiskKept ==
    ASSUME UNCHANGED <<record, picture, manifest, wallBounds>>
    PROVE  (\A r : FirmAt(r)) /\ \A w : FirmManifest(w)
  BY DEF FirmAt, FirmManifest, wallBounds

(* A step that leaves the disk and the results as they are.                *)
LEMMA QuietWallStep ==
    ASSUME WallInv, NEW c \in Calls, NEW place \in WallPlaces \ (InPublication \cup {"idle"}),
           app = "up", Moves(c, place), UNCHANGED <<wallDisk, results>>,
           staged' \in [Calls -> BOOLEAN], answer' = [d \in Calls |-> answer'[d]],
           place \in Unpublished => previewPc[c] \in Unpublished,
           place \in {"bind", "lane", "open"} => previewPc[c] \in {"idle", "bind", "lane", "open"},
           place \in WithItem => Len(results[c]) < Count(c),
           HoldsLane(c)', HoldsUploads(c)', Lists(c)', Shows(c)'
    PROVE  WallInv'
  <1>1. CallInv(c) /\ WallTypes /\ Backed
        BY DEF WallInv
  <1>2. /\ UNCHANGED <<record, picture, manifest, listed, app, scan, wallBounds, crashes, intruders>>
        BY DEF wallDisk, wallBounds, Moves
  <1>3. /\ previewPc' \in [Calls -> WallPlaces] /\ previewPc'[c] = place
        /\ previewLane' \in {FreeLane} \cup {{d} : d \in Calls} /\ session' \subseteq Calls
        /\ \A d \in Calls \ {c} : Firm(d)
        BY <1>1, <1>2, DiskKept, OthersFirm
  <1>4. WallTypes' /\ Backed'
        BY <1>1, <1>2, <1>3 DEF WallTypes, Backed
  <1>5. Counts(c)'
        BY <1>1, <1>3 DEF CallInv, Counts
  <1>6. Fresh(c)'
        BY <1>1, <1>2, <1>3 DEF CallInv, Fresh, Untouched
  <1>7. HasPublished(c)'
        BY <1>3 DEF HasPublished, InPublication, WithRecord
  <1>8. Earned(c)'
        BY <1>1, <1>2 DEF CallInv, Earned, Safe, Untouched
  <1>9. CallInv(c)'
        BY <1>5, <1>6, <1>7, <1>8 DEF CallInv
  <1> QED BY <1>2, <1>3, <1>4, <1>9, CallStepKeeps

(* The results once an item has its own: those before it, its result, and  *)
(* when the wall is given up, the items that were never tried.             *)
LEMMA ResultsAfter ==
    ASSUME WallTypes, NEW c \in Calls, NEW result \in ItemResults, Len(results[c]) < Count(c),
           AfterItem(c, result)
    PROVE  /\ results' \in [Calls -> Seq(ItemResults)]
           /\ \A d \in Calls \ {c} : results'[d] = results[d]
           /\ Len(results'[c]) \in Nat /\ Len(results'[c]) <= Count(c)
           /\ \A i \in DOMAIN results'[c] :
                 \/ i \in DOMAIN results[c] /\ results'[c][i] = results[c][i]
                 \/ i = Len(results[c]) + 1 /\ results'[c][i] = result
                 \/ i > Len(results[c]) + 1 /\ i <= Count(c)
                    /\ results'[c][i] = Unattempted("FAILED", "WALL_ABORTED")
           /\ \/ GoOn(c, "close")
              \/ GoOn(c, "generate") /\ Len(results'[c]) = Len(results[c]) + 1
                 /\ Len(results'[c]) < Count(c)
  <1> DEFINE n == Len(results[c])
             done == Append(results[c], result)
             rest == [i \in 1 .. Count(c) - Len(done) |-> Unattempted("FAILED", "WALL_ABORTED")]
  <1>1. results[c] \in Seq(ItemResults) /\ n \in Nat /\ Count(c) \in Nat
        BY CountOf DEF WallTypes
  <1>2. /\ done \in Seq(ItemResults) /\ Len(done) = n + 1 /\ done[n + 1] = result
        /\ \A i \in 1 .. n : done[i] = results[c][i]
        BY <1>1, AppendProperties
  <1>3. Unattempted("FAILED", "WALL_ABORTED") \in ItemResults
        BY DEF Unattempted, ItemResults
  <1>4. /\ rest \in Seq(ItemResults) /\ Len(rest) = Count(c) - (n + 1)
        /\ \A i \in 1 .. Len(rest) : rest[i] = Unattempted("FAILED", "WALL_ABORTED")
    <2>1. Count(c) - Len(done) \in Nat /\ Count(c) - Len(done) = Count(c) - (n + 1)
          BY <1>1, <1>2
    <2> DEFINE k == Count(c) - Len(done)
    <2>2. rest \in [1 .. k -> ItemResults]
          BY <1>3
    <2>3. rest \in Seq(ItemResults)
          BY <2>1, <2>2, SeqDef
    <2>4. DOMAIN rest = 1 .. k /\ DOMAIN rest = 1 .. Len(rest) /\ Len(rest) \in Nat
          BY <2>3, LenProperties
    <2> HIDE DEF k
    <2>5. Len(rest) = k
          BY <2>1, <2>4 DEF k
    <2> QED BY <2>1, <2>3, <2>5 DEF k
  <1>5. /\ done \o rest \in Seq(ItemResults) /\ Len(done \o rest) = Count(c)
        /\ \A i \in 1 .. n + 1 : (done \o rest)[i] = done[i]
        /\ \A i \in n + 2 .. Count(c) : (done \o rest)[i] = Unattempted("FAILED", "WALL_ABORTED")
    <2> HIDE DEF done, rest
    <2>1. /\ done \o rest \in Seq(ItemResults) /\ Len(done \o rest) = Len(done) + Len(rest)
          /\ \A i \in 1 .. Len(done) + Len(rest) :
                 (done \o rest)[i] = IF i <= Len(done) THEN done[i] ELSE rest[i - Len(done)]
          BY <1>2, <1>4, ConcatProperties
    <2>2. Len(done) + Len(rest) = Count(c) /\ n + 1 <= Count(c)
          BY <1>1, <1>2, <1>4
    <2>3. ASSUME NEW i \in 1 .. n + 1 PROVE (done \o rest)[i] = done[i]
          BY <1>1, <1>2, <2>1, <2>2
    <2>4. ASSUME NEW i \in n + 2 .. Count(c)
          PROVE  (done \o rest)[i] = Unattempted("FAILED", "WALL_ABORTED")
      <3>1. i - (n + 1) \in 1 .. Len(rest) /\ ~(i <= n + 1) /\ i \in 1 .. Count(c)
            BY <1>1, <1>4
      <3> QED BY <1>2, <1>4, <2>1, <2>2, <3>1
    <2> QED BY <2>1, <2>2, <2>3, <2>4
  <1> HIDE DEF rest, done
  <1>6. CASE results' = [results EXCEPT ![c] = done \o rest] /\ GoOn(c, "close")
    <2>1. results'[c] = done \o rest /\ DOMAIN results'[c] = 1 .. Count(c)
          BY <1>5, <1>6 DEF WallTypes
    <2>2. results' \in [Calls -> Seq(ItemResults)] /\ \A d \in Calls \ {c} : results'[d] = results[d]
          BY <1>5, <1>6 DEF WallTypes
    <2>3. ASSUME NEW i \in 1 .. Count(c)
          PROVE  \/ i \in 1 .. n /\ results'[c][i] = results[c][i]
                 \/ i = n + 1 /\ results'[c][i] = result
                 \/ i > n + 1 /\ results'[c][i] = Unattempted("FAILED", "WALL_ABORTED")
          BY <1>1, <1>2, <1>5, <2>1
    <2> QED BY <1>1, <1>5, <1>6, <2>1, <2>2, <2>3
  <1>7. CASE Len(done) # Count(c) /\ results' = [results EXCEPT ![c] = done] /\ GoOn(c, "generate")
    <2>1. results'[c] = done /\ DOMAIN results'[c] = 1 .. n + 1
          BY <1>2, <1>7 DEF WallTypes
    <2>2. results' \in [Calls -> Seq(ItemResults)] /\ \A d \in Calls \ {c} : results'[d] = results[d]
          BY <1>2, <1>7 DEF WallTypes
    <2>3. ASSUME NEW i \in 1 .. n + 1
          PROVE  \/ i \in 1 .. n /\ results'[c][i] = results[c][i]
                 \/ i = n + 1 /\ results'[c][i] = result
          BY <1>1, <1>2, <2>1
    <2>4. n + 1 < Count(c)
          BY <1>1, <1>2, <1>7
    <2> QED BY <1>1, <1>2, <1>7, <2>1, <2>2, <2>3, <2>4
  <1> QED BY <1>6, <1>7 DEF AfterItem, Aborted, done, rest

LEMMA OtherRuns ==
    ASSUME NEW c \in Calls, \A r \in Runs \ {Current(c)} : FirmAt(r)
    PROVE  /\ \A d \in Calls \ {c} : \A i \in 1 .. WallSize : FirmAt(<<d, i>>)
           /\ \A i \in 1 .. WallSize : i # Len(results[c]) + 1 => FirmAt(<<c, i>>)
  BY DEF Runs, Current

DiskTypes ==
    /\ record \in [Runs -> {"none", "named", "durable"}]
    /\ picture \in [Runs -> {"none", "staged", "named", "durable"}]
    /\ manifest \in [Walls -> {"none", "named", "durable"}]

(* A call at an item has no manifest yet, and its caller was shown         *)
(* nothing.                                                                *)
LEMMA AtAnItem ==
    ASSUME WallInv, NEW c \in Calls, previewPc[c] \in WithItem
    PROVE  /\ Len(results[c]) < Count(c) /\ previewLane = {c} /\ answer[c].shown = {}
           /\ c \in Walls => manifest[c] = "none"
           /\ \A i \in 1 .. WallSize : i > Len(results[c]) + 1 => Untouched(<<c, i>>)
  <1>1. CallInv(c) /\ WallTypes
        BY DEF WallInv
  <1>2. Len(results[c]) \in Nat
        BY <1>1 DEF WallTypes
  <1> USE DEF WithItem, InPublication, WithRecord
  <1>3. Len(results[c]) < Count(c) /\ previewLane = {c}
        BY <1>1 DEF CallInv, Counts, HoldsLane, InLane
  <1>4. answer[c].shown = {} /\ (c \in Walls => manifest[c] = "none")
        BY <1>1 DEF CallInv, Lists, Shows, Answered
  <1>5. \A i \in 1 .. WallSize : i > Len(results[c]) + 1 => Untouched(<<c, i>>)
        BY <1>1, <1>2 DEF CallInv, Fresh, Unpublished
  <1> QED BY <1>3, <1>4, <1>5

(* A step of the publication of an item.                                   *)
LEMMA PublicationStep ==
    ASSUME WallInv, NEW c \in Calls, NEW place \in InPublication \cup {"private"}, app = "up",
           previewPc[c] \in WithItem, GoOn(c, place),
           UNCHANGED <<results, staged, session, previewLane, answer, listed, app, scan, wallBounds>>,
           DiskTypes', Backed', HasPublished(c)',
           \A r \in Runs \ {Current(c)} : FirmAt(r), \A w \in Walls : FirmManifest(w),
           place = "private" => previewPc[c] = "generate" /\ UNCHANGED <<record, picture>>
    PROVE  WallInv'
  <1>1. CallInv(c) /\ WallTypes
        BY DEF WallInv
  <1>2. place \in WallPlaces /\ place \in WithItem /\ place \in InLane
        BY DEF WallPlaces, WithItem, InLane, InPublication, WithRecord
  <1>3. Moves(c, place)
        BY DEF Moves, GoOn
  <1>4. /\ previewPc' \in [Calls -> WallPlaces] /\ previewPc'[c] = place
        /\ previewLane' \in {FreeLane} \cup {{d} : d \in Calls} /\ session' \subseteq Calls
        /\ \A d \in Calls \ {c} : Firm(d)
        BY <1>1, <1>2, <1>3, OtherRuns, OthersFirm
  <1>5. WallTypes'
        BY <1>1, <1>4 DEF WallTypes, DiskTypes, wallBounds
  <1>6. /\ \A i \in 1 .. WallSize : i # Len(results[c]) + 1 =>
              (Safe(<<c, i>>) => Safe(<<c, i>>)') /\ (Untouched(<<c, i>>) => Untouched(<<c, i>>)')
        BY OtherRuns, SafeKept DEF wallBounds
  <1>7. Len(results[c]) \in Nat /\ Len(results[c]) < Count(c) /\ DOMAIN results[c] = 1 .. Len(results[c])
        BY <1>1, AtAnItem DEF WallTypes
  <1>8. HoldsLane(c)' /\ HoldsUploads(c)' /\ Counts(c)'
        BY <1>1, <1>2, <1>4, <1>7, AtAnItem
           DEF CallInv, HoldsLane, HoldsUploads, Counts, InPublication, WithRecord, InLane
  <1>9. Fresh(c)'
    <2>1. CASE place = "private"
          BY <1>1, <1>4, <2>1 DEF CallInv, Fresh, Unpublished, InPublication, WithRecord, Untouched
    <2>2. CASE place # "private"
      <3>1. place \notin Unpublished
            BY <2>2 DEF Unpublished, InPublication, WithRecord
      <3> QED BY <1>4, <1>6, <1>7, <3>1, AtAnItem DEF Fresh
    <2> QED BY <2>1, <2>2
  <1>10. Earned(c)'
    <2>1. \A i \in DOMAIN results[c] : i \in 1 .. WallSize /\ i # Len(results[c]) + 1
          BY <1>7, CountOf, WallAssumptions
    <2> QED BY <1>1, <1>6, <2>1 DEF CallInv, Earned
  <1>11. Lists(c)' /\ Shows(c)'
        BY <1>4, AtAnItem DEF Lists, Shows, FirmManifest, InPublication, WithRecord
  <1> QED BY <1>4, <1>5, <1>8, <1>9, <1>10, <1>11, CallStepKeeps DEF CallInv

(* The end of an item.                                                     *)
LEMMA ItemEnds ==
    ASSUME WallInv, NEW c \in Calls, NEW result \in ItemResults, NEW run \in Runs, app = "up",
           run = Current(c), previewPc[c] \in WithItem, AfterItem(c, result),
           result.attempted, result.status # "BUSY",
           result.status = "COMPLETED" => result.reason = "OK" /\ Safe(run)',
           UNCHANGED <<staged, session, previewLane, answer, listed, app, scan, wallBounds>>,
           DiskTypes', Backed',
           \A r \in Runs \ {Current(c)} : FirmAt(r), \A w \in Walls : FirmManifest(w)
    PROVE  WallInv'
  <1>1. CallInv(c) /\ WallTypes
        BY DEF WallInv
  <1>2. Len(results[c]) \in Nat /\ Len(results[c]) < Count(c) /\ DOMAIN results[c] = 1 .. Len(results[c])
        BY <1>1, AtAnItem DEF WallTypes
  <1>3. /\ results' \in [Calls -> Seq(ItemResults)]
        /\ \A d \in Calls \ {c} : results'[d] = results[d]
        /\ Len(results'[c]) \in Nat /\ Len(results'[c]) <= Count(c)
        BY <1>1, <1>2, ResultsAfter
  <1>4. \A i \in DOMAIN results'[c] :
             \/ i \in DOMAIN results[c] /\ results'[c][i] = results[c][i]
             \/ i = Len(results[c]) + 1 /\ results'[c][i] = result
             \/ i > Len(results[c]) + 1 /\ i <= Count(c)
                /\ results'[c][i] = Unattempted("FAILED", "WALL_ABORTED")
        BY <1>1, <1>2, ResultsAfter
  <1>5. PICK place \in {"close", "generate"} :
             /\ GoOn(c, place)
             /\ place = "generate" => Len(results'[c]) = Len(results[c]) + 1 /\ Len(results'[c]) < Count(c)
        BY <1>1, <1>2, ResultsAfter
  <1>6. Moves(c, place) /\ place \in WallPlaces
        BY <1>3, <1>5 DEF Moves, GoOn, WallPlaces, InLane
  <1>7. /\ previewPc' \in [Calls -> WallPlaces] /\ previewPc'[c] = place
        /\ previewLane' \in {FreeLane} \cup {{d} : d \in Calls} /\ session' \subseteq Calls
        /\ \A d \in Calls \ {c} : Firm(d)
        BY <1>1, <1>6, OtherRuns, OthersFirm
  <1>8. WallTypes'
        BY <1>1, <1>3, <1>7 DEF WallTypes, DiskTypes, wallBounds
  <1>9. /\ \A i \in 1 .. WallSize : i # Len(results[c]) + 1 =>
              (Safe(<<c, i>>) => Safe(<<c, i>>)') /\ (Untouched(<<c, i>>) => Untouched(<<c, i>>)')
        BY OtherRuns, SafeKept DEF wallBounds
  <1>10. HoldsLane(c)' /\ HoldsUploads(c)' /\ Counts(c)'
        BY <1>1, <1>3, <1>5, <1>7, AtAnItem
           DEF CallInv, HoldsLane, HoldsUploads, Counts, WithItem, InPublication, WithRecord, InLane
  <1>11. Fresh(c)'
        BY <1>2, <1>5, <1>7, <1>9, AtAnItem DEF Fresh, Unpublished, InPublication, WithRecord
  <1>12. HasPublished(c)'
        BY <1>7 DEF HasPublished, WithRecord
  <1>13. ASSUME NEW i \in DOMAIN results'[c]
         PROVE  /\ results'[c][i].status = "COMPLETED" =>
                       results'[c][i].attempted /\ results'[c][i].reason = "OK" /\ Safe(<<c, i>>)'
                /\ results'[c][i].status = "BUSY" => ~results'[c][i].attempted
                /\ ~results'[c][i].attempted => Untouched(<<c, i>>)'
    <2>0. i \in 1 .. WallSize
      <3>1. DOMAIN results'[c] = 1 .. Len(results'[c])
            BY <1>3
      <3> QED BY <1>3, <3>1, CountOf, WallAssumptions
    <2>1. CASE i \in DOMAIN results[c] /\ results'[c][i] = results[c][i]
      <3>1. i # Len(results[c]) + 1
            BY <1>2, <2>1
      <3> QED BY <1>1, <1>9, <2>0, <2>1, <3>1 DEF CallInv, Earned
    <2>2. CASE i = Len(results[c]) + 1 /\ results'[c][i] = result
      <3>1. run = <<c, i>>
            BY <2>2 DEF Current
      <3> QED BY <2>2, <3>1
    <2>3. CASE i > Len(results[c]) + 1 /\ results'[c][i] = Unattempted("FAILED", "WALL_ABORTED")
      <3>1. i # Len(results[c]) + 1
            BY <1>2, <2>0, <2>3
      <3> QED BY <1>9, <2>0, <2>3, <3>1, AtAnItem DEF Unattempted
    <2> QED BY <1>4, <2>1, <2>2, <2>3
  <1>14. Earned(c)'
        BY <1>13 DEF Earned
  <1>15. Lists(c)' /\ Shows(c)'
        BY <1>7, AtAnItem DEF Lists, Shows, FirmManifest
  <1> QED BY <1>7, <1>8, <1>10, <1>11, <1>12, <1>14, <1>15, CallStepKeeps DEF CallInv

LEMMA DiskSame ==
    ASSUME WallInv, UNCHANGED <<wallDisk, wallBounds>>
    PROVE  /\ DiskTypes' /\ Backed'
           /\ \A r \in Runs : FirmAt(r) /\ (Safe(r) => Safe(r)')
           /\ \A w \in Walls : FirmManifest(w)
  <1>1. UNCHANGED <<record, picture, manifest, crashes, intruders>>
        BY DEF wallDisk, wallBounds
  <1>2. DiskTypes' /\ Backed'
        BY <1>1 DEF WallInv, WallTypes, DiskTypes, Backed
  <1>3. \A r \in Runs : FirmAt(r) /\ (Safe(r) => Safe(r)')
        BY <1>1 DEF FirmAt, Safe
  <1>4. \A w \in Walls : FirmManifest(w)
        BY <1>1 DEF FirmManifest
  <1> QED BY <1>2, <1>3, <1>4

LEMMA ItemKinds ==
    /\ \A status \in {"FAILED", "UNAVAILABLE"} : Item(status, "GENERATION") \in ItemResults
    /\ Item("COMPLETED", "OK") \in ItemResults /\ Item("FAILED", "CLEANUP_FAILED") \in ItemResults
    /\ Item("FAILED", "PERSIST_FAILED") \in ItemResults
    /\ \A status, reason : /\ Item(status, reason).attempted
                           /\ Item(status, reason).status = status
                           /\ Item(status, reason).reason = reason
    /\ \A status \in {"FAILED", "UNAVAILABLE", "BUSY"}, reason \in {"SESSION", "GPU_BUSY"} :
          /\ Unattempted(status, reason) \in ItemResults
          /\ ~Unattempted(status, reason).attempted /\ Unattempted(status, reason).status = status
  BY DEF Item, Unattempted, ItemResults

LEMMA RecordStep ==
    ASSUME WallInv, NEW c \in Calls, Generate(c) \/ PublishPrivate(c) \/ SyncPrivate(c)
    PROVE  WallInv'
  <1>1. CallInv(c) /\ WallTypes /\ Backed
        BY DEF WallInv
  <1>2. previewPc[c] \in WithItem /\ app = "up"
        BY DEF Generate, PublishPrivate, SyncPrivate, At, WithItem, InPublication
  <1>3. Len(results[c]) \in Nat /\ Current(c) \in Runs /\ Len(results[c]) + 1 \in 1 .. WallSize
        BY <1>1, <1>2, AtAnItem, CurrentRun
  <1>4. ASSUME AfterItem(c, Item("FAILED", "PERSIST_FAILED")), UNCHANGED wallDisk,
               UNCHANGED <<staged, session, previewLane, answer, app, scan, wallBounds>>
        PROVE  WallInv'
    <2>1. DiskTypes' /\ Backed' /\ (\A r \in Runs : FirmAt(r)) /\ \A w \in Walls : FirmManifest(w)
          BY <1>4, DiskSame
    <2> QED BY <1>2, <1>3, <1>4, <2>1, ItemKinds, ItemEnds DEF wallDisk
  <1>5. CASE Generate(c)
    <2>1. DiskTypes' /\ Backed' /\ (\A r \in Runs : FirmAt(r)) /\ \A w \in Walls : FirmManifest(w)
          BY <1>5, DiskSame DEF Generate
    <2>2. CASE GoOn(c, "private") /\ UNCHANGED results
      <3>1. HasPublished(c)'
            BY <1>1, <2>2 DEF GoOn, WallTypes, HasPublished, WithRecord
      <3> QED BY <1>2, <1>5, <2>1, <2>2, <3>1, PublicationStep DEF Generate, At, wallDisk
    <2>3. ASSUME NEW status \in {"FAILED", "UNAVAILABLE"}, AfterItem(c, Item(status, "GENERATION"))
          PROVE  WallInv'
      <3>1. Item(status, "GENERATION") \in ItemResults
            BY ItemKinds
      <3>2. Item(status, "GENERATION").attempted /\ Item(status, "GENERATION").status # "BUSY"
            /\ Item(status, "GENERATION").status # "COMPLETED"
            BY ItemKinds
      <3> QED BY <1>2, <1>3, <1>5, <2>1, <2>3, <3>1, <3>2, ItemEnds DEF Generate, wallDisk
    <2> QED BY <1>5, <2>2, <2>3 DEF Generate
  <1>6. CASE PublishPrivate(c)
    <2>1. CASE record' = [record EXCEPT ![Current(c)] = "named"] /\ GoOn(c, "syncPrivate")
               /\ UNCHANGED results
      <3>1. Untouched(Current(c))
            BY <1>1, <1>3, <1>6 DEF CallInv, Fresh, Current, PublishPrivate, At, Unpublished
      <3>2. /\ DiskTypes' /\ (\A r \in Runs \ {Current(c)} : FirmAt(r))
            /\ \A w \in Walls : FirmManifest(w)
            BY <1>1, <1>6, <2>1 DEF PublishPrivate, DiskTypes, WallTypes, FirmAt, FirmManifest
      <3>3. Backed'
            BY <1>1, <1>6, <2>1, <3>1 DEF PublishPrivate, Backed, Untouched, WallTypes
      <3>4. HasPublished(c)'
        <4>1. Current(c)' = Current(c) /\ previewPc'[c] = "syncPrivate"
              BY <1>1, <2>1 DEF Current, GoOn, WallTypes
        <4>2. record'[Current(c)] = "named"
              BY <1>1, <1>3, <2>1 DEF WallTypes
        <4> QED BY <4>1, <4>2 DEF HasPublished, Present, WithRecord
      <3> QED BY <1>2, <1>6, <2>1, <3>2, <3>3, <3>4, PublicationStep DEF PublishPrivate, InPublication
    <2>2. CASE PersistFailed(c) /\ UNCHANGED record
          BY <1>4, <1>6, <2>2 DEF PublishPrivate, PersistFailed, wallDisk
    <2> QED BY <1>6, <2>1, <2>2 DEF PublishPrivate
  <1>7. CASE SyncPrivate(c)
    <2>1. CASE /\ record' = [r \in Runs |-> IF record[r] = "named" THEN "durable" ELSE record[r]]
               /\ manifest' = [w \in Walls |-> IF manifest[w] = "named" THEN "durable" ELSE manifest[w]]
               /\ GoOn(c, "stageDisplay") /\ UNCHANGED results
      <3>1. DiskTypes' /\ Backed'
            BY <1>1, <1>7, <2>1 DEF SyncPrivate, DiskTypes, WallTypes, Backed
      <3>2. (\A r \in Runs : FirmAt(r)) /\ \A w \in Walls : FirmManifest(w)
            BY <1>1, <1>7, <2>1 DEF SyncPrivate, WallTypes, FirmAt, FirmManifest, Present
      <3>3. HasPublished(c)'
        <4>1. Current(c)' = Current(c) /\ previewPc'[c] = "stageDisplay"
              BY <1>1, <2>1 DEF Current, GoOn, WallTypes
        <4>2. record'[Current(c)] = "durable"
              BY <1>1, <1>3, <1>7, <2>1 DEF CallInv, HasPublished, SyncPrivate, At, Present
        <4> QED BY <4>1, <4>2 DEF HasPublished
      <3> QED BY <1>2, <1>7, <2>1, <3>1, <3>2, <3>3, PublicationStep
              DEF SyncPrivate, InPublication, WithRecord
    <2>2. CASE PersistFailed(c) /\ UNCHANGED <<record, manifest>>
          BY <1>4, <1>7, <2>2 DEF SyncPrivate, PersistFailed, wallDisk
    <2> QED BY <1>7, <2>1, <2>2 DEF SyncPrivate
  <1> QED BY <1>5, <1>6, <1>7

(* The picture: staged, renamed, synced; what is on disk of another run is *)
(* at most synced.                                                         *)
LEMMA PictureStep ==
    ASSUME WallInv, NEW c \in Calls,
           StageDisplay(c) \/ RenameDisplay(c) \/ SyncDisplay(c) \/ CloseInput(c)
    PROVE  WallInv'
  <1>1. CallInv(c) /\ WallTypes /\ Backed
        BY DEF WallInv
  <1>2. previewPc[c] \in WithItem /\ previewPc[c] \in WithRecord /\ app = "up"
        BY DEF StageDisplay, RenameDisplay, SyncDisplay, CloseInput, At, WithItem, InPublication, WithRecord
  <1>3. Len(results[c]) \in Nat /\ Current(c) \in Runs
        BY <1>1, <1>2, AtAnItem, CurrentRun
  <1>4. record[Current(c)] = "durable"
        BY <1>1, <1>2 DEF CallInv, HasPublished
  <1>5. UNCHANGED <<record, manifest, listed, staged, session, previewLane, answer, app, scan, wallBounds>>
        BY DEF StageDisplay, RenameDisplay, SyncDisplay, CloseInput, wallDisk
  <1>6. ASSUME picture' \in [Runs -> {"none", "staged", "named", "durable"}],
               \A r \in Runs \ {Current(c)} :
                   picture'[r] = picture[r] \/ (picture[r] = "named" /\ picture'[r] = "durable")
        PROVE  /\ DiskTypes' /\ Backed' /\ (\A r \in Runs \ {Current(c)} : FirmAt(r))
               /\ \A w \in Walls : FirmManifest(w)
    <2>1. DiskTypes' /\ \A w \in Walls : FirmManifest(w)
          BY <1>1, <1>5, <1>6 DEF DiskTypes, WallTypes, FirmManifest
    <2>2. Backed'
          BY <1>1, <1>4, <1>5, <1>6 DEF Backed
    <2>3. \A r \in Runs \ {Current(c)} : FirmAt(r)
          BY <1>5, <1>6 DEF FirmAt
    <2> QED BY <2>1, <2>2, <2>3
  <1>7. ASSUME PersistFailed(c), picture' \in [Runs -> {"none", "staged", "named", "durable"}],
               \A r \in Runs \ {Current(c)} :
                   picture'[r] = picture[r] \/ (picture[r] = "named" /\ picture'[r] = "durable")
        PROVE  WallInv'
    <2>1. /\ DiskTypes' /\ Backed' /\ (\A r \in Runs \ {Current(c)} : FirmAt(r))
          /\ \A w \in Walls : FirmManifest(w)
          BY <1>6, <1>7
    <2> QED BY <1>2, <1>3, <1>5, <1>7, <2>1, ItemKinds, ItemEnds DEF PersistFailed
  <1>8. ASSUME NEW place \in WithRecord, GoOn(c, place), UNCHANGED results,
               picture' \in [Runs -> {"none", "staged", "named", "durable"}],
               \A r \in Runs \ {Current(c)} :
                   picture'[r] = picture[r] \/ (picture[r] = "named" /\ picture'[r] = "durable"),
               place = "closeInput" => picture'[Current(c)] = "durable"
        PROVE  WallInv'
    <2>1. /\ DiskTypes' /\ Backed' /\ (\A r \in Runs \ {Current(c)} : FirmAt(r))
          /\ \A w \in Walls : FirmManifest(w)
          BY <1>6, <1>8
    <2>2. Current(c)' = Current(c) /\ previewPc'[c] = place
          BY <1>1, <1>8 DEF Current, GoOn, WallTypes
    <2>3. HasPublished(c)'
          BY <1>4, <1>5, <1>8, <2>2 DEF HasPublished, WithRecord, Safe
    <2>4. place \in InPublication \cup {"private"} /\ place # "private"
          BY DEF InPublication, WithRecord
    <2> QED BY <1>2, <1>5, <1>8, <2>1, <2>3, <2>4, PublicationStep
  <1>9. /\ picture \in [Runs -> {"none", "staged", "named", "durable"}]
        /\ Synced(picture) \in [Runs -> {"none", "staged", "named", "durable"}]
        /\ \A r \in Runs : Synced(picture)[r] = IF picture[r] = "named" THEN "durable" ELSE picture[r]
        /\ \A value \in {"none", "staged", "named", "durable"} :
              /\ [picture EXCEPT ![Current(c)] = value]
                     \in [Runs -> {"none", "staged", "named", "durable"}]
              /\ \A r \in Runs \ {Current(c)} : [picture EXCEPT ![Current(c)] = value][r] = picture[r]
        BY <1>1 DEF WallTypes, Synced
  <1> DEFINE Beside == \A r \in Runs \ {Current(c)} :
                 picture'[r] = picture[r] \/ (picture[r] = "named" /\ picture'[r] = "durable")
             TypedPictures == picture' \in [Runs -> {"none", "staged", "named", "durable"}]
  <1>10. /\ \A value \in {"none", "staged", "named", "durable"} :
                picture' = [picture EXCEPT ![Current(c)] = value] => TypedPictures /\ Beside
         /\ picture' = picture => TypedPictures /\ Beside
         /\ picture' = Synced(picture) => TypedPictures /\ Beside
    <2>1. ASSUME NEW value \in {"none", "staged", "named", "durable"},
                 picture' = [picture EXCEPT ![Current(c)] = value]
          PROVE  TypedPictures /\ Beside
          BY <1>1, <2>1 DEF WallTypes, TypedPictures, Beside
    <2>2. picture' = picture => TypedPictures /\ Beside
          BY <1>9 DEF TypedPictures, Beside
    <2>3. ASSUME picture' = Synced(picture) PROVE TypedPictures /\ Beside
      <3>1. TypedPictures
            BY <1>9, <2>3 DEF TypedPictures, Beside
      <3>2. Beside
            BY <1>9, <2>3 DEF TypedPictures, Beside
      <3> QED BY <3>1, <3>2
    <2> QED BY <2>1, <2>2, <2>3
  <1>11. PersistFailed(c) /\ TypedPictures /\ Beside => WallInv'
         BY <1>7
  <1>12. \A place \in WithRecord :
             /\ GoOn(c, place) /\ UNCHANGED results /\ TypedPictures /\ Beside
             /\ place = "closeInput" => picture'[Current(c)] = "durable"
             => WallInv'
         BY <1>8
  <1>13. "renameDisplay" \in WithRecord /\ "syncDisplay" \in WithRecord /\ "closeInput" \in WithRecord
         BY DEF WithRecord
  <1> HIDE DEF Beside, TypedPictures
  <1>14. CASE StageDisplay(c)
    <2>1. CASE picture' = [picture EXCEPT ![Current(c)] = "staged"] /\ GoOn(c, "renameDisplay")
               /\ UNCHANGED results
      <3>1. TypedPictures /\ Beside
            BY <1>10, <2>1
      <3> QED BY <1>12, <1>13, <2>1, <3>1
    <2>2. CASE PersistFailed(c) /\ UNCHANGED picture
          BY <1>10, <1>11, <2>2
    <2> QED BY <1>14, <2>1, <2>2 DEF StageDisplay
  <1>15. CASE RenameDisplay(c)
    <2>1. CASE picture' = [picture EXCEPT ![Current(c)] = "named"] /\ GoOn(c, "syncDisplay")
               /\ UNCHANGED results
      <3>1. TypedPictures /\ Beside
            BY <1>10, <2>1
      <3> QED BY <1>12, <1>13, <2>1, <3>1
    <2>2. ASSUME NEW left \in {"none", picture[Current(c)]},
                 picture' = [picture EXCEPT ![Current(c)] = left], PersistFailed(c)
          PROVE  WallInv'
      <3>1. left \in {"none", "staged", "named", "durable"}
            BY <1>1, <1>3 DEF WallTypes
      <3> QED BY <1>10, <1>11, <2>2, <3>1
    <2> QED BY <1>15, <2>1, <2>2 DEF RenameDisplay
  <1>16. CASE SyncDisplay(c)
    <2>1. CASE /\ picture[Current(c)] \in Present /\ picture' = Synced(picture)
               /\ GoOn(c, "closeInput") /\ UNCHANGED results
      <3>1. picture'[Current(c)] = "durable"
            BY <1>3, <1>9, <2>1 DEF Present
      <3>2. TypedPictures /\ Beside
            BY <1>10, <2>1
      <3> QED BY <1>12, <1>13, <2>1, <3>1, <3>2
    <2>2. CASE picture' \in {picture, Synced(picture)} /\ PersistFailed(c)
          BY <1>10, <1>11, <2>2
    <2> QED BY <1>16, <2>1, <2>2 DEF SyncDisplay
  <1>17. CASE CloseInput(c)
    <2>1. DiskTypes' /\ Backed' /\ (\A r \in Runs : FirmAt(r)) /\ \A w \in Walls : FirmManifest(w)
          BY <1>17, DiskSame DEF CloseInput
    <2>2. PICK run \in Runs : run = Current(c)
          BY <1>3
    <2>3. Safe(run)'
          BY <1>1, <1>17, <2>2, DiskSame DEF CallInv, HasPublished, CloseInput, At
    <2>4. PICK result \in {Item("COMPLETED", "OK"), Item("FAILED", "CLEANUP_FAILED")} : AfterItem(c, result)
          BY <1>17 DEF CloseInput
    <2>5. /\ result \in ItemResults /\ result.attempted /\ result.status # "BUSY"
          /\ result.status = "COMPLETED" => result.reason = "OK"
      <3>1. CASE result = Item("COMPLETED", "OK")
            BY <3>1, ItemKinds
      <3>2. CASE result = Item("FAILED", "CLEANUP_FAILED")
            BY <3>2, ItemKinds
      <3> QED BY <2>4, <3>1, <3>2
    <2> QED BY <1>2, <1>5, <2>1, <2>2, <2>3, <2>4, <2>5, ItemEnds
  <1> QED BY <1>14, <1>15, <1>16, <1>17

(* A step that leaves the disk as it is and gives the call other results.  *)
LEMMA ResultsStep ==
    ASSUME WallInv, NEW c \in Calls, NEW place \in WallPlaces \ (InPublication \cup Unpublished),
           app = "up", Moves(c, place), UNCHANGED wallDisk,
           results' \in [Calls -> Seq(ItemResults)], Len(results'[c]) <= Count(c),
           staged' \in [Calls -> BOOLEAN], answer' = [d \in Calls |-> answer'[d]],
           HoldsLane(c)', HoldsUploads(c)', Earned(c)', Lists(c)', Shows(c)'
    PROVE  WallInv'
  <1>1. CallInv(c) /\ WallTypes /\ Backed
        BY DEF WallInv
  <1>2. /\ UNCHANGED <<record, picture, manifest, listed, app, scan, wallBounds, crashes, intruders>>
        BY DEF wallDisk, wallBounds, Moves
  <1>3. /\ previewPc' \in [Calls -> WallPlaces] /\ previewPc'[c] = place
        /\ previewLane' \in {FreeLane} \cup {{d} : d \in Calls} /\ session' \subseteq Calls
        /\ \A d \in Calls \ {c} : Firm(d)
        BY <1>1, <1>2, DiskKept, OthersFirm
  <1>4. WallTypes' /\ Backed'
        BY <1>1, <1>2, <1>3 DEF WallTypes, Backed
  <1>5. Counts(c)' /\ Fresh(c)' /\ HasPublished(c)'
        BY <1>3 DEF Counts, Fresh, HasPublished, Unpublished, InPublication, WithRecord, WithItem
  <1> QED BY <1>2, <1>3, <1>4, <1>5, CallStepKeeps DEF CallInv

(* No item of the call was tried: the lane was taken, or the session did   *)
(* not open.                                                               *)
LEMMA NothingTried ==
    ASSUME WallInv, NEW c \in Calls, app = "up", previewPc[c] \in {"lane", "open"},
           NEW place \in {"close", "manifest", "show"},
           NEW status \in {"FAILED", "UNAVAILABLE", "BUSY"}, NEW reason \in {"SESSION", "GPU_BUSY"},
           results' = [results EXCEPT ![c] = All(c, Unattempted(status, reason))], GoOn(c, place),
           place = "close" <=> previewPc[c] = "open",
           place = "manifest" => c \in Walls, place = "show" => c \notin Walls,
           UNCHANGED <<staged, session, previewLane, answer, wallDisk, app, scan, wallBounds>>
    PROVE  WallInv'
  <1> DEFINE all == All(c, Unattempted(status, reason))
  <1>1. CallInv(c) /\ WallTypes
        BY DEF WallInv
  <1>2. Unattempted(status, reason) \in ItemResults /\ ~Unattempted(status, reason).attempted
        /\ Unattempted(status, reason).status = status
        BY ItemKinds
  <1>3. Count(c) \in Nat /\ Count(c) <= WallSize /\ WallSize \in Nat
        BY CountOf, WallAssumptions
  <1>4. all \in [1 .. Count(c) -> ItemResults]
        BY <1>2 DEF All, ItemsOf
  <1>5. all \in Seq(ItemResults)
        BY <1>3, <1>4, SeqDef
  <1>6. DOMAIN all = 1 .. Count(c) /\ Len(all) = Count(c)
    <2>1. DOMAIN all = 1 .. Count(c) /\ DOMAIN all = 1 .. Len(all) /\ Len(all) \in Nat
          BY <1>4, <1>5, LenProperties
    <2> HIDE DEF all
    <2> QED BY <1>3, <2>1
  <1>7. \A i \in 1 .. Count(c) : all[i] = Unattempted(status, reason)
        BY DEF All, ItemsOf
  <1> HIDE DEF all
  <1>8. results' = [results EXCEPT ![c] = all]
        BY DEF all
  <1>9. results' \in [Calls -> Seq(ItemResults)] /\ results'[c] = all
        /\ \A d \in Calls \ {c} : results'[d] = results[d]
        BY <1>1, <1>5, <1>8 DEF WallTypes
  <1>10. /\ place \in WallPlaces \ (InPublication \cup Unpublished) /\ Moves(c, place)
         /\ previewPc'[c] = place
    <2>1. place \in WallPlaces \ (InPublication \cup Unpublished)
          BY DEF WallPlaces, InLane, InPublication, WithRecord, Unpublished
    <2>2. listed' = listed
          BY DEF wallDisk
    <2>3. previewPc'[c] = place
          BY <1>1 DEF GoOn, WallTypes
    <2> QED BY <1>9, <2>1, <2>2, <2>3 DEF Moves, GoOn
  <1>11. \A i \in 1 .. WallSize : Untouched(<<c, i>>)
    <2>1. results[c] = <<>> /\ previewPc[c] \in Unpublished
          BY <1>1 DEF CallInv, Counts, Unpublished
    <2>2. Len(results[c]) = 0
          BY <2>1
    <2> QED BY <1>1, <2>1, <2>2 DEF CallInv, Fresh
  <1>12. Earned(c)'
    <2>1. \A i \in DOMAIN results'[c] : i \in 1 .. WallSize /\ results'[c][i] = Unattempted(status, reason)
          BY <1>3, <1>6, <1>7, <1>9
    <2>2. UNCHANGED <<record, picture>>
          BY DEF wallDisk
    <2> QED BY <1>2, <1>11, <2>1, <2>2 DEF Earned, Untouched
  <1>13. answer[c].shown = {} /\ (c \in Walls => manifest[c] = "none")
        BY <1>1 DEF CallInv, Lists, Shows, Answered
  <1>14. Lists(c)' /\ Shows(c)'
        BY <1>10, <1>13 DEF Lists, Shows, wallDisk
  <1>15. HoldsLane(c)' /\ HoldsUploads(c)'
        BY <1>1, <1>10 DEF CallInv, HoldsLane, HoldsUploads, InLane
  <1>16. Len(results'[c]) <= Count(c)
        BY <1>3, <1>6, <1>9
  <1>17. staged' \in [Calls -> BOOLEAN] /\ answer' = [d \in Calls |-> answer'[d]]
        BY <1>1 DEF WallTypes
  <1> QED BY <1>9, <1>10, <1>12, <1>14, <1>15, <1>16, <1>17, ResultsStep

(* The uploads, the lane and the session.                                  *)
LEMMA BeforeTheItems ==
    ASSUME WallInv, NEW c \in Calls, StageUploads(c) \/ BindFds(c) \/ TryLane(c) \/ OpenSession(c)
    PROVE  WallInv'
  <1>1. CallInv(c) /\ WallTypes
        BY DEF WallInv
  <1>2. app = "up" /\ previewPc[c] \in {"idle", "bind", "lane", "open"} /\ UNCHANGED wallDisk
        BY DEF StageUploads, BindFds, TryLane, OpenSession, At
  <1>3. /\ Len(results[c]) < Count(c) /\ answer[c].shown = {} /\ (c \in Walls => manifest[c] = "none")
    <2>1. results[c] = <<>>
          BY <1>1, <1>2 DEF CallInv, Counts
    <2>2. Len(results[c]) = 0
          BY <2>1
    <2> QED BY <1>1, <1>2, <2>2, CountOf DEF CallInv, Lists, Shows, Answered
  <1>4. ASSUME NEW place \in {"bind", "lane", "open", "generate", "unstage", "end"},
               GoOn(c, place), UNCHANGED <<results, app, scan, wallBounds>>,
               staged' \in [Calls -> BOOLEAN], answer' = [d \in Calls |-> answer'[d]],
               \A d \in Calls \ {c} : staged'[d] = staged[d] /\ answer'[d] = answer[d],
               \/ previewLane' = previewLane /\ (place \in InLane <=> previewPc[c] \in InLane)
               \/ previewLane = FreeLane /\ previewLane' = {c} /\ place \in InLane,
               session' \subseteq session \cup {c}, session' = session \/ place \in InLane,
               answer'[c].shown = {},
               place = "end" /\ staged'[c] => answer'[c].status = "STAGING_CLEANUP_FAILED"
        PROVE  WallInv'
    <2>1. previewPc'[c] = place
          BY <1>1, <1>4 DEF GoOn, WallTypes
    <2>2. Moves(c, place)
      <3>1. listed' = listed
            BY <1>2 DEF wallDisk
      <3> QED BY <1>4, <3>1 DEF Moves, GoOn
    <2>3. HoldsLane(c)'
          BY <1>1, <1>4, <2>1 DEF CallInv, HoldsLane
    <2>4. HoldsUploads(c)'
          BY <1>4, <2>1 DEF HoldsUploads
    <2>5. Lists(c)' /\ Shows(c)'
          BY <1>2, <1>3, <1>4, <2>1 DEF Lists, Shows, wallDisk
    <2>6. /\ place \in WallPlaces \ (InPublication \cup {"idle"})
          /\ previewPc[c] \in Unpublished
          BY <1>2 DEF WallPlaces, InLane, Unpublished, Answered, InPublication, WithRecord
    <2> QED BY <1>2, <1>3, <1>4, <2>2, <2>3, <2>4, <2>5, <2>6, QuietWallStep
  <1>5. /\ \A status, pictures : ShowCaller(c, status, pictures) =>
               /\ answer' = [d \in Calls |-> answer'[d]]
               /\ answer'[c].shown = pictures /\ answer'[c].status = status
               /\ \A d \in Calls \ {c} : answer'[d] = answer[d]
        BY <1>1 DEF ShowCaller, WallTypes
  <1>6. CASE StageUploads(c)
    <2>1. CASE GoOn(c, "bind") /\ staged' = [staged EXCEPT ![c] = TRUE] /\ UNCHANGED answer
      <3>1. staged' \in [Calls -> BOOLEAN] /\ \A d \in Calls \ {c} : staged'[d] = staged[d]
            BY <1>1, <2>1 DEF WallTypes
      <3>2. "bind" \notin InLane /\ previewPc[c] \notin InLane
            BY <1>6 DEF StageUploads, At, InLane
      <3>3. answer' = [d \in Calls |-> answer'[d]]
            BY <1>1, <2>1 DEF WallTypes
      <3> QED BY <1>3, <1>4, <1>6, <2>1, <3>1, <3>2, <3>3 DEF StageUploads
    <2>2. CASE /\ GoOn(c, "end")
               /\ \/ ShowCaller(c, "FAILED", {}) /\ UNCHANGED staged
                  \/ ShowCaller(c, "STAGING_CLEANUP_FAILED", {}) /\ staged' = [staged EXCEPT ![c] = TRUE]
      <3>1. staged' \in [Calls -> BOOLEAN] /\ \A d \in Calls \ {c} : staged'[d] = staged[d]
            BY <1>1, <2>2 DEF WallTypes
      <3>2. "end" \notin InLane /\ previewPc[c] \notin InLane
            BY <1>6 DEF StageUploads, At, InLane
      <3>3. ~staged[c]
            BY <1>1, <1>6 DEF StageUploads, At, CallInv, HoldsUploads
      <3>4. staged'[c] => answer'[c].status = "STAGING_CLEANUP_FAILED"
            BY <1>5, <2>2, <3>3
      <3>5. /\ answer' = [d \in Calls |-> answer'[d]] /\ answer'[c].shown = {}
            /\ \A d \in Calls \ {c} : answer'[d] = answer[d]
            BY <1>5, <2>2
      <3> QED BY <1>4, <1>6, <2>2, <3>1, <3>2, <3>4, <3>5 DEF StageUploads
    <2> QED BY <1>6, <2>1, <2>2 DEF StageUploads
  <1>7. CASE BindFds(c)
    <2>1. /\ UNCHANGED <<staged, session, previewLane, results, app, scan, wallBounds>>
          /\ staged' \in [Calls -> BOOLEAN]
          BY <1>1, <1>7 DEF BindFds, WallTypes
    <2>2. "lane" \notin InLane /\ "unstage" \notin InLane /\ previewPc[c] \notin InLane
          BY <1>7 DEF BindFds, At, InLane
    <2>3. CASE GoOn(c, "lane") /\ UNCHANGED answer
      <3>1. answer' = [d \in Calls |-> answer'[d]]
            BY <1>1, <2>3 DEF WallTypes
      <3> QED BY <1>3, <1>4, <2>1, <2>2, <2>3, <3>1
    <2>4. CASE GoOn(c, "unstage") /\ ShowCaller(c, "UNAVAILABLE", {})
      <3>1. /\ answer' = [d \in Calls |-> answer'[d]] /\ answer'[c].shown = {}
            /\ \A d \in Calls \ {c} : answer'[d] = answer[d]
            BY <1>5, <2>4
      <3> QED BY <1>4, <2>1, <2>2, <2>4, <3>1
    <2> QED BY <1>7, <2>3, <2>4 DEF BindFds
  <1>8. CASE TryLane(c)
    <2>1. /\ UNCHANGED <<staged, session, answer, app, scan, wallBounds>>
          /\ staged' \in [Calls -> BOOLEAN] /\ answer' = [d \in Calls |-> answer'[d]]
          BY <1>1, <1>8 DEF TryLane, WallTypes
    <2>2. CASE previewLane = FreeLane /\ previewLane' = {c} /\ GoOn(c, "open") /\ UNCHANGED results
      <3>1. "open" \in InLane
            BY DEF InLane
      <3> QED BY <1>3, <1>4, <2>1, <2>2, <3>1
    <2>3. CASE /\ results' = [results EXCEPT ![c] = All(c, Unattempted("BUSY", "GPU_BUSY"))]
               /\ GoOn(c, AfterSession(c)) /\ UNCHANGED previewLane
      <3>1. /\ AfterSession(c) \in {"manifest", "show"}
            /\ AfterSession(c) = "manifest" => c \in Walls
            /\ AfterSession(c) = "show" => c \notin Walls
            BY DEF AfterSession
      <3>2. previewPc[c] = "lane" /\ UNCHANGED wallDisk
            BY <1>8 DEF TryLane, At
      <3> QED BY <1>2, <2>1, <2>3, <3>1, <3>2, NothingTried
    <2> QED BY <1>8, <2>2, <2>3 DEF TryLane
  <1>9. CASE OpenSession(c)
    <2>1. /\ UNCHANGED <<staged, previewLane, answer, app, scan, wallBounds, wallDisk>>
          /\ previewPc[c] = "open" /\ staged' \in [Calls -> BOOLEAN]
          /\ answer' = [d \in Calls |-> answer'[d]]
          BY <1>1, <1>9 DEF OpenSession, WallTypes, At
    <2>2. CASE session' = session \cup {c} /\ GoOn(c, "generate") /\ UNCHANGED results
      <3>1. "generate" \in InLane /\ "open" \in InLane
            BY DEF InLane
      <3> QED BY <1>3, <1>4, <2>1, <2>2, <3>1
    <2>3. ASSUME NEW status \in {"FAILED", "UNAVAILABLE"},
                 results' = [results EXCEPT ![c] = All(c, Unattempted(status, "SESSION"))],
                 GoOn(c, "close"), UNCHANGED session
          PROVE  WallInv'
          BY <1>2, <2>1, <2>3, NothingTried
    <2> QED BY <1>9, <2>2, <2>3 DEF OpenSession
  <1> QED BY <1>6, <1>7, <1>8, <1>9

(* The end of the session.                                                 *)
LEMMA EndOfSession ==
    ASSUME WallInv, NEW c \in Calls, Escape(c) \/ CloseSession(c) \/ ReleaseLane(c)
    PROVE  WallInv'
  <1>1. CallInv(c) /\ WallTypes
        BY DEF WallInv
  <1>2. app = "up" /\ previewPc[c] \in {"closeInput", "close", "release"}
        /\ UNCHANGED <<wallDisk, staged, app, scan, wallBounds>> /\ listed' = listed /\ manifest' = manifest
        BY DEF Escape, CloseSession, ReleaseLane, At, wallDisk
  <1>3. previewLane = {c} /\ answer[c].shown = {} /\ (c \in Walls => manifest[c] = "none")
        BY <1>1, <1>2 DEF CallInv, HoldsLane, Lists, Shows, Answered, InLane
  <1>4. staged' \in [Calls -> BOOLEAN] /\ (\A d \in Calls \ {c} : staged'[d] = staged[d])
        BY <1>1, <1>2 DEF WallTypes
  <1>5. ASSUME answer' = answer
        PROVE  answer' = [d \in Calls |-> answer'[d]] /\ \A d \in Calls \ {c} : answer'[d] = answer[d]
        BY <1>1, <1>5 DEF WallTypes
  <1>6. ASSUME NEW place \in {"unstage", "release", "manifest", "show"}, GoOn(c, place)
        PROVE  /\ previewPc' = [previewPc EXCEPT ![c] = place] /\ previewPc'[c] = place
               /\ place \in WallPlaces \ (InPublication \cup Unpublished \cup {"idle"})
               /\ HoldsUploads(c)'
    <2>1. previewPc' = [previewPc EXCEPT ![c] = place] /\ previewPc'[c] = place
          BY <1>1, <1>6 DEF GoOn, WallTypes
    <2> QED BY <2>1 DEF HoldsUploads, WallPlaces, InLane, Answered, InPublication, WithRecord, Unpublished
  <1>7. CASE Escape(c)
    <2>1. /\ results' = [results EXCEPT ![c] = <<>>] /\ ShowCaller(c, "INTERNAL_ERROR", {})
          /\ session' = session \ {c} /\ previewLane' = FreeLane /\ GoOn(c, "unstage")
          BY <1>7 DEF Escape
    <2>0. /\ results' \in [Calls -> Seq(ItemResults)] /\ results'[c] = <<>>
          /\ \A d \in Calls \ {c} : results'[d] = results[d]
      <3>1. <<>> \in Seq(ItemResults)
            OBVIOUS
      <3> QED BY <1>1, <2>1, <3>1 DEF WallTypes
    <2>2. /\ answer' = [d \in Calls |-> answer'[d]] /\ answer'[c].shown = {}
          /\ \A d \in Calls \ {c} : answer'[d] = answer[d]
          BY <1>1, <2>1 DEF WallTypes, ShowCaller
    <2>3. Moves(c, "unstage")
          BY <1>2, <1>3, <1>4, <1>6, <2>0, <2>1, <2>2 DEF Moves
    <2>4. HoldsLane(c)'
      <3>1. FreeLane # {c}
            BY WallAssumptions DEF FreeLane, Calls
      <3> QED BY <1>6, <2>1, <3>1 DEF HoldsLane, InLane
    <2>5. Earned(c)' /\ Lists(c)' /\ Shows(c)'
          BY <1>2, <1>3, <1>6, <2>0, <2>1, <2>2 DEF Earned, Lists, Shows
    <2>6. Len(results'[c]) <= Count(c)
      <3>1. Len(results'[c]) = 0
            BY <2>0
      <3> QED BY <3>1, CountOf
    <2> QED BY <1>2, <1>4, <1>6, <2>0, <2>1, <2>2, <2>3, <2>4, <2>5, <2>6, ResultsStep
  <1>8. CASE CloseSession(c)
    <2>1. /\ session' = session \ {c} /\ previewLane' = previewLane /\ answer' = answer
          /\ GoOn(c, "release") /\ previewPc[c] = "close"
          BY <1>8 DEF CloseSession, At
    <2>2. HoldsLane(c)'
          BY <1>3, <1>6, <2>1 DEF HoldsLane, InLane
    <2>3. CASE UNCHANGED results
      <3>1. Moves(c, "release")
            BY <1>2, <1>4, <1>5, <1>6, <2>1, <2>3 DEF Moves
      <3>2. Lists(c)' /\ Shows(c)'
            BY <1>2, <1>3, <1>6, <2>1 DEF Lists, Shows
      <3>3. "release" \notin WithItem /\ "release" \notin Unpublished
            BY DEF WithItem, InPublication, WithRecord, Unpublished
      <3> QED BY <1>2, <1>4, <1>5, <1>6, <2>1, <2>2, <2>3, <3>1, <3>2, <3>3, QuietWallStep
    <2>4. CASE results' = [results EXCEPT ![c] = <<Item("FAILED", "CLEANUP_FAILED")>>]
      <3>1. <<Item("FAILED", "CLEANUP_FAILED")>> \in Seq(ItemResults)
            BY ItemKinds
      <3>2. /\ results' \in [Calls -> Seq(ItemResults)]
            /\ results'[c] = <<Item("FAILED", "CLEANUP_FAILED")>>
            /\ \A d \in Calls \ {c} : results'[d] = results[d]
            BY <1>1, <2>4, <3>1 DEF WallTypes
      <3>3. Moves(c, "release")
            BY <1>2, <1>4, <1>5, <1>6, <2>1, <3>2 DEF Moves
      <3>4. Earned(c)'
        <4>1. \A i \in DOMAIN results'[c] : results'[c][i] = Item("FAILED", "CLEANUP_FAILED")
              BY <3>2
        <4> QED BY <4>1, ItemKinds DEF Earned
      <3>5. Lists(c)' /\ Shows(c)'
            BY <1>2, <1>3, <1>6, <2>1 DEF Lists, Shows
      <3>6. Len(results'[c]) <= Count(c)
        <4>1. Len(results'[c]) = 1
              BY <3>2
        <4> QED BY <4>1, CountOf
      <3> QED BY <1>2, <1>4, <1>5, <1>6, <2>1, <2>2, <3>2, <3>3, <3>4, <3>5, <3>6, ResultsStep
    <2> QED BY <1>8, <2>3, <2>4 DEF CloseSession, Degraded
  <1>9. CASE ReleaseLane(c)
    <2>1. /\ session' = session \ {c} /\ previewLane' = FreeLane /\ answer' = answer /\ results' = results
          /\ GoOn(c, AfterSession(c))
          BY <1>9 DEF ReleaseLane
    <2>2. /\ AfterSession(c) \in {"manifest", "show"}
          /\ AfterSession(c) = "manifest" => c \in Walls
          /\ AfterSession(c) = "show" => c \notin Walls
          BY DEF AfterSession
    <2>3. PICK place \in {"manifest", "show"} : place = AfterSession(c)
          BY <2>2
    <2>4. Moves(c, place)
          BY <1>2, <1>3, <1>4, <1>5, <1>6, <2>1, <2>3 DEF Moves
    <2>5. HoldsLane(c)'
      <3>1. FreeLane # {c}
            BY WallAssumptions DEF FreeLane, Calls
      <3> QED BY <1>6, <2>1, <2>3, <3>1 DEF HoldsLane, InLane
    <2>6. Lists(c)' /\ Shows(c)'
          BY <1>2, <1>3, <1>6, <2>1, <2>2, <2>3 DEF Lists, Shows
    <2>7. place \notin WithItem /\ place \notin Unpublished
          BY DEF WithItem, InPublication, WithRecord, Unpublished
    <2> QED BY <1>2, <1>4, <1>5, <1>6, <2>1, <2>3, <2>4, <2>5, <2>6, <2>7, QuietWallStep
  <1> QED BY <1>7, <1>8, <1>9

(* The manifest.                                                           *)
LEMMA ManifestStep ==
    ASSUME WallInv, NEW c \in Calls, PublishManifest(c) \/ SyncManifest(c)
    PROVE  WallInv'
  <1>1. CallInv(c) /\ WallTypes /\ Backed
        BY DEF WallInv
  <1>2. /\ app = "up" /\ previewPc[c] \in {"manifest", "syncManifest"} /\ c \in Walls
        /\ UNCHANGED <<picture, staged, session, previewLane, results, app, scan>>
        /\ UNCHANGED <<wallBounds, intruders, crashes>>
        BY <1>1 DEF PublishManifest, SyncManifest, At, CallInv, Lists, wallBounds
  <1>3. previewLane # {c} /\ c \notin session /\ answer[c].shown = {}
        BY <1>1, <1>2 DEF CallInv, HoldsLane, Shows, Answered, InLane
  <1>4. CASE FailManifest(c) /\ UNCHANGED <<manifest, listed, record>>
    <2>1. /\ answer' = [d \in Calls |-> answer'[d]] /\ answer'[c].shown = {}
          /\ \A d \in Calls \ {c} : answer'[d] = answer[d]
          BY <1>1, <1>4 DEF WallTypes, ShowCaller, FailManifest
    <2>2. /\ previewPc' = [previewPc EXCEPT ![c] = "unstage"] /\ previewPc'[c] = "unstage"
          BY <1>1, <1>4 DEF WallTypes, GoOn, FailManifest
    <2>3. Moves(c, "unstage") /\ UNCHANGED wallDisk /\ staged' \in [Calls -> BOOLEAN]
          BY <1>1, <1>2, <1>4, <2>1, <2>2 DEF Moves, wallDisk, WallTypes
    <2>4. HoldsLane(c)' /\ HoldsUploads(c)' /\ Shows(c)'
          BY <1>2, <1>3, <2>1, <2>2 DEF HoldsLane, HoldsUploads, Shows, InLane
    <2>5. Lists(c)'
          BY <1>1, <1>2, <1>4, <2>2 DEF CallInv, Lists, Answered
    <2>6. "unstage" \in WallPlaces \ (InPublication \cup {"idle"}) /\ "unstage" \notin WithItem
          /\ "unstage" \notin Unpublished
          BY DEF WallPlaces, Answered, WithItem, InPublication, WithRecord, Unpublished
    <2> QED BY <1>2, <2>1, <2>3, <2>4, <2>5, <2>6, QuietWallStep
  <1>5. ASSUME NEW place \in {"syncManifest", "show"}, GoOn(c, place), UNCHANGED answer,
               record' \in [Runs -> {"none", "named", "durable"}],
               \A r \in Runs : record'[r] = record[r] \/ (record[r] = "named" /\ record'[r] = "durable"),
               manifest' \in [Walls -> {"none", "named", "durable"}],
               \A w \in Walls \ {c} :
                   manifest'[w] = manifest[w] \/ (manifest[w] = "named" /\ manifest'[w] = "durable"),
               listed' \in [Walls -> Seq(ItemResults)], \A w \in Walls \ {c} : listed'[w] = listed[w],
               listed'[c] = results[c], manifest'[c] \in Present,
               place = "show" => manifest'[c] = "durable"
        PROVE  WallInv'
    <2>1. previewPc' = [previewPc EXCEPT ![c] = place] /\ previewPc'[c] = place
          BY <1>1, <1>5 DEF GoOn, WallTypes
    <2>2. Moves(c, place)
          BY <1>2, <1>5, <2>1 DEF Moves
    <2>3. (\A r \in Runs : FirmAt(r)) /\ \A w \in Walls \ {c} : FirmManifest(w)
          BY <1>2, <1>5 DEF FirmAt, FirmManifest, Present
    <2>4. place \in WallPlaces
          BY DEF WallPlaces
    <2>5. /\ previewPc' \in [Calls -> WallPlaces]
          /\ previewLane' \in {FreeLane} \cup {{d} : d \in Calls} /\ session' \subseteq Calls
          /\ \A d \in Calls \ {c} : Firm(d)
          BY <1>1, <2>2, <2>3, <2>4, OtherRuns, OthersFirm
    <2>6. WallTypes' /\ Backed'
          BY <1>1, <1>2, <1>5, <2>5 DEF WallTypes, Backed, wallBounds
    <2>7. HoldsLane(c)' /\ HoldsUploads(c)' /\ Shows(c)'
          BY <1>2, <1>3, <1>5, <2>1 DEF HoldsLane, HoldsUploads, Shows, InLane
    <2>8. Counts(c)' /\ Fresh(c)' /\ HasPublished(c)'
          BY <1>1, <1>2, <2>1
             DEF CallInv, Counts, Fresh, HasPublished, Unpublished, InPublication, WithRecord, WithItem
    <2>9. Earned(c)'
      <3>1. \A i \in DOMAIN results[c] : <<c, i>> \in Runs
            BY <1>1, CountOf, WallAssumptions DEF CallInv, Counts, WallTypes, Runs
      <3>2. \A r \in Runs : (Safe(r) => Safe(r)') /\ (Untouched(r) => Untouched(r)')
            BY <1>2, <2>3, SafeKept
      <3> QED BY <1>1, <1>2, <3>1, <3>2 DEF CallInv, Earned
    <2>10. Lists(c)'
          BY <1>2, <1>5, <2>1 DEF Lists
    <2> QED BY <1>2, <2>5, <2>6, <2>7, <2>8, <2>9, <2>10, CallStepKeeps DEF CallInv
  <1>6. CASE /\ manifest' = [manifest EXCEPT ![c] = "named"]
             /\ listed' = [listed EXCEPT ![c] = results[c]]
             /\ GoOn(c, "syncManifest") /\ UNCHANGED <<record, answer>>
    <2>1. /\ record' \in [Runs -> {"none", "named", "durable"}]
          /\ \A r \in Runs : record'[r] = record[r]
          BY <1>1, <1>6 DEF WallTypes
    <2>2. /\ manifest' \in [Walls -> {"none", "named", "durable"}] /\ manifest'[c] = "named"
          /\ \A w \in Walls \ {c} : manifest'[w] = manifest[w]
          BY <1>1, <1>2, <1>6 DEF WallTypes
    <2>3. /\ listed' \in [Walls -> Seq(ItemResults)] /\ listed'[c] = results[c]
          /\ \A w \in Walls \ {c} : listed'[w] = listed[w]
          BY <1>1, <1>2, <1>6 DEF WallTypes
    <2>4. manifest'[c] \in Present
          BY <2>2 DEF Present
    <2> QED BY <1>5, <1>6, <2>1, <2>2, <2>3, <2>4
  <1>7. CASE /\ previewPc[c] = "syncManifest" /\ listed' = listed
             /\ record' = [r \in Runs |-> IF record[r] = "named" THEN "durable" ELSE record[r]]
             /\ manifest' = [w \in Walls |-> IF manifest[w] = "named" THEN "durable" ELSE manifest[w]]
             /\ GoOn(c, "show") /\ UNCHANGED answer
    <2>1. manifest[c] \in Present /\ listed[c] = results[c]
          BY <1>1, <1>2, <1>7 DEF CallInv, Lists, Present
    <2>2. /\ record' \in [Runs -> {"none", "named", "durable"}]
          /\ \A r \in Runs : record'[r] = record[r] \/ (record[r] = "named" /\ record'[r] = "durable")
          BY <1>1, <1>7 DEF WallTypes
    <2>3. /\ manifest' \in [Walls -> {"none", "named", "durable"}]
          /\ \A w \in Walls :
                manifest'[w] = manifest[w] \/ (manifest[w] = "named" /\ manifest'[w] = "durable")
          /\ manifest'[c] = "durable"
          BY <1>1, <1>2, <1>7, <2>1 DEF WallTypes, Present
    <2>4. /\ listed' \in [Walls -> Seq(ItemResults)] /\ listed'[c] = results[c]
          /\ \A w \in Walls \ {c} : listed'[w] = listed[w]
          BY <1>1, <1>7, <2>1 DEF WallTypes
    <2>5. manifest'[c] \in Present
          BY <2>3 DEF Present
    <2> QED BY <1>5, <1>7, <2>2, <2>3, <2>4, <2>5
  <1>8. CASE PublishManifest(c)
        BY <1>4, <1>6, <1>8 DEF PublishManifest
  <1>9. CASE SyncManifest(c)
        BY <1>4, <1>7, <1>9 DEF SyncManifest, At
  <1> QED BY <1>8, <1>9

(* The answer, and the removal of the uploads.                             *)
LEMMA AnswerStep ==
    ASSUME WallInv, NEW c \in Calls, Project(c) \/ Unstage(c)
    PROVE  WallInv'
  <1>1. CallInv(c) /\ WallTypes
        BY DEF WallInv
  <1>2. /\ app = "up" /\ previewPc[c] \in {"show", "unstage"}
        /\ UNCHANGED <<session, previewLane, results, wallDisk, app, scan, wallBounds>>
        /\ UNCHANGED <<manifest, listed>>
        BY DEF Project, Unstage, At, wallDisk
  <1>3. previewLane # {c} /\ c \notin session
        BY <1>1, <1>2 DEF CallInv, HoldsLane, InLane
  <1>4. /\ \A status, pictures : ShowCaller(c, status, pictures) =>
               /\ answer' = [d \in Calls |-> answer'[d]]
               /\ answer'[c].shown = pictures /\ answer'[c].status = status
               /\ \A d \in Calls \ {c} : answer'[d] = answer[d]
        /\ UNCHANGED answer => answer' = [d \in Calls |-> answer'[d]]
        BY <1>1 DEF ShowCaller, WallTypes
  <1>5. ASSUME NEW place \in {"unstage", "end"}, GoOn(c, place),
               staged' \in [Calls -> BOOLEAN], \A d \in Calls \ {c} : staged'[d] = staged[d],
               answer' = [d \in Calls |-> answer'[d]], \A d \in Calls \ {c} : answer'[d] = answer[d],
               \A r \in answer'[c].shown : \E i \in CompletedItems(results[c]) : r = <<c, i>>,
               answer'[c].shown # {} /\ c \in Walls => manifest[c] = "durable",
               place = "end" /\ staged'[c] => answer'[c].status = "STAGING_CLEANUP_FAILED"
        PROVE  WallInv'
    <2>1. previewPc' = [previewPc EXCEPT ![c] = place] /\ previewPc'[c] = place
          BY <1>1, <1>5 DEF WallTypes, GoOn
    <2>2. Moves(c, place)
          BY <1>2, <1>5, <2>1 DEF Moves
    <2>3. HoldsLane(c)' /\ HoldsUploads(c)'
          BY <1>2, <1>3, <1>5, <2>1 DEF HoldsLane, HoldsUploads, InLane
    <2>4. Shows(c)'
          BY <1>2, <1>5, <2>1 DEF Shows, Answered, CompletedItems
    <2>5. Lists(c)'
          BY <1>1, <1>2, <2>1 DEF CallInv, Lists, Answered
    <2>6. place \in WallPlaces \ (InPublication \cup {"idle"}) /\ place \notin WithItem
          /\ place \notin Unpublished
          BY DEF WallPlaces, Answered, WithItem, InPublication, WithRecord, Unpublished
    <2> QED BY <1>2, <1>5, <2>2, <2>3, <2>4, <2>5, <2>6, QuietWallStep
  <1>6. CASE Project(c)
    <2>1. GoOn(c, "unstage") /\ previewPc[c] = "show" /\ staged' = staged
          BY <1>6 DEF Project, At
    <2>2. staged' \in [Calls -> BOOLEAN] /\ \A d \in Calls \ {c} : staged'[d] = staged[d]
          BY <1>1, <2>1 DEF WallTypes
    <2>3. c \in Walls => manifest[c] = "durable"
          BY <1>1, <2>1 DEF CallInv, Lists
    <2>4. PICK status, pictures : /\ ShowCaller(c, status, pictures)
                                  /\ pictures \in {{}, {<<c, i>> : i \in CompletedItems(results[c])}}
          BY <1>6 DEF Project
    <2>5. \A r \in pictures : \E i \in CompletedItems(results[c]) : r = <<c, i>>
          BY <2>4
    <2>6. /\ answer' = [d \in Calls |-> answer'[d]] /\ answer'[c].shown = pictures
          /\ \A d \in Calls \ {c} : answer'[d] = answer[d]
          BY <1>4, <2>4
    <2> QED BY <1>5, <2>1, <2>2, <2>3, <2>5, <2>6
  <1>7. CASE Unstage(c)
    <2>1. GoOn(c, "end") /\ previewPc[c] = "unstage"
          BY <1>7 DEF Unstage, At
    <2>2. CASE staged' = [staged EXCEPT ![c] = FALSE] /\ UNCHANGED answer
      <3>1. /\ staged' \in [Calls -> BOOLEAN] /\ (\A d \in Calls \ {c} : staged'[d] = staged[d])
            /\ ~staged'[c]
            BY <1>1, <2>2 DEF WallTypes
      <3>2. /\ \A r \in answer'[c].shown : \E i \in CompletedItems(results[c]) : r = <<c, i>>
            /\ answer'[c].shown # {} /\ c \in Walls => manifest[c] = "durable"
            BY <1>1, <2>2 DEF CallInv, Shows
      <3> QED BY <1>4, <1>5, <2>1, <2>2, <3>1, <3>2
    <2>3. CASE ShowCaller(c, "STAGING_CLEANUP_FAILED", {}) /\ UNCHANGED staged
      <3>1. /\ staged' \in [Calls -> BOOLEAN] /\ (\A d \in Calls \ {c} : staged'[d] = staged[d])
            BY <1>1, <2>3 DEF WallTypes
      <3>2. /\ answer' = [d \in Calls |-> answer'[d]] /\ answer'[c].shown = {}
            /\ answer'[c].status = "STAGING_CLEANUP_FAILED"
            /\ \A d \in Calls \ {c} : answer'[d] = answer[d]
            BY <1>4, <2>3
      <3> QED BY <1>5, <2>1, <3>1, <3>2
    <2> QED BY <1>7, <2>2, <2>3 DEF Unstage
  <1> QED BY <1>6, <1>7

(* The reconcilers: none of their steps is felt by a call.                 *)
LEMMA ReconcilerStep ==
    ASSUME WallInv, StartApplication \/ StartAnother \/ Reconciling
    PROVE  WallInv'
  <1>1. WallTypes /\ Backed /\ Scans
        BY DEF WallInv
  <1>2. /\ UNCHANGED <<previewPc, staged, session, previewLane, results, cleanup, answer>>
        /\ UNCHANGED <<record, manifest, listed, crashes>>
        BY DEF StartApplication, StartAnother, Reconciling, Reconcile, Reconciled, ReconcileFails,
               callVars, wallDisk, wallBounds
  <1>3. intruders' = intruders \/ intruders' = intruders + 1
        BY DEF StartApplication, StartAnother, Reconciling, Reconcile, Reconciled, ReconcileFails, wallBounds
  <1>4. ASSUME picture' \in [Runs -> {"none", "staged", "named", "durable"}],
               app' \in {"down", "reconciling", "up", "unavailable"},
               scan' \subseteq Scanners,
               \A r \in Runs : /\ picture[r] = "none" => picture'[r] = "none"
                               /\ record[r] = "durable" /\ picture[r] = "durable" =>
                                      picture'[r] = "durable" \/ intruders' > 0,
               Scans'
        PROVE  WallInv'
    <2>1. intruders' \in Nat /\ (intruders > 0 => intruders' > 0)
          BY <1>1, <1>3 DEF WallTypes
    <2>2. WallTypes' /\ Backed'
          BY <1>1, <1>2, <1>4, <2>1 DEF WallTypes, Backed
    <2>3. (\A r \in Runs : FirmAt(r)) /\ \A w \in Walls : FirmManifest(w)
          BY <1>2, <1>4 DEF FirmAt, FirmManifest
    <2>4. ASSUME NEW c \in Calls PROVE CallInv(c)'
      <3>1. \A i \in 1 .. WallSize : <<c, i>> \in Runs
            BY DEF Runs
      <3>2. Firm(c)
            BY <1>2, <2>1, <2>3, <3>1 DEF Firm
      <3> QED BY <1>1, <3>2, CallKept DEF WallInv
    <2> QED BY <1>4, <2>2, <2>4 DEF WallInv
  <1>5. /\ picture \in [Runs -> {"none", "staged", "named", "durable"}]
        /\ Synced(picture) \in [Runs -> {"none", "staged", "named", "durable"}]
        /\ \A r \in Runs : Synced(picture)[r] = IF picture[r] = "named" THEN "durable" ELSE picture[r]
        BY <1>1 DEF WallTypes, Synced
  <1>6. ASSUME NEW who \in {"app", "other"}
        PROVE  [who |-> who, valid |-> Valid, left |-> Runs, removed |-> FALSE] \in Scanners
        BY DEF Valid, Scanners
  <1>7. CASE StartApplication
    <2>1. /\ app = "down" /\ app' = "reconciling" /\ UNCHANGED <<picture, record>>
          /\ scan = {} /\ scan' = {[who |-> "app", valid |-> Valid, left |-> Runs, removed |-> FALSE]}
          BY <1>1, <1>7 DEF StartApplication, Launch, Scans, wallDisk
    <2>2. Scans'
          BY <2>1 DEF Scans, Valid, Present
    <2>3. scan' \subseteq Scanners
          BY <1>6, <2>1
    <2> QED BY <1>4, <1>5, <2>1, <2>2, <2>3
  <1>8. CASE StartAnother
    <2>1. /\ app = "up" /\ app' = app /\ intruders' = intruders + 1 /\ UNCHANGED <<picture, record>>
          /\ scan' = scan \cup {[who |-> "other", valid |-> Valid, left |-> Runs, removed |-> FALSE]}
          BY <1>8 DEF StartAnother, Launch, wallDisk
    <2>2. intruders' > 0
          BY <1>1, <2>1 DEF WallTypes
    <2>3. Scans'
          BY <1>1, <2>1, <2>2 DEF Scans
    <2>4. scan' \subseteq Scanners
          BY <1>1, <1>6, <2>1 DEF WallTypes
    <2> QED BY <1>1, <1>4, <1>5, <2>1, <2>3, <2>4 DEF WallTypes
  <1>9. ASSUME NEW s \in scan, Reconcile(s)
        PROVE  WallInv'
    <2>1. PICK r \in s.left :
             /\ picture' = [picture EXCEPT ![r] = IF Kept(s, r) THEN @ ELSE "none"]
             /\ scan' = (scan \ {s}) \cup {[s EXCEPT !.left = @ \ {r},
                                                !.removed = @ \/ picture' # picture]}
             /\ app' = app /\ intruders' = intruders
          BY <1>9 DEF Reconcile, wallBounds
    <2>2. s \in Scanners /\ r \in Runs
      <3>1. s \in Scanners
            BY <1>1 DEF WallTypes
      <3> QED BY <3>1 DEF Scanners
    <2> DEFINE rest == [s EXCEPT !.left = @ \ {r}, !.removed = @ \/ picture' # picture]
    <2>3. /\ rest \in Scanners
          /\ rest.who = s.who /\ rest.valid = s.valid /\ rest.left = s.left \ {r}
          BY <2>2 DEF Scanners
    <2> HIDE DEF rest
    <2>4. scan' = (scan \ {s}) \cup {rest}
          BY <2>1 DEF rest
    <2>5. /\ \A q \in Runs \ {r} : picture'[q] = picture[q]
          /\ picture'[r] = picture[r] \/ picture'[r] = "none"
          /\ picture'[r] # "staged"
          /\ r \in s.valid /\ picture[r] \in Present => picture'[r] = picture[r]
          /\ picture' \in [Runs -> {"none", "staged", "named", "durable"}]
          BY <1>5, <2>1, <2>2 DEF Kept, Present
    <2>6. /\ s.who = "other" => intruders > 0
          /\ s.who = "app" => \A q \in Runs : record[q] = "durable" => q \in s.valid
          BY <1>1 DEF Scans
    <2>7. \A q \in Runs : /\ picture[q] = "none" => picture'[q] = "none"
                          /\ record[q] = "durable" /\ picture[q] = "durable" =>
                                 picture'[q] = "durable" \/ intruders' > 0
      <3>1. intruders' = intruders
            BY <2>1
      <3>2. ASSUME record[r] = "durable", picture[r] = "durable"
            PROVE  picture'[r] = "durable" \/ intruders' > 0
        <4>1. s.who \in {"app", "other"}
              BY <2>2 DEF Scanners
        <4> QED BY <2>2, <2>5, <2>6, <3>1, <3>2, <4>1 DEF Present
      <3> QED BY <2>2, <2>5, <3>2
    <2>8. Scans'
      <3>1. app' = "down" => scan' = {}
            BY <1>1, <2>1 DEF Scans
      <3>2. ASSUME NEW t \in scan'
            PROVE  /\ t.who = "other" => intruders' > 0
                   /\ t.who = "app" =>
                        /\ app' = "reconciling"
                        /\ \A q \in Runs : record'[q] = "durable" => q \in t.valid
                        /\ \A q \in Runs \ t.left : picture'[q] # "staged"
        <4>1. CASE t \in scan
              BY <1>1, <1>2, <2>1, <2>2, <2>5, <4>1 DEF Scans
        <4>2. CASE t = rest
              BY <1>1, <1>2, <2>1, <2>2, <2>3, <2>5, <4>2 DEF Scans
        <4> QED BY <2>4, <4>1, <4>2
      <3>3. \A t, u \in scan' : t.who = "app" /\ u.who = "app" => t = u
            BY <1>1, <2>3, <2>4 DEF Scans
      <3> QED BY <3>1, <3>2, <3>3 DEF Scans
    <2>9. scan' \subseteq Scanners
          BY <1>1, <2>3, <2>4 DEF WallTypes
    <2> QED BY <1>1, <1>4, <2>1, <2>5, <2>7, <2>8, <2>9 DEF WallTypes
  <1>10. ASSUME NEW s \in scan, Reconciled(s) \/ ReconcileFails(s)
         PROVE  WallInv'
    <2>1. /\ scan' = scan \ {s} /\ intruders' = intruders
          /\ picture' = Synced(picture) \/ picture' = picture
          /\ app' = app \/ (s.who = "app" /\ app' \in {"up", "unavailable"})
          BY <1>10 DEF Reconciled, ReconcileFails, wallDisk, wallBounds
    <2>2. /\ picture' \in [Runs -> {"none", "staged", "named", "durable"}]
          /\ \A r \in Runs : picture'[r] = picture[r] \/ (picture[r] = "named" /\ picture'[r] = "durable")
          BY <1>5, <2>1
    <2>3. \A r \in Runs : /\ picture[r] = "none" => picture'[r] = "none"
                          /\ picture[r] = "durable" => picture'[r] = "durable"
          BY <2>2
    <2>4. Scans'
      <3>1. app' = "down" => scan' = {}
            BY <1>1, <2>1 DEF Scans
      <3>2. ASSUME NEW t \in scan'
            PROVE  /\ t.who = "other" => intruders' > 0
                   /\ t.who = "app" =>
                        /\ app' = "reconciling"
                        /\ \A q \in Runs : record'[q] = "durable" => q \in t.valid
                        /\ \A q \in Runs \ t.left : picture'[q] # "staged"
        <4>1. t \in scan /\ t # s
              BY <2>1
        <4>2. t.who = "app" => app' = app
              BY <1>1, <2>1, <4>1 DEF Scans
        <4> QED BY <1>1, <1>2, <2>1, <2>2, <4>1, <4>2 DEF Scans
      <3>3. \A t, u \in scan' : t.who = "app" /\ u.who = "app" => t = u
            BY <1>1, <2>1 DEF Scans
      <3> QED BY <3>1, <3>2, <3>3 DEF Scans
    <2>5. /\ scan' \subseteq Scanners
          /\ app' \in {"down", "reconciling", "up", "unavailable"}
          BY <1>1, <2>1 DEF WallTypes
    <2> QED BY <1>4, <2>2, <2>3, <2>4, <2>5
  <1> QED BY <1>7, <1>8, <1>9, <1>10 DEF Reconciling

(* The death of the processes, also with the power: what is durable stays, *)
(* and a call that was under way has ended.                                *)
LEMMA DeathStep ==
    ASSUME WallInv, ProcessesDie \/ WallPowerLoss
    PROVE  WallInv'
  <1>1. WallTypes /\ Backed
        BY DEF WallInv
  <1>2. /\ app' = "down" /\ scan' = {} /\ session' = {} /\ previewLane' = FreeLane
        /\ crashes' = crashes + 1
        /\ previewPc' = [c \in Calls |-> IF previewPc[c] = "idle" THEN "idle" ELSE "end"]
        /\ UNCHANGED <<staged, results, answer, intruders, listed>>
        BY DEF ProcessesDie, WallPowerLoss, Die, wallDisk
  <1>3. /\ record' \in [Runs -> {"none", "named", "durable"}]
        /\ \A r \in Runs : record'[r] = record[r] \/ (record[r] = "named" /\ record'[r] = "none")
        BY <1>1 DEF ProcessesDie, WallPowerLoss, wallDisk, WallTypes
  <1>4. /\ picture' \in [Runs -> {"none", "staged", "named", "durable"}]
        /\ \A r \in Runs :
              picture'[r] = picture[r] \/ (picture[r] \in {"staged", "named"} /\ picture'[r] = "none")
        BY <1>1 DEF ProcessesDie, WallPowerLoss, wallDisk, WallTypes
  <1>5. /\ manifest' \in [Walls -> {"none", "named", "durable"}]
        /\ \A w \in Walls : manifest'[w] = manifest[w] \/ (manifest[w] = "named" /\ manifest'[w] = "none")
        BY <1>1 DEF ProcessesDie, WallPowerLoss, wallDisk, WallTypes
  <1>6. crashes' \in Nat /\ crashes' > 0
        BY <1>1, <1>2 DEF WallTypes
  <1>7. WallTypes'
    <2>1. previewPc' \in [Calls -> WallPlaces]
          BY <1>2 DEF WallPlaces, Unpublished, Answered
    <2> QED BY <1>1, <1>2, <1>3, <1>4, <1>5, <1>6, <2>1 DEF WallTypes
  <1>8. Backed' /\ Scans'
        BY <1>1, <1>2, <1>3, <1>4 DEF Backed, Scans
  <1>9. ASSUME NEW c \in Calls PROVE CallInv(c)'
    <2>1. CallInv(c)
          BY DEF WallInv
    <2>2. /\ previewPc[c] = "idle" => previewPc'[c] = "idle"
          /\ previewPc[c] # "idle" => previewPc'[c] = "end"
          BY <1>2
    <2>3. previewLane' # {c}
          BY <1>2, WallAssumptions DEF FreeLane, Calls
    <2>4. HoldsLane(c)' /\ HoldsUploads(c)'
          BY <1>2, <1>6, <2>1, <2>2, <2>3 DEF CallInv, HoldsLane, HoldsUploads, InLane
    <2>5. Counts(c)' /\ HasPublished(c)'
          BY <1>2, <2>1, <2>2
             DEF CallInv, Counts, HasPublished, WithItem, InPublication, WithRecord
    <2>6. \A i \in 1 .. WallSize : <<c, i>> \in Runs
          BY DEF Runs
    <2>7. \A r \in Runs : (Safe(r) => Safe(r)') /\ (Untouched(r) => Untouched(r)')
          BY <1>2, <1>3, <1>4 DEF Safe, Untouched
    <2>8. Fresh(c)'
          BY <1>2, <2>1, <2>2, <2>6, <2>7 DEF CallInv, Fresh, Unpublished, InPublication, WithRecord
    <2>9. Earned(c)'
      <3>1. \A i \in DOMAIN results[c] : i \in 1 .. WallSize
            BY <1>1, <2>1, CountOf, WallAssumptions DEF CallInv, Counts, WallTypes
      <3> QED BY <1>2, <2>1, <2>6, <2>7, <3>1 DEF CallInv, Earned
    <2>10. Lists(c)'
          BY <1>2, <1>5, <2>1, <2>2 DEF CallInv, Lists, Answered
    <2>11. Shows(c)'
          BY <1>2, <1>5, <2>1, <2>2 DEF CallInv, Shows, Answered, CompletedItems
    <2> QED BY <2>4, <2>5, <2>8, <2>9, <2>10, <2>11 DEF CallInv
  <1> QED BY <1>7, <1>8, <1>9 DEF WallInv

LEMMA WallStepKeeps == WallInv /\ [WallNext]_wallVars => WallInv'
  <1> SUFFICES ASSUME WallInv, [WallNext]_wallVars PROVE WallInv'
      OBVIOUS
  <1>1. CASE UNCHANGED wallVars
    <2>1. UNCHANGED <<record, picture, manifest, listed, previewPc, staged, session, previewLane,
                      results, cleanup, answer, app, scan, crashes, intruders>>
          BY <1>1 DEF wallVars, callVars, wallDisk, wallBounds
    <2>2. WallTypes' /\ Backed' /\ Scans'
          BY <2>1 DEF WallInv, WallTypes, Backed, Scans
    <2>3. ASSUME NEW c \in Calls PROVE CallInv(c)'
      <3>1. Firm(c)
            BY <2>1 DEF Firm, FirmAt, FirmManifest
      <3> QED BY <3>1, CallKept DEF WallInv
    <2> QED BY <2>2, <2>3 DEF WallInv
  <1>2. ASSUME NEW c \in Calls, CallStep(c) PROVE WallInv'
        BY <1>2, BeforeTheItems, RecordStep, PictureStep, EndOfSession, ManifestStep, AnswerStep
           DEF CallStep
  <1> QED BY <1>1, <1>2, ReconcilerStep, DeathStep DEF WallNext

(* What the invariant says of the records, the manifests and the lane.     *)
LEMMA WallPromises ==
    ASSUME WallInv
    PROVE  /\ WallTypeOK /\ PictureHasRecord /\ ShownIsDurable
           /\ ManifestIsTrue /\ SessionUnderLane /\ EndsEmptyHanded
  <1>1. WallTypes /\ Backed /\ \A c \in Calls : CallInv(c)
        BY DEF WallInv
  <1>2. ASSUME NEW c \in Calls, NEW i \in DOMAIN results[c]
        PROVE  results[c][i] \in ItemResults
        BY <1>1 DEF WallTypes
  <1>3. WallTypeOK
    <2>1. ASSUME NEW c \in Calls, NEW i \in DOMAIN results[c]
          PROVE  /\ results[c][i] \in ItemResults
                 /\ results[c][i].status = "COMPLETED" =>
                        results[c][i].attempted /\ results[c][i].reason = "OK"
                 /\ results[c][i].status = "BUSY" => ~results[c][i].attempted
          BY <1>1, <1>2 DEF CallInv, Earned
    <2> QED BY <1>1, <2>1 DEF WallTypeOK, WallTypes
  <1>4. PictureHasRecord
        BY <1>1 DEF PictureHasRecord, Backed, Present
  <1>5. ShownIsDurable
    <2>1. ASSUME NEW c \in Calls, NEW r \in answer[c].shown PROVE Safe(r)
      <3>1. PICK i \in CompletedItems(results[c]) : r = <<c, i>>
            BY <1>1 DEF CallInv, Shows
      <3> QED BY <1>1, <3>1 DEF CallInv, Earned, CompletedItems
    <2> QED BY <2>1 DEF ShownIsDurable, Safe
  <1>6. ManifestIsTrue
    <2>1. Walls \subseteq Calls
          BY DEF Calls
    <2> QED BY <1>1, <2>1 DEF ManifestIsTrue, CallInv, Lists, Earned, Shows, Safe, Untouched
  <1>7. SessionUnderLane /\ EndsEmptyHanded
        BY <1>1 DEF SessionUnderLane, EndsEmptyHanded, CallInv, HoldsLane, HoldsUploads, InLane, WallTypes
  <1> QED BY <1>3, <1>4, <1>5, <1>6, <1>7

(* The application comes up only when its reconciler has looked at every   *)
(* name of the display root.                                               *)
LEMMA ComesUpClean ==
    ASSUME WallInv, [WallNext]_wallVars, app = "reconciling", app' = "up"
    PROVE  \A r \in Runs : picture'[r] # "none" => picture'[r] \in Present /\ record'[r] \in Present
  <1>1. WallTypes /\ Scans
        BY DEF WallInv
  <1>2. WallTypes' /\ Backed'
        BY WallStepKeeps DEF WallInv
  <1>3. PICK s \in scan : Reconciled(s)
    <2>1. ~UNCHANGED wallVars
          BY DEF wallVars
    <2>2. ~(\E c \in Calls : CallStep(c))
          BY DEF CallStep, StageUploads, BindFds, TryLane, OpenSession, Generate, PublishPrivate,
                 SyncPrivate, StageDisplay, RenameDisplay, SyncDisplay, CloseInput, Escape,
                 CloseSession, ReleaseLane, PublishManifest, SyncManifest, Project, Unstage
    <2>3. ~StartApplication /\ ~StartAnother /\ ~ProcessesDie /\ ~WallPowerLoss
          BY DEF StartApplication, StartAnother, ProcessesDie, WallPowerLoss, Die
    <2>4. \A s \in scan : ~Reconcile(s) /\ ~ReconcileFails(s)
          BY DEF Reconcile, ReconcileFails
    <2> QED BY <2>1, <2>2, <2>3, <2>4 DEF WallNext, Reconciling
  <1>4. s.who = "app" /\ s.left = {} /\ picture' \in {Synced(picture), picture}
        BY <1>3 DEF Reconciled
  <1>5. \A r \in Runs : picture[r] # "staged"
        BY <1>1, <1>4 DEF Scans
  <1>6. \A r \in Runs : picture'[r] \in {"none", "named", "durable"}
        BY <1>1, <1>4, <1>5 DEF WallTypes, Synced
  <1> QED BY <1>2, <1>6 DEF Backed, Present

(* The previews keep their word, for any calls, any size of a wall and     *)
(* however often the processes die, the power is lost or a second process  *)
(* of the application starts: no picture without its durable record        *)
(* (publish_preview_evidence), what a caller was shown as completed and    *)
(* what a manifest lists is there for good, a session is opened and closed *)
(* in the lane, a call that has ended holds nothing, and the application   *)
(* comes up with pictures that have records (reconcile_preview_display).   *)
THEOREM PreviewTrue == WallSpec => PreviewIsTrue
  <1>1. WallInit => WallInv
        BY WallInitially
  <1>2. WallInv /\ [WallNext]_wallVars => WallInv'
        BY WallStepKeeps
  <1>3. WallInv => WallTypeOK /\ PictureHasRecord /\ ShownIsDurable
        BY WallPromises
  <1>4. WallInv => ManifestIsTrue /\ SessionUnderLane /\ EndsEmptyHanded
        BY WallPromises
  <1>5. WallInv /\ [WallNext]_wallVars =>
            [app = "reconciling" /\ app' = "up" =>
                \A r \in Runs : picture'[r] # "none" =>
                    picture'[r] \in Present /\ record'[r] \in Present]_wallVars
        BY ComesUpClean
  <1>6. WallSpec => CleanStart
        BY <1>1, <1>2, <1>5, PTL DEF WallSpec, CleanStart
  <1>7. WallSpec => [](WallTypeOK /\ PictureHasRecord /\ ShownIsDurable)
        BY <1>1, <1>2, <1>3, PTL DEF WallSpec
  <1>8. WallSpec => [](ManifestIsTrue /\ SessionUnderLane /\ EndsEmptyHanded)
        BY <1>1, <1>2, <1>4, PTL DEF WallSpec
  <1> QED BY <1>6, <1>7, <1>8 DEF PreviewIsTrue

=============================================================================
