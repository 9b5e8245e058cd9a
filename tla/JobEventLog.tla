---------------------------- MODULE JobEventLog -----------------------------
(***************************************************************************)
(* One job of workflow/job_store.py as its callers see it: a snapshot and  *)
(* an event log, each call atomic under the job lock, used by threads that *)
(* compose their events from a state they loaded earlier.                  *)
(*                                                                         *)
(* Every call decodes what is stored and validates it again, so an event   *)
(* the store accepts but cannot replay would make the job unreadable for   *)
(* good.  Appending and replaying must therefore agree exactly, whatever   *)
(* stale state, clock or name the appending thread came with.              *)
(***************************************************************************)
EXTENDS JobLifecycle, Naturals, Sequences, SequencesExt

CONSTANTS
    Threads,    \* callers of the store
    Specs,      \* compiled specification hashes
    Names,      \* attempt identifiers and bundle names
    MaxEvents,  \* bound: events appended
    MaxTime,    \* bound: clock readings; a caller's clock may go back
    Nothing     \* absent: no snapshot, no name

VARIABLES
    snapshot,   \* the stored snapshot, or Nothing
    log,        \* the stored events
    view        \* what each thread last loaded, or Nothing

vars == <<snapshot, log, view>>

-----------------------------------------------------------------------------
(* Replay: workflow/state_machine.py. *)

Starts(e)    == e.type \in {"ATTEMPT_STARTED", "REPAIR_STEP"}
Publishes(e) == e.type = "EXPORT_PUBLISHED"
Bound(e)     == e.type \in {"JOB_STARTED", "SPEC_COMPILED"}

(* What replay requires of the event that follows state s. *)
Follows(s, e) ==
    /\ e.sequence = s.last + 1
    /\ e.from = s.status
    /\ e.time >= s.updated
    /\ Bound(e) => e.name = s.spec
    /\ validate_transition(s.status, e.to, e.type)
    /\ Starts(e) => e.name \notin s.attempts
    /\ Publishes(e) => e.name \notin s.bundles

Advance(s, e) ==
    [s EXCEPT !.status = e.to, !.last = e.sequence, !.updated = e.time,
              !.attempts = IF Starts(e) THEN @ \cup {e.name} ELSE @,
              !.bundles = IF Publishes(e) THEN @ \cup {e.name} ELSE @]

(* replay_events: Nothing stands for "invalid job event". *)
replay_events(s, events) ==
    FoldLeft(LAMBDA t, e : IF t # Nothing /\ Follows(t, e) THEN Advance(t, e) ELSE Nothing,
             s, events)

Genesis(spec) == [status |-> "CREATED", last |-> 0, updated |-> 0, spec |-> spec,
                  attempts |-> {}, bundles |-> {}]

(* _validated_snapshot: the state a snapshot and a log stand for. *)
Validated(s, events) ==
    IF s = Nothing \/ s.last > Len(events) THEN Nothing
    ELSE IF replay_events(Genesis(s.spec), SubSeq(events, 1, s.last)) # s THEN Nothing
    ELSE replay_events(s, SubSeq(events, s.last + 1, Len(events)))

State == Validated(snapshot, log)

-----------------------------------------------------------------------------
Init ==
    /\ snapshot = Nothing
    /\ log = <<>>
    /\ view = [t \in Threads |-> Nothing]

load(t) ==
    /\ State # Nothing
    /\ view' = [view EXCEPT ![t] = State]
    /\ UNCHANGED <<snapshot, log>>

(* The first save must be the canonical genesis of its job. *)
Create(t, spec) ==
    /\ snapshot = Nothing
    /\ snapshot' = Genesis(spec)
    /\ UNCHANGED <<log, view>>

(* save_snapshot of a state loaded before, possibly by now an old one. *)
save_snapshot(t) ==
    /\ view[t] # Nothing
    /\ State # Nothing
    /\ Validated(view[t], log) # Nothing
    /\ view[t].spec = snapshot.spec
    /\ \/ view[t].last > snapshot.last
       \/ view[t] = snapshot
    /\ snapshot' = view[t]
    /\ UNCHANGED <<log, view>>

(* Event.__post_init__: only a fatal event may keep the status. *)
Composed(s, type, to, time, name) ==
    [sequence |-> s.last + 1, type |-> type, from |-> s.status, to |-> to,
     time |-> time, name |-> name]

(* _validate_event: the checks of append_event against the stored state;   *)
(* the caller's sequence number is replaced by the next one.               *)
Finalized(s, e) == [e EXCEPT !.sequence = s.last + 1]

Acceptable(s, e) ==
    /\ s.status \notin TERMINAL_STATUSES
    /\ Starts(e) => e.name \notin s.attempts
    /\ Publishes(e) => e.name \notin s.bundles
    /\ e.from = s.status
    /\ validate_transition(s.status, e.to, e.type)
    /\ replay_events(s, <<Finalized(s, e)>>) # Nothing

append_event_stale(t, e) ==  \* mutant: checked against the caller's state
    /\ State # Nothing
    /\ Acceptable(view[t], e)
    /\ log' = Append(log, Finalized(view[t], e))
    /\ UNCHANGED <<snapshot, view>>

append_event(t, e) ==
    /\ State # Nothing
    /\ Acceptable(State, e)
    /\ log' = Append(log, Finalized(State, e))
    /\ UNCHANGED <<snapshot, view>>

(* A thread composes an event from the state it last loaded. *)
Report(t) ==
    /\ view[t] # Nothing
    /\ Len(log) < MaxEvents
    /\ \E type \in EventType, time \in 0 .. MaxTime :
       \E to \in EVENT_TO_STATE(type) :
       \E name \in IF type \in {"JOB_STARTED", "SPEC_COMPILED"} THEN Specs
                   ELSE IF type \in {"ATTEMPT_STARTED", "REPAIR_STEP", "EXPORT_PUBLISHED"}
                   THEN Names ELSE {Nothing} :
          /\ view[t].status # to \/ type = "FATAL"
          /\ append_event(t, Composed(view[t], type, to, time, name))

Next ==
    \E t \in Threads :
        \/ load(t)
        \/ \E spec \in Specs : Create(t, spec)
        \/ save_snapshot(t)
        \/ Report(t)

Spec == Init /\ [][Next]_vars

-----------------------------------------------------------------------------
Event == [sequence : 1 .. MaxEvents, type : EventType, from : JobStatus, to : JobStatus,
          time : 0 .. MaxTime, name : Specs \cup Names \cup {Nothing}]
JobState == [status : JobStatus, last : 0 .. MaxEvents, updated : 0 .. MaxTime,
             spec : Specs, attempts : SUBSET Names, bundles : SUBSET Names]

TypeOK ==
    /\ snapshot \in JobState \cup {Nothing}
    /\ log \in Seq(Event) /\ Len(log) <= MaxEvents
    /\ view \in [Threads -> JobState \cup {Nothing}]

(* What the store accepted it can always decode: no accepted event, and no *)
(* accepted snapshot, makes load, append_event or save_snapshot fail with  *)
(* "job store corrupted" from then on.                                     *)
StoredAlwaysLoads == snapshot # Nothing => State # Nothing

(* A snapshot only saves work: loading through it gives the state that     *)
(* replaying the whole log from the job's genesis gives.                   *)
SnapshotOnlySavesWork ==
    snapshot # Nothing => State = replay_events(Genesis(snapshot.spec), log)

(* Once a job is completed, failed or cancelled nothing more is recorded,  *)
(* although other threads still hold states from before.                   *)
TerminalIsFinal ==
    [][State # Nothing /\ State.status \in TERMINAL_STATUSES => log' = log]_vars

(* A thread that saves what it loaded long ago never moves the snapshot    *)
(* back, and no save replaces the job's specification.                     *)
SnapshotsAdvance ==
    [][snapshot # Nothing =>
          snapshot'.last >= snapshot.last /\ snapshot'.spec = snapshot.spec]_vars
=============================================================================
