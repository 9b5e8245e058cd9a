--------------------------- MODULE CommitRegister ---------------------------
(***************************************************************************)
(* What the job store promises of one job directory, with the files, the   *)
(* markers and the renames left out.                                       *)
(*                                                                         *)
(* The directory holds one value.  A call installs a new value and either  *)
(* is acknowledged or fails.  While a call is unacknowledged the value may *)
(* become unreadable, and a crash may leave the value the call started     *)
(* from, the value it was installing, or an unreadable directory.  Once a  *)
(* call is acknowledged, and until the next one begins, nothing changes    *)
(* the value: not a crash, not a power loss.                               *)
(***************************************************************************)
CONSTANTS
    Value,      \* what a job directory can hold
    Absent,     \* no job has been stored yet
    Broken,     \* readers fail with "job store corrupted"
    NoCall      \* no call is running

VARIABLES
    value,      \* what a reader would see now
    target,     \* the value the running call installs, or NoCall
    base,       \* the value the last call started from
    acked,      \* the last acknowledged value
    doubt       \* a call has begun since the last acknowledgement

vars == <<value, target, base, acked, doubt>>

Init ==
    /\ value = Absent
    /\ target = NoCall
    /\ base = Absent
    /\ acked = Absent
    /\ doubt = FALSE

(* A call starts only from a directory it can read. *)
Begin ==
    /\ target = NoCall
    /\ value # Broken
    /\ target' \in Value
    /\ base' = value
    /\ doubt' = TRUE
    /\ UNCHANGED <<value, acked>>

(* The running call makes the directory unreadable or installs its value. *)
Install ==
    /\ target # NoCall
    /\ value' \in {Broken, target}
    /\ UNCHANGED <<target, base, acked, doubt>>

Acknowledge ==
    /\ target # NoCall
    /\ value = target
    /\ target' = NoCall
    /\ base' = target
    /\ acked' = target
    /\ doubt' = FALSE
    /\ UNCHANGED value

Fail ==
    /\ target # NoCall
    /\ target' = NoCall
    /\ UNCHANGED <<value, base, acked, doubt>>

(* Only a directory in doubt may change, and only to what the last call    *)
(* could have left: a job never acknowledged at all may vanish.            *)
Crash ==
    /\ target' = NoCall
    /\ \/ UNCHANGED value
       \/ /\ doubt
          /\ \/ value' \in {base, Broken}
             \/ acked = Absent /\ value' = Absent
    /\ UNCHANGED <<base, acked, doubt>>

Next ==
    \/ Begin
    \/ Install
    \/ Acknowledge
    \/ Fail
    \/ Crash

Spec == Init /\ [][Next]_vars
=============================================================================
