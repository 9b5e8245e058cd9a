---------------------------- MODULE JobLifecycle ----------------------------
(***************************************************************************)
(* The job state machine of workflow/state_machine.py: which status may    *)
(* follow which, and which event may bring it about.                       *)
(***************************************************************************)

Stages == {"CREATED", "SPEC_VALIDATED", "SPEC_COMPILED", "GENERATING", "VERIFYING",
           "APPROVED", "MANUAL_REVIEW", "REJECTED", "REPAIR_SELECTING", "REPAIRING",
           "EXPORTING", "RECOVERABLE_ERROR"}
TERMINAL_STATUSES == {"COMPLETED", "JOB_FAILED", "CANCELLED"}
JobStatus         == Stages \cup TERMINAL_STATUSES

EventType == {"JOB_STARTED", "SPEC_COMPILED", "ATTEMPT_STARTED", "ATTEMPT_FINISHED",
              "VERIFIER_FINISHED", "REPAIR_STEP", "EXPORT_STARTED", "EXPORT_PUBLISHED",
              "RECOVERABLE", "CANCEL_REQUESTED", "FATAL"}

(* Every stage may also be cancelled or fail. *)
Onward(s) ==
    CASE s = "CREATED"           -> {"SPEC_VALIDATED"}
      [] s = "SPEC_VALIDATED"    -> {"SPEC_COMPILED"}
      [] s = "SPEC_COMPILED"     -> {"GENERATING"}
      [] s = "GENERATING"        -> {"VERIFYING", "RECOVERABLE_ERROR"}
      [] s = "VERIFYING"         -> {"APPROVED", "MANUAL_REVIEW", "REJECTED",
                                     "REPAIR_SELECTING", "RECOVERABLE_ERROR"}
      [] s \in {"APPROVED", "MANUAL_REVIEW", "REJECTED"} -> {"EXPORTING"}
      [] s = "REPAIR_SELECTING"  -> {"REPAIRING", "REJECTED", "RECOVERABLE_ERROR"}
      [] s = "REPAIRING"         -> {"VERIFYING", "RECOVERABLE_ERROR"}
      [] s = "EXPORTING"         -> {"COMPLETED", "RECOVERABLE_ERROR"}
      [] s = "RECOVERABLE_ERROR" -> {"GENERATING", "VERIFYING", "REPAIR_SELECTING",
                                     "REPAIRING", "EXPORTING"}

TRANSITIONS(s) ==
    IF s \in TERMINAL_STATUSES THEN {} ELSE Onward(s) \cup {"CANCELLED", "JOB_FAILED"}

EVENT_TO_STATE(type) ==
    CASE type = "JOB_STARTED"       -> {"SPEC_VALIDATED"}
      [] type = "SPEC_COMPILED"     -> {"SPEC_COMPILED"}
      [] type = "ATTEMPT_STARTED"   -> {"GENERATING"}
      [] type = "ATTEMPT_FINISHED"  -> {"VERIFYING"}
      [] type = "VERIFIER_FINISHED" -> {"APPROVED", "MANUAL_REVIEW", "REJECTED",
                                        "REPAIR_SELECTING"}
      [] type = "REPAIR_STEP"       -> {"REPAIRING"}
      [] type = "EXPORT_STARTED"    -> {"EXPORTING"}
      [] type = "EXPORT_PUBLISHED"  -> {"COMPLETED"}
      [] type = "RECOVERABLE"       -> {"RECOVERABLE_ERROR"}
      [] type = "CANCEL_REQUESTED"  -> {"CANCELLED"}
      [] type = "FATAL"             -> {"JOB_FAILED"}

validate_transition(from, to, type) ==
    to \in TRANSITIONS(from) /\ to \in EVENT_TO_STATE(type)
=============================================================================
