SPECIFICATION Spec
CONSTANTS
    RenameDurable = FALSE
    MaxFaults = 2
INVARIANTS
    CompletedIsPublished
CHECK_DEADLOCK FALSE
