SPECIFICATION Spec
CONSTANTS
    MaxGeneration = 2
    MaxCalls = 4
    NoFile = NoFile
    Torn = Torn
    Absent = Absent
    Broken = Broken
    NoCall = NoCall
    MkdirDurable = FALSE
INVARIANTS
    DurableOnceAcknowledged
CHECK_DEADLOCK FALSE
