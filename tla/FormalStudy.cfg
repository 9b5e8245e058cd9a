SPECIFICATION MCSpec
CONSTANTS
    Processes = {p1, p2}
    Plans <- MCPlans
    Samplings <- MCSamplings
    Split <- MCSplit
    Readings <- MCReadings
    Commands = 3
    Edits = 1
    Crashes = 1
    None = None
SYMMETRY Symmetry
INVARIANTS
    BindingIsEarnedOnce
PROPERTIES
    BlockedStays
CHECK_DEADLOCK FALSE
