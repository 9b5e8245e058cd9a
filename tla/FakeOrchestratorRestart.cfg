SPECIFICATION Spec
CONSTANTS
    Callers = {c1}
    MaxFaults = 0
    MaxCrashes = 1
INVARIANTS
    RestartIsIdempotent
