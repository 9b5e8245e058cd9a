SPECIFICATION LayerSpec
CONSTANTS
    Callers = {c1, c2}
    Kinds = {"single", "batch", "replay"}
    BatchSize = 2
    MaxRuns = 2
    MaxJobs = 3
    Walls = {w}
    Singles = {s}
    WallSize = 2
    Crashes = 1
    Intruders = 1
    BatchRuns = {r1, r2}
    Cohorts = {k1, k2}
    Members = {m1}
    ItemStatuses = {"PASS"}
    OnUnverifiable = "manual_review"
    OnWarning = "manual_review"
    MaxFaults = 1
    MaxLosses = 1
    None = None
    Unset = Unset
SYMMETRY Symmetry
INVARIANTS
    ShownIsTrue
PROPERTIES
    CancelIsServed
    PreviewIsTrue
    BatchIsOne
CHECK_DEADLOCK FALSE
