SPECIFICATION LayerSpec
CONSTANTS
    Callers = {c1, c2}
    MaxFaults = 2
    MaxCrashes = 2
    DenoisingSteps = 4
    MaxAttemptFaults = 3
    MaxRuns = 2
    Plans <- RepairPlans
    IdRank <- RuleRanks
    Policies <- RepairPolicies
    Starts <- RepairStarts
    ScaleTop = 2
    VariationTop = 1
    DecisionIds = {d1, d2}
    AttemptIds = {a1, a2, a3}
    ArtifactIds = {t1, t2, t3}
    Others = {o1, o2}
    Raised = Raised
    Nothing = Nothing
    None = None
SYMMETRY Symmetry
INVARIANTS
    GeneratesOnce
    CompletedHasBundle
    LogRestsOnStores
    RepairIsServed
    StopIsTrue
PROPERTIES
    RunEndsClean
CHECK_DEADLOCK FALSE
