SPECIFICATION LayerSpec
CONSTANTS
    Plans <- RepairPlans
    IdRank <- RuleRanks
    Policies <- RepairPolicies
    Starts <- RepairStarts
    ScaleTop = 2
    VariationTop = 1
    DecisionIds = {d1, d2, d3}
    AttemptIds = {a1, a2, a3, a4}
    ArtifactIds = {t1, t2, t3}
    Others = {o1}
    Raised = Raised
    Nothing = Nothing
    Workers = {1, 2}
    Caller = Caller
    MaxLoads = 2
    RenameDurable = TRUE
    MaxWrites = 1
    BatchSize = 1
    MaxRuns = 1
    MaxJobs = 1
    Failures = 2
    Crashes = 1
    PowerLosses = 0
    Edits = 0
    PowerCuts = 1
    Faults = 0
    Stuck = 0
    None = None
PROPERTIES
    CallsReturn
    RecoveryConverges
    RunsEnd
    SupplyConverges
CHECK_DEADLOCK FALSE
