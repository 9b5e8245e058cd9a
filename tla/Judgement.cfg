SPECIFICATION LayerSpec
CONSTANTS
    L2 <- MCL2
    L3 <- MCL3
    Reference = "reference"
    Targets <- MCTargets
    Chains <- MCChains
    MetricApprovals <- MCMetricApprovals
    ProfileApprovals <- MCProfileApprovals
    FirstDocuments <- MCFirstDocuments
    MaxEdits = 1
    MaxFaults = 1
    MaxTampers = 2
    Torn = Torn
    Plans <- VerifierPlans
    Artifacts <- VerifierArtifacts
    References <- VerifierReferences
    MaxDrifts = 2
    Absent = Absent
    None = None
INVARIANTS
    LabelIsEarned
    ProductionIsOneVersion
    VerdictIsTrue
CHECK_DEADLOCK FALSE
