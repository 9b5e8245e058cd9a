SPECIFICATION LayerSpec
CONSTANTS
    Migrators = {m1, m2}
    LastPlan = 2
    MayRerun = FALSE
    Failures = 1
    Crashes = 1
    PowerLosses = 1
    Edits = 1
    Installers = {i1, i2}
    ConfigDocuments = {models, manifests}
    Names = {t1, t2, t3, t4}
    MaxKills = 1
    PowerCuts = 1
    Faults = 1
    Stuck = 1
    Missing = Missing
SYMMETRY Symmetry
PROPERTIES
    MigrationIsAudited
    AdapterIsPinned
CHECK_DEADLOCK FALSE
