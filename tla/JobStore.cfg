SPECIFICATION LayerSpec
CONSTANTS
    MaxGeneration = 3
    MaxCalls = 6
    NoFile = NoFile
    Torn = Torn
    Absent = Absent
    Broken = Broken
    NoCall = NoCall
    MkdirDurable = TRUE
    Threads = {t1, t2}
    Specs = {s1, s2}
    Names = {n1, n2}
    MaxEvents = 6
    MaxTime = 1
    Stores = {store}
    Jobs = {j1, j2}
    MaxWrites = 2
    Nothing = Nothing
SYMMETRY Symmetry
INVARIANTS
    TypeOK
    DurableOnceAcknowledged
    NeverOlderThanAcknowledged
PROPERTIES
    ImplementsRegister
    NothingGoesBack
    LogIsSound
    NamespaceIsSound
CHECK_DEADLOCK FALSE
