SPECIFICATION LayerSpec
CONSTANTS
    RenameDurable = TRUE
    MaxFaults = 4
    MaxBundleFaults = 2
    MaxPairFaults = 1
    Threads = {t1, t2, t3}
    Putters = {w1, w2}
    Files = {f1, f2}
    Exports = {e1, e2}
    Docs = {d1, d2}
    MaxTampering = 1
    Publishers = {p1, p2}
    MaxBadFiles = 1
    MaxSwaps = 1
    MaxCasFaults = 2
    Nil = Nil
    None = None
    Nothing = Nothing
    Foreign = Foreign
SYMMETRY Symmetry
INVARIANTS
    CancelledIsUnpublished
    CompletedIsPublished
PROPERTIES
    ImplementsOutcome
    BundleIsWhole
    StyleIsDurable
    PairIsDurable
CHECK_DEADLOCK FALSE
