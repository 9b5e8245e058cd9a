SPECIFICATION LayerSpec
CONSTANTS
    Callers = {c1, c2, c3}
    Jobs = {j1, j2}
    MaxLoads = 2
    MaxFaults = 1
    NoCaller = NoCaller
    NoJob = NoJob
    Openers = {o1, o2}
    Encoders = {e1, e2}
    Helped = {"runtime"}
    MaxOpeningFaults = 3
    Nobody = Nobody
    None = None
SYMMETRY Symmetry
INVARIANTS
    OwnsRuntime
    PipelineUsable
    ClosedForGood
    NoJobIsLeft
    OpeningIsSound
PROPERTIES
    ResultNeverCancelled
CHECK_DEADLOCK FALSE
