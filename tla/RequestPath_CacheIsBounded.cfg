CONSTANTS
    CaptureNames <- Names
    LimitAction = "error"
    TotalUnits = 100
    Procs = {p1, p2}
    Targets <- ThreeTargets
    Scenarios <- Literals
    LatePaths = {}
    MaxCalls = 6
    MaxEntries = 2
    Expiring = TRUE
    PromoteEvery = 2
    Cancellable = {}
    Outcomes = {"ok"}
    MaxRetries = 0
    Durations = {1}
    SampleSize = 2
    MinDataPoints = 2
    AdjustmentFreq = 2
    Percentile = 50
    SafetyMultiplier = 2
    MinTimeout = 3
    MaxTimeout = 8
    FallbackTimeout = 5
SPECIFICATION Spec
INVARIANT CacheIsBounded
CHECK_DEADLOCK FALSE
SYMMETRY Symmetry
