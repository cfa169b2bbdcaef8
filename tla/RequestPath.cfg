CONSTANTS
    CaptureNames <- Names
    LimitAction = "error"
    TotalUnits = 100
    Procs = {p1, p2}
    Targets <- SomeTargets
    Scenarios <- SomeScenarios
    LatePaths <- RoutedPath
    MaxCalls = 3
    MaxEntries = 1
    Expiring = TRUE
    PromoteEvery = 2
    Cancellable <- OneTarget
    Outcomes = {"ok", "transient", "permanent", "panic"}
    MaxRetries = 1
    Durations = {1, 4}
    SampleSize = 2
    MinDataPoints = 2
    AdjustmentFreq = 2
    Percentile = 50
    SafetyMultiplier = 2
    MinTimeout = 3
    MaxTimeout = 8
    FallbackTimeout = 5
SPECIFICATION Spec
INVARIANTS TypeOK RoutedAsRegistered TimeoutFollowsWindow RetriesAddUp
CHECK_DEADLOCK FALSE
SYMMETRY Symmetry
