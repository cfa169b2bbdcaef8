CONSTANTS
    CaptureNames <- Names
    LimitAction = "error"
    TotalUnits = 100
    Shards = 2
    ShardOf <- TwoShards
    CutSegment <- Dots
    CacheCap = 1
    Files <- TwoFiles
    Requests <- TwoRequests
    Ops <- SomeOps
    Matchers = {m1}
    Mutators = {p1, p2}
    MaxCalls = 2
    MaxEdits = 1
SPECIFICATION Spec
INVARIANTS TypeOK ContentsAgree AnswersAreLinearizable CacheIsFresh
CHECK_DEADLOCK FALSE
SYMMETRY Symmetry
