CONSTANTS
    CaptureNames <- Names
    LimitAction = "error"
    TotalUnits = 100
    Shards = 2
    ShardOf <- TwoShards
    CutSegment <- Dots
    CacheCap = 1
    Files <- BranchFile
    Requests <- TwoRequests
    Ops <- LoadOnly
    Matchers = {m1}
    Mutators = {p1}
    MaxCalls = 1
    MaxEdits = 0
SPECIFICATION Spec
INVARIANTS MatchedBranchIsTheWinners
CHECK_DEADLOCK FALSE
