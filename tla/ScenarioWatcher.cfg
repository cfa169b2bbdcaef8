CONSTANTS
    CaptureNames = {}
    LimitAction = "error"
    TotalUnits = 100
    Paths = {"f", "g"}
    FilePath = "f"
    YamlPaths = {"f", "g"}
    WatchDirectory = TRUE
    Revisions <- SomeRevisions
    Requests <- SomeRequests
    MaxCalls = 3
SPECIFICATION Spec
INVARIANTS TypeOK AnswersFollowTheFile
PROPERTY ChangesAreRead
CHECK_DEADLOCK FALSE
