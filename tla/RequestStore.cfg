SPECIFICATION FairSpec
CONSTANTS
    Records = {r1, r2}
    Workers = 1
    QueueSize = 1
    ChanCap = 1
    SignalCap = 1
    RotateAfter = 1
    SizeLimited = TRUE
    MaxFaults = 1
    MaxOps = 2
INVARIANTS
    TypeOK
    PendingIsExact
    DeleteLosesNothing
    CloseDrainsQueue
PROPERTIES
    QueuedRecordsEnd
    ShutdownCompletes
CHECK_DEADLOCK FALSE
