SPECIFICATION Spec
CONSTANTS
    Records = {r1, r2}
    Workers = 1
    QueueSize = 1
    ChanCap = 1
    SignalCap = 1
    RotateAfter = 1
    SizeLimited = FALSE
    MaxFaults = 0
    MaxOps = 1
INVARIANT
    RotationLosesNothing
CHECK_DEADLOCK FALSE
