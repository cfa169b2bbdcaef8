\* Two clients for one slot, TLS, no read or idle timeout: safety, refinement and liveness.
SPECIFICATION FairSpec
CONSTANTS
    Conns = {c1, c2}
    MaxConnections = 1
    MaxRequests = 1
    MaxStarts = 1
    TLSEnabled = TRUE
    HasWaitDeadline = FALSE
INVARIANTS
    TypeOK
    SlotsBalanced
    PoolAndGaugeMatch
    GracefulStopIsComplete
    ForcedCloseIsReportedAsShutdown
PROPERTIES
    AdmissionSpec
    StopReleasesEverything
CHECK_DEADLOCK FALSE
