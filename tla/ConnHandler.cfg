SPECIFICATION FairSpec
CONSTANT
    MaxRequests = 2
INVARIANTS
    TypeOK
    RecordedExactlyOnce
    GaugesReturnToZero
    AnsweredRequestsAreTimed
    BodiesReleased
    ReuseOnlyOnCleanWire
PROPERTY
    RequestEnds
CHECK_DEADLOCK FALSE
