\* One request and its response on a connection, with a forced stop at any step.
SPECIFICATION FairSpec
CONSTANTS
    MaxStreamChunks = 4
    DefaultStreamChunkSize = 2
    AutomaticCadence = 1
    MaxDuration = 100
    Files <- MCFiles
    BodyLimit = 4
    WeightUnits = 4
    Requests <- MCRequests
    Templates <- MCTemplates
    BufferSize = 3
    MaxTime = 2
    MaxEdits = 2
INVARIANTS
    TypeOK
    DeliveredAsDeclared
    ResourcesReturned
PROPERTIES
    ForcedStopEnds
