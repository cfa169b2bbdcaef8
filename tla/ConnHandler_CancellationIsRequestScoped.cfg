SPECIFICATION Spec
CONSTANT
    MaxRequests = 2
INVARIANT
    CancellationIsRequestScoped
CHECK_DEADLOCK FALSE
