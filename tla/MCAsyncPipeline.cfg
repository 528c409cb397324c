SPECIFICATION FairSpec
CONSTANTS
    Jobs = {j1, j2}
    Workers = {w1, w2}
    NoWorker = NoWorker
    Limit = 1
    PendingLimit = 2
    Lease = 2
    Window = 1
    MaxSpread = 1
    MaxAttempts = 2
    MaxStalls = 1
    MaxFaults = 1
INVARIANT ExecutionBounded
PROPERTIES JobsEnd
CHECK_DEADLOCK FALSE
