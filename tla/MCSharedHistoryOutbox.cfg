SPECIFICATION FairSpec
CONSTANTS
    Writers = {x1, x2}
    Workers = {w1, w2}
    Sources = {s1, s2}
    NoWriter = NoWriter
    Lease = 2
    Limit = 1
    MaxSkew = 1
    MaxTime = 2
    MaxBegins = 2
    MaxCrashes = 1
INVARIANTS HistoryDense ExaminedStillTrue LeaseProtects DeliveriesCounted
PROPERTIES ImplementsDeliveryQueue EveryMessagePublished
CHECK_DEADLOCK FALSE
