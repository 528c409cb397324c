SPECIFICATION FairSpec
CONSTANTS
    Nodes = {n1, n2}
    Requests = {q1, q2}
    Events = {e1, e2}
    HardStop = {e1}
    Modes = {"controlPlane"}
    NoNode = NoNode
    NoEvent = NoEvent
    PoolSize = 4
    Quota = 1
    MaxMonths = 0
    Budgets <- OneFailure
PROPERTY ClaimReleasedOnFailure
CHECK_DEADLOCK FALSE
