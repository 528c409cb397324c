SPECIFICATION Spec
CONSTANTS
    host1 = host1
    Procs = {p1, p2, p3}
    Host <- MCHost
    Nobody = Nobody
    MaxMutations = 1
    MaxCrashes = 1
    MaxRestarts = 0
INVARIANTS MutualExclusion
CHECK_DEADLOCK FALSE
