SPECIFICATION FairSpec
CONSTANTS
    host1 = host1
    Procs = {p1, p2}
    Host <- MCHost
    Nobody = Nobody
    MaxMutations = 2
    MaxCrashes = 1
    MaxRestarts = 1
INVARIANTS ExclusionUnlessStolen OneTemporary
PROPERTIES StoreIsAtomic CallsEnd LockFreedAgain
CHECK_DEADLOCK FALSE
