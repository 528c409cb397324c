SPECIFICATION RSpec
CONSTANTS
    t1 = t1
    t2 = t2
    d1 = d1
    d2 = d2
    TokenIds <- MCTokenIds
    Decisions <- MCDecisions
    Issuances <- MCIssuances
    NoIssuance = NoIssuance
    MaxTime = 3
INVARIANTS RTypeOK UseBudget RevokedDecisionHasNoLiveToken UsedBeforeExpiry
PROPERTIES LifecycleFinality ImplementsBoundedAuthority
