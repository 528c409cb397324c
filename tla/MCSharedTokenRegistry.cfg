SPECIFICATION FairSpec
CONSTANTS
    t1 = t1
    t2 = t2
    d1 = d1
    s1 = s1
    s2 = s2
    TokenIds <- MCTokenIds
    Decisions <- MCDecisions
    Issuances <- MCIssuances
    Sessions <- MCSessions
    NoIssuance = NoIssuance
    MaxTime = 0
INVARIANTS TypeOK AcceptedUsesCounted
PROPERTIES RevocationCutsOff SharedImplementsBoundedAuthority TransactionsEnd
