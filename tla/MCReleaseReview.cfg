SPECIFICATION Spec
CONSTANTS
    d1 = d1
    TokenIds <- MCTokenIds
    Decisions <- MCDecisions
    Issuances <- MCIssuances
    NoIssuance = NoIssuance
    ReviewDecision = d1
    BreakGlassActors = {op}
    DecisionExpiry = 2
    OverrideTtl = 1
    Slots = {s1, s2}
    Reviewers = {r1, r2, r3}
    MinReviewers = 2
    MaxTime = 2
    MaxFailures = 1
    EnvRevokes = TRUE
SYMMETRY MCSymmetry
INVARIANTS TypeOK TokenNeedsAuthority ClosedIsBacked
PROPERTIES ReviewHistoryKept
CHECK_DEADLOCK FALSE
