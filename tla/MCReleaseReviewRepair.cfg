SPECIFICATION FairSpec
CONSTANTS
    d1 = d1
    TokenIds <- MCTokenIds
    Decisions <- MCDecisions
    Issuances <- MCIssuances
    NoIssuance = NoIssuance
    ReviewDecision = d1
    BreakGlassActors = {op}
    DecisionExpiry = 1
    OverrideTtl = 1
    Slots = {s1}
    Reviewers = {r1, r2}
    MinReviewers = 2
    MaxTime = 1
    MaxFailures = 2
    EnvRevokes = FALSE
PROPERTIES ApprovalCloses
CHECK_DEADLOCK FALSE
