SPECIFICATION Spec
CONSTANTS
    t1 = t1
    d1 = d1
    d2 = d2
    r1 = r1
    r2 = r2
    TokenIds <- MCTokenIds
    Decisions <- MCDecisions
    Issuances <- MCIssuances
    Requests <- MCRequests
    NoIssuance = NoIssuance
    MaxTime = 1
SYMMETRY MCSymmetry
INVARIANTS RevokedNeverVerified VerdictMatchesRecord
PROPERTIES VerdictsImplementAuthority
