----------------------- MODULE MCReleaseVerification -----------------------
\* Instance of ReleaseVerification: one token id signed with three contents (a
\* re-issue with another expiry and budget, and one for another decision), of which
\* only one gets registered, and two concurrent verifications.
EXTENDS ReleaseVerification, TLC

CONSTANTS t1, d1, d2, r1, r2

MCTokenIds == {t1}
MCDecisions == {d1, d2}
MCRequests == {r1, r2}
MCIssuances ==
    { [tokenId |-> t1, decisionId |-> d1, maxUses |-> 1, expiresAt |-> 1],
      [tokenId |-> t1, decisionId |-> d1, maxUses |-> 2, expiresAt |-> 2],
      [tokenId |-> t1, decisionId |-> d2, maxUses |-> 1, expiresAt |-> 2] }

MCSymmetry == Permutations(MCRequests)
=============================================================================
