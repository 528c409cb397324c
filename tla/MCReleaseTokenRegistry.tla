----------------------- MODULE MCReleaseTokenRegistry -----------------------
\* Instance of ReleaseTokenRegistry: two token ids, two decisions, a token that
\* may be used twice, one that may be used once, and a second content for the
\* first token id (a re-issue under another decision).
EXTENDS ReleaseTokenRegistry

CONSTANTS t1, t2, d1, d2

MCTokenIds == {t1, t2}
MCDecisions == {d1, d2}
MCIssuances ==
    { [tokenId |-> t1, decisionId |-> d1, maxUses |-> 2, expiresAt |-> 2],
      [tokenId |-> t1, decisionId |-> d2, maxUses |-> 1, expiresAt |-> 3],
      [tokenId |-> t2, decisionId |-> d1, maxUses |-> 1, expiresAt |-> 3] }
=============================================================================
