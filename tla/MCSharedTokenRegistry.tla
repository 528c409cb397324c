----------------------- MODULE MCSharedTokenRegistry -----------------------
\* An instance of SharedTokenRegistry: two sessions contending for two tokens of
\* one decision, one that may be used twice and one that is overdue from the
\* start, whose rows they may lock in opposite orders.
EXTENDS SharedTokenRegistry

CONSTANTS t1, t2, d1, s1, s2

MCTokenIds == {t1, t2}
MCDecisions == {d1}
MCSessions == {s1, s2}
MCIssuances ==
    { [tokenId |-> t1, decisionId |-> d1, maxUses |-> 1, expiresAt |-> 0],
      [tokenId |-> t2, decisionId |-> d1, maxUses |-> 2, expiresAt |-> 1] }
=============================================================================
