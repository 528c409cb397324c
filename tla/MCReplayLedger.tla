--------------------------- MODULE MCReplayLedger ---------------------------
\* Instance of ReplayLedger: two points and presentations that live one unit of
\* time, two of them with the same replay key.
EXTENDS ReplayLedger, TLC

CONSTANTS n1, n2, k1, k2

MCPoints == {n1, n2}
MCPresentations ==
    { [key |-> k1, presentedAt |-> 0, expiresAt |-> 1],
      [key |-> k1, presentedAt |-> 3, expiresAt |-> 4],
      [key |-> k2, presentedAt |-> 4, expiresAt |-> 5] }

MCSymmetry == Permutations(MCPoints)
=============================================================================
