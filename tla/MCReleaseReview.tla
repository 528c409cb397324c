-------------------------- MODULE MCReleaseReview --------------------------
\* Instances of ReleaseReview: one decision under review, reviewers of whom two must
\* approve, one break-glass operator, one or two concurrent requests.
EXTENDS ReleaseReview, TLC

CONSTANTS d1

MCTokenIds == {"approved", "overridden"}
MCDecisions == {d1}
MCIssuances == {ClosureIssuance(st, at) : st \in MCTokenIds, at \in Times}

\* Requests and reviewers are interchangeable in the safety runs.
MCSymmetry == Permutations(Slots) \cup Permutations(Reviewers)
=============================================================================
