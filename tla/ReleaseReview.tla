--------------------------- MODULE ReleaseReview ---------------------------
(***************************************************************************)
(* The human-review path of a held release decision: the approve, reject   *)
(* and override handlers of service/http/routes/release-review-routes.ts,  *)
(* the reviewer-queue transitions of release-kernel/reviewer-queue-core.ts *)
(* and the stores they write one after the other: the reviewer queue, the  *)
(* decision log, the token registry (ReleaseTokenRegistry, extended here)  *)
(* and the evidence-pack store.  Each store operation is atomic and        *)
(* awaited, so the handlers of concurrent requests interleave between any  *)
(* two of them, and any await may fail: the handler answers 500 and what   *)
(* it wrote so far stays.  One review (one decision) is modelled: reviews  *)
(* share nothing but the log, which every handler reads per decision.      *)
(***************************************************************************)
EXTENDS ReleaseTokenRegistry, Sequences, FiniteSets

CONSTANTS
    Slots,              \* concurrent request handlers; a slot is reused by later requests
    Reviewers,          \* who may approve or reject (role and named-reviewer checks passed)
    BreakGlassActors,   \* who may override
    MinReviewers,       \* reviewAuthority.minimumReviewerCount
    ReviewDecision,     \* the decision under review
    DecisionExpiry,     \* the expiry condition of the decision, set when it was created
    OverrideTtl,        \* lifetime of a break-glass token (60 seconds)
    MaxFailures,        \* bound on failing awaits
    EnvRevokes          \* whether an operator may revoke the decision meanwhile

Actors == Reviewers \cup BreakGlassActors
Accepting == {"approved", "overridden"}

\* releaseReviewClosureId: with the review and the decision fixed, the token and
\* pack ids are a function of the terminal authority state, here the state itself.
\* resolveTokenTtlSeconds: a token lasts as long as the decision, an override's shorter.
ClosureIssuance(st, issuedAt) ==
    [tokenId |-> st, decisionId |-> ReviewDecision, maxUses |-> 1,
     expiresAt |-> IF st = "overridden" /\ issuedAt + OverrideTtl < DecisionExpiry
                   THEN issuedAt + OverrideTtl ELSE DecisionExpiry]

\* resolveTokenTtlSeconds refuses to issue for an expired decision.  (The other refusals
\* of the issuer are met by none of the closure's records: they are accepted or
\* overridden, by a role the route admits and the issuer does too.)
Issuable(issuedAt) == issuedAt < DecisionExpiry

ASSUME ReviewAssumption ==
    /\ Accepting \subseteq TokenIds
    /\ ReviewDecision \in Decisions
    /\ MinReviewers \in Nat \ {0}
    /\ DecisionExpiry \in Nat /\ OverrideTtl \in Nat
    /\ MaxFailures \in Nat
    /\ EnvRevokes \in BOOLEAN
    /\ \A st \in Accepting, at \in Times : ClosureIssuance(st, at) \in Issuances

VARIABLES
    now,        \* the wall clock
    record,     \* the reviewer-queue record of the review
    log,        \* the phases appended to the decision log for this decision
    packs,      \* packs[st]: the stored evidence pack's content, <<>> when there is none
    handler,    \* handler[s]: what the request in slot s is doing
    failures    \* awaits that failed so far

reviewVars == <<now, record, log, packs, handler, failures>>
vars == <<rvars, reviewVars>>

Idle == [pc |-> "idle"]

Init ==
    /\ RInit
    /\ now = 0
    /\ record = [authorityState |-> "pending", reviewerDecisions |-> <<>>,
                 terminalAt |-> 0, closed |-> FALSE]
    /\ log = <<>>
    /\ packs = [st \in Accepting |-> <<>>]
    /\ handler = [s \in Slots |-> Idle]
    /\ failures = 0

-----------------------------------------------------------------------------
\* Pure parts of the handlers.

Outcomes(rec, o) == {i \in DOMAIN rec.reviewerDecisions : rec.reviewerDecisions[i].outcome = o}

HasActed(rec, a) ==
    \E i \in DOMAIN rec.reviewerDecisions : rec.reviewerDecisions[i].reviewer = a

\* updateReviewSummary: one rejection denies, enough approvals approve.
AuthorityAfter(rec) ==
    IF Outcomes(rec, "rejected") # {} THEN "rejected"
    ELSE IF Cardinality(Outcomes(rec, "approved")) >= MinReviewers THEN "approved"
    ELSE "pending"

\* Mutant: a reviewer's second approval counts.
CanDecide_Twice(rec, a) == rec.authorityState = "pending"

\* applyReviewerDecision refuses a finalized record and a reviewer who already acted.
CanDecide(rec, a) ==
    /\ rec.authorityState = "pending"
    /\ ~ HasActed(rec, a)

\* applyReviewerDecision
WithDecision(rec, a, o, at) ==
    LET noted == [rec EXCEPT !.reviewerDecisions = Append(@, [reviewer |-> a, outcome |-> o])]
        state == AuthorityAfter(noted)
    IN  [noted EXCEPT !.authorityState = state,
                      !.terminalAt = IF state = "pending" THEN @ ELSE at]

\* applyBreakGlassOverride; it records no reviewer decision.
WithOverride(rec, at) == [rec EXCEPT !.authorityState = "overridden", !.terminalAt = at]

\* Mutant: the behaviour before closures were repairable.
NeedsRepair_Never(rec, st) == FALSE

\* releaseReviewClosureNeedsRepair: token and evidence fields are written together.
NeedsRepair(rec, st) == rec.authorityState = st /\ ~ rec.closed

Logged(phase) == \E i \in DOMAIN log : log[i] = phase

\* The log phase of the action that closed the review.
ActionPhase(st) == IF st = "overridden" THEN "override" ELSE "approve"

-----------------------------------------------------------------------------
\* Request handlers.  A handler that is refused returns without a state change.

Busy(s, h) == handler' = [handler EXCEPT ![s] = h]
Finish(s)  == handler' = [handler EXCEPT ![s] = Idle]
Goto(s, p) == handler' = [handler EXCEPT ![s].pc = p]

\* A handler about to commit `next`, computed from the record it read.
Committing(next, a) ==
    [pc |-> "commit", rec |-> next, actor |-> a, issuedAt |-> now,
     expectedCount |-> Len(record.reviewerDecisions)]

\* Mutant: a repair issues the token as of the retry.
Repairing_Now(a) ==
    [pc |-> "logAction", rec |-> record, actor |-> a, issuedAt |-> now,
     expectedCount |-> Len(record.reviewerDecisions)]

\* A handler that repairs the closure of the record it read; the token is issued
\* again as of the terminal decision (releaseReviewTerminalOccurredAt).
Repairing(a) ==
    [pc |-> "logAction", rec |-> record, actor |-> a, issuedAt |-> record.terminalAt,
     expectedCount |-> Len(record.reviewerDecisions)]

\* POST .../approve up to its first write.
StartApprove(s, a) ==
    /\ handler[s] = Idle
    /\ \/ /\ NeedsRepair(record, "approved")
          /\ Busy(s, Repairing(a))
       \/ /\ CanDecide(record, a)
          /\ Busy(s, Committing(WithDecision(record, a, "approved", now), a))
    /\ UNCHANGED <<rvars, now, record, log, packs, failures>>

\* POST .../reject up to its first write: this route, not the override route,
\* repairs an overridden closure.
StartReject(s, a) ==
    /\ handler[s] = Idle
    /\ \/ /\ NeedsRepair(record, "overridden")
          /\ Busy(s, Repairing(a))
       \/ /\ CanDecide(record, a)
          /\ Busy(s, Committing(WithDecision(record, a, "rejected", now), a))
    /\ UNCHANGED <<rvars, now, record, log, packs, failures>>

\* POST .../override up to its first write.
StartOverride(s, a) ==
    /\ handler[s] = Idle
    /\ record.authorityState = "pending"
    /\ Busy(s, Committing(WithOverride(record, now), a))
    /\ UNCHANGED <<rvars, now, record, log, packs, failures>>

\* Mutant: commitPendingTransition does not compare the reviewer decision count.
CommitAllowed_NoCount(h) == record.authorityState = "pending"

\* commitPendingTransition's compare: still pending, and no decision was added
\* since the handler read the record (the expected authority state is `pending`
\* whenever a handler gets here).
CommitAllowed(h) ==
    /\ record.authorityState = "pending"
    /\ Len(record.reviewerDecisions) = h.expectedCount

\* Mutant: the closure runs after any approval, the final one or not.
AfterCommit_AnyApproval(st) == IF st = "rejected" THEN "logReject" ELSE "logAction"

\* What the handler does after its commit: close an accepted review, or log.
AfterCommit(st) ==
    CASE st \in Accepting  -> "logAction"
      [] st = "rejected"   -> "logReject"
      [] st = "pending"    -> "logPartial"

\* commitPendingTransition: swap, or answer 409 already_finalized.
Commit(s) ==
    LET h == handler[s] IN
    /\ h.pc = "commit"
    /\ IF CommitAllowed(h)
         THEN /\ record' = h.rec
              /\ Goto(s, AfterCommit(h.rec.authorityState))
         ELSE /\ Finish(s)
              /\ UNCHANGED record
    /\ UNCHANGED <<rvars, now, log, packs, failures>>

\* appendReviewerTimelineToDecisionLog: an unconditional append.
AppendAlways(s, from, phase, next) ==
    /\ handler[s].pc = from
    /\ log' = Append(log, phase)
    /\ IF next = "idle" THEN Finish(s) ELSE Goto(s, next)
    /\ UNCHANGED <<rvars, now, record, packs, failures>>

\* appendReviewerTimelineToDecisionLogOnce, first await: read the entries and
\* skip the append when the phase is there.
CheckLogged(s, from, phase, append, next) ==
    /\ handler[s].pc = from
    /\ Goto(s, IF Logged(phase) THEN next ELSE append)
    /\ UNCHANGED <<rvars, now, record, log, packs, failures>>

\* The writes to the decision log.
LogPartial(s)     == AppendAlways(s, "logPartial", "approve", "idle")
LogReject(s)      == AppendAlways(s, "logReject", "reject", "logDeny")
LogDeny(s)        == AppendAlways(s, "logDeny", "terminal-deny", "idle")
CheckAction(s) ==
    /\ handler[s].pc = "logAction"
    /\ CheckLogged(s, "logAction", ActionPhase(handler[s].rec.authorityState),
                   "appendAction", "logTerminal")
AppendAction(s) ==
    /\ handler[s].pc = "appendAction"
    /\ AppendAlways(s, "appendAction", ActionPhase(handler[s].rec.authorityState), "logTerminal")
CheckTerminal(s)  == CheckLogged(s, "logTerminal", "terminal-accept", "appendTerminal", "register")
AppendTerminal(s) == AppendAlways(s, "appendTerminal", "terminal-accept", "register")
CheckEvidence(s)  == CheckLogged(s, "logEvidence", "evidence-pack", "appendEvidence", "issuePack")
AppendEvidence(s) == AppendAlways(s, "appendEvidence", "evidence-pack", "issuePack")

\* Token issuance and registerIssuedToken; a refusal of either throws and ends the
\* request.  A review decided after the decision expired is so left without a closure.
RegisterToken(s) ==
    LET h == handler[s]
        i == ClosureIssuance(h.rec.authorityState, h.issuedAt)
    IN  /\ h.pc = "register"
        /\ \/ /\ Issuable(h.issuedAt)
              /\ RegisterIssuedToken(i)
              /\ Goto(s, "logEvidence")
           \/ /\ Issuable(h.issuedAt) => ~ CanInsert(i) /\ ~ CanReplay(i)
              /\ Finish(s)
              /\ UNCHANGED rvars
        /\ UNCHANGED <<now, record, log, packs, failures>>

\* The evidence pack covers the log entries read now, the reviewed record and the
\* signed token, which is bound to the requester's DPoP key: its bundle digest.
IssuePack(s) ==
    /\ handler[s].pc = "issuePack"
    /\ handler' = [handler EXCEPT ![s] =
          [pc |-> "storePack", rec |-> @.rec, actor |-> @.actor, issuedAt |-> @.issuedAt,
           expectedCount |-> @.expectedCount,
           pack |-> <<log, @.issuedAt, @.actor>>]]
    /\ UNCHANGED <<rvars, now, record, log, packs, failures>>

\* Evidence-pack upsert: a pack is immutable; another digest under its id throws.
StorePack(s) ==
    LET h  == handler[s]
        st == h.rec.authorityState
    IN  /\ h.pc = "storePack"
        /\ IF packs[st] \in {<<>>, h.pack}
             THEN /\ packs' = [packs EXCEPT ![st] = h.pack]
                  /\ Goto(s, "storeRecord")
             ELSE /\ Finish(s)
                  /\ UNCHANGED packs
        /\ UNCHANGED <<rvars, now, record, log, failures>>

\* The queue record with its token and evidence fields.
ClosedRecord(h) == [h.rec EXCEPT !.closed = TRUE]

\* The last step of the closure: the queue record is overwritten.
StoreRecord(s) ==
    /\ handler[s].pc = "storeRecord"
    /\ record' = ClosedRecord(handler[s])
    /\ Finish(s)
    /\ UNCHANGED <<rvars, now, log, packs, failures>>

\* An await fails (store error, crash of the process): the request ends there.
Fail(s) ==
    /\ handler[s] # Idle
    /\ failures < MaxFailures
    /\ failures' = failures + 1
    /\ Finish(s)
    /\ UNCHANGED <<rvars, now, record, log, packs>>

-----------------------------------------------------------------------------
\* The environment.
Tick ==
    /\ now < MaxTime
    /\ now' = now + 1
    /\ UNCHANGED <<rvars, record, log, packs, handler, failures>>

\* Another request's introspection applies expiry to the registry.
ExpireTokens ==
    /\ Overdue(now) # {}
    /\ SyncLifecycle(now)
    /\ UNCHANGED reviewVars

RevokeDecision ==
    /\ EnvRevokes
    /\ ReviewDecision \notin decisionRevocations
    /\ RevokeTokensForDecision(ReviewDecision)
    /\ UNCHANGED reviewVars

ClosureStep(s) ==
    \/ Commit(s)
    \/ LogPartial(s) \/ LogReject(s) \/ LogDeny(s)
    \/ CheckAction(s) \/ AppendAction(s)
    \/ CheckTerminal(s) \/ AppendTerminal(s)
    \/ RegisterToken(s)
    \/ CheckEvidence(s) \/ AppendEvidence(s)
    \/ IssuePack(s) \/ StorePack(s) \/ StoreRecord(s)

Start(s) ==
    \/ \E a \in Reviewers : StartApprove(s, a) \/ StartReject(s, a)
    \/ \E a \in BreakGlassActors : StartOverride(s, a)

Next ==
    \/ \E s \in Slots : Start(s) \/ ClosureStep(s) \/ Fail(s)
    \/ Tick \/ ExpireTokens \/ RevokeDecision

Spec == Init /\ [][Next]_vars

\* The server runs every handler it started to its end, and each operator keeps
\* retrying the route of the decision: approve by every reviewer, override by
\* every break-glass actor.
FairSpec ==
    /\ Spec
    /\ \A s \in Slots : WF_vars(ClosureStep(s))
    /\ \A s \in Slots, a \in Reviewers : SF_vars(StartApprove(s, a))
    /\ \A s \in Slots, a \in BreakGlassActors : SF_vars(StartOverride(s, a))

-----------------------------------------------------------------------------
Phases == {"approve", "reject", "override", "terminal-accept", "terminal-deny", "evidence-pack"}

\* The stores and the handlers hold values of their types, and a handler that
\* works on the closure has an accepting record in hand.
TypeOK ==
    /\ RTypeOK
    /\ now \in Times
    /\ record.authorityState \in {"pending", "approved", "rejected", "overridden"}
    /\ record.terminalAt \in Times
    /\ record.closed \in BOOLEAN
    /\ \A i \in DOMAIN log : log[i] \in Phases
    /\ \A s \in Slots :
          handler[s].pc \notin {"idle", "commit", "logPartial", "logReject", "logDeny"} =>
              handler[s].rec.authorityState \in Accepting

\* A release token exists only under the authority that was really given: the
\* approval token only when enough distinct reviewers approved and none rejected,
\* the break-glass token only when the review was overridden; so never both, and
\* none for a rejected review, however stale the record a handler started from.
TokenNeedsAuthority ==
    /\ status["approved"] # "none" =>
          /\ record.authorityState = "approved"
          /\ Outcomes(record, "rejected") = {}
          /\ Cardinality({record.reviewerDecisions[i].reviewer : i \in Outcomes(record, "approved")})
                >= MinReviewers
    /\ status["overridden"] # "none" => record.authorityState = "overridden"

\* A closed record is backed by the other stores: its token is registered as of
\* the terminal decision, its evidence pack is stored, and the log entries in the
\* pack contain the action, the terminal acceptance and the evidence entry.
ClosedIsBacked ==
    record.closed =>
        LET st == record.authorityState IN
        /\ st \in Accepting
        /\ issuance[st] = ClosureIssuance(st, record.terminalAt)
        /\ packs[st] # <<>>
        /\ \A phase \in {ActionPhase(st), "terminal-accept", "evidence-pack"} :
              \E i \in DOMAIN packs[st][1] : packs[st][1][i] = phase

\* What a step may do to the review and its pack.
ReviewStep ==
    /\ Len(record.reviewerDecisions) <= Len(record'.reviewerDecisions)
    /\ SubSeq(record'.reviewerDecisions, 1, Len(record.reviewerDecisions))
          = record.reviewerDecisions
    /\ Len(record'.reviewerDecisions) > Len(record.reviewerDecisions) =>
          record.authorityState = "pending"
    /\ record.authorityState # "pending" => record'.authorityState = record.authorityState
    /\ record.closed => record' = record
    /\ \A st \in Accepting : packs[st] # <<>> => packs'[st] = packs[st]

\* No handler, however stale, loses a reviewer's decision, reopens or changes a
\* terminal review, undoes its closure or rewrites a stored evidence pack.
ReviewHistoryKept == [][ReviewStep]_vars

\* An approved review is eventually closed, unless its decision expires first: a retry
\* repairs what a failed closure left behind (OPS-219).
ApprovalCloses ==
    (record.authorityState = "approved") ~> (record.closed \/ ~ Issuable(now))
=============================================================================
