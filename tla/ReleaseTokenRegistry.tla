------------------------ MODULE ReleaseTokenRegistry ------------------------
(***************************************************************************)
(* The release-token registry of the release kernel                        *)
(* (release-kernel/release-introspection.ts): the record of every issued   *)
(* release token, its lifecycle, its use count, and the decision-level     *)
(* revocations.  Both the in-memory and the file-backed store run each     *)
(* operation inside `mutate`, which applies it to a copy and installs the  *)
(* copy only when the operation returns, so every operation is one step.   *)
(* An operation that throws, or returns a refusal, leaves the state alone. *)
(***************************************************************************)
EXTENDS Naturals

CONSTANTS
    TokenIds,       \* identities of release tokens (the jti claim)
    Decisions,      \* identities of release decisions
    Issuances,      \* the tokens the issuer can hand to registerIssuedToken
    NoIssuance,     \* stands for "no record" in the registry
    MaxTime         \* bound on the timestamps callers supply

Times == 0 .. MaxTime

\* Of an issued token the registry's behaviour depends on these fields only.
\* Two issuances with one token id model a re-issue with different content.
IssuedToken ==
    [tokenId : TokenIds, decisionId : Decisions, maxUses : Nat \ {0}, expiresAt : Nat]

ASSUME IssuancesAssumption ==
    /\ Issuances \subseteq IssuedToken
    /\ NoIssuance \notin IssuedToken
    /\ MaxTime \in Nat

VARIABLES
    issuance,       \* issuance[t]: the content t was registered with, or NoIssuance
    status,         \* status[t]: "none" or the record's status
    useCount,       \* useCount[t]: accepted uses
    lastUsedAt,     \* lastUsedAt[t]: the timestamp of the last accepted use
    decisionRevocations     \* the decisions with a revocation record

rvars == <<issuance, status, useCount, lastUsedAt, decisionRevocations>>

Statuses == {"none", "issued", "revoked", "expired", "consumed"}

RInit ==
    /\ issuance   = [t \in TokenIds |-> NoIssuance]
    /\ status     = [t \in TokenIds |-> "none"]
    /\ useCount   = [t \in TokenIds |-> 0]
    /\ lastUsedAt = [t \in TokenIds |-> 0]
    /\ decisionRevocations = {}

Registered == {t \in TokenIds : status[t] # "none"}

-----------------------------------------------------------------------------
\* Mutant: the revocation check of insertRegisteredReleaseToken is dropped.
CanInsert_NoRevocationCheck(i) == status[i.tokenId] = "none"

\* Mutant: a record that is no longer issued is overwritten by a new registration.
CanInsert_OverwritesInactive(i) ==
    /\ i.decisionId \notin decisionRevocations
    /\ status[i.tokenId] # "issued"

\* insertRegisteredReleaseToken: only an unknown token id of an unrevoked
\* decision is inserted.
CanInsert(i) ==
    /\ i.decisionId \notin decisionRevocations
    /\ status[i.tokenId] = "none"

\* assertRegistrationCanReplay: only an unused `issued` record with the same
\* content is answered with success (a use changes the compared record).
CanReplay(i) ==
    /\ i.decisionId \notin decisionRevocations
    /\ status[i.tokenId] = "issued"
    /\ issuance[i.tokenId] = i
    /\ useCount[i.tokenId] = 0

RegisterIssuedToken(i) ==
    \/ /\ CanInsert(i)
       /\ issuance' = [issuance EXCEPT ![i.tokenId] = i]
       /\ status'   = [status EXCEPT ![i.tokenId] = "issued"]
       /\ UNCHANGED <<useCount, lastUsedAt, decisionRevocations>>
    \/ /\ CanReplay(i)
       /\ UNCHANGED rvars

\* Mutant: revokeToken writes a record for a token id it does not know.
RevokeToken_Unknown(t) ==
    /\ status[t] # "revoked"
    /\ status' = [status EXCEPT ![t] = "revoked"]
    /\ UNCHANGED <<issuance, useCount, lastUsedAt, decisionRevocations>>

\* Any registered token can be revoked, a consumed or expired one as well; the
\* use count stays.  A revoked token stays as it is.
RevokeToken(t) ==
    /\ status[t] \notin {"none", "revoked"}
    /\ status' = [status EXCEPT ![t] = "revoked"]
    /\ UNCHANGED <<issuance, useCount, lastUsedAt, decisionRevocations>>

\* The revocation record is written first (once), then every token of the
\* decision that is still issued is revoked; inactive ones are only reported.
RevokeTokensForDecision(d) ==
    /\ decisionRevocations' = decisionRevocations \cup {d}
    /\ status' = [t \in TokenIds |->
                    IF status[t] = "issued" /\ issuance[t].decisionId = d
                        THEN "revoked" ELSE status[t]]
    /\ UNCHANGED <<issuance, useCount, lastUsedAt>>

\* Mutant: a token is still good at its expiry instant.
Overdue_Late(now) == {t \in TokenIds : status[t] = "issued" /\ issuance[t].expiresAt < now}

\* The issued tokens whose expiry is not after the caller's clock.
Overdue(now) == {t \in TokenIds : status[t] = "issued" /\ issuance[t].expiresAt <= now}

StatusAfterSync(now) ==
    [t \in TokenIds |-> IF t \in Overdue(now) THEN "expired" ELSE status[t]]

SyncLifecycle(now) ==
    /\ status' = StatusAfterSync(now)
    /\ UNCHANGED <<issuance, useCount, lastUsedAt, decisionRevocations>>

\* Mutant: recordTokenUse does not refuse a consumed token.
UseAccepted_Consumed(t, usedAt) ==
    /\ status[t] \in {"issued", "consumed"}
    /\ t \notin Overdue(usedAt)
    /\ issuance[t].decisionId \notin decisionRevocations
    /\ useCount[t] < 3

\* recordTokenUse accepts iff, after expiry has been applied at the caller's
\* clock, the record is issued and its decision is not revoked.
UseAccepted(t, usedAt) ==
    /\ status[t] = "issued"
    /\ t \notin Overdue(usedAt)
    /\ issuance[t].decisionId \notin decisionRevocations

\* Mutant: the budget is compared with the count before this use.
StatusAfterUse_OffByOne(t) ==
    IF useCount[t] >= issuance[t].maxUses THEN "consumed" ELSE "issued"

\* consumeRegisteredReleaseToken
StatusAfterUse(t) ==
    IF useCount[t] + 1 >= issuance[t].maxUses THEN "consumed" ELSE "issued"

RecordTokenUse(t, usedAt) ==
    /\ IF UseAccepted(t, usedAt)
         THEN /\ status' = [StatusAfterSync(usedAt) EXCEPT ![t] = StatusAfterUse(t)]
              /\ useCount' = [useCount EXCEPT ![t] = @ + 1]
              /\ lastUsedAt' = [lastUsedAt EXCEPT ![t] = usedAt]
         ELSE /\ status' = StatusAfterSync(usedAt)
              /\ UNCHANGED <<useCount, lastUsedAt>>
    /\ UNCHANGED <<issuance, decisionRevocations>>

-----------------------------------------------------------------------------
RNext ==
    \/ \E i \in Issuances : RegisterIssuedToken(i)
    \/ \E t \in TokenIds : RevokeToken(t)
    \/ \E d \in Decisions : RevokeTokensForDecision(d)
    \/ \E now \in Times : SyncLifecycle(now)
    \/ \E t \in TokenIds, usedAt \in Times : RecordTokenUse(t, usedAt)

RSpec == RInit /\ [][RNext]_rvars

-----------------------------------------------------------------------------
\* Every variable has its type, and a record exists exactly where a content is.
RTypeOK ==
    /\ issuance   \in [TokenIds -> Issuances \cup {NoIssuance}]
    /\ status     \in [TokenIds -> Statuses]
    /\ useCount   \in [TokenIds -> Nat]
    /\ lastUsedAt \in [TokenIds -> Times]
    /\ decisionRevocations \subseteq Decisions
    /\ \A t \in TokenIds :
          /\ status[t] # "none" => issuance[t] \in Issuances /\ issuance[t].tokenId = t
          /\ status[t] = "none" => issuance[t] = NoIssuance /\ useCount[t] = 0

\* No history of registrations, uses, expiries and revocations lets a token be
\* used more often than its maxUses, an issued token always has a use left, and
\* `consumed` means exactly that the budget is spent (recordTokenUse).
UseBudget ==
    \A t \in Registered :
        /\ useCount[t] <= issuance[t].maxUses
        /\ status[t] = "issued" => useCount[t] < issuance[t].maxUses
        /\ status[t] = "consumed" => useCount[t] = issuance[t].maxUses

\* Once a decision is revoked no token of it is issued: neither the ones that
\* were there (revokeTokensForDecision) nor one registered later
\* (insertRegisteredReleaseToken) is live.
RevokedDecisionHasNoLiveToken ==
    \A t \in Registered : issuance[t].decisionId \in decisionRevocations => status[t] # "issued"

\* No accepted use carries a timestamp at or past the token's expiry.
UsedBeforeExpiry ==
    \A t \in Registered : useCount[t] > 0 => lastUsedAt[t] < issuance[t].expiresAt

\* What one step may do to a record.
LifecycleStep ==
    /\ decisionRevocations \subseteq decisionRevocations'
    /\ \A t \in TokenIds :
          /\ status[t] \notin {"none", "issued"} => status'[t] \in {status[t], "revoked"}
          /\ status[t] # "none" => status'[t] # "none" /\ issuance'[t] = issuance[t]
          /\ useCount'[t] # useCount[t] =>
                /\ status[t] = "issued"
                /\ useCount'[t] = useCount[t] + 1
                /\ issuance[t].decisionId \notin decisionRevocations

\* The lifecycle only moves forward: a token id that left `issued` never comes
\* back to it, whatever is registered again; its content never changes; uses are
\* never taken back, and none is recorded for a token that is not issued or whose
\* decision is revoked; a revocation, of a token or of a decision, is final.
LifecycleFinality == [][LifecycleStep]_rvars

-----------------------------------------------------------------------------
\* The registry seen as bounded authorities.
PhaseOf(s) == CASE s = "none"   -> "unopened"
                [] s = "issued" -> "live"
                [] OTHER        -> "closed"

Authority == INSTANCE BoundedAuthority WITH
    Authorities <- TokenIds,
    phase <- [t \in TokenIds |-> PhaseOf(status[t])],
    limit <- [t \in TokenIds |-> IF status[t] = "none" THEN 0 ELSE issuance[t].maxUses],
    uses  <- useCount

\* Every registry behaviour is one of bounded authorities: opened once, used at
\* most maxUses times, never used or reopened after revocation or expiry.
ImplementsBoundedAuthority == Authority!ASpec
=============================================================================
