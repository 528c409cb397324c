--------------------- MODULE ReleaseVerificationProofs ---------------------
(***************************************************************************)
(* Proofs about the release-token registry and the verifiers that use it,  *)
(* for every set of tokens, decisions and issuances.  The registry keeps   *)
(* its use budget, honours revocations and expiry, only moves forward, and *)
(* implements BoundedAuthority.  The verifiers, with any number of         *)
(* concurrent requests, give valid verdicts only about registered,         *)
(* unexpired decisions, never about a token that was revoked before it was *)
(* presented, and together within the token's budget.                      *)
(***************************************************************************)
EXTENDS ReleaseVerification, TLAPS

-----------------------------------------------------------------------------
\* The registry (ReleaseTokenRegistry).

\* The inductive invariant of the registry: the three safety properties together, on top of the
\* type invariant, which ties a record's existence to its content.
RInv ==
    /\ RTypeOK
    /\ UseBudget
    /\ RevokedDecisionHasNoLiveToken
    /\ UsedBeforeExpiry

\* Every registered content is an issued token with a positive use budget.
LEMMA IssuanceShape ==
    ASSUME NEW i \in Issuances
    PROVE  /\ i.tokenId \in TokenIds
           /\ i.decisionId \in Decisions
           /\ i.maxUses \in Nat
           /\ i.maxUses > 0
           /\ i.expiresAt \in Nat
  BY IssuancesAssumption DEF IssuedToken

\* The empty registry satisfies the invariant.
LEMMA RInvInit == RInit => RInv
  BY IssuancesAssumption
  DEF RInit, RInv, RTypeOK, UseBudget, RevokedDecisionHasNoLiveToken,
      UsedBeforeExpiry, Registered, Statuses, Times

\* registerIssuedToken keeps the invariant: the new record is unused, within
\* budget, and of a decision that is not revoked.
LEMMA RegisterKeepsRInv ==
    ASSUME RInv, NEW i \in Issuances, RegisterIssuedToken(i)
    PROVE  RInv'
<1>1. CASE UNCHANGED rvars
  BY <1>1 DEF RInv, RTypeOK, UseBudget, RevokedDecisionHasNoLiveToken,
      UsedBeforeExpiry, Registered, rvars
<1>2. CASE ~ UNCHANGED rvars
  <2>1. /\ CanInsert(i)
        /\ issuance' = [issuance EXCEPT ![i.tokenId] = i]
        /\ status' = [status EXCEPT ![i.tokenId] = "issued"]
        /\ UNCHANGED <<useCount, lastUsedAt, decisionRevocations>>
    BY <1>2 DEF RegisterIssuedToken
  <2>2. RTypeOK'
    BY <2>1, IssuanceShape DEF RInv, RTypeOK, CanInsert, Statuses
  <2>3. UseBudget'
    BY <2>1, IssuanceShape DEF RInv, RTypeOK, UseBudget, CanInsert, Registered
  <2>4. RevokedDecisionHasNoLiveToken'
    BY <2>1, IssuanceShape
    DEF RInv, RTypeOK, RevokedDecisionHasNoLiveToken, CanInsert, Registered
  <2>5. UsedBeforeExpiry'
    BY <2>1, IssuanceShape DEF RInv, RTypeOK, UsedBeforeExpiry, CanInsert, Registered
  <2> QED BY <2>2, <2>3, <2>4, <2>5 DEF RInv
<1> QED BY <1>1, <1>2

\* revokeToken keeps the invariant.
LEMMA RevokeTokenKeepsRInv ==
    ASSUME RInv, NEW t \in TokenIds, RevokeToken(t)
    PROVE  RInv'
<1>1. RTypeOK'
  BY DEF RInv, RTypeOK, RevokeToken, Statuses
<1>2. UseBudget'
  BY IssuanceShape DEF RInv, RTypeOK, UseBudget, RevokeToken, Registered
<1>3. RevokedDecisionHasNoLiveToken'
  BY DEF RInv, RTypeOK, RevokedDecisionHasNoLiveToken, RevokeToken, Registered
<1>4. UsedBeforeExpiry'
  BY DEF RInv, RTypeOK, UsedBeforeExpiry, RevokeToken, Registered
<1> QED BY <1>1, <1>2, <1>3, <1>4 DEF RInv

\* revokeTokensForDecision keeps the invariant: the decision becomes revoked and
\* its issued tokens leave `issued` in the same step.
LEMMA RevokeDecisionKeepsRInv ==
    ASSUME RInv, NEW d \in Decisions, RevokeTokensForDecision(d)
    PROVE  RInv'
<1>1. RTypeOK'
  BY DEF RInv, RTypeOK, RevokeTokensForDecision, Statuses
<1>2. UseBudget'
  BY IssuanceShape DEF RInv, RTypeOK, UseBudget, RevokeTokensForDecision, Registered
<1>3. RevokedDecisionHasNoLiveToken'
  BY DEF RInv, RTypeOK, RevokedDecisionHasNoLiveToken, RevokeTokensForDecision, Registered
<1>4. UsedBeforeExpiry'
  BY DEF RInv, RTypeOK, UsedBeforeExpiry, RevokeTokensForDecision, Registered
<1> QED BY <1>1, <1>2, <1>3, <1>4 DEF RInv

\* syncLifecycle keeps the invariant.
LEMMA SyncKeepsRInv ==
    ASSUME RInv, NEW at \in Times, SyncLifecycle(at)
    PROVE  RInv'
<1>1. RTypeOK'
  BY DEF RInv, RTypeOK, SyncLifecycle, StatusAfterSync, Overdue, Statuses
<1>2. UseBudget'
  BY IssuanceShape
  DEF RInv, RTypeOK, UseBudget, SyncLifecycle, StatusAfterSync, Overdue, Registered
<1>3. RevokedDecisionHasNoLiveToken'
  BY DEF RInv, RTypeOK, RevokedDecisionHasNoLiveToken, SyncLifecycle, StatusAfterSync,
         Overdue, Registered
<1>4. UsedBeforeExpiry'
  BY DEF RInv, RTypeOK, UsedBeforeExpiry, SyncLifecycle, StatusAfterSync, Overdue, Registered
<1> QED BY <1>1, <1>2, <1>3, <1>4 DEF RInv

\* recordTokenUse keeps the invariant, accepted or refused.
LEMMA RecordUseKeepsRInv ==
    ASSUME RInv, NEW t \in TokenIds, NEW usedAt \in Times, RecordTokenUse(t, usedAt)
    PROVE  RInv'
<1>1. CASE ~ UseAccepted(t, usedAt)
  <2>1. SyncLifecycle(usedAt)
    BY <1>1 DEF RecordTokenUse, SyncLifecycle
  <2> QED BY <2>1, SyncKeepsRInv
<1>2. CASE UseAccepted(t, usedAt)
  <2>1. /\ status' = [StatusAfterSync(usedAt) EXCEPT ![t] = StatusAfterUse(t)]
        /\ useCount' = [useCount EXCEPT ![t] = @ + 1]
        /\ lastUsedAt' = [lastUsedAt EXCEPT ![t] = usedAt]
        /\ UNCHANGED <<issuance, decisionRevocations>>
    BY <1>2 DEF RecordTokenUse
  <2>2. /\ status[t] = "issued"
        /\ issuance[t] \in Issuances
        /\ usedAt < issuance[t].expiresAt
        /\ issuance[t].decisionId \notin decisionRevocations
        /\ useCount[t] < issuance[t].maxUses
    BY <1>2, IssuanceShape, IssuancesAssumption
    DEF RInv, RTypeOK, UseBudget, UseAccepted, Overdue, Registered, Times
  <2>3. RTypeOK'
    BY <2>1, <2>2
    DEF RInv, RTypeOK, StatusAfterSync, StatusAfterUse, Overdue, Statuses
  <2>4. UseBudget'
    <3> SUFFICES ASSUME NEW u \in TokenIds, status'[u] # "none"
                 PROVE  /\ useCount'[u] <= issuance'[u].maxUses
                        /\ status'[u] = "issued" => useCount'[u] < issuance'[u].maxUses
                        /\ status'[u] = "consumed" => useCount'[u] = issuance'[u].maxUses
      BY DEF UseBudget, Registered
    <3>1. CASE u = t
      <4>1. status'[u] = StatusAfterUse(u) /\ useCount'[u] = useCount[u] + 1
            /\ issuance'[u] = issuance[u]
        BY <2>1, <3>1 DEF StatusAfterSync, RInv, RTypeOK
      <4>2. issuance[u].maxUses \in Nat /\ useCount[u] \in Nat /\ useCount[u] < issuance[u].maxUses
        BY <2>2, <3>1, IssuanceShape DEF RInv, RTypeOK
      <4> QED BY <4>1, <4>2 DEF StatusAfterUse
    <3>2. CASE u # t
      <4>1. status'[u] = StatusAfterSync(usedAt)[u] /\ useCount'[u] = useCount[u]
            /\ issuance'[u] = issuance[u]
        BY <2>1, <3>2 DEF StatusAfterSync, RInv, RTypeOK
      <4>2. status'[u] = status[u] \/ (status'[u] = "expired" /\ status[u] = "issued")
        BY <4>1 DEF StatusAfterSync, Overdue
      <4> QED BY <4>1, <4>2 DEF RInv, UseBudget, Registered
    <3> QED BY <3>1, <3>2
  <2>5. RevokedDecisionHasNoLiveToken'
    BY <2>1, <2>2
    DEF RInv, RTypeOK, RevokedDecisionHasNoLiveToken, StatusAfterSync, StatusAfterUse,
        Overdue, Registered
  <2>6. UsedBeforeExpiry'
    BY <2>1, <2>2
    DEF RInv, RTypeOK, UsedBeforeExpiry, StatusAfterSync, StatusAfterUse, Overdue, Registered
  <2> QED BY <2>3, <2>4, <2>5, <2>6 DEF RInv
<1> QED BY <1>1, <1>2

\* Every step of the registry keeps the invariant.
LEMMA RInvStep == RInv /\ [RNext]_rvars => RInv'
<1> SUFFICES ASSUME RInv, [RNext]_rvars PROVE RInv'
  OBVIOUS
<1>1. CASE UNCHANGED rvars
  BY <1>1 DEF RInv, RTypeOK, UseBudget, RevokedDecisionHasNoLiveToken,
      UsedBeforeExpiry, Registered, rvars
<1>2. ASSUME NEW i \in Issuances, RegisterIssuedToken(i) PROVE RInv'
  BY <1>2, RegisterKeepsRInv
<1>3. ASSUME NEW t \in TokenIds, RevokeToken(t) PROVE RInv'
  BY <1>3, RevokeTokenKeepsRInv
<1>4. ASSUME NEW d \in Decisions, RevokeTokensForDecision(d) PROVE RInv'
  BY <1>4, RevokeDecisionKeepsRInv
<1>5. ASSUME NEW at \in Times, SyncLifecycle(at) PROVE RInv'
  BY <1>5, SyncKeepsRInv
<1>6. ASSUME NEW t \in TokenIds, NEW usedAt \in Times, RecordTokenUse(t, usedAt) PROVE RInv'
  BY <1>6, RecordUseKeepsRInv
<1> QED BY <1>1, <1>2, <1>3, <1>4, <1>5, <1>6 DEF RNext

\* The invariant holds in every reachable state of the registry.
THEOREM RegistryInvariant == RSpec => []RInv
  BY RInvInit, RInvStep, PTL DEF RSpec

\* The registry's state is always well typed.
THEOREM RegistryTypeCorrect == RSpec => []RTypeOK
<1>1. RInv => RTypeOK BY DEF RInv
<1> QED BY <1>1, RegistryInvariant, PTL

\* No token is ever used more often than its decision allows (recordTokenUse).
THEOREM RegistryUseBudget == RSpec => []UseBudget
<1>1. RInv => UseBudget BY DEF RInv
<1> QED BY <1>1, RegistryInvariant, PTL

\* A revoked decision has no live token, ever (revokeTokensForDecision against
\* registerIssuedToken).
THEOREM RegistryRevocation == RSpec => []RevokedDecisionHasNoLiveToken
<1>1. RInv => RevokedDecisionHasNoLiveToken BY DEF RInv
<1> QED BY <1>1, RegistryInvariant, PTL

\* No accepted use is dated at or past the token's expiry.
THEOREM RegistryExpiry == RSpec => []UsedBeforeExpiry
<1>1. RInv => UsedBeforeExpiry BY DEF RInv
<1> QED BY <1>1, RegistryInvariant, PTL

-----------------------------------------------------------------------------
\* Every step moves each record's lifecycle forward only.
LEMMA LifecycleStepHolds == RInv /\ [RNext]_rvars => [LifecycleStep]_rvars
<1> SUFFICES ASSUME RInv, RNext PROVE LifecycleStep
  OBVIOUS
<1>1. ASSUME NEW i \in Issuances, RegisterIssuedToken(i) PROVE LifecycleStep
  BY <1>1, IssuanceShape
  DEF RegisterIssuedToken, CanInsert, LifecycleStep, RInv, RTypeOK, rvars
<1>2. ASSUME NEW t \in TokenIds, RevokeToken(t) PROVE LifecycleStep
  BY <1>2 DEF RevokeToken, LifecycleStep, RInv, RTypeOK
<1>3. ASSUME NEW d \in Decisions, RevokeTokensForDecision(d) PROVE LifecycleStep
  BY <1>3 DEF RevokeTokensForDecision, LifecycleStep, RInv, RTypeOK
<1>4. ASSUME NEW at \in Times, SyncLifecycle(at) PROVE LifecycleStep
  BY <1>4 DEF SyncLifecycle, StatusAfterSync, Overdue, LifecycleStep, RInv, RTypeOK
<1>5. ASSUME NEW t \in TokenIds, NEW usedAt \in Times, RecordTokenUse(t, usedAt)
      PROVE LifecycleStep
  <2>1. \A u \in TokenIds : status[u] # "issued" => status'[u] = status[u]
    <3>1. ASSUME NEW u \in TokenIds, status[u] # "issued"
          PROVE  StatusAfterSync(usedAt)[u] = status[u]
      BY <3>1 DEF StatusAfterSync, Overdue
    <3>2. UseAccepted(t, usedAt) => status[t] = "issued"
      BY DEF UseAccepted
    <3>3. \A u \in TokenIds : status'[u] = StatusAfterSync(usedAt)[u]
                               \/ (UseAccepted(t, usedAt) /\ u = t)
      BY <1>5 DEF RecordTokenUse, StatusAfterSync
    <3> QED BY <3>1, <3>2, <3>3
  <2>2. \A u \in TokenIds : status[u] = "issued" => status'[u] # "none"
    BY <1>5 DEF RecordTokenUse, StatusAfterSync, StatusAfterUse, RInv, RTypeOK
  <2>3. \A u \in TokenIds : useCount'[u] # useCount[u] =>
            u = t /\ UseAccepted(t, usedAt) /\ useCount'[u] = useCount[u] + 1
    BY <1>5 DEF RecordTokenUse, RInv, RTypeOK
  <2>4. UNCHANGED <<issuance, decisionRevocations>>
    BY <1>5 DEF RecordTokenUse
  <2> QED BY <2>1, <2>2, <2>3, <2>4 DEF LifecycleStep, UseAccepted
<1> QED BY <1>1, <1>2, <1>3, <1>4, <1>5 DEF RNext

\* A token that left `issued` never returns to it, uses are never taken back, and
\* revocations are final, in every behaviour of the registry.
THEOREM RegistryLifecycleFinality == RSpec => LifecycleFinality
  BY RegistryInvariant, LifecycleStepHolds, PTL DEF RSpec, LifecycleFinality

-----------------------------------------------------------------------------
\* The registry implements BoundedAuthority: the empty registry is an initial
\* state of it.
LEMMA AuthorityInit == RInit => Authority!AInit
  BY DEF RInit, Authority!AInit, PhaseOf

\* Every registry step opens, closes or uses authorities, or changes nothing they see.
LEMMA AuthorityStep ==
    RInv /\ [RNext]_rvars => [Authority!ANext]_(Authority!avars)
<1> SUFFICES ASSUME RInv, [RNext]_rvars
             PROVE  Authority!ANext \/ UNCHANGED Authority!avars
  OBVIOUS
<1>1. ASSUME NEW i \in Issuances, RegisterIssuedToken(i)
      PROVE  Authority!ANext \/ UNCHANGED Authority!avars
  <2>1. CASE CanInsert(i) /\ ~ UNCHANGED rvars
    <3> DEFINE lim  == [u \in TokenIds |-> IF status[u] = "none" THEN 0 ELSE issuance[u].maxUses]
               limN == [u \in TokenIds |-> IF status'[u] = "none" THEN 0 ELSE issuance'[u].maxUses]
    <3>1. /\ i.tokenId \in TokenIds
          /\ status[i.tokenId] = "none"
          /\ issuance' = [issuance EXCEPT ![i.tokenId] = i]
          /\ status' = [status EXCEPT ![i.tokenId] = "issued"]
          /\ useCount' = useCount
      BY <1>1, <2>1, IssuanceShape DEF RegisterIssuedToken, CanInsert
    <3>2. /\ [u \in TokenIds |-> PhaseOf(status[u])][i.tokenId] = "unopened"
          /\ [u \in TokenIds |-> PhaseOf(status'[u])]
               = [[u \in TokenIds |-> PhaseOf(status[u])] EXCEPT ![i.tokenId] = "live"]
      BY <3>1 DEF PhaseOf, RInv, RTypeOK
    <3>3. limN[i.tokenId] \in Nat \ {0}
      BY <3>1, IssuanceShape DEF RInv, RTypeOK
    <3>4. limN = [lim EXCEPT ![i.tokenId] = limN[i.tokenId]]
      BY <3>1 DEF RInv, RTypeOK
    <3>5. Authority!Open(i.tokenId)
      BY <3>1, <3>2, <3>3, <3>4 DEF Authority!Open
    <3> QED BY <3>1, <3>5 DEF Authority!ANext
  <2>2. CASE UNCHANGED rvars
    BY <2>2 DEF rvars, Authority!avars
  <2> QED BY <1>1, <2>1, <2>2 DEF RegisterIssuedToken
<1>2. ASSUME NEW t \in TokenIds, RevokeToken(t)
      PROVE  Authority!ANext \/ UNCHANGED Authority!avars
  <2>1. Authority!Close({u \in {t} : status[u] = "issued"})
    BY <1>2 DEF RevokeToken, Authority!Close, PhaseOf, RInv, RTypeOK, Statuses
  <2> QED BY <2>1 DEF Authority!ANext
<1>3. ASSUME NEW d \in Decisions, RevokeTokensForDecision(d)
      PROVE  Authority!ANext \/ UNCHANGED Authority!avars
  <2>1. Authority!Close({u \in TokenIds : status[u] = "issued" /\ issuance[u].decisionId = d})
    BY <1>3 DEF RevokeTokensForDecision, Authority!Close, PhaseOf, RInv, RTypeOK, Statuses
  <2> QED BY <2>1 DEF Authority!ANext
<1>4. ASSUME NEW at \in Times, SyncLifecycle(at)
      PROVE  Authority!ANext \/ UNCHANGED Authority!avars
  <2>1. Authority!Close(Overdue(at))
    BY <1>4
    DEF SyncLifecycle, StatusAfterSync, Overdue, Authority!Close, PhaseOf, RInv, RTypeOK, Statuses
  <2> QED BY <2>1 DEF Authority!ANext, Overdue
<1>5. ASSUME NEW t \in TokenIds, NEW usedAt \in Times, RecordTokenUse(t, usedAt)
      PROVE  Authority!ANext \/ UNCHANGED Authority!avars
  <2>1. CASE ~ UseAccepted(t, usedAt)
    <3>1. SyncLifecycle(usedAt)
      BY <1>5, <2>1 DEF RecordTokenUse, SyncLifecycle
    <3> QED BY <1>4, <3>1
  <2>2. CASE UseAccepted(t, usedAt)
    <3> DEFINE S == Overdue(usedAt)
    <3>1. /\ status' = [StatusAfterSync(usedAt) EXCEPT ![t] = StatusAfterUse(t)]
          /\ useCount' = [useCount EXCEPT ![t] = @ + 1]
          /\ issuance' = issuance
      BY <1>5, <2>2 DEF RecordTokenUse
    <3>2. /\ status[t] = "issued"
          /\ t \notin S
          /\ S \in SUBSET TokenIds
          /\ \A u \in S : status[u] = "issued"
          /\ issuance[t].maxUses \in Nat
          /\ useCount[t] \in Nat
          /\ useCount[t] < issuance[t].maxUses
      BY <2>2, IssuanceShape DEF UseAccepted, Overdue, RInv, RTypeOK, UseBudget, Registered
    <3>3. \A u \in TokenIds : status'[u] = IF u \in S THEN "expired"
                                ELSE IF u = t THEN StatusAfterUse(t) ELSE status[u]
      BY <3>1, <3>2 DEF StatusAfterSync, RInv, RTypeOK
    <3>4. StatusAfterUse(t) = IF useCount[t] + 1 = issuance[t].maxUses THEN "consumed" ELSE "issued"
      BY <3>2 DEF StatusAfterUse
    <3>5. \A u \in TokenIds : PhaseOf(status'[u]) =
              IF u \in S \/ (u = t /\ useCount[t] + 1 = issuance[t].maxUses)
                  THEN "closed" ELSE PhaseOf(status[u])
      BY <3>2, <3>3, <3>4 DEF PhaseOf
    <3>6. \A u \in TokenIds : status'[u] = "none" <=> status[u] = "none"
      BY <3>2, <3>3, <3>4
    <3>7. Authority!Use(t, S)
      <4>1. /\ \A u \in S : [v \in TokenIds |-> PhaseOf(status[v])][u] = "live"
            /\ [v \in TokenIds |-> PhaseOf(status[v])][t] = "live"
        BY <3>2 DEF PhaseOf
      <4>2. useCount[t] < [v \in TokenIds |->
                              IF status[v] = "none" THEN 0 ELSE issuance[v].maxUses][t]
        BY <3>2
      <4>3. [v \in TokenIds |-> IF status'[v] = "none" THEN 0 ELSE issuance'[v].maxUses]
              = [v \in TokenIds |-> IF status[v] = "none" THEN 0 ELSE issuance[v].maxUses]
        BY <3>1, <3>6
      <4> QED BY <3>1, <3>2, <3>5, <4>1, <4>2, <4>3 DEF Authority!Use
    <3> QED BY <3>2, <3>7 DEF Authority!ANext
  <2> QED BY <2>1, <2>2
<1>6. CASE UNCHANGED rvars
  BY <1>6 DEF rvars, Authority!avars
<1> QED BY <1>1, <1>2, <1>3, <1>4, <1>5, <1>6 DEF RNext

\* The kernel registry implements the abstract bounded authority.
THEOREM RegistryImplementsBoundedAuthority == RSpec => ImplementsBoundedAuthority
  BY RegistryInvariant, AuthorityInit, AuthorityStep, PTL
  DEF RSpec, ImplementsBoundedAuthority, Authority!ASpec

-----------------------------------------------------------------------------
\* The verifiers (ReleaseVerification).

\* What an introspection has established once the record was found.
Found(q) ==
    /\ issuance[q.token.tokenId] # NoIssuance
    /\ issuance[q.token.tokenId].decisionId = q.token.decisionId
    /\ q.checkedAt < issuance[q.token.tokenId].expiresAt
    /\ ~ q.late

\* What holds of a request between its awaits, whatever others do meanwhile: it
\* started before now and before its token expired; if the token was revoked
\* then, it still is; once expiry was applied, only a record that outlives the
\* request's start is issued; and what the introspection found stays true.
RequestInv(q) ==
    q.pc # "none" =>
        /\ q.checkedAt <= now
        /\ q.checkedAt < q.token.expiresAt
        /\ q.late => Revoked(q.token)
        /\ q.pc = "find" /\ status[q.token.tokenId] = "issued" =>
              q.checkedAt < issuance[q.token.tokenId].expiresAt
        /\ q.pc \in {"findRevocation", "use", "valid"} /\ q.online => Found(q)

\* The inductive invariant of the verifiers: consuming verdicts are exactly the recorded uses.
VInv ==
    /\ RInv
    /\ TypeOK
    /\ verdicts = useCount
    /\ \A r \in Requests : RequestInv(req[r])

\* A request under way is a verification of an issuable token.
LEMMA RequestShape ==
    ASSUME TypeOK, NEW r \in Requests, req[r].pc # "none"
    PROVE  /\ req[r] \in Verification
           /\ req[r].token \in Issuances
           /\ req[r].token.tokenId \in TokenIds
           /\ req[r].token.decisionId \in Decisions
           /\ req[r].token.expiresAt \in Nat
           /\ req[r].checkedAt \in Times
<1>1. req[r] \in Verification
  BY DEF TypeOK, NoVerdict
<1>2. req[r].token \in Issuances /\ req[r].checkedAt \in Times
  BY <1>1 DEF Verification
<1> QED BY <1>1, <1>2, IssuanceShape

\* The time a request hands to the registry is a time, and not before its start.
LEMMA AtShape ==
    ASSUME TypeOK, NEW r \in Requests, req[r].pc # "none"
    PROVE  /\ At(r) \in Times
           /\ RequestInv(req[r]) => req[r].checkedAt <= At(r)
  BY RequestShape DEF TypeOK, At, RequestInv, Times

\* Every step of the verifiers and their environment is, for the registry, one of
\* its own operations or none.
LEMMA RegistryPart == VInv /\ [Next]_vars => [RNext]_rvars
<1> SUFFICES ASSUME VInv, [Next]_vars PROVE [RNext]_rvars
  OBVIOUS
<1>0. TypeOK /\ now \in Times
  BY DEF VInv, TypeOK
<1>1. CASE UNCHANGED vars
  BY <1>1 DEF vars, rvars
<1>2. ASSUME NEW r \in Requests,
             \/ \E i \in Issuances, v \in Verifiers, consume, online \in BOOLEAN :
                   Present(r, i, v, consume, online)
             \/ FindToken(r) \/ FindDecisionRevocation(r) \/ Unavailable(r)
      PROVE  UNCHANGED rvars
  BY <1>2 DEF Present, FindToken, FindDecisionRevocation, Unavailable, rvars
<1>3. ASSUME NEW r \in Requests, Sync(r) PROVE RNext
  BY <1>0, <1>3, AtShape DEF Sync, RNext
<1>4. ASSUME NEW r \in Requests, UseToken(r) PROVE RNext
  <2>1. req[r].token.tokenId \in TokenIds /\ At(r) \in Times
    BY <1>0, <1>4, RequestShape, AtShape DEF UseToken
  <2>2. RecordTokenUse(req[r].token.tokenId, At(r))
    BY <1>4 DEF UseToken
  <2> QED BY <2>1, <2>2 DEF RNext
<1>5. ASSUME NEW i \in Issuances, Issue(i) PROVE RNext
  BY <1>5 DEF Issue, RNext
<1>6. ASSUME NEW t \in TokenIds, Revoke(t) PROVE RNext
  BY <1>6 DEF Revoke, RNext
<1>7. ASSUME NEW d \in Decisions, RevokeAll(d) PROVE RNext
  BY <1>7 DEF RevokeAll, RNext
<1>8. CASE Tick
  BY <1>8 DEF Tick, rvars
<1> QED BY <1>1, <1>2, <1>3, <1>4, <1>5, <1>6, <1>7, <1>8 DEF Next

\* A token that becomes issued in a step expires in the future (Issue); every
\* other step leaves no token issued that was not.
LEMMA NewlyIssued ==
    ASSUME VInv, [Next]_vars, NEW t \in TokenIds, status'[t] = "issued"
    PROVE  \/ status[t] = "issued" /\ issuance'[t] = issuance[t]
           \/ issuance'[t].expiresAt > now
<1>0. RTypeOK /\ TypeOK
  BY DEF VInv, RInv
<1>1. ASSUME NEW i \in Issuances, Issue(i) PROVE \/ status[t] = "issued" /\ issuance'[t] = issuance[t]
                                                 \/ issuance'[t].expiresAt > now
  BY <1>0, <1>1, IssuanceShape DEF Issue, RegisterIssuedToken, RTypeOK, rvars
<1>2. ASSUME NEW u \in TokenIds, Revoke(u) PROVE status[t] = "issued" /\ issuance'[t] = issuance[t]
  BY <1>0, <1>2 DEF Revoke, RevokeToken, RTypeOK
<1>3. ASSUME NEW d \in Decisions, RevokeAll(d) PROVE status[t] = "issued" /\ issuance'[t] = issuance[t]
  BY <1>0, <1>3 DEF RevokeAll, RevokeTokensForDecision, RTypeOK
<1>4. ASSUME NEW at \in Times, SyncLifecycle(at) PROVE status[t] = "issued" /\ issuance'[t] = issuance[t]
  BY <1>0, <1>4 DEF SyncLifecycle, StatusAfterSync, RTypeOK
<1>5. ASSUME NEW u \in TokenIds, NEW at \in Times, RecordTokenUse(u, at)
      PROVE  status[t] = "issued" /\ issuance'[t] = issuance[t]
  BY <1>0, <1>5 DEF RecordTokenUse, UseAccepted, StatusAfterSync, RTypeOK
<1>6. ASSUME NEW r \in Requests, Sync(r) \/ UseToken(r)
      PROVE  status[t] = "issued" /\ issuance'[t] = issuance[t]
  <2>1. CASE Sync(r)
    <3>1. At(r) \in Times
      BY <1>0, <2>1, AtShape DEF Sync
    <3> QED BY <1>4, <2>1, <3>1 DEF Sync
  <2>2. CASE UseToken(r)
    <3>1. req[r].token.tokenId \in TokenIds /\ At(r) \in Times
      BY <1>0, <2>2, RequestShape, AtShape DEF UseToken
    <3> QED BY <1>5, <2>2, <3>1 DEF UseToken
  <2> QED BY <1>6, <2>1, <2>2
<1>7. CASE UNCHANGED rvars
  BY <1>7 DEF rvars
<1>8. ASSUME NEW r \in Requests,
             \/ \E i \in Issuances, v \in Verifiers, consume, online \in BOOLEAN :
                   Present(r, i, v, consume, online)
             \/ FindToken(r) \/ FindDecisionRevocation(r) \/ Unavailable(r)
      PROVE  UNCHANGED rvars
  BY <1>8 DEF Present, FindToken, FindDecisionRevocation, Unavailable, rvars
<1>9. (Tick \/ UNCHANGED vars) => UNCHANGED rvars
  BY DEF Tick, vars, rvars
<1> QED BY <1>1, <1>2, <1>3, <1>6, <1>7, <1>8, <1>9 DEF Next

\* Whatever happened to the registry in a step, content and revocations stay.
LEMMA RegistryForward ==
    ASSUME VInv, [Next]_vars
    PROVE  /\ \A t \in TokenIds : status[t] # "none" => issuance'[t] = issuance[t]
           /\ \A t \in TokenIds : status[t] = "revoked" => status'[t] = "revoked"
           /\ decisionRevocations \subseteq decisionRevocations'
           /\ RInv'
<1>1. RInv /\ [RNext]_rvars
  BY RegistryPart DEF VInv
<1>2. [LifecycleStep]_rvars /\ RInv'
  BY <1>1, LifecycleStepHolds, RInvStep
<1>3. CASE UNCHANGED rvars
  BY <1>2, <1>3 DEF rvars
<1>4. CASE LifecycleStep
  BY <1>2, <1>4 DEF LifecycleStep
<1> QED BY <1>2, <1>3, <1>4

\* Time does not run backwards.
LEMMA ClockForward ==
    ASSUME VInv, [Next]_vars
    PROVE  now \in Times /\ now' \in Times /\ now <= now'
<1>1. now \in Times /\ MaxTime \in Nat
  BY IssuancesAssumption DEF VInv, TypeOK
<1>2. CASE Tick
  BY <1>1, <1>2 DEF Tick, Times
<1>3. CASE UNCHANGED now
  BY <1>1, <1>3 DEF Times
<1>4. Next => Tick \/ UNCHANGED now
  BY DEF Next, Present, Sync, FindToken, FindDecisionRevocation, UseToken, Unavailable,
         Issue, Revoke, RevokeAll, vvars
<1> QED BY <1>2, <1>3, <1>4 DEF vars, vvars

\* What a request knows of its own age and of an earlier revocation outlives
\* every step, its own included.
LEMMA RequestAges ==
    ASSUME VInv, [Next]_vars, NEW r \in Requests, NEW q, req[r] = q, q.pc # "none"
    PROVE  /\ q.checkedAt <= now'
           /\ q.checkedAt < q.token.expiresAt
           /\ q.late => Revoked(q.token)'
<1>0. TypeOK /\ RequestInv(q)
  BY DEF VInv
<1>1. q.token.tokenId \in TokenIds /\ q.checkedAt \in Nat
  BY <1>0, RequestShape DEF Times
<1>2. q.checkedAt <= now'
  BY <1>0, <1>1, ClockForward DEF RequestInv, Times
<1>3. q.late => Revoked(q.token)'
  <2> SUFFICES ASSUME q.late PROVE Revoked(q.token)'
    OBVIOUS
  <2>1. status[q.token.tokenId] = "revoked" \/ q.token.decisionId \in decisionRevocations
    BY <1>0 DEF RequestInv, Revoked
  <2>2. status'[q.token.tokenId] = "revoked" \/ q.token.decisionId \in decisionRevocations'
    BY <1>1, <2>1, RegistryForward
  <2> QED BY <2>2 DEF Revoked
<1> QED BY <1>0, <1>2, <1>3 DEF RequestInv

\* What an introspection found stays true.
LEMMA FoundKept ==
    ASSUME VInv, [Next]_vars, NEW r \in Requests, NEW q, req[r] = q, q.pc # "none", Found(q)
    PROVE  Found(q)'
<1>1. TypeOK /\ RTypeOK /\ q.token.tokenId \in TokenIds
  BY RequestShape DEF VInv, RInv
<1>2. issuance'[q.token.tokenId] = issuance[q.token.tokenId]
  BY <1>1, RegistryForward DEF Found, RTypeOK
<1> QED BY <1>2 DEF Found

\* What holds of a request outlives the steps of others.
LEMMA RequestKept ==
    ASSUME VInv, [Next]_vars, NEW r \in Requests, req'[r] = req[r]
    PROVE  RequestInv(req[r])'
<1> PICK q : q = req[r]
  OBVIOUS
<1> DEFINE t == q.token.tokenId
<1> SUFFICES ASSUME q.pc # "none" PROVE RequestInv(q)'
  BY DEF RequestInv, Found, Revoked
<1>0. RequestInv(q) /\ TypeOK
  BY DEF VInv
<1>1. t \in TokenIds /\ q.checkedAt \in Nat
  BY <1>0, RequestShape DEF Times
<1>2. /\ q.checkedAt <= now'
      /\ q.checkedAt < q.token.expiresAt
      /\ q.late => Revoked(q.token)'
  BY RequestAges
<1>3. ASSUME q.pc = "find", status'[t] = "issued"
      PROVE  q.checkedAt < issuance'[t].expiresAt
  <2>1. CASE status[t] = "issued" /\ issuance'[t] = issuance[t]
    BY <1>0, <1>3, <2>1 DEF RequestInv
  <2>2. CASE issuance'[t].expiresAt > now
    <3>1. RTypeOK'
      BY RegistryForward DEF RInv
    <3>2. issuance'[t].expiresAt \in Nat
      BY <1>1, <1>3, <3>1, IssuanceShape DEF RTypeOK
    <3> QED BY <1>0, <1>1, <1>3, <2>2, <3>2, ClockForward DEF RequestInv, Times
  <2> QED BY <1>1, <1>3, <2>1, <2>2, NewlyIssued
<1>4. ASSUME q.pc \in {"findRevocation", "use", "valid"}, q.online
      PROVE  Found(q)'
  BY <1>0, <1>4, FoundKept DEF RequestInv
<1> QED BY <1>2, <1>3, <1>4 DEF RequestInv

\* A step that gives request r another state q, of its type and with its
\* invariant, and leaves the other requests alone, keeps the invariant.
LEMMA OneRequest ==
    ASSUME VInv, Next, NEW r \in Requests, NEW q,
           req' = [req EXCEPT ![r] = q],
           q \in Verification \cup {NoVerdict},
           q.pc = "use" => q.online \/ q.verifier = "kernel",
           RequestInv(q)',
           verdicts' = useCount'
    PROVE  VInv'
<1>1. RInv' /\ RTypeOK' /\ now' \in Times
  BY RegistryForward, ClockForward DEF RInv
<1>2. /\ req' \in [Requests -> Verification \cup {NoVerdict}]
      /\ req'[r] = q
      /\ \A s \in Requests : s # r => req'[s] = req[s]
  BY DEF VInv, TypeOK
<1>3. verdicts' \in [TokenIds -> Nat]
  BY <1>1 DEF RTypeOK
<1>4. TypeOK'
  BY <1>1, <1>2, <1>3 DEF TypeOK, VInv
<1>5. \A s \in Requests : RequestInv(req[s])'
  <2> SUFFICES ASSUME NEW s \in Requests PROVE RequestInv(req[s])'
    OBVIOUS
  <2>1. CASE s = r
    BY <1>2, <2>1 DEF RequestInv, Found, Revoked
  <2>2. CASE s # r
    BY <1>2, <2>2, RequestKept
  <2> QED BY <2>1, <2>2
<1> QED BY <1>1, <1>4, <1>5 DEF VInv

-----------------------------------------------------------------------------
\* The answers: a refused request promises nothing, a valid one what was found.
LEMMA RefusalKeeps ==
    ASSUME VInv, Next, NEW r \in Requests, Refuse(r), verdicts' = useCount'
    PROVE  VInv'
<1>1. RequestInv(NoVerdict)'
  BY DEF RequestInv, NoVerdict
<1>2. NoVerdict.pc # "use"
  BY DEF NoVerdict
<1> QED BY <1>1, <1>2, OneRequest DEF Refuse

\* A request that goes on from one await to the next; q is its state before.
LEMMA GotoKeeps ==
    ASSUME VInv, Next, NEW r \in Requests, NEW q,
           NEW pc \in {"find", "findRevocation", "use", "valid"},
           req[r] = q,
           q.pc # "none",
           Goto(r, pc),
           pc = "use" => q.online \/ q.verifier = "kernel",
           pc = "find" /\ status'[q.token.tokenId] = "issued" =>
               q.checkedAt < issuance'[q.token.tokenId].expiresAt,
           pc \in {"findRevocation", "use", "valid"} /\ q.online => Found(q)',
           verdicts' = useCount'
    PROVE  VInv'
<1>1. q \in Verification
  BY RequestShape DEF VInv
<1> PICK n : n = [q EXCEPT !.pc = pc]
  OBVIOUS
<1>2. /\ n \in Verification /\ n.pc = pc
      /\ n.online = q.online /\ n.verifier = q.verifier
      /\ n.token = q.token /\ n.checkedAt = q.checkedAt /\ n.late = q.late
  BY <1>1 DEF Verification
<1>3. req' = [req EXCEPT ![r] = n]
  BY DEF Goto
<1>4. /\ q.checkedAt <= now'
      /\ q.checkedAt < q.token.expiresAt
      /\ q.late => Revoked(q.token)'
  BY RequestAges DEF VInv
<1>5. RequestInv(n)'
  BY <1>2, <1>4 DEF RequestInv, Found, Revoked
<1> QED BY <1>2, <1>3, <1>5, OneRequest

\* Presenting a token keeps the invariant.
LEMMA PresentKeeps ==
    ASSUME VInv, Next, NEW r \in Requests, NEW i \in Issuances, NEW v \in Verifiers,
           NEW consume \in BOOLEAN, NEW online \in BOOLEAN,
           Present(r, i, v, consume, online)
    PROVE  VInv'
<1>0. /\ verdicts' = useCount'
      /\ now \in Times /\ UNCHANGED <<rvars, now>>
  BY DEF Present, rvars, VInv, TypeOK
<1>1. CASE i.expiresAt <= now
  BY <1>0, <1>1, RefusalKeeps DEF Present
<1>2. CASE ~ (i.expiresAt <= now)
  <2> DEFINE start == IF online THEN "sync" ELSE AfterChecks(v, consume, online)
  <2> PICK q : q = [pc |-> start, token |-> i, verifier |-> v, consume |-> consume,
                    online |-> online, checkedAt |-> now, late |-> Revoked(i)]
    OBVIOUS
  <2>1. req' = [req EXCEPT ![r] = q]
    BY <1>2 DEF Present
  <2>2. Revoked(i) \in BOOLEAN
    BY DEF Revoked
  <2>3. start \in {"sync", "use", "valid"} /\ (online => start = "sync")
    BY DEF AfterChecks
  <2>4. q \in Verification
    BY <1>0, <2>2, <2>3 DEF Verification
  <2>5. start = "use" => online \/ v = "kernel"
    BY DEF AfterChecks
  <2>6. now < i.expiresAt /\ now \in Nat
    BY <1>0, <1>2, IssuanceShape DEF Times
  <2>7. RequestInv(q)'
    <3>1. Revoked(i)' = Revoked(i)
      BY <1>0 DEF Revoked, rvars
    <3> QED BY <1>0, <2>3, <2>6, <3>1 DEF RequestInv
  <2>8. q.pc = "use" => q.online \/ q.verifier = "kernel"
    BY <2>5
  <2> QED BY <1>0, <2>1, <2>4, <2>7, <2>8, OneRequest
<1> QED BY <1>1, <1>2

\* Introspection, first await: after expiry was applied at a moment not before
\* the request's start, an issued record outlives that start.
LEMMA SyncKeeps ==
    ASSUME VInv, Next, NEW r \in Requests, Sync(r)
    PROVE  VInv'
<1> PICK q : q = req[r]
  OBVIOUS
<1> DEFINE t == q.token.tokenId
<1>0. /\ TypeOK /\ RTypeOK /\ RequestInv(q)
      /\ now \in Nat /\ verdicts' = useCount' /\ q.pc = "sync"
  BY DEF VInv, RInv, TypeOK, Times, Sync, SyncLifecycle
<1>1. t \in TokenIds /\ q.checkedAt \in Nat /\ At(r) \in Nat /\ q.checkedAt <= At(r)
  BY <1>0, RequestShape, AtShape DEF Times
<1>2. ASSUME status'[t] = "issued"
      PROVE  q.checkedAt < issuance'[t].expiresAt
  <2>1. /\ t \notin Overdue(At(r))
        /\ status[t] = "issued"
        /\ issuance'[t] = issuance[t]
    BY <1>0, <1>1, <1>2 DEF Sync, SyncLifecycle, StatusAfterSync, RTypeOK
  <2>2. issuance[t].expiresAt \in Nat /\ ~ (issuance[t].expiresAt <= At(r))
    BY <1>0, <1>1, <2>1, IssuanceShape DEF RTypeOK, Overdue
  <2> QED BY <1>1, <2>1, <2>2
<1>3. Goto(r, "find")
  BY DEF Sync
<1> QED BY <1>0, <1>2, <1>3, GotoKeeps

\* Introspection, second await: an issued record of the token's decision is found,
\* so the token was not revoked when the request began.
LEMMA FindTokenKeeps ==
    ASSUME VInv, Next, NEW r \in Requests, FindToken(r)
    PROVE  VInv'
<1> PICK q : q = req[r]
  OBVIOUS
<1> DEFINE t == q.token.tokenId
<1>0. /\ TypeOK /\ RTypeOK /\ RequestInv(q) /\ RevokedDecisionHasNoLiveToken
      /\ UNCHANGED rvars /\ verdicts' = useCount' /\ q.pc = "find"
  BY DEF VInv, RInv, FindToken, rvars
<1>1. t \in TokenIds
  BY <1>0, RequestShape
<1>2. CASE RecordActive(q.token) /\ q.token.expiresAt > At(r)
  <2>1. status[t] = "issued" /\ issuance[t].decisionId = q.token.decisionId
    BY <1>2 DEF RecordActive, MatchesClaims
  <2>2. issuance[t] # NoIssuance
    BY <1>0, <1>1, <2>1, IssuancesAssumption DEF RTypeOK
  <2>3. ~ Revoked(q.token)
    BY <1>0, <1>1, <2>1 DEF Revoked, RevokedDecisionHasNoLiveToken, Registered
  <2>4. Found(q)
    BY <1>0, <2>1, <2>2, <2>3 DEF RequestInv, Found
  <2>5. Found(q)'
    BY <1>0, <2>4 DEF Found, rvars
  <2>6. Goto(r, "findRevocation")
    BY <1>2 DEF FindToken
  <2> QED BY <1>0, <2>5, <2>6, GotoKeeps
<1>3. CASE ~ (RecordActive(q.token) /\ q.token.expiresAt > At(r))
  BY <1>0, <1>3, RefusalKeeps DEF FindToken
<1> QED BY <1>2, <1>3

\* Introspection, third await.
LEMMA FindDecisionRevocationKeeps ==
    ASSUME VInv, Next, NEW r \in Requests, FindDecisionRevocation(r)
    PROVE  VInv'
<1> PICK q : q = req[r]
  OBVIOUS
<1>0. /\ RequestInv(q) /\ verdicts' = useCount' /\ q.pc = "findRevocation"
  BY DEF VInv, FindDecisionRevocation, rvars
<1>1. CASE q.token.decisionId \in decisionRevocations
  BY <1>0, <1>1, RefusalKeeps DEF FindDecisionRevocation
<1>2. CASE q.token.decisionId \notin decisionRevocations
  <2> PICK pc : pc = AfterChecks(q.verifier, q.consume, q.online)
    OBVIOUS
  <2>1. pc \in {"use", "valid"} /\ (pc = "use" => q.online \/ q.verifier = "kernel")
    BY DEF AfterChecks
  <2>2. Goto(r, pc)
    BY <1>2 DEF FindDecisionRevocation
  <2>3. q.online => Found(q)'
    BY <1>0, FoundKept DEF RequestInv
  <2> QED BY <1>0, <2>1, <2>2, <2>3, GotoKeeps
<1> QED BY <1>1, <1>2

\* Consumption: the verdict is valid exactly when the use was recorded.
LEMMA UseTokenKeeps ==
    ASSUME VInv, Next, NEW r \in Requests, UseToken(r)
    PROVE  VInv'
<1> PICK q : q = req[r]
  OBVIOUS
<1>0. RequestInv(q) /\ q.pc = "use" /\ verdicts = useCount
  BY DEF VInv, UseToken
<1>1. verdicts' = useCount'
  BY <1>0 DEF UseToken, UseValid, RecordTokenUse
<1>2. CASE ~ UseValid(r)
  BY <1>1, <1>2, RefusalKeeps DEF UseToken, Answer
<1>3. CASE UseValid(r)
  <2>1. Goto(r, "valid")
    BY <1>3 DEF UseToken, Answer
  <2>2. q.online => Found(q)'
    BY <1>0, FoundKept DEF RequestInv
  <2> QED BY <1>0, <1>1, <2>1, <2>2, GotoKeeps
<1> QED BY <1>2, <1>3

\* A step that leaves the requests alone and counts no verdict keeps the invariant.
LEMMA EnvironmentKeeps ==
    ASSUME VInv, [Next]_vars, UNCHANGED <<req, verdicts, useCount>>
    PROVE  VInv'
<1>1. RInv' /\ RTypeOK' /\ now' \in Times
  BY RegistryForward, ClockForward DEF RInv
<1>2. \A r \in Requests : req'[r] = req[r]
  OBVIOUS
<1>3. \A r \in Requests : RequestInv(req[r])'
  BY <1>2, RequestKept
<1>4. TypeOK'
  BY <1>1 DEF VInv, TypeOK
<1> QED BY <1>1, <1>3, <1>4 DEF VInv

\* The verifiers and their environment keep the invariant.
LEMMA VInvStep == VInv /\ [Next]_vars => VInv'
<1> SUFFICES ASSUME VInv, [Next]_vars PROVE VInv'
  OBVIOUS
<1>1. CASE UNCHANGED vars
  BY <1>1, EnvironmentKeeps DEF vars, rvars, vvars
<1>2. ASSUME Next, NEW r \in Requests, NEW i \in Issuances, NEW v \in Verifiers,
             NEW consume \in BOOLEAN, NEW online \in BOOLEAN,
             Present(r, i, v, consume, online)
      PROVE  VInv'
  BY <1>2, PresentKeeps
<1>3. ASSUME Next, NEW r \in Requests, Sync(r) PROVE VInv'
  BY <1>3, SyncKeeps
<1>4. ASSUME Next, NEW r \in Requests, FindToken(r) PROVE VInv'
  BY <1>4, FindTokenKeeps
<1>5. ASSUME Next, NEW r \in Requests, FindDecisionRevocation(r) PROVE VInv'
  BY <1>5, FindDecisionRevocationKeeps
<1>6. ASSUME Next, NEW r \in Requests, UseToken(r) PROVE VInv'
  BY <1>6, UseTokenKeeps
<1>7. ASSUME Next, NEW r \in Requests, Unavailable(r) PROVE VInv'
  <2>1. Refuse(r) /\ verdicts' = useCount'
    BY <1>7 DEF Unavailable, VInv, rvars
  <2> QED BY <1>7, <2>1, RefusalKeeps
<1>8. ASSUME NEW i \in Issuances, Issue(i) PROVE UNCHANGED <<req, verdicts, useCount>>
  BY <1>8 DEF Issue, RegisterIssuedToken, rvars, vvars
<1>9. ASSUME NEW t \in TokenIds, Revoke(t) PROVE UNCHANGED <<req, verdicts, useCount>>
  BY <1>9 DEF Revoke, RevokeToken, vvars
<1>10. ASSUME NEW d \in Decisions, RevokeAll(d) PROVE UNCHANGED <<req, verdicts, useCount>>
  BY <1>10 DEF RevokeAll, RevokeTokensForDecision, vvars
<1>11. CASE Tick
  BY <1>11, EnvironmentKeeps DEF Tick, rvars
<1> QED
  BY <1>1, <1>2, <1>3, <1>4, <1>5, <1>6, <1>7, <1>8, <1>9, <1>10, <1>11, EnvironmentKeeps
  DEF Next

\* At the start nobody verifies anything.
LEMMA VInvInit == Init => VInv
<1> SUFFICES ASSUME Init PROVE VInv
  OBVIOUS
<1>1. RInv
  BY RInvInit DEF Init
<1>2. RTypeOK
  BY <1>1 DEF RInv
<1>3. now \in Times
  BY IssuancesAssumption DEF Init, Times
<1>4. \A r \in Requests : req[r] = NoVerdict /\ req[r].pc = "none"
  BY DEF Init, NoVerdict
<1>5. verdicts = useCount
  BY DEF Init, RInit
<1>6. TypeOK
  BY <1>2, <1>3, <1>4, <1>5 DEF TypeOK, Init, RTypeOK
<1> QED BY <1>1, <1>4, <1>5, <1>6 DEF VInv, RequestInv

\* The invariant holds in every reachable state.
THEOREM VerificationInvariant == Spec => []VInv
  BY VInvInit, VInvStep, PTL DEF Spec

\* Registry, clock, requests and verdicts are always well typed, and only the
\* kernel verifier consumes without an introspection.
THEOREM VerificationTypeCorrect == Spec => []TypeOK
<1>1. VInv => TypeOK BY DEF VInv
<1> QED BY <1>1, VerificationInvariant, PTL

\* However many requests interleave, an introspected verification that began
\* after the revocation of its token or decision is never valid.
THEOREM RevocationRespected == Spec => []RevokedNeverVerified
<1>1. VInv => RevokedNeverVerified
  BY DEF VInv, RequestInv, Found, RevokedNeverVerified
<1> QED BY <1>1, VerificationInvariant, PTL

\* A valid introspected verdict is about a registered token, its decision and a
\* moment before expiry.
THEOREM VerdictsAreBacked == Spec => []VerdictMatchesRecord
<1>1. VInv => VerdictMatchesRecord
  BY DEF VInv, RequestInv, Found, VerdictMatchesRecord
<1> QED BY <1>1, VerificationInvariant, PTL

\* Consuming verdicts are the recorded uses, so every step is one of bounded
\* authorities.
LEMMA VerdictStep == VInv /\ VInv' /\ [Next]_vars => [Verdicts!ANext]_(Verdicts!avars)
<1> SUFFICES ASSUME VInv, VInv', [Next]_vars PROVE [Verdicts!ANext]_(Verdicts!avars)
  OBVIOUS
<1>1. verdicts = useCount /\ verdicts' = useCount'
  BY DEF VInv
<1>2. [Authority!ANext]_(Authority!avars)
  BY RegistryPart, AuthorityStep DEF VInv
<1>3. CASE UNCHANGED Authority!avars
  BY <1>1, <1>3 DEF Authority!avars, Verdicts!avars
<1>4. CASE Authority!ANext
  <2>1. ASSUME NEW a \in TokenIds, Authority!Open(a) PROVE Verdicts!ANext
    <3>1. Verdicts!Open(a)
      BY <1>1, <2>1 DEF Authority!Open, Verdicts!Open
    <3> QED BY <3>1 DEF Verdicts!ANext
  <2>2. ASSUME NEW S \in SUBSET TokenIds, Authority!Close(S) PROVE Verdicts!ANext
    <3>1. Verdicts!Close(S)
      BY <1>1, <2>2 DEF Authority!Close, Verdicts!Close
    <3> QED BY <3>1 DEF Verdicts!ANext
  <2>3. ASSUME NEW a \in TokenIds, NEW S \in SUBSET TokenIds, Authority!Use(a, S)
        PROVE  Verdicts!ANext
    <3>1. Verdicts!Use(a, S)
      BY <1>1, <2>3 DEF Authority!Use, Verdicts!Use
    <3> QED BY <3>1 DEF Verdicts!ANext
  <2> QED BY <1>4, <2>1, <2>2, <2>3 DEF Authority!ANext
<1> QED BY <1>2, <1>3, <1>4

\* All verifiers together treat a token as a bounded authority: their consuming
\* verdicts never exceed its budget and end with its revocation or expiry.
THEOREM VerdictsAreBounded == Spec => VerdictsImplementAuthority
<1>1. Init => Verdicts!AInit
  BY AuthorityInit DEF Init, RInit, Authority!AInit, Verdicts!AInit
<1> QED BY <1>1, VerificationInvariant, VInvStep, VerdictStep, PTL
        DEF Spec, VerdictsImplementAuthority, Verdicts!ASpec
=============================================================================
