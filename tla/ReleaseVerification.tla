------------------------ MODULE ReleaseVerification ------------------------
(***************************************************************************)
(* Verification of presented release tokens against the registry: the      *)
(* kernel's verifyReleaseAuthorization (release-kernel/                    *)
(* release-verification.ts), the enforcement plane's                       *)
(* verifyOnlineReleaseAuthorization (release-enforcement-plane/            *)
(* online-verifier.ts) and the introspection both call.  A verification    *)
(* awaits several registry operations one after the other (expiry, lookup, *)
(* decision revocation, use), and other requests, issuers and operators    *)
(* act in between.  The kernel reads the clock anew at every operation     *)
(* (callers leave currentDate to it), the plane works at the time its      *)
(* caller took when the request began, introspection included.             *)
(* Signature, binding and sender checks depend on the request alone and    *)
(* are taken to have passed; an introspection made by this process at or   *)
(* after checkedAt is always fresh at checkedAt.                           *)
(***************************************************************************)
EXTENDS ReleaseTokenRegistry

CONSTANT Requests       \* concurrent verifications; an identity is reused

VARIABLES
    now,        \* the wall clock
    req,        \* req[r]: what verification r is doing, or its answer
    verdicts    \* verdicts[t]: valid answers that consumed t

vvars == <<now, req, verdicts>>
vars == <<rvars, vvars>>

Verifiers == {"kernel", "plane"}

\* No verification, or one that was refused: a refusal has no effect later on.
NoVerdict == [pc |-> "none"]

Verification ==
    [pc : {"sync", "find", "findRevocation", "use", "valid"},
     token : Issuances, verifier : Verifiers,
     consume : BOOLEAN,     \* consumeOnSuccess
     online : BOOLEAN,      \* introspection is required or forced
     checkedAt : Times,
     late : BOOLEAN]        \* the token was already revoked when it was presented

Init ==
    /\ RInit
    /\ now = 0
    /\ req = [r \in Requests |-> NoVerdict]
    /\ verdicts = [t \in TokenIds |-> 0]

\* The token or its decision is already revoked.
Revoked(i) == status[i.tokenId] = "revoked" \/ i.decisionId \in decisionRevocations

Goto(r, pc) == req' = [req EXCEPT ![r].pc = pc]

Refuse(r) == req' = [req EXCEPT ![r] = NoVerdict]

Answer(r, valid) == IF valid THEN Goto(r, "valid") ELSE Refuse(r)

\* The time a verification hands to the registry and to the verification of the
\* token: the plane's is the one of the request's start.
At(r) == IF req[r].verifier = "plane" THEN req[r].checkedAt ELSE now

-----------------------------------------------------------------------------
\* What follows when the introspection is done or not needed.
AfterChecks(verifier, consume, online) ==
    IF consume /\ (verifier = "kernel" \/ online) THEN "use" ELSE "valid"

\* A request presents token i.  An expired token is refused at once; the plane
\* answers an offline verification without any use, the kernel consumes anyway.
Present(r, i, verifier, consume, online) ==
    /\ req[r].pc \in {"none", "valid"}
    /\ IF i.expiresAt <= now
         THEN Refuse(r)
         ELSE req' = [req EXCEPT ![r] =
                 [pc |-> IF online THEN "sync" ELSE AfterChecks(verifier, consume, online),
                  token |-> i, verifier |-> verifier, consume |-> consume,
                  online |-> online, checkedAt |-> now, late |-> Revoked(i)]]
    /\ UNCHANGED <<rvars, now, verdicts>>

\* Mutant: introspection does not apply expiry.
Sync_Skipped(r) ==
    /\ req[r].pc = "sync"
    /\ Goto(r, "find")
    /\ UNCHANGED <<rvars, now, verdicts>>

\* introspectReleaseToken applies expiry first ...
Sync(r) ==
    /\ req[r].pc = "sync"
    /\ SyncLifecycle(At(r))
    /\ Goto(r, "find")
    /\ UNCHANGED <<now, verdicts>>

\* registeredReleaseTokenMatchesClaims compares the claims of the decision, not
\* the expiry; the use budget is no claim.
MatchesClaims(i) == issuance[i.tokenId].decisionId = i.decisionId

\* Mutant: the record's status is left to the use.
RecordActive_AnyStatus(i) == status[i.tokenId] # "none" /\ MatchesClaims(i)

\* The looked-up record has the token's claims and is issued.
RecordActive(i) == status[i.tokenId] = "issued" /\ MatchesClaims(i)

\* ... then verifies the token again and looks its record up ...
FindToken(r) ==
    LET i == req[r].token IN
    /\ req[r].pc = "find"
    /\ IF i.expiresAt > At(r) /\ RecordActive(i)
         THEN Goto(r, "findRevocation")
         ELSE Refuse(r)
    /\ UNCHANGED <<rvars, now, verdicts>>

\* ... and then the decision's revocation.
FindDecisionRevocation(r) ==
    LET q == req[r] IN
    /\ q.pc = "findRevocation"
    /\ IF q.token.decisionId \in decisionRevocations
         THEN Refuse(r)
         ELSE Goto(r, AfterChecks(q.verifier, q.consume, q.online))
    /\ UNCHANGED <<rvars, now, verdicts>>

\* Mutant: the verdict follows the introspection, whatever recordTokenUse answers.
UseValid_Introspected(r) == status[req[r].token.tokenId] # "none"

\* recordTokenUse accepted the use.
UseValid(r) == UseAccepted(req[r].token.tokenId, At(r))

\* recordTokenUse and the verdict; nothing is awaited between them.
UseToken(r) ==
    LET t == req[r].token.tokenId IN
    /\ req[r].pc = "use"
    /\ RecordTokenUse(t, At(r))
    /\ Answer(r, UseValid(r))
    /\ verdicts' = IF UseValid(r) THEN [verdicts EXCEPT ![t] = @ + 1] ELSE verdicts
    /\ UNCHANGED now

\* A registry operation throws: introspection-unavailable, or an error answer.
Unavailable(r) ==
    /\ req[r].pc \in {"sync", "find", "findRevocation", "use"}
    /\ Refuse(r)
    /\ UNCHANGED <<rvars, now, verdicts>>

-----------------------------------------------------------------------------
\* Issuers and operators.
Issue(i)      == i.expiresAt > now /\ RegisterIssuedToken(i) /\ UNCHANGED vvars
Revoke(t)     == RevokeToken(t) /\ UNCHANGED vvars
RevokeAll(d)  == RevokeTokensForDecision(d) /\ UNCHANGED vvars

Tick ==
    /\ now < MaxTime
    /\ now' = now + 1
    /\ UNCHANGED <<rvars, req, verdicts>>

Next ==
    \/ \E r \in Requests :
          \/ \E i \in Issuances, v \in Verifiers, consume, online \in BOOLEAN :
                Present(r, i, v, consume, online)
          \/ Sync(r) \/ FindToken(r) \/ FindDecisionRevocation(r) \/ UseToken(r)
          \/ Unavailable(r)
    \/ \E i \in Issuances : Issue(i)
    \/ \E t \in TokenIds : Revoke(t)
    \/ \E d \in Decisions : RevokeAll(d)
    \/ Tick

Spec == Init /\ [][Next]_vars

-----------------------------------------------------------------------------
\* The registry, the clock, the requests and the verdicts have their types, and
\* a request that consumes without an introspection is the kernel's.
TypeOK ==
    /\ RTypeOK
    /\ now \in Times
    /\ verdicts \in [TokenIds -> Nat]
    /\ req \in [Requests -> Verification \cup {NoVerdict}]
    /\ \A r \in Requests : req[r].pc = "use" => req[r].online \/ req[r].verifier = "kernel"

\* An introspected verification that began after the token or its decision was
\* revoked never ends valid, consuming or not.
RevokedNeverVerified ==
    \A r \in Requests : req[r].pc = "valid" /\ req[r].online => ~ req[r].late

\* A valid introspected verdict is about the decision the token is registered for
\* and about a moment before the expiry of the token and of its record, although
\* expiry, lookup, revocation and use are read at different moments, and by the
\* plane at a time that may be over when they are.
VerdictMatchesRecord ==
    \A r \in Requests :
        LET q == req[r] IN
        q.pc = "valid" /\ q.online =>
            /\ issuance[q.token.tokenId] # NoIssuance
            /\ issuance[q.token.tokenId].decisionId = q.token.decisionId
            /\ q.checkedAt < q.token.expiresAt
            /\ q.checkedAt < issuance[q.token.tokenId].expiresAt

\* The valid consuming verdicts seen as uses of a bounded authority.
Verdicts == INSTANCE BoundedAuthority WITH
    Authorities <- TokenIds,
    phase <- [t \in TokenIds |-> PhaseOf(status[t])],
    limit <- [t \in TokenIds |-> IF status[t] = "none" THEN 0 ELSE issuance[t].maxUses],
    uses  <- verdicts

\* Counting the valid consuming verdicts, all verifiers together treat a token
\* as a bounded authority: maxUses verdicts at most, each paid for by a recorded
\* use, and none after the token was revoked, expired or consumed.
VerdictsImplementAuthority == Verdicts!ASpec
=============================================================================
