------------------------ MODULE SharedTokenRegistry ------------------------
(***************************************************************************)
(* The shared release-token registry of a multi-node deployment            *)
(* (service/release/release-token-introspection-store.ts): the same        *)
(* records as ReleaseTokenRegistry, kept as rows of a PostgreSQL table.    *)
(* Every operation is one READ COMMITTED transaction of several awaited    *)
(* statements, so the transactions of different requests and nodes         *)
(* interleave between statements.  issuance, status, useCount, lastUsedAt  *)
(* and decisionRevocations are the committed rows.  A transaction holds    *)
(* the locks of the rows it selected FOR UPDATE (or inserted), buffers its *)
(* writes, and installs them when it commits.                              *)
(***************************************************************************)
EXTENDS ReleaseTokenRegistry, Sequences, FiniteSets

CONSTANT Sessions       \* database sessions, each running one transaction at a time

ASSUME RowsAssumption == IsFiniteSet(TokenIds)      \* a statement selects finitely many rows

VARIABLES
    tx,             \* tx[c]: the transaction of session c
    accepted        \* accepted[t]: how many callers were told `accepted: true` for t

vars == <<rvars, tx, accepted>>

NoTransaction ==
    [pc |-> "idle", op |-> "none", arg |-> NoIssuance, at |-> 0,
     todo |-> <<>>,         \* rows a FOR UPDATE statement still has to lock, in its order
     locked |-> {},         \* rows locked or inserted
     writes |-> <<>>,       \* writes[t]: the new version of row t
     revokes |-> {},        \* decision revocations inserted
     using |-> FALSE,       \* the use is accepted if the transaction commits
     late |-> FALSE]        \* the decision was revoked before the transaction began

Init ==
    /\ RInit
    /\ tx = [c \in Sessions |-> NoTransaction]
    /\ accepted = [t \in TokenIds |-> 0]

-----------------------------------------------------------------------------
\* PostgreSQL.

LockedByOther(c, t) == \E o \in Sessions \ {c} : t \in tx[o].locked

RevokedByOther(c, d) == \E o \in Sessions \ {c} : d \in tx[o].revokes

\* The version of row t that transaction c reads.
Row(c, t) ==
    IF t \in DOMAIN tx[c].writes THEN tx[c].writes[t]
    ELSE [issuance |-> issuance[t], status |-> status[t],
          useCount |-> useCount[t], lastUsedAt |-> lastUsedAt[t]]

\* Without ORDER BY a statement locks its rows in any order.
Orders(S) == {q \in [1 .. Cardinality(S) -> S] : \A i, j \in DOMAIN q : q[i] = q[j] => i = j}

With(f, t, r) == [x \in DOMAIN f \cup {t} |-> IF x = t THEN r ELSE f[x]]

-----------------------------------------------------------------------------
\* Statements.

Continue(c, new) ==
    /\ tx' = [tx EXCEPT ![c] = new]
    /\ UNCHANGED <<rvars, accepted>>

Begin(c, op, arg, at, pc) ==
    /\ tx[c].pc = "idle"
    /\ Continue(c, [NoTransaction EXCEPT !.pc = pc, !.op = op, !.arg = arg, !.at = at])

\* Mutant: an error leaves the transaction open on the pooled connection.
Rollback_Skipped(c) == Continue(c, [tx[c] EXCEPT !.pc = "abandoned"])

\* withReleaseAuthorityTransaction on an error.
Rollback(c) == Continue(c, NoTransaction)

\* The operations' first statements.
BeginRegister(c, i) == Begin(c, "register", i, 0, "checkIssuable")
BeginRevokeToken(c, t) == Begin(c, "revokeToken", t, 0, "readToken")
BeginRevokeDecision(c, d) == Begin(c, "revokeDecision", d, 0, "findRevocation")
BeginSync(c, at) == Begin(c, "sync", NoIssuance, at, "selectOverdue")

\* A token is in its holder's hands only once its registration was committed.
BeginUse(c, t, at) ==
    /\ status[t] # "none"
    /\ tx[c].pc = "idle"
    /\ Continue(c, [NoTransaction EXCEPT
                      !.pc = "selectOverdue", !.op = "use", !.arg = t, !.at = at,
                      !.late = issuance[t].decisionId \in decisionRevocations])

\* registerIssuedToken refuses a revoked decision; the read takes no lock.
CheckIssuable(c) ==
    /\ tx[c].pc = "checkIssuable"
    /\ IF tx[c].arg.decisionId \in decisionRevocations
         THEN Rollback(c)
         ELSE Continue(c, [tx[c] EXCEPT !.pc = "insertToken"])

\* The row insertRecord writes.
NewRow(i) == [issuance |-> i, status |-> "issued", useCount |-> 0, lastUsedAt |-> 0]

\* Mutant: the registration upserts the row.
InsertToken_Upsert(c) ==
    /\ tx[c].pc = "insertToken"
    /\ ~ LockedByOther(c, tx[c].arg.tokenId)
    /\ Continue(c, [tx[c] EXCEPT
          !.pc = "commit", !.locked = {tx[c].arg.tokenId},
          !.writes = With(@, tx[c].arg.tokenId, NewRow(tx[c].arg))])

\* INSERT ... ON CONFLICT DO NOTHING waits for another inserter of the same key.
InsertToken(c) ==
    LET i == tx[c].arg
        t == i.tokenId
    IN  /\ tx[c].pc = "insertToken"
        /\ \/ /\ status[t] # "none"
              /\ Continue(c, [tx[c] EXCEPT !.pc = "readToken"])
           \/ /\ status[t] = "none"
              /\ ~ LockedByOther(c, t)
              /\ Continue(c, [tx[c] EXCEPT
                   !.pc = "commit",
                   !.locked = {t},
                   !.writes = With(@, t, NewRow(i))])

\* insertDecisionRevocation: the first read.
FindRevocation(c) ==
    /\ tx[c].pc = "findRevocation"
    /\ Continue(c, [tx[c] EXCEPT !.pc =
          IF tx[c].arg \in decisionRevocations THEN "selectDecision" ELSE "insertRevocation"])

\* insertDecisionRevocation: INSERT ... ON CONFLICT DO NOTHING, and the read back.
InsertRevocation(c) ==
    LET d == tx[c].arg IN
    /\ tx[c].pc = "insertRevocation"
    /\ \/ d \in decisionRevocations
       \/ ~ RevokedByOther(c, d)
    /\ Continue(c, [tx[c] EXCEPT !.pc = "selectDecision",
                                 !.revokes = {d} \ decisionRevocations])

\* Where a transaction goes when it has locked the rows of a statement.
AfterRows(op) == IF op = "use" THEN "readToken" ELSE "commit"

SelectForUpdate(c, rows) ==
    \E q \in Orders(rows) :
        Continue(c, [tx[c] EXCEPT
            !.todo = q,
            !.pc = IF rows = {} THEN AfterRows(tx[c].op) ELSE "lockRows"])

\* expireIssuedRows: the rows of the statement's snapshot.
SelectOverdue(c) ==
    /\ tx[c].pc = "selectOverdue"
    /\ SelectForUpdate(c, Overdue(tx[c].at))

\* revokeTokensForDecision: the decision's rows in the statement's snapshot.
SelectDecision(c) ==
    /\ tx[c].pc = "selectDecision"
    /\ SelectForUpdate(c, {t \in Registered : issuance[t].decisionId = tx[c].arg})

\* A lock is granted; a row that is still issued in its latest version is
\* expired or revoked, another one is left alone.
LockRow(c) ==
    LET t == Head(tx[c].todo)
        r == Row(c, t)
        new == IF tx[c].op = "revokeDecision" THEN "revoked" ELSE "expired"
    IN  /\ tx[c].pc = "lockRows"
        /\ ~ LockedByOther(c, t)
        /\ Continue(c, [tx[c] EXCEPT
              !.locked = @ \cup {t},
              !.todo = Tail(@),
              !.pc = IF Len(tx[c].todo) = 1 THEN AfterRows(tx[c].op) ELSE @,
              !.writes = IF r.status = "issued"
                           THEN With(@, t, [r EXCEPT !.status = new]) ELSE @])

TokenOf(c) == IF tx[c].op = "register" THEN tx[c].arg.tokenId ELSE tx[c].arg

\* Mutant: the token's row is selected without FOR UPDATE.
ReadLock_None(c) == TRUE

\* SELECT ... WHERE token_id FOR UPDATE; a row that is not there is no wait.
ReadLock(c) == ~ LockedByOther(c, TokenOf(c)) \/ status[TokenOf(c)] = "none"

\* assertRegistrationCanReplay
SameRegistration(r, i) == r.status = "issued" /\ r.issuance = i /\ r.useCount = 0

ReadToken(c) ==
    LET t == TokenOf(c)
        r == Row(c, t)
        next == [tx[c] EXCEPT !.locked = IF r.status = "none" THEN @ ELSE @ \cup {t}]
    IN  /\ tx[c].pc = "readToken"
        /\ ReadLock(c)
        /\ \/ /\ tx[c].op = "register"
              /\ IF SameRegistration(r, tx[c].arg)
                   THEN Continue(c, [next EXCEPT !.pc = "commit"])
                   ELSE Rollback(c)
           \/ /\ tx[c].op = "revokeToken"
              /\ Continue(c, [next EXCEPT
                   !.pc = "commit",
                   !.writes = IF r.status = "none" THEN @
                              ELSE With(@, t, [r EXCEPT !.status = "revoked"])])
           \/ /\ tx[c].op = "use"
              /\ Continue(c, [next EXCEPT
                   !.pc = IF r.status = "issued" THEN "checkRevocation" ELSE "commit"])

\* consumeRecord
ConsumedRow(r, usedAt) ==
    [r EXCEPT !.useCount = @ + 1,
              !.lastUsedAt = usedAt,
              !.status = IF r.useCount + 1 >= r.issuance.maxUses THEN "consumed" ELSE @]

\* Mutant: recordTokenUse relies on the token's own status.
DecisionRevoked_Ignored(r) == FALSE

\* findDecisionRevocationInTransaction; it takes no lock.
DecisionRevoked(r) == r.issuance.decisionId \in decisionRevocations

\* recordTokenUse: the decision's revocation, then the new use count.
CheckRevocation(c) ==
    LET t == tx[c].arg
        r == Row(c, t)
    IN  /\ tx[c].pc = "checkRevocation"
        /\ IF DecisionRevoked(r)
             THEN Continue(c, [tx[c] EXCEPT !.pc = "commit"])
             ELSE Continue(c, [tx[c] EXCEPT
                    !.pc = "commit", !.using = TRUE,
                    !.writes = With(@, t, ConsumedRow(r, tx[c].at))])

\* The answer of a committed transaction may be lost on its way to the caller.
Commit(c, answered) ==
    /\ tx[c].pc = "commit"
    /\ issuance'   = [t \in TokenIds |-> Row(c, t).issuance]
    /\ status'     = [t \in TokenIds |-> Row(c, t).status]
    /\ useCount'   = [t \in TokenIds |-> Row(c, t).useCount]
    /\ lastUsedAt' = [t \in TokenIds |-> Row(c, t).lastUsedAt]
    /\ decisionRevocations' = decisionRevocations \cup tx[c].revokes
    /\ accepted' = IF tx[c].using /\ answered
                     THEN [accepted EXCEPT ![tx[c].arg] = @ + 1] ELSE accepted
    /\ tx' = [tx EXCEPT ![c] = NoTransaction]

\* A statement fails: the connection or the process is gone, PostgreSQL rolls back.
Abort(c) ==
    /\ tx[c].pc # "idle"
    /\ Continue(c, NoTransaction)

\* Whom session c waits for: the holder of a row or of an uncommitted key.
Blockers(c) ==
    {o \in Sessions \ {c} :
        \/ tx[c].pc = "lockRows" /\ Head(tx[c].todo) \in tx[o].locked
        \/ tx[c].pc = "readToken" /\ status[TokenOf(c)] # "none" /\ TokenOf(c) \in tx[o].locked
        \/ tx[c].pc = "insertToken" /\ status[TokenOf(c)] = "none" /\ TokenOf(c) \in tx[o].locked
        \/ tx[c].pc = "insertRevocation" /\ tx[c].arg \in tx[o].revokes}

\* c is on a cycle of waits.
Deadlocked(c) ==
    \E S \in SUBSET Sessions :
        /\ c \in S
        /\ \A s \in S : Blockers(s) # {}
        /\ S = UNION {Blockers(s) : s \in S}

\* PostgreSQL's deadlock detector aborts a victim; the request fails.
BreakDeadlock(c) ==
    /\ Deadlocked(c)
    /\ Rollback(c)

-----------------------------------------------------------------------------
Start(c) ==
    \/ \E i \in Issuances : BeginRegister(c, i)
    \/ \E t \in TokenIds : BeginRevokeToken(c, t)
    \/ \E d \in Decisions : BeginRevokeDecision(c, d)
    \/ \E at \in Times : BeginSync(c, at) \/ \E t \in TokenIds : BeginUse(c, t, at)

Step(c) ==
    \/ CheckIssuable(c) \/ InsertToken(c)
    \/ FindRevocation(c) \/ InsertRevocation(c) \/ SelectDecision(c)
    \/ SelectOverdue(c) \/ LockRow(c) \/ ReadToken(c) \/ CheckRevocation(c)
    \/ \E answered \in BOOLEAN : Commit(c, answered)

Next == \E c \in Sessions : Start(c) \/ Step(c) \/ Abort(c) \/ BreakDeadlock(c)

Spec == Init /\ [][Next]_vars

\* Transactions keep issuing their statements; PostgreSQL's lock queues serve
\* every waiter and its detector finds every cycle.
FairSpec ==
    /\ Spec
    /\ \A c \in Sessions : SF_vars(Step(c)) /\ WF_vars(BreakDeadlock(c))

-----------------------------------------------------------------------------
\* The committed rows have their types, and so have the transactions; a row is
\* locked by at most one of them, and every buffered write is under its lock.
TypeOK ==
    /\ RTypeOK
    /\ accepted \in [TokenIds -> Nat]
    /\ \A c \in Sessions :
          /\ tx[c].locked \subseteq TokenIds
          /\ tx[c].revokes \subseteq Decisions
          /\ DOMAIN tx[c].writes \subseteq tx[c].locked
          /\ \A o \in Sessions \ {c} : tx[c].locked \cap tx[o].locked = {}

\* Every caller that was told `accepted: true` is in the row's use count, and
\* the count is within maxUses: concurrent uses on different nodes never both
\* spend the same use.
AcceptedUsesCounted ==
    /\ UseBudget
    /\ \A t \in TokenIds : accepted[t] <= useCount[t]

\* A commit that counts a use is not of a transaction that found its decision revoked.
RevocationStep ==
    \A c \in Sessions, t \in TokenIds :
        useCount'[t] # useCount[t] /\ tx[c].using /\ tx'[c] = NoTransaction => ~ tx[c].late

\* A committed use of a token whose decision is revoked belongs to a transaction
\* that began before the revocation was committed: a token that escaped the
\* revocation, because it was being registered meanwhile, is of no use later.
RevocationCutsOff == [][RevocationStep]_vars

\* The shared registry, too, implements bounded authorities: statements of
\* concurrent transactions never reopen a closed token or lose a use.
SharedImplementsBoundedAuthority == Authority!ASpec

\* No transaction waits for ever, although expiry and revocation lock rows in
\* different orders.
TransactionsEnd == \A c \in Sessions : tx[c].pc # "idle" ~> tx[c].pc = "idle"
=============================================================================
