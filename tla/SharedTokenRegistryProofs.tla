--------------------- MODULE SharedTokenRegistryProofs ---------------------
(***************************************************************************)
(* Proofs about the shared registry, for any sessions, tokens, decisions   *)
(* and issuances: the statements of concurrent transactions lose no use,   *)
(* exceed no budget, honour revocations that were there before, and        *)
(* implement BoundedAuthority.                                             *)
(***************************************************************************)
EXTENDS SharedTokenRegistry, FiniteSetTheorems, TLAPS

RowType == [issuance : Issuances \cup {NoIssuance}, status : Statuses,
            useCount : Nat, lastUsedAt : Times]

Stages == {"idle", "checkIssuable", "insertToken", "readToken", "findRevocation",
           "insertRevocation", "selectDecision", "selectOverdue", "lockRows",
           "checkRevocation", "commit"}

Operations == {"none", "register", "revokeToken", "revokeDecision", "sync", "use"}

Writes == UNION {[D -> RowType] : D \in SUBSET TokenIds}

TxType == [pc : Stages, op : Operations,
           arg : Issuances \cup TokenIds \cup Decisions \cup {NoIssuance}, at : Times,
           todo : Seq(TokenIds), locked : SUBSET TokenIds, writes : Writes,
           revokes : SUBSET Decisions, using : BOOLEAN, late : BOOLEAN]

\* The committed version of row t, and the one that a transaction v reads.
CurrentRow(t) == [issuance |-> issuance[t], status |-> status[t],
                  useCount |-> useCount[t], lastUsedAt |-> lastUsedAt[t]]

RowSeen(v, t) == IF t \in DOMAIN v.writes THEN v.writes[t] ELSE CurrentRow(t)

\* w ends the life of row t and changes nothing else of it.
Ended(t, w) ==
    /\ status[t] # "none"
    /\ w.issuance = issuance[t] /\ w.useCount = useCount[t]
    /\ w.status \in {"expired", "revoked"}

AllEnded(v) == \A t \in DOMAIN v.writes : Ended(t, v.writes[t])

\* v inserts one row.
Inserted(v) ==
    \E i \in Issuances :
        /\ DOMAIN v.writes = {i.tokenId}
        /\ v.writes[i.tokenId] = NewRow(i)
        /\ status[i.tokenId] = "none"

\* v counts a use of its token, which is issued, and ends other rows.
Used(v) ==
    /\ v.op = "use" /\ v.arg \in DOMAIN v.writes
    /\ status[v.arg] = "issued"
    /\ v.writes[v.arg].issuance = issuance[v.arg]
    /\ v.writes[v.arg].useCount = useCount[v.arg] + 1
    /\ v.writes[v.arg].status =
          IF useCount[v.arg] + 1 >= issuance[v.arg].maxUses THEN "consumed" ELSE "issued"
    /\ \A t \in DOMAIN v.writes \ {v.arg} : Ended(t, v.writes[t])

\* What a transaction is about; the token of a use is there.
ArgSound(v) ==
    /\ v.op = "register" => v.arg \in Issuances
    /\ v.op = "revokeToken" => v.arg \in TokenIds
    /\ v.op = "revokeDecision" => v.arg \in Decisions
    /\ v.op = "use" => v.arg \in TokenIds /\ status[v.arg] # "none"
    /\ v.late => /\ v.op = "use" /\ ~ v.using
                 /\ issuance[v.arg].decisionId \in decisionRevocations

\* Which statements an operation consists of.
StageSound(v) ==
    /\ v.pc \in {"checkIssuable", "insertToken"} => v.op = "register" /\ DOMAIN v.writes = {}
    /\ v.pc \in {"findRevocation", "insertRevocation", "selectDecision"} => v.op = "revokeDecision"
    /\ v.pc = "readToken" => v.op \in {"register", "revokeToken", "use"}
    /\ v.pc = "lockRows" => v.todo # <<>>
    /\ v.pc = "checkRevocation" =>
          /\ v.op = "use" /\ v.arg \in v.locked
          /\ RowSeen(v, v.arg).status = "issued"

\* What a transaction is about to write: until its last statement it only ends rows.
WritesSound(v) ==
    /\ DOMAIN v.writes \subseteq v.locked
    /\ v.pc # "commit" => ~ v.using
    /\ IF v.using THEN Used(v)
       ELSE AllEnded(v) \/ (v.pc = "commit" /\ Inserted(v))

Good(v) == ArgSound(v) /\ StageSound(v) /\ WritesSound(v)

LocksExclude ==
    \A c \in Sessions : \A o \in Sessions \ {c} : tx[c].locked \cap tx[o].locked = {}

SharedInv ==
    /\ RTypeOK /\ UseBudget
    /\ tx \in [Sessions -> TxType]
    /\ accepted \in [TokenIds -> Nat]
    /\ \A t \in TokenIds : accepted[t] <= useCount[t]
    /\ LocksExclude
    /\ \A c \in Sessions : Good(tx[c])

-----------------------------------------------------------------------------
\* Every registered content is an issued token with a positive use budget.
LEMMA IssuanceShape ==
    ASSUME NEW i \in Issuances
    PROVE  /\ i.tokenId \in TokenIds
           /\ i.decisionId \in Decisions
           /\ i.maxUses \in Nat
           /\ i.maxUses > 0
  BY IssuancesAssumption DEF IssuedToken

\* An idle session is a transaction that wrote nothing.
LEMMA IdleIsGood == NoTransaction \in TxType /\ Good(NoTransaction)
<1>1. NoTransaction.writes \in [{} -> RowType] /\ DOMAIN NoTransaction.writes = {}
  BY DEF NoTransaction
<1>2. NoTransaction.writes \in Writes
  BY <1>1 DEF Writes
<1>3. 0 \in Times /\ <<>> \in Seq(TokenIds)
  BY IssuancesAssumption DEF Times
<1>4. NoTransaction \in TxType
  BY <1>2, <1>3 DEF NoTransaction, TxType, Stages, Operations
<1>5. Good(NoTransaction)
  BY <1>1 DEF NoTransaction, Good, ArgSound, StageSound, WritesSound, AllEnded
<1> QED BY <1>4, <1>5

\* Nothing is registered, locked or accepted at first.
LEMMA SharedInit == Init => SharedInv
<1> SUFFICES ASSUME Init
             PROVE  SharedInv
  OBVIOUS
<1>1. RTypeOK /\ UseBudget
  BY IssuancesAssumption DEF Init, RInit, RTypeOK, UseBudget, Registered, Statuses, Times
<1>2. \A c \in Sessions : tx[c] = NoTransaction
  BY DEF Init
<1>3. tx \in [Sessions -> TxType] /\ \A c \in Sessions : Good(tx[c])
  BY <1>2, IdleIsGood DEF Init
<1>4. LocksExclude
  BY <1>2 DEF LocksExclude, NoTransaction
<1>5. accepted \in [TokenIds -> Nat] /\ \A t \in TokenIds : accepted[t] <= useCount[t]
  BY DEF Init, RInit
<1> QED BY <1>1, <1>3, <1>4, <1>5 DEF SharedInv

\* A statement that leaves its transaction sound, with locks nobody else has, keeps the
\* invariant.
LEMMA StatementMove ==
    ASSUME SharedInv, NEW c \in Sessions, NEW v \in TxType, Continue(c, v), Good(v),
           \A o \in Sessions \ {c} : v.locked \cap tx[o].locked = {}
    PROVE  SharedInv'
<1>1. /\ UNCHANGED <<issuance, status, useCount, lastUsedAt, decisionRevocations, accepted>>
      /\ tx' = [tx EXCEPT ![c] = v] /\ tx \in [Sessions -> TxType]
  BY DEF Continue, rvars, SharedInv
<1>2. tx'[c] = v /\ \A o \in Sessions \ {c} : tx'[o] = tx[o]
  BY <1>1
<1>3. RTypeOK' /\ UseBudget'
  BY <1>1 DEF SharedInv, RTypeOK, UseBudget, Registered
<1>4. LocksExclude'
  BY <1>2 DEF SharedInv, LocksExclude
<1>5. \A o \in Sessions : Good(tx[o])'
  <2> SUFFICES ASSUME NEW o \in Sessions
               PROVE  Good(tx[o])'
    OBVIOUS
  <2>1. PICK u : u = tx'[o] /\ Good(u)
    BY <1>2 DEF SharedInv
  <2>2. ArgSound(tx[o])'
    BY <1>1, <2>1 DEF Good, ArgSound
  <2>3. StageSound(tx[o])'
    BY <1>1, <2>1 DEF Good, StageSound, RowSeen, CurrentRow
  <2>4. WritesSound(tx[o])'
    BY <1>1, <2>1 DEF Good, WritesSound, Used, AllEnded, Inserted, Ended
  <2> QED BY <2>2, <2>3, <2>4 DEF Good
<1>6. tx' \in [Sessions -> TxType]
  BY <1>1
<1> QED BY <1>1, <1>3, <1>4, <1>5, <1>6 DEF SharedInv

\* A failed or aborted transaction leaves nothing behind.
LEMMA RollbackMove ==
    ASSUME SharedInv, NEW c \in Sessions, Continue(c, NoTransaction)
    PROVE  SharedInv'
<1>1. NoTransaction.locked = {}
  BY DEF NoTransaction
<1> QED BY <1>1, IdleIsGood, StatementMove

\* The versions a transaction reads are rows, and a row it sees as issued before its last
\* statement is the committed one.
LEMMA RowsSeen ==
    ASSUME SharedInv, NEW c \in Sessions, NEW t \in TokenIds
    PROVE  /\ tx[c] \in TxType /\ Good(tx[c])
           /\ Row(c, t) = RowSeen(tx[c], t) /\ Row(c, t) \in RowType
           /\ tx[c].pc # "commit" =>
                 /\ Row(c, t).status = "none" => status[t] = "none"
                 /\ Row(c, t).status = "issued" => /\ t \notin DOMAIN tx[c].writes
                                                  /\ Row(c, t) = CurrentRow(t)
                                                  /\ status[t] = "issued"
                 /\ Row(c, t).status # "none" => /\ status[t] # "none"
                                                /\ Row(c, t).issuance = issuance[t]
                                                /\ Row(c, t).useCount = useCount[t]
<1>1. tx[c] \in TxType /\ Good(tx[c])
  BY DEF SharedInv
<1>2. Row(c, t) = RowSeen(tx[c], t)
  BY DEF Row, RowSeen, CurrentRow
<1>3. CurrentRow(t) \in RowType
  BY DEF CurrentRow, RowType, SharedInv, RTypeOK
<1>4. \A x \in DOMAIN tx[c].writes : tx[c].writes[x] \in RowType
  BY <1>1 DEF TxType, Writes
<1>5. Row(c, t) \in RowType
  BY <1>2, <1>3, <1>4 DEF RowSeen
<1>6. ASSUME tx[c].pc # "commit"
      PROVE  /\ Row(c, t).status = "none" => status[t] = "none"
             /\ Row(c, t).status = "issued" => /\ t \notin DOMAIN tx[c].writes
                                              /\ Row(c, t) = CurrentRow(t)
                                              /\ status[t] = "issued"
             /\ Row(c, t).status # "none" => /\ status[t] # "none"
                                            /\ Row(c, t).issuance = issuance[t]
                                            /\ Row(c, t).useCount = useCount[t]
  <2>1. \A x \in DOMAIN tx[c].writes : Ended(x, tx[c].writes[x])
    BY <1>1, <1>6 DEF Good, WritesSound, AllEnded
  <2>2. CASE t \in DOMAIN tx[c].writes
    BY <1>2, <2>1, <2>2 DEF RowSeen, Ended
  <2>3. CASE t \notin DOMAIN tx[c].writes
    BY <1>2, <2>3 DEF RowSeen, CurrentRow
  <2> QED BY <2>2, <2>3
<1> QED BY <1>1, <1>2, <1>5, <1>6

\* Adding a row to the buffered writes.
LEMMA WithRow ==
    ASSUME NEW f \in Writes, NEW t \in TokenIds, NEW r \in RowType
    PROVE  /\ With(f, t, r) \in Writes
           /\ DOMAIN With(f, t, r) = DOMAIN f \cup {t}
           /\ With(f, t, r)[t] = r
           /\ \A x \in DOMAIN f \ {t} : With(f, t, r)[x] = f[x]
<1>1. PICK D \in SUBSET TokenIds : f \in [D -> RowType]
  BY DEF Writes
<1>2. With(f, t, r) \in [D \cup {t} -> RowType]
  BY <1>1 DEF With
<1>3. With(f, t, r) \in Writes
  BY <1>2 DEF Writes
<1> QED BY <1>1, <1>3 DEF With

\* An operation begins with its first statement.
LEMMA BeginMove ==
    ASSUME SharedInv, NEW c \in Sessions, NEW op, NEW arg, NEW at \in Times, NEW pc,
           \/ op = "register" /\ arg \in Issuances /\ pc = "checkIssuable"
           \/ op = "revokeToken" /\ arg \in TokenIds /\ pc = "readToken"
           \/ op = "revokeDecision" /\ arg \in Decisions /\ pc = "findRevocation"
           \/ op = "sync" /\ arg = NoIssuance /\ pc = "selectOverdue",
           Begin(c, op, arg, at, pc)
    PROVE  SharedInv'
<1> DEFINE v == [NoTransaction EXCEPT !.pc = pc, !.op = op, !.arg = arg, !.at = at]
<1>1. Continue(c, v)
  BY DEF Begin
<1>2. NoTransaction \in TxType /\ DOMAIN NoTransaction.writes = {}
      /\ NoTransaction.locked = {} /\ NoTransaction.using = FALSE /\ NoTransaction.late = FALSE
  BY IdleIsGood DEF NoTransaction
<1>3. /\ v \in TxType /\ v.pc = pc /\ v.op = op /\ v.arg = arg /\ DOMAIN v.writes = {}
      /\ v.locked = {} /\ v.using = FALSE /\ v.late = FALSE
  BY <1>2 DEF TxType, Stages, Operations
<1> HIDE DEF v
<1>4. Good(v)
  BY <1>3 DEF Good, ArgSound, StageSound, WritesSound, AllEnded
<1> QED BY <1>1, <1>3, <1>4, StatementMove

\* A use begins for a registered token and knows whether its decision is revoked by now.
LEMMA BeginUseMove ==
    ASSUME SharedInv, NEW c \in Sessions, NEW t \in TokenIds, NEW at \in Times, BeginUse(c, t, at)
    PROVE  SharedInv'
<1> DEFINE late == issuance[t].decisionId \in decisionRevocations
           v == [NoTransaction EXCEPT !.pc = "selectOverdue", !.op = "use", !.arg = t, !.at = at,
                                      !.late = late]
<1>1. Continue(c, v) /\ status[t] # "none"
  BY DEF BeginUse
<1>2. NoTransaction \in TxType /\ DOMAIN NoTransaction.writes = {}
      /\ NoTransaction.locked = {} /\ NoTransaction.using = FALSE /\ late \in BOOLEAN
  BY IdleIsGood DEF NoTransaction
<1> HIDE DEF late
<1>3. /\ v \in TxType /\ v.pc = "selectOverdue" /\ v.op = "use" /\ v.arg = t
      /\ DOMAIN v.writes = {} /\ v.locked = {} /\ v.using = FALSE /\ v.late = late
  BY <1>2 DEF TxType, Stages, Operations
<1> HIDE DEF v
<1>4. Good(v)
  BY <1>1, <1>3 DEF Good, ArgSound, StageSound, WritesSound, AllEnded, late
<1> QED BY <1>1, <1>3, <1>4, StatementMove

\* A statement that only moves its transaction on.
LEMMA StageMove ==
    ASSUME SharedInv, NEW c \in Sessions, NEW pc \in Stages,
           tx[c].pc # "commit", Continue(c, [tx[c] EXCEPT !.pc = pc]),
           StageSound([tx[c] EXCEPT !.pc = pc])
    PROVE  SharedInv'
<1> DEFINE u == tx[c]
           v == [u EXCEPT !.pc = pc]
<1>1. u \in TxType /\ Good(u)
  BY DEF SharedInv
<1>2. /\ v \in TxType /\ v.op = u.op /\ v.arg = u.arg /\ v.writes = u.writes
      /\ v.locked = u.locked /\ v.using = u.using /\ v.late = u.late
  BY <1>1 DEF TxType
<1>3. ArgSound(v)
  BY <1>1, <1>2 DEF Good, ArgSound
<1>4. WritesSound(v)
  BY <1>1, <1>2 DEF Good, WritesSound, AllEnded
<1>5. \A o \in Sessions \ {c} : v.locked \cap tx[o].locked = {}
  BY <1>2 DEF SharedInv, LocksExclude
<1> QED BY <1>2, <1>3, <1>4, <1>5, StatementMove DEF Good

\* registerIssuedToken reads the revocation of its decision.
LEMMA CheckIssuableMove ==
    ASSUME SharedInv, NEW c \in Sessions, CheckIssuable(c)
    PROVE  SharedInv'
<1> DEFINE v == [tx[c] EXCEPT !.pc = "insertToken"]
<1>1. tx[c] \in TxType /\ Good(tx[c]) /\ tx[c].pc = "checkIssuable"
  BY DEF SharedInv, CheckIssuable
<1>2. CASE Continue(c, v)
  <2>1. v.pc = "insertToken" /\ v.op = tx[c].op /\ v.writes = tx[c].writes
    BY <1>1 DEF TxType
  <2>2. StageSound(v)
    BY <1>1, <2>1 DEF Good, StageSound
  <2> QED BY <1>1, <1>2, <2>2, StageMove DEF Stages
<1>3. CASE Continue(c, NoTransaction)
  BY <1>3, RollbackMove
<1> QED BY <1>2, <1>3 DEF CheckIssuable, Rollback

\* The registration inserts its row under a lock nobody has, or finds another one.
LEMMA InsertTokenMove ==
    ASSUME SharedInv, NEW c \in Sessions, InsertToken(c)
    PROVE  SharedInv'
<1> DEFINE u == tx[c]
           i == u.arg
           t == i.tokenId
<1>1. u \in TxType /\ Good(u) /\ u.pc = "insertToken"
  BY DEF SharedInv, InsertToken
<1>2. u.op = "register" /\ i \in Issuances /\ DOMAIN u.writes = {} /\ u.writes \in Writes
      /\ u.using = FALSE /\ u.late = FALSE
  BY <1>1 DEF Good, StageSound, ArgSound, WritesSound, TxType
<1>3. t \in TokenIds
  BY <1>2, IssuanceShape
<1>4. CASE Continue(c, [u EXCEPT !.pc = "readToken"])
  <2> DEFINE v == [u EXCEPT !.pc = "readToken"]
  <2>1. v.pc = "readToken" /\ v.op = u.op
    BY <1>1 DEF TxType
  <2>2. StageSound(v)
    BY <1>2, <2>1 DEF StageSound
  <2> QED BY <1>1, <1>4, <2>2, StageMove DEF Stages
<1>5. CASE /\ status[t] = "none" /\ ~ LockedByOther(c, t)
           /\ Continue(c, [u EXCEPT !.pc = "commit", !.locked = {t},
                                    !.writes = With(@, t, NewRow(i))])
  <2> DEFINE w == With(u.writes, t, NewRow(i))
             v == [u EXCEPT !.pc = "commit", !.locked = {t}, !.writes = w]
  <2>1. NewRow(i) \in RowType
    BY <1>2, IssuancesAssumption DEF NewRow, RowType, Statuses, Times
  <2>2. w \in Writes /\ DOMAIN w = {t} /\ w[t] = NewRow(i)
    BY <1>2, <1>3, <2>1, WithRow
  <2>3. Continue(c, v)
    BY <1>5
  <2> HIDE DEF w
  <2>4. /\ v \in TxType /\ v.pc = "commit" /\ v.op = "register" /\ v.arg = i /\ v.locked = {t}
        /\ v.writes = w /\ v.using = FALSE /\ v.late = FALSE
    BY <1>1, <1>2, <1>3, <2>2 DEF TxType, Stages
  <2> HIDE DEF v
  <2>5. Inserted(v)
    BY <1>2, <1>5, <2>2, <2>4 DEF Inserted
  <2>6. Good(v)
    BY <1>2, <2>2, <2>4, <2>5 DEF Good, ArgSound, StageSound, WritesSound
  <2>7. \A o \in Sessions \ {c} : v.locked \cap tx[o].locked = {}
    BY <1>5, <2>4 DEF LockedByOther
  <2> QED BY <2>3, <2>4, <2>6, <2>7, StatementMove
<1> QED BY <1>4, <1>5 DEF InsertToken

\* revokeTokensForDecision looks for an earlier revocation.
LEMMA FindRevocationMove ==
    ASSUME SharedInv, NEW c \in Sessions, FindRevocation(c)
    PROVE  SharedInv'
<1> DEFINE pc == IF tx[c].arg \in decisionRevocations THEN "selectDecision" ELSE "insertRevocation"
           v == [tx[c] EXCEPT !.pc = pc]
<1>1. tx[c] \in TxType /\ Good(tx[c]) /\ tx[c].pc = "findRevocation" /\ Continue(c, v)
  BY DEF SharedInv, FindRevocation
<1>2. v.pc = pc /\ v.op = tx[c].op
  BY <1>1 DEF TxType
<1>3. pc \in {"selectDecision", "insertRevocation"}
  OBVIOUS
<1> HIDE DEF pc
<1>4. StageSound(v)
  BY <1>1, <1>2, <1>3 DEF Good, StageSound
<1> QED BY <1>1, <1>3, <1>4, StageMove DEF Stages

\* It inserts the revocation of its decision.
LEMMA InsertRevocationMove ==
    ASSUME SharedInv, NEW c \in Sessions, InsertRevocation(c)
    PROVE  SharedInv'
<1> DEFINE u == tx[c]
           R == {u.arg} \ decisionRevocations
           v == [u EXCEPT !.pc = "selectDecision", !.revokes = R]
<1>1. u \in TxType /\ Good(u) /\ u.pc = "insertRevocation" /\ Continue(c, v)
  BY DEF SharedInv, InsertRevocation
<1>2. u.op = "revokeDecision" /\ u.arg \in Decisions /\ R \in SUBSET Decisions
  BY <1>1 DEF Good, StageSound, ArgSound
<1> HIDE DEF R
<1>3. /\ v \in TxType /\ v.pc = "selectDecision" /\ v.op = u.op /\ v.arg = u.arg
      /\ v.locked = u.locked /\ v.writes = u.writes /\ v.using = u.using /\ v.late = u.late
  BY <1>1, <1>2 DEF TxType, Stages
<1> HIDE DEF v
<1>4. Good(v)
  BY <1>1, <1>2, <1>3 DEF Good, ArgSound, StageSound, WritesSound, AllEnded
<1>5. \A o \in Sessions \ {c} : v.locked \cap tx[o].locked = {}
  BY <1>3 DEF SharedInv, LocksExclude
<1> QED BY <1>1, <1>3, <1>4, <1>5, StatementMove

\* A list of the rows to lock is a sequence of tokens, and not empty if there are rows.
LEMMA OrderedRows ==
    ASSUME NEW S \in SUBSET TokenIds, NEW q \in Orders(S)
    PROVE  q \in Seq(TokenIds) /\ (S # {} => q # <<>>)
<1>1. IsFiniteSet(S)
  BY RowsAssumption, FS_Subset
<1>2. Cardinality(S) \in Nat /\ (Cardinality(S) = 0 <=> S = {})
  BY <1>1, FS_CardinalityType, FS_EmptySet
<1>3. q \in [1 .. Cardinality(S) -> S]
  BY DEF Orders
<1>4. q \in Seq(TokenIds) /\ Len(q) = Cardinality(S)
  BY <1>2, <1>3
<1> QED BY <1>2, <1>4

\* A statement selects rows for update.
LEMMA SelectMove ==
    ASSUME SharedInv, NEW c \in Sessions, NEW S \in SUBSET TokenIds,
           tx[c].pc \in {"selectOverdue", "selectDecision"}, SelectForUpdate(c, S)
    PROVE  SharedInv'
<1> DEFINE u == tx[c]
           pc == IF S = {} THEN AfterRows(u.op) ELSE "lockRows"
<1>1. u \in TxType /\ Good(u)
  BY DEF SharedInv
<1>2. PICK q \in Orders(S) : Continue(c, [u EXCEPT !.todo = q, !.pc = pc])
  BY DEF SelectForUpdate
<1> DEFINE v == [u EXCEPT !.todo = q, !.pc = pc]
<1>3. q \in Seq(TokenIds) /\ (S # {} => q # <<>>)
  BY OrderedRows
<1>4. /\ pc \in {"lockRows", "readToken", "commit"} /\ (pc = "lockRows" => S # {})
      /\ (pc = "readToken" => u.op = "use")
  BY DEF AfterRows
<1> HIDE DEF pc
<1>5. /\ v \in TxType /\ v.pc = pc /\ v.todo = q /\ v.op = u.op /\ v.arg = u.arg
      /\ v.locked = u.locked /\ v.writes = u.writes /\ v.using = u.using /\ v.late = u.late
  BY <1>1, <1>3, <1>4 DEF TxType, Stages
<1>6. Continue(c, v)
  BY <1>2
<1> HIDE DEF v
<1>7. Good(v)
  BY <1>1, <1>3, <1>4, <1>5 DEF Good, ArgSound, StageSound, WritesSound, AllEnded
<1>8. \A o \in Sessions \ {c} : v.locked \cap tx[o].locked = {}
  BY <1>5 DEF SharedInv, LocksExclude
<1> QED BY <1>5, <1>6, <1>7, <1>8, StatementMove

\* Ending one more row leaves a transaction that only ends rows.
LEMMA EndRow ==
    ASSUME SharedInv, NEW c \in Sessions, NEW t \in TokenIds, tx[c].pc # "commit",
           Row(c, t).status # "none", NEW st \in {"expired", "revoked"}
    PROVE  LET w == With(tx[c].writes, t, [Row(c, t) EXCEPT !.status = st])
           IN  /\ w \in Writes /\ DOMAIN w = DOMAIN tx[c].writes \cup {t}
               /\ \A x \in DOMAIN w : Ended(x, w[x])
<1> DEFINE r == [Row(c, t) EXCEPT !.status = st]
           f == tx[c].writes
           w == With(f, t, r)
<1>1. /\ tx[c] \in TxType /\ Good(tx[c]) /\ Row(c, t) \in RowType /\ status[t] # "none"
      /\ Row(c, t).issuance = issuance[t] /\ Row(c, t).useCount = useCount[t]
  BY RowsSeen
<1>2. f \in Writes /\ \A x \in DOMAIN f : Ended(x, f[x])
  BY <1>1 DEF TxType, Good, WritesSound, AllEnded
<1>3. /\ r \in RowType /\ r.status = st /\ r.issuance = issuance[t] /\ r.useCount = useCount[t]
  BY <1>1 DEF RowType, Statuses
<1> HIDE DEF r, f
<1>4. /\ w \in Writes /\ DOMAIN w = DOMAIN f \cup {t} /\ w[t] = r
      /\ \A x \in DOMAIN f \ {t} : w[x] = f[x]
  BY <1>2, <1>3, WithRow
<1> HIDE DEF w
<1>5. Ended(t, w[t])
  BY <1>1, <1>3, <1>4 DEF Ended
<1>6. \A x \in DOMAIN w : Ended(x, w[x])
  BY <1>2, <1>4, <1>5
<1> QED BY <1>4, <1>6 DEF w, f, r

\* The rows left to lock after the first.
LEMMA RowsLeft ==
    ASSUME NEW s \in Seq(TokenIds), s # <<>>
    PROVE  Head(s) \in TokenIds /\ Tail(s) \in Seq(TokenIds) /\ (Len(s) # 1 => Tail(s) # <<>>)
<1>1. Len(s) \in Nat /\ Len(s) # 0
  OBVIOUS
<1>2. Head(s) \in TokenIds /\ Tail(s) \in Seq(TokenIds)
  OBVIOUS
<1>3. Len(Tail(s)) = Len(s) - 1
  BY <1>1
<1>4. Tail(s) = <<>> => Len(s) - 1 = 0
  BY <1>3
<1> QED BY <1>1, <1>2, <1>4

\* A selected row is locked, and ended if it is still issued.
LEMMA LockRowMove ==
    ASSUME SharedInv, NEW c \in Sessions, LockRow(c)
    PROVE  SharedInv'
<1> DEFINE u == tx[c]
           t == Head(u.todo)
           r == Row(c, t)
           new == IF u.op = "revokeDecision" THEN "revoked" ELSE "expired"
           L == u.locked \cup {t}
           q == Tail(u.todo)
           pc == IF Len(u.todo) = 1 THEN AfterRows(u.op) ELSE u.pc
           w == IF r.status = "issued" THEN With(u.writes, t, [r EXCEPT !.status = new]) ELSE u.writes
           v == [u EXCEPT !.locked = L, !.todo = q, !.pc = pc, !.writes = w]
<1>1. u \in TxType /\ Good(u) /\ u.pc = "lockRows" /\ ~ LockedByOther(c, t) /\ Continue(c, v)
  BY DEF SharedInv, LockRow
<1>2. u.todo \in Seq(TokenIds) /\ u.todo # <<>> /\ u.writes \in Writes /\ u.using = FALSE
  BY <1>1 DEF TxType, Good, StageSound, WritesSound
<1>3. t \in TokenIds /\ q \in Seq(TokenIds) /\ (Len(u.todo) # 1 => q # <<>>)
  BY <1>2, RowsLeft
<1>4. new \in {"expired", "revoked"}
  OBVIOUS
<1>5. w \in Writes /\ DOMAIN w \subseteq L /\ \A x \in DOMAIN w : Ended(x, w[x])
  <2>1. CASE r.status = "issued"
    <3>1. w = With(u.writes, t, [r EXCEPT !.status = new])
      BY <2>1
    <3>2. r.status # "none" /\ u.pc # "commit"
      BY <1>1, <2>1
    <3> HIDE DEF new, w, t
    <3>3. w \in Writes /\ DOMAIN w = DOMAIN u.writes \cup {t} /\ \A x \in DOMAIN w : Ended(x, w[x])
      BY <1>3, <1>4, <3>1, <3>2, EndRow
    <3>4. DOMAIN u.writes \subseteq u.locked
      BY <1>1 DEF Good, WritesSound
    <3> QED BY <3>3, <3>4
  <2>2. CASE r.status # "issued"
    BY <1>1, <1>2, <2>2 DEF Good, WritesSound, AllEnded
  <2> QED BY <2>1, <2>2
<1>6. /\ pc \in {"lockRows", "readToken", "commit"} /\ (pc = "lockRows" => Len(u.todo) # 1)
      /\ (pc = "readToken" => u.op = "use")
  BY <1>1 DEF AfterRows
<1>7. L \in SUBSET TokenIds
  BY <1>1, <1>3 DEF TxType
<1> HIDE DEF t, r, new, L, q, pc, w
<1>8. /\ v \in TxType /\ v.pc = pc /\ v.todo = q /\ v.op = u.op /\ v.arg = u.arg
      /\ v.locked = L /\ v.writes = w /\ v.using = FALSE /\ v.late = u.late
  BY <1>1, <1>2, <1>3, <1>5, <1>6, <1>7 DEF TxType, Stages
<1> HIDE DEF v
<1>9. Good(v)
  BY <1>1, <1>2, <1>3, <1>5, <1>6, <1>8 DEF Good, ArgSound, StageSound, WritesSound, AllEnded
<1>10. \A o \in Sessions \ {c} : v.locked \cap tx[o].locked = {}
  BY <1>1, <1>8 DEF SharedInv, LocksExclude, LockedByOther, L
<1> QED BY <1>1, <1>8, <1>9, <1>10, StatementMove

\* The token's row is read and locked: a registration is over, a revocation ends the row
\* and a use goes on with an issued one.
LEMMA ReadTokenMove ==
    ASSUME SharedInv, NEW c \in Sessions, ReadToken(c), ReadLock(c)
    PROVE  SharedInv'
<1> DEFINE u == tx[c]
           t == TokenOf(c)
           r == Row(c, t)
           L == IF r.status = "none" THEN u.locked ELSE u.locked \cup {t}
           next == [u EXCEPT !.locked = L]
<1>1. u \in TxType /\ Good(u) /\ u.pc = "readToken"
  BY DEF SharedInv, ReadToken
<1>2. u.op \in {"register", "revokeToken", "use"} /\ t \in TokenIds /\ u.using = FALSE
  BY <1>1, IssuanceShape DEF Good, StageSound, ArgSound, WritesSound, TokenOf
<1>3. L \in SUBSET TokenIds /\ u.locked \subseteq L
  BY <1>1, <1>2 DEF TxType
<1>4. \A o \in Sessions \ {c} : L \cap tx[o].locked = {}
  <2>1. \A o \in Sessions \ {c} : u.locked \cap tx[o].locked = {}
    BY DEF SharedInv, LocksExclude
  <2>2. CASE r.status = "none"
    BY <2>1, <2>2
  <2>3. CASE r.status # "none"
    <3>1. ~ LockedByOther(c, t)
      BY <1>1, <1>2, <2>3, RowsSeen DEF ReadLock
    <3> QED BY <2>1, <2>3, <3>1 DEF LockedByOther
  <2> QED BY <2>2, <2>3
<1>5. AllEnded(u) /\ DOMAIN u.writes \subseteq u.locked
  BY <1>1 DEF Good, WritesSound
<1>6. ASSUME NEW pc \in {"commit", "checkRevocation"}, NEW w \in Writes,
             DOMAIN w \subseteq L, \A x \in DOMAIN w : Ended(x, w[x]),
             pc = "checkRevocation" => u.op = "use" /\ r.status = "issued" /\ w = u.writes,
             Continue(c, [next EXCEPT !.pc = pc, !.writes = w])
      PROVE  SharedInv'
  <2> DEFINE v == [next EXCEPT !.pc = pc, !.writes = w]
  <2> HIDE DEF L
  <2>1. /\ v \in TxType /\ v.pc = pc /\ v.op = u.op /\ v.arg = u.arg
        /\ v.locked = L /\ v.writes = w /\ v.using = FALSE /\ v.late = u.late
    BY <1>1, <1>2, <1>3 DEF TxType, Stages
  <2>2. Continue(c, v)
    BY <1>6
  <2> HIDE DEF v
  <2>3. ArgSound(v) /\ WritesSound(v)
    BY <1>1, <1>6, <2>1 DEF Good, ArgSound, WritesSound, AllEnded
  <2>4. StageSound(v)
    <3>1. CASE pc = "commit"
      BY <2>1, <3>1 DEF StageSound
    <3>2. CASE pc = "checkRevocation"
      <4>1. u.op = "use" /\ r.status = "issued" /\ w = u.writes /\ t = u.arg
        BY <1>6, <3>2 DEF TokenOf
      <4>2. r = RowSeen(u, t)
        BY <1>2, RowsSeen
      <4>3. RowSeen(v, v.arg).status = "issued" /\ v.arg \in v.locked
        BY <2>1, <4>1, <4>2 DEF RowSeen, L
      <4> QED BY <2>1, <3>2, <4>1, <4>3 DEF StageSound
    <3> QED BY <3>1, <3>2
  <2> QED BY <1>4, <2>1, <2>2, <2>3, <2>4, StatementMove DEF Good
<1>7. u.writes \in Writes /\ DOMAIN u.writes \subseteq L
  BY <1>1, <1>3, <1>5 DEF TxType
<1>8. next.writes = u.writes
  BY <1>1 DEF TxType
<1>9. ASSUME NEW pc, Continue(c, [next EXCEPT !.pc = pc])
      PROVE  Continue(c, [next EXCEPT !.pc = pc, !.writes = u.writes])
  <2>1. next \in TxType
    BY <1>1, <1>3 DEF TxType
  <2>2. [next EXCEPT !.pc = pc] = [next EXCEPT !.pc = pc, !.writes = u.writes]
    BY <1>8, <2>1 DEF TxType
  <2> QED BY <1>9, <2>2
<1>10. CASE Continue(c, NoTransaction)
  BY <1>10, RollbackMove
<1>11. CASE Continue(c, [next EXCEPT !.pc = "commit"])
  BY <1>5, <1>6, <1>7, <1>9, <1>11 DEF AllEnded
<1>12. CASE /\ u.op = "revokeToken"
            /\ Continue(c, [next EXCEPT
                  !.pc = "commit",
                  !.writes = IF r.status = "none" THEN @
                             ELSE With(@, t, [r EXCEPT !.status = "revoked"])])
  <2> DEFINE w == IF r.status = "none" THEN u.writes
                  ELSE With(u.writes, t, [r EXCEPT !.status = "revoked"])
  <2>1. w \in Writes /\ DOMAIN w \subseteq L /\ \A x \in DOMAIN w : Ended(x, w[x])
    <3>1. CASE r.status = "none"
      BY <1>5, <1>7, <3>1 DEF AllEnded
    <3>2. CASE r.status # "none"
      BY <1>1, <1>2, <1>7, <3>2, EndRow
    <3> QED BY <3>1, <3>2
  <2>2. Continue(c, [next EXCEPT !.pc = "commit", !.writes = w])
    BY <1>8, <1>12
  <2> HIDE DEF w
  <2> QED BY <1>6, <2>1, <2>2
<1>13. CASE /\ u.op = "use"
            /\ Continue(c, [next EXCEPT
                  !.pc = IF r.status = "issued" THEN "checkRevocation" ELSE "commit"])
  <2>1. CASE r.status = "issued"
    <3>1. Continue(c, [next EXCEPT !.pc = "checkRevocation"])
      BY <1>13, <2>1
    <3> QED BY <1>5, <1>6, <1>7, <1>9, <1>13, <2>1, <3>1 DEF AllEnded
  <2>2. CASE r.status # "issued"
    <3>1. Continue(c, [next EXCEPT !.pc = "commit"])
      BY <1>13, <2>2
    <3> QED BY <1>11, <3>1
  <2> QED BY <2>1, <2>2
<1> HIDE DEF next
<1> QED BY <1>10, <1>11, <1>12, <1>13 DEF ReadToken, Rollback, next

\* A use whose decision is not revoked counts in the row it has locked; one that began
\* after the revocation finds it.
LEMMA CheckRevocationMove ==
    ASSUME SharedInv, NEW c \in Sessions, CheckRevocation(c)
    PROVE  SharedInv'
<1> DEFINE u == tx[c]
           t == u.arg
           r == Row(c, t)
           new == ConsumedRow(r, u.at)
           w == With(u.writes, t, new)
           v == [u EXCEPT !.pc = "commit", !.using = TRUE, !.writes = w]
<1>1. u \in TxType /\ Good(u) /\ u.pc = "checkRevocation"
  BY DEF SharedInv, CheckRevocation
<1>2. /\ u.op = "use" /\ t \in u.locked /\ t \in TokenIds /\ status[t] # "none"
      /\ RowSeen(u, t).status = "issued" /\ AllEnded(u) /\ u.writes \in Writes /\ u.at \in Times
      /\ DOMAIN u.writes \subseteq u.locked
  BY <1>1 DEF Good, ArgSound, StageSound, WritesSound, TxType
<1>3. /\ r \in RowType /\ r.status = "issued" /\ status[t] = "issued" /\ t \notin DOMAIN u.writes
      /\ r.issuance = issuance[t] /\ r.useCount = useCount[t]
  BY <1>1, <1>2, RowsSeen
<1>4. CASE Continue(c, [u EXCEPT !.pc = "commit"])
  <2>1. [u EXCEPT !.pc = "commit"].pc = "commit"
    BY <1>1 DEF TxType
  <2>2. StageSound([u EXCEPT !.pc = "commit"])
    BY <2>1 DEF StageSound
  <2> QED BY <1>1, <1>4, <2>2, StageMove DEF Stages
<1>5. CASE ~ DecisionRevoked(r) /\ Continue(c, v)
  <2>1. u.late = FALSE
    <3>1. issuance[t].decisionId \notin decisionRevocations
      BY <1>3, <1>5 DEF DecisionRevoked
    <3>2. u.late => issuance[u.arg].decisionId \in decisionRevocations
      BY <1>1 DEF Good, ArgSound
    <3>3. u.late \in BOOLEAN
      BY <1>1 DEF TxType
    <3> QED BY <3>1, <3>2, <3>3
  <2>2. /\ new \in RowType /\ new.issuance = issuance[t] /\ new.useCount = useCount[t] + 1
        /\ new.status = IF useCount[t] + 1 >= issuance[t].maxUses THEN "consumed" ELSE "issued"
    <3> HIDE DEF r
    <3>1. r.useCount + 1 \in Nat
      BY <1>3 DEF RowType
    <3>2. /\ new = [r EXCEPT !.useCount = r.useCount + 1, !.lastUsedAt = u.at,
                             !.status = IF r.useCount + 1 >= r.issuance.maxUses
                                          THEN "consumed" ELSE r.status]
      BY DEF ConsumedRow
    <3>3. new \in RowType
      BY <1>2, <1>3, <3>1, <3>2 DEF RowType, Statuses
    <3>4. /\ new.issuance = r.issuance /\ new.useCount = r.useCount + 1
          /\ new.status = IF r.useCount + 1 >= r.issuance.maxUses THEN "consumed" ELSE r.status
      BY <1>3, <3>2 DEF RowType
    <3> QED BY <1>3, <3>3, <3>4
  <2> HIDE DEF r, new
  <2>3. /\ w \in Writes /\ DOMAIN w = DOMAIN u.writes \cup {t} /\ w[t] = new
        /\ \A x \in DOMAIN u.writes \ {t} : w[x] = u.writes[x]
    <3> HIDE DEF t, u
    <3>1. u.writes \in Writes /\ t \in TokenIds /\ new \in RowType
      BY <1>2, <2>2
    <3> QED BY <3>1, WithRow
  <2> HIDE DEF w
  <2>4. /\ v \in TxType /\ v.pc = "commit" /\ v.op = u.op /\ v.arg = t
        /\ v.locked = u.locked /\ v.writes = w /\ v.using = TRUE /\ v.late = FALSE
    BY <1>1, <2>1, <2>3 DEF TxType, Stages
  <2>5. Continue(c, v)
    BY <1>5
  <2> HIDE DEF v
  <2>6. \A x \in DOMAIN w \ {t} : Ended(x, w[x])
    BY <1>2, <2>3 DEF AllEnded
  <2>7. Used(v)
    BY <1>2, <1>3, <2>2, <2>3, <2>4, <2>6 DEF Used
  <2>8. Good(v)
    BY <1>2, <2>3, <2>4, <2>7 DEF Good, ArgSound, StageSound, WritesSound
  <2>9. \A o \in Sessions \ {c} : v.locked \cap tx[o].locked = {}
    BY <2>4 DEF SharedInv, LocksExclude
  <2> QED BY <2>4, <2>5, <2>8, <2>9, StatementMove
<1> QED BY <1>4, <1>5 DEF CheckRevocation

-----------------------------------------------------------------------------
\* What a commit does to the rows: it inserts one, or ends some, or counts a use of one
\* that is issued and ends others.
LEMMA CommitEffect ==
    ASSUME SharedInv, NEW c \in Sessions, NEW answered \in BOOLEAN, Commit(c, answered)
    PROVE  /\ tx[c] \in TxType /\ Good(tx[c])
           /\ tx[c].using \/ AllEnded(tx[c]) \/ Inserted(tx[c])
           /\ tx[c].using => Used(tx[c])
           /\ DOMAIN tx[c].writes \subseteq tx[c].locked
           /\ issuance' = [t \in TokenIds |-> RowSeen(tx[c], t).issuance]
           /\ status' = [t \in TokenIds |-> RowSeen(tx[c], t).status]
           /\ useCount' = [t \in TokenIds |-> RowSeen(tx[c], t).useCount]
           /\ lastUsedAt' = [t \in TokenIds |-> RowSeen(tx[c], t).lastUsedAt]
           /\ \A t \in TokenIds : RowSeen(tx[c], t) \in RowType
           /\ \A t \in TokenIds \ DOMAIN tx[c].writes :
                 /\ issuance'[t] = issuance[t] /\ status'[t] = status[t]
                 /\ useCount'[t] = useCount[t] /\ lastUsedAt'[t] = lastUsedAt[t]
           /\ \A t \in DOMAIN tx[c].writes :
                 /\ t \in TokenIds
                 /\ issuance'[t] = tx[c].writes[t].issuance /\ status'[t] = tx[c].writes[t].status
                 /\ useCount'[t] = tx[c].writes[t].useCount
<1>1. tx[c] \in TxType /\ Good(tx[c])
  BY DEF SharedInv
<1>2. DOMAIN tx[c].writes \subseteq TokenIds
  BY <1>1 DEF TxType, Writes
<1>3. \A t \in TokenIds : RowSeen(tx[c], t) \in RowType /\ Row(c, t) = RowSeen(tx[c], t)
  BY RowsSeen
<1>4. /\ issuance' = [t \in TokenIds |-> RowSeen(tx[c], t).issuance]
      /\ status' = [t \in TokenIds |-> RowSeen(tx[c], t).status]
      /\ useCount' = [t \in TokenIds |-> RowSeen(tx[c], t).useCount]
      /\ lastUsedAt' = [t \in TokenIds |-> RowSeen(tx[c], t).lastUsedAt]
  BY <1>3 DEF Commit
<1>5. /\ tx[c].using \/ AllEnded(tx[c]) \/ Inserted(tx[c])
      /\ tx[c].using => Used(tx[c])
      /\ DOMAIN tx[c].writes \subseteq tx[c].locked
  BY <1>1 DEF Good, WritesSound
<1>6. \A t \in TokenIds \ DOMAIN tx[c].writes :
                 /\ issuance'[t] = issuance[t] /\ status'[t] = status[t]
                 /\ useCount'[t] = useCount[t] /\ lastUsedAt'[t] = lastUsedAt[t]
  BY <1>4 DEF RowSeen, CurrentRow
<1>7. \A t \in DOMAIN tx[c].writes :
                 /\ t \in TokenIds
                 /\ issuance'[t] = tx[c].writes[t].issuance /\ status'[t] = tx[c].writes[t].status
                 /\ useCount'[t] = tx[c].writes[t].useCount
  BY <1>2, <1>4 DEF RowSeen
<1> QED BY <1>1, <1>3, <1>4, <1>5, <1>6, <1>7

\* How one row moves in a commit.
RowStep(t) ==
    \/ /\ issuance'[t] = issuance[t] /\ status'[t] = status[t] /\ useCount'[t] = useCount[t]
    \/ /\ status[t] = "none" /\ status'[t] = "issued" /\ useCount'[t] = 0
       /\ issuance'[t] \in Issuances /\ issuance'[t].tokenId = t
    \/ /\ status[t] # "none" /\ status'[t] \in {"expired", "revoked"}
       /\ issuance'[t] = issuance[t] /\ useCount'[t] = useCount[t]
    \/ /\ status[t] = "issued" /\ issuance'[t] = issuance[t]
       /\ useCount'[t] = useCount[t] + 1
       /\ status'[t] = IF useCount[t] + 1 >= issuance[t].maxUses THEN "consumed" ELSE "issued"

\* Every row moves in one of these ways.
LEMMA CommitRows ==
    ASSUME SharedInv, NEW c \in Sessions, NEW answered \in BOOLEAN, Commit(c, answered)
    PROVE  \A t \in TokenIds : RowStep(t)
<1> SUFFICES ASSUME NEW t \in TokenIds
             PROVE  RowStep(t)
  OBVIOUS
<1> DEFINE u == tx[c]
<1>1. CASE t \notin DOMAIN u.writes
  BY <1>1, CommitEffect DEF RowStep
<1>2. CASE t \in DOMAIN u.writes
  <2>1. /\ issuance'[t] = u.writes[t].issuance /\ status'[t] = u.writes[t].status
        /\ useCount'[t] = u.writes[t].useCount
    BY <1>2, CommitEffect
  <2>2. CASE Ended(t, u.writes[t])
    BY <2>1, <2>2 DEF Ended, RowStep
  <2>3. CASE u.using
    <3>1. Used(u)
      BY <2>3, CommitEffect
    <3>2. CASE t = u.arg
      BY <2>1, <3>1, <3>2 DEF Used, RowStep
    <3>3. CASE t # u.arg
      BY <1>2, <2>2, <3>1, <3>3 DEF Used
    <3> QED BY <3>2, <3>3
  <2>4. CASE Inserted(u)
    <3>1. PICK i \in Issuances : DOMAIN u.writes = {i.tokenId} /\ u.writes[i.tokenId] = NewRow(i)
                                 /\ status[i.tokenId] = "none"
      BY <2>4 DEF Inserted
    <3>2. t = i.tokenId
      BY <1>2, <3>1
    <3> QED BY <2>1, <3>1, <3>2 DEF NewRow, RowStep
  <2>5. CASE AllEnded(u)
    BY <1>2, <2>2, <2>5 DEF AllEnded
  <2> QED BY <2>3, <2>4, <2>5, CommitEffect
<1> QED BY <1>1, <1>2

\* A commit leaves the rows well typed and within their budgets.
LEMMA CommitKeepsRows ==
    ASSUME SharedInv, NEW c \in Sessions, NEW answered \in BOOLEAN, Commit(c, answered)
    PROVE  /\ RTypeOK' /\ UseBudget'
           /\ \A t \in TokenIds : useCount[t] <= useCount'[t]
           /\ \A t \in TokenIds : status[t] # "none" => status'[t] # "none" /\ issuance'[t] = issuance[t]
<1>1. RTypeOK /\ UseBudget /\ tx[c] \in TxType
  BY DEF SharedInv
<1>2. \A t \in TokenIds : RowStep(t)
  BY CommitRows
<1>3. /\ issuance' \in [TokenIds -> Issuances \cup {NoIssuance}] /\ status' \in [TokenIds -> Statuses]
      /\ useCount' \in [TokenIds -> Nat] /\ lastUsedAt' \in [TokenIds -> Times]
  BY CommitEffect DEF RowType
<1>4. decisionRevocations' \subseteq Decisions
  BY <1>1 DEF Commit, RTypeOK, TxType
<1>5. ASSUME NEW t \in TokenIds
      PROVE  /\ status[t] # "none" => status'[t] # "none" /\ issuance'[t] = issuance[t]
             /\ status'[t] # "none" => issuance'[t] \in Issuances /\ issuance'[t].tokenId = t
             /\ status'[t] = "none" => issuance'[t] = NoIssuance /\ useCount'[t] = 0
             /\ useCount[t] <= useCount'[t]
  BY <1>1, <1>2 DEF RowStep, RTypeOK
<1>6. RTypeOK'
  BY <1>3, <1>4, <1>5 DEF RTypeOK
<1>7. UseBudget'
  <2> SUFFICES ASSUME NEW t \in TokenIds, status'[t] # "none"
               PROVE  /\ useCount'[t] <= issuance'[t].maxUses
                      /\ status'[t] = "issued" => useCount'[t] < issuance'[t].maxUses
                      /\ status'[t] = "consumed" => useCount'[t] = issuance'[t].maxUses
    BY DEF UseBudget, Registered
  <2>1. issuance'[t].maxUses \in Nat /\ issuance'[t].maxUses > 0
    BY <1>5, IssuanceShape
  <2>2. useCount[t] \in Nat /\ useCount'[t] \in Nat
    BY <1>1, <1>3 DEF RTypeOK
  <2>3. status[t] # "none" => /\ useCount[t] <= issuance[t].maxUses
                              /\ status[t] = "issued" => useCount[t] < issuance[t].maxUses
                              /\ status[t] = "consumed" => useCount[t] = issuance[t].maxUses
    BY <1>1 DEF UseBudget, Registered
  <2>4. RowStep(t)
    BY <1>2
  <2> QED BY <2>1, <2>2, <2>3, <2>4 DEF RowStep
<1> QED BY <1>5, <1>6, <1>7

\* Nothing that a transaction relies on is changed by the commit of another: its rows are
\* locked, registered rows stay registered and revocations stay.
LEMMA CommitLeavesOthers ==
    ASSUME SharedInv, NEW c \in Sessions, NEW answered \in BOOLEAN, Commit(c, answered),
           NEW o \in Sessions \ {c}
    PROVE  Good(tx[o])'
<1>1. tx'[o] = tx[o] /\ Good(tx[o]) /\ tx[o] \in TxType
  BY DEF SharedInv, Commit
<1>2. PICK v : v = tx[o] /\ v = tx'[o]
  BY <1>1
<1>3. v.locked \cap DOMAIN tx[c].writes = {} /\ v.locked \subseteq TokenIds
  BY <1>1, <1>2, CommitEffect DEF SharedInv, LocksExclude, TxType
<1>4. \A t \in v.locked : /\ issuance'[t] = issuance[t] /\ status'[t] = status[t]
                          /\ useCount'[t] = useCount[t] /\ lastUsedAt'[t] = lastUsedAt[t]
  BY <1>3, CommitEffect
<1>5. decisionRevocations \subseteq decisionRevocations'
  BY DEF Commit
<1>6. ArgSound(v) /\ StageSound(v) /\ WritesSound(v)
  BY <1>1, <1>2 DEF Good
<1>7. ArgSound(tx[o])'
  BY <1>2, <1>5, <1>6, CommitKeepsRows DEF ArgSound
<1>8. StageSound(tx[o])'
  BY <1>2, <1>4, <1>6 DEF StageSound, RowSeen, CurrentRow
<1>9. WritesSound(tx[o])'
  <2>1. DOMAIN v.writes \subseteq v.locked
    BY <1>6 DEF WritesSound
  <2>2. \A t \in DOMAIN v.writes : Ended(t, v.writes[t]) => Ended(t, v.writes[t])'
    BY <1>4, <2>1 DEF Ended
  <2>3. Used(v) => Used(v)'
    BY <1>4, <2>1, <2>2 DEF Used
  <2>4. Inserted(v) => Inserted(v)'
    BY <1>4, <2>1 DEF Inserted
  <2>5. AllEnded(v) => AllEnded(v)'
    BY <2>2 DEF AllEnded
  <2>6. WritesSound(v)'
    BY <1>6, <2>3, <2>4, <2>5 DEF WritesSound
  <2> QED BY <1>2, <2>6 DEF WritesSound, Used, AllEnded, Inserted, Ended
<1> QED BY <1>7, <1>8, <1>9 DEF Good

\* A commit keeps the invariant: an accepted use is in the row.
LEMMA CommitMove ==
    ASSUME SharedInv, NEW c \in Sessions, NEW answered \in BOOLEAN, Commit(c, answered)
    PROVE  SharedInv'
<1>1. tx' = [tx EXCEPT ![c] = NoTransaction] /\ tx \in [Sessions -> TxType]
  BY DEF SharedInv, Commit
<1>2. tx' \in [Sessions -> TxType] /\ tx'[c] = NoTransaction /\ \A o \in Sessions \ {c} : tx'[o] = tx[o]
  BY <1>1, IdleIsGood
<1>3. LocksExclude'
  BY <1>2 DEF SharedInv, LocksExclude, NoTransaction
<1>4. Good(tx[c])'
  <2>1. DOMAIN NoTransaction.writes = {}
    BY DEF NoTransaction
  <2> QED BY <1>2, <2>1 DEF NoTransaction, Good, ArgSound, StageSound, WritesSound, AllEnded
<1>5. \A o \in Sessions : Good(tx[o])'
  BY <1>4, CommitLeavesOthers
<1>6. RTypeOK' /\ UseBudget' /\ \A t \in TokenIds : useCount[t] <= useCount'[t]
  BY CommitKeepsRows
<1>7. accepted' \in [TokenIds -> Nat] /\ \A t \in TokenIds : accepted'[t] <= useCount'[t]
  <2>1. /\ accepted \in [TokenIds -> Nat] /\ useCount \in [TokenIds -> Nat]
        /\ useCount' \in [TokenIds -> Nat] /\ \A t \in TokenIds : accepted[t] <= useCount[t]
    BY <1>6 DEF SharedInv, RTypeOK
  <2>2. CASE accepted' = accepted
    BY <1>6, <2>1, <2>2
  <2>3. CASE tx[c].using /\ accepted' = [accepted EXCEPT ![tx[c].arg] = @ + 1]
    <3>1. Used(tx[c])
      BY <2>3, CommitEffect
    <3>2. tx[c].arg \in TokenIds /\ useCount'[tx[c].arg] = useCount[tx[c].arg] + 1
      BY <3>1, CommitEffect DEF Used
    <3>3. \A t \in TokenIds : accepted'[t] = IF t = tx[c].arg THEN accepted[t] + 1 ELSE accepted[t]
      BY <2>1, <2>3, <3>2
    <3> QED BY <1>6, <2>1, <2>3, <3>2, <3>3
  <2> QED BY <2>2, <2>3 DEF Commit
<1> QED BY <1>2, <1>3, <1>5, <1>6, <1>7 DEF SharedInv

-----------------------------------------------------------------------------
\* A session that starts an operation keeps the invariant.
LEMMA StartMove ==
    ASSUME SharedInv, NEW c \in Sessions, Start(c)
    PROVE  SharedInv'
<1>0. 0 \in Times
  BY IssuancesAssumption DEF Times
<1>1. ASSUME NEW i \in Issuances, BeginRegister(c, i)
      PROVE  SharedInv'
  BY <1>0, <1>1, BeginMove DEF BeginRegister
<1>2. ASSUME NEW t \in TokenIds, BeginRevokeToken(c, t)
      PROVE  SharedInv'
  BY <1>0, <1>2, BeginMove DEF BeginRevokeToken
<1>3. ASSUME NEW d \in Decisions, BeginRevokeDecision(c, d)
      PROVE  SharedInv'
  BY <1>0, <1>3, BeginMove DEF BeginRevokeDecision
<1>4. ASSUME NEW at \in Times, BeginSync(c, at)
      PROVE  SharedInv'
  BY <1>4, BeginMove DEF BeginSync
<1>5. ASSUME NEW at \in Times, NEW t \in TokenIds, BeginUse(c, t, at)
      PROVE  SharedInv'
  BY <1>5, BeginUseMove
<1> QED BY <1>1, <1>2, <1>3, <1>4, <1>5 DEF Start

\* Every step keeps the invariant.
LEMMA SharedStep == SharedInv /\ [Next]_vars => SharedInv'
<1> SUFFICES ASSUME SharedInv, [Next]_vars
             PROVE  SharedInv'
  OBVIOUS
<1>1. ASSUME NEW c \in Sessions, Step(c)
      PROVE  SharedInv'
  <2>1. CASE CheckIssuable(c)
    BY <2>1, CheckIssuableMove
  <2>2. CASE InsertToken(c)
    BY <2>2, InsertTokenMove
  <2>3. CASE FindRevocation(c)
    BY <2>3, FindRevocationMove
  <2>4. CASE InsertRevocation(c)
    BY <2>4, InsertRevocationMove
  <2>5. CASE SelectDecision(c)
    <3>1. {t \in Registered : issuance[t].decisionId = tx[c].arg} \in SUBSET TokenIds
      BY DEF Registered
    <3> QED BY <2>5, <3>1, SelectMove DEF SelectDecision
  <2>6. CASE SelectOverdue(c)
    <3>1. Overdue(tx[c].at) \in SUBSET TokenIds
      BY DEF Overdue
    <3> QED BY <2>6, <3>1, SelectMove DEF SelectOverdue
  <2>7. CASE LockRow(c)
    BY <2>7, LockRowMove
  <2>8. CASE ReadToken(c)
    BY <2>8, ReadTokenMove DEF ReadToken
  <2>9. CASE CheckRevocation(c)
    BY <2>9, CheckRevocationMove
  <2>10. ASSUME NEW answered \in BOOLEAN, Commit(c, answered)
         PROVE  SharedInv'
    BY <2>10, CommitMove
  <2> QED BY <1>1, <2>1, <2>2, <2>3, <2>4, <2>5, <2>6, <2>7, <2>8, <2>9, <2>10 DEF Step
<1>2. ASSUME NEW c \in Sessions, Abort(c) \/ BreakDeadlock(c)
      PROVE  SharedInv'
  BY <1>2, RollbackMove DEF Abort, BreakDeadlock, Rollback
<1>3. CASE UNCHANGED vars
  <2>1. UNCHANGED <<issuance, status, useCount, lastUsedAt, decisionRevocations, tx, accepted>>
    BY <1>3 DEF vars, rvars
  <2>2. RTypeOK' /\ UseBudget'
    BY <2>1 DEF SharedInv, RTypeOK, UseBudget, Registered
  <2>3. \A o \in Sessions : Good(tx[o])'
    BY <2>1 DEF SharedInv, Good, ArgSound, StageSound, WritesSound, RowSeen, CurrentRow, Used,
                AllEnded, Inserted, Ended
  <2> QED BY <2>1, <2>2, <2>3 DEF SharedInv, LocksExclude
<1> QED BY <1>1, <1>2, <1>3, StartMove DEF Next

\* The invariant holds throughout.
LEMMA SharedInvariant == Spec => []SharedInv
  BY SharedInit, SharedStep, PTL DEF Spec

\* Rows and transactions of the shared registry are well typed; a row is locked by one
\* transaction at most and only its holder has written it.
THEOREM SharedTypeCorrect == Spec => []TypeOK
<1>1. SharedInv => TypeOK
  <2> SUFFICES ASSUME SharedInv
               PROVE  TypeOK
    OBVIOUS
  <2>1. ASSUME NEW c \in Sessions
        PROVE  /\ tx[c].locked \subseteq TokenIds /\ tx[c].revokes \subseteq Decisions
               /\ DOMAIN tx[c].writes \subseteq tx[c].locked
    BY DEF SharedInv, TxType, Good, WritesSound
  <2> QED BY <2>1 DEF SharedInv, TypeOK, LocksExclude
<1> QED BY <1>1, SharedInvariant, PTL

\* Concurrent uses on any number of nodes stay within maxUses, and every caller that was
\* told `accepted: true` is counted.
THEOREM SharedUsesCounted == Spec => []AcceptedUsesCounted
<1>1. SharedInv => AcceptedUsesCounted
  BY DEF SharedInv, AcceptedUsesCounted
<1> QED BY <1>1, SharedInvariant, PTL

\* A use that began after the revocation of its decision was committed is never counted.
THEOREM SharedRevocationCutsOff == Spec => RevocationCutsOff
<1>1. SharedInv => RevocationStep
  BY DEF SharedInv, Good, ArgSound, RevocationStep
<1> QED BY <1>1, SharedInvariant, PTL DEF RevocationCutsOff

-----------------------------------------------------------------------------
\* A commit opens, closes or uses authorities, or shows nothing.
LEMMA CommitIsAuthorityStep ==
    ASSUME SharedInv, NEW c \in Sessions, NEW answered \in BOOLEAN, Commit(c, answered)
    PROVE  Authority!ANext
<1> DEFINE u == tx[c]
           S == {t \in TokenIds : status[t] = "issued" /\ t \in DOMAIN u.writes}
           lim == [t \in TokenIds |-> IF status[t] = "none" THEN 0 ELSE issuance[t].maxUses]
           limN == [t \in TokenIds |-> IF status'[t] = "none" THEN 0 ELSE issuance'[t].maxUses]
<1>1. /\ RTypeOK /\ UseBudget /\ RTypeOK'
      /\ useCount \in [TokenIds -> Nat] /\ useCount' \in [TokenIds -> Nat]
      /\ \A t \in TokenIds : status[t] \in Statuses
  BY CommitKeepsRows DEF SharedInv, RTypeOK
<1>2. /\ \A t \in TokenIds \ DOMAIN u.writes :
             /\ issuance'[t] = issuance[t] /\ status'[t] = status[t] /\ useCount'[t] = useCount[t]
      /\ \A t \in DOMAIN u.writes :
             /\ t \in TokenIds /\ status'[t] = u.writes[t].status
             /\ issuance'[t] = u.writes[t].issuance /\ useCount'[t] = u.writes[t].useCount
  BY CommitEffect
<1>3. CASE Inserted(u)
  <2>1. PICK i \in Issuances : DOMAIN u.writes = {i.tokenId} /\ u.writes[i.tokenId] = NewRow(i)
                               /\ status[i.tokenId] = "none"
    BY <1>3 DEF Inserted
  <2> DEFINE t == i.tokenId
  <2>2. /\ t \in TokenIds /\ status'[t] = "issued" /\ issuance'[t] = i /\ useCount'[t] = 0
        /\ useCount[t] = 0 /\ i.maxUses \in Nat \ {0}
    BY <1>1, <1>2, <2>1, IssuanceShape DEF NewRow, RTypeOK
  <2>3. \A x \in TokenIds \ {t} : issuance'[x] = issuance[x] /\ status'[x] = status[x]
                                 /\ useCount'[x] = useCount[x]
    BY <1>2, <2>1
  <2>4. useCount' = useCount
    BY <1>1, <2>2, <2>3
  <2>5. /\ [x \in TokenIds |-> PhaseOf(status[x])][t] = "unopened"
        /\ [x \in TokenIds |-> PhaseOf(status'[x])]
             = [[x \in TokenIds |-> PhaseOf(status[x])] EXCEPT ![t] = "live"]
    BY <2>1, <2>2, <2>3 DEF PhaseOf
  <2>6. limN[t] \in Nat \ {0} /\ limN = [lim EXCEPT ![t] = limN[t]]
    BY <2>2, <2>3
  <2>7. Authority!Open(t)
    BY <2>4, <2>5, <2>6 DEF Authority!Open
  <2> QED BY <2>2, <2>7 DEF Authority!ANext
<1>4. CASE AllEnded(u)
  <2>1. \A t \in DOMAIN u.writes : /\ status[t] # "none" /\ status'[t] \in {"expired", "revoked"}
                                  /\ issuance'[t] = issuance[t] /\ useCount'[t] = useCount[t]
    BY <1>2, <1>4 DEF AllEnded, Ended
  <2>2. useCount' = useCount
    BY <1>1, <1>2, <2>1
  <2>3. limN = lim
    BY <1>2, <2>1
  <2>4. \A t \in TokenIds : PhaseOf(status'[t]) = IF t \in S THEN "closed" ELSE PhaseOf(status[t])
    BY <1>1, <1>2, <2>1 DEF PhaseOf, Statuses
  <2>5. \A t \in S : t \in TokenIds /\ PhaseOf(status[t]) = "live"
    BY DEF PhaseOf
  <2>6. Authority!Close(S)
    BY <2>2, <2>3, <2>4, <2>5 DEF Authority!Close
  <2> QED BY <2>6 DEF Authority!ANext
<1>5. CASE Used(u)
  <2> DEFINE a == u.arg
             O == S \ {a}
  <2>1. /\ a \in DOMAIN u.writes /\ a \in TokenIds /\ status[a] = "issued"
        /\ issuance'[a] = issuance[a] /\ useCount'[a] = useCount[a] + 1
        /\ status'[a] = IF useCount[a] + 1 >= issuance[a].maxUses THEN "consumed" ELSE "issued"
    BY <1>2, <1>5 DEF Used
  <2>2. \A t \in DOMAIN u.writes \ {a} :
            /\ status[t] # "none" /\ status'[t] \in {"expired", "revoked"}
            /\ issuance'[t] = issuance[t] /\ useCount'[t] = useCount[t]
    BY <1>2, <1>5 DEF Used, Ended
  <2>3. /\ useCount[a] \in Nat /\ issuance[a].maxUses \in Nat
        /\ useCount[a] < issuance[a].maxUses
    BY <1>1, <2>1, IssuanceShape DEF RTypeOK, UseBudget, Registered
  <2>4. status'[a] = IF useCount[a] + 1 = issuance[a].maxUses THEN "consumed" ELSE "issued"
    BY <2>1, <2>3
  <2>5. \A t \in TokenIds \ {a} : useCount'[t] = useCount[t] /\ issuance'[t] = issuance[t]
                                 /\ (status'[t] = "none" <=> status[t] = "none")
    BY <1>2, <2>2
  <2>6. useCount' = [useCount EXCEPT ![a] = @ + 1]
    BY <1>1, <2>1, <2>5
  <2>7. limN = lim /\ lim[a] = issuance[a].maxUses
    BY <2>1, <2>5
  <2>8. \A t \in TokenIds : PhaseOf(status'[t]) =
            IF t \in O \/ (t = a /\ useCount[a] + 1 = issuance[a].maxUses)
                THEN "closed" ELSE PhaseOf(status[t])
    <3> SUFFICES ASSUME NEW t \in TokenIds
                 PROVE  PhaseOf(status'[t]) =
                          IF t \in O \/ (t = a /\ useCount[a] + 1 = issuance[a].maxUses)
                              THEN "closed" ELSE PhaseOf(status[t])
      OBVIOUS
    <3>1. CASE t = a
      BY <2>1, <2>4, <3>1 DEF PhaseOf
    <3>2. CASE t # a /\ t \notin DOMAIN u.writes
      BY <1>2, <3>2
    <3>3. CASE t # a /\ t \in DOMAIN u.writes
      BY <1>1, <2>2, <3>3 DEF PhaseOf, Statuses
    <3> QED BY <3>1, <3>2, <3>3
  <2>9. /\ \A t \in O : t \in TokenIds /\ PhaseOf(status[t]) = "live"
        /\ PhaseOf(status[a]) = "live"
    BY <2>1 DEF PhaseOf
  <2>10. O \in SUBSET TokenIds /\ a \notin O
    OBVIOUS
  <2> HIDE DEF a, O
  <2>11. Authority!Use(a, O)
    BY <2>1, <2>3, <2>6, <2>7, <2>8, <2>9, <2>10 DEF Authority!Use
  <2> QED BY <2>1, <2>10, <2>11 DEF Authority!ANext
<1> QED BY <1>3, <1>4, <1>5, CommitEffect

\* Every step of the shared registry is one of bounded authorities, or shows nothing.
LEMMA SharedAuthorityStep ==
    SharedInv /\ [Next]_vars => [Authority!ANext]_(Authority!avars)
<1> SUFFICES ASSUME SharedInv, [Next]_vars
             PROVE  Authority!ANext \/ UNCHANGED Authority!avars
  OBVIOUS
<1>1. ASSUME NEW c \in Sessions, NEW answered \in BOOLEAN, Commit(c, answered)
      PROVE  Authority!ANext
  BY <1>1, CommitIsAuthorityStep
<1>2. CASE UNCHANGED rvars
  BY <1>2 DEF rvars, Authority!avars
<1>3. ASSUME NEW c \in Sessions, Start(c) \/ Abort(c) \/ BreakDeadlock(c)
      PROVE  UNCHANGED rvars
  BY <1>3 DEF Start, BeginRegister, BeginRevokeToken, BeginRevokeDecision, BeginSync, BeginUse,
              Begin, Abort, BreakDeadlock, Rollback, Continue
<1>4. ASSUME NEW c \in Sessions, Step(c), \A answered \in BOOLEAN : ~ Commit(c, answered)
      PROVE  UNCHANGED rvars
  BY <1>4 DEF Step, CheckIssuable, InsertToken, FindRevocation, InsertRevocation, SelectDecision,
              SelectOverdue, SelectForUpdate, LockRow, ReadToken, CheckRevocation, Rollback, Continue
<1>5. CASE UNCHANGED vars
  BY <1>2, <1>5 DEF vars
<1> QED BY <1>1, <1>2, <1>3, <1>4, <1>5 DEF Next

\* The shared registry implements the abstract bounded authority.
THEOREM SharedImplementsAuthority == Spec => SharedImplementsBoundedAuthority
<1>1. Init => Authority!AInit
  BY DEF Init, RInit, Authority!AInit, PhaseOf
<1> QED BY <1>1, SharedInvariant, SharedAuthorityStep, PTL
        DEF Spec, SharedImplementsBoundedAuthority, Authority!ASpec
=============================================================================
