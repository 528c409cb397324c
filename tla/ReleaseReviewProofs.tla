------------------------ MODULE ReleaseReviewProofs ------------------------
(***************************************************************************)
(* Proofs about the human review of a release decision, for any number of  *)
(* concurrent requests, reviewers, failures and revocations: a token needs *)
(* the authority it names, a closed review is backed by the other stores,  *)
(* and neither decisions nor terminal states nor evidence are ever lost.   *)
(***************************************************************************)
EXTENDS ReleaseReview, FiniteSetTheorems, SequenceTheorems, TLAPS

-----------------------------------------------------------------------------
\* The types of the stores and the handlers.

States == {"pending", "approved", "rejected", "overridden"}
Decided == {"approved", "rejected"}
ReviewerDecision == [reviewer : Reviewers, outcome : Decided]

RecordType ==
    [authorityState : States, reviewerDecisions : Seq(ReviewerDecision),
     terminalAt : Times, closed : BOOLEAN]

PackType == Seq(Phases) \X Times \X Actors

\* The places of a handler that works on the closure, in order.
Packed       == {"storePack", "storeRecord"}
PastEvidence == Packed \cup {"issuePack"}
PastToken    == PastEvidence \cup {"logEvidence", "appendEvidence"}
PastTerminal == PastToken \cup {"register"}
PastAction   == PastTerminal \cup {"logTerminal", "appendTerminal"}
Closure      == PastAction \cup {"logAction", "appendAction"}

\* The places of a handler that holds no evidence pack.
Unpacked == (Closure \ Packed) \cup {"commit", "logPartial", "logReject", "logDeny"}

UnpackedHandler ==
    [pc : Unpacked, rec : RecordType, actor : Actors, issuedAt : Times, expectedCount : Nat]

PackedHandler ==
    [pc : Packed, rec : RecordType, actor : Actors, issuedAt : Times, expectedCount : Nat,
     pack : PackType]

HandlerType == {Idle} \cup UnpackedHandler \cup PackedHandler

TypeInv ==
    /\ RTypeOK
    /\ now \in Times
    /\ record \in RecordType
    /\ log \in Seq(Phases)
    /\ packs \in [Accepting -> PackType \cup {<<>>}]
    /\ handler \in [Slots -> HandlerType]

-----------------------------------------------------------------------------
\* The inductive invariant.

\* Nobody decides twice, a pending review has no rejection and is not closed, an
\* approved one has no rejection and enough approvals, and only an accepted one
\* is closed.
Sound(rec) ==
    /\ \A i, j \in DOMAIN rec.reviewerDecisions :
          rec.reviewerDecisions[i].reviewer = rec.reviewerDecisions[j].reviewer => i = j
    /\ rec.authorityState \in {"pending", "approved"} => Outcomes(rec, "rejected") = {}
    /\ rec.authorityState = "approved" => Cardinality(Outcomes(rec, "approved")) >= MinReviewers
    /\ rec.closed => rec.authorityState \in Accepting

RecordInv == Sound(record)

\* A token of the review is the one its terminal decision calls for.
TokenInv ==
    \A st \in Accepting :
        status[st] # "none" =>
            /\ record.authorityState = st
            /\ issuance[st] = ClosureIssuance(st, record.terminalAt)

Has(entries, phase) == \E i \in DOMAIN entries : entries[i] = phase

\* The closure phases are among the entries of a log.
Complete(entries, st) ==
    \A phase \in {ActionPhase(st), "terminal-accept", "evidence-pack"} : Has(entries, phase)

\* A stored pack covers all closure phases, and a closed record has token and pack.
PackInv ==
    /\ \A st \in Accepting : packs[st] # <<>> => Complete(packs[st][1], st)
    /\ record.closed =>
          /\ status[record.authorityState] # "none"
          /\ packs[record.authorityState] # <<>>

\* What a handler would commit follows from the record as it is now.
FollowsRecord(h) ==
    \/ h.rec = WithOverride(record, h.issuedAt)
    \/ \E a \in Reviewers, o \in Decided :
          /\ CanDecide(record, a)
          /\ h.rec = WithDecision(record, a, o, h.issuedAt)

\* A handler that has yet to commit read an earlier record, or the present one:
\* then its compare succeeds, and only then.
CommitInv(s) ==
    handler[s].pc = "commit" =>
        /\ handler[s].expectedCount <= Len(record.reviewerDecisions)
        /\ CommitAllowed(handler[s]) => FollowsRecord(handler[s])

\* A handler that closes the review holds the record as it was committed; since
\* then at most another handler's closure was stored.
ClosingInv(s) ==
    handler[s].pc \in Closure =>
        /\ handler[s].rec.authorityState \in Accepting
        /\ ~ handler[s].rec.closed
        /\ handler[s].issuedAt = handler[s].rec.terminalAt
        /\ record \in {handler[s].rec, ClosedRecord(handler[s])}

\* What a handler has written so far is there.
ProgressInv(s) ==
    LET h  == handler[s]
        st == h.rec.authorityState
    IN  /\ h.pc \in PastAction => Logged(ActionPhase(st))
        /\ h.pc \in PastTerminal => Logged("terminal-accept")
        /\ h.pc \in PastToken => status[st] # "none"
        /\ h.pc = "issuePack" => Logged("evidence-pack")
        /\ h.pc \in Packed => Complete(h.pack[1], st)
        /\ h.pc = "storeRecord" => packs[st] # <<>>

HandlerInv == \A s \in Slots : CommitInv(s) /\ ClosingInv(s) /\ ProgressInv(s)

ReviewInv == TypeInv /\ RecordInv /\ TokenInv /\ PackInv /\ HandlerInv

-----------------------------------------------------------------------------
\* Facts about the operators of the model.

\* What was there before an append is a prefix of what is there afterwards.
LEMMA AppendPrefix ==
    ASSUME NEW S, NEW q \in Seq(S), NEW e \in S
    PROVE  SubSeq(Append(q, e), 1, Len(q)) = q
<1> DEFINE n == Len(q)
           l == Append(q, e)
<1>1. n \in Nat /\ \A i \in 1 .. n : l[i] = q[i] /\ q[i] \in S
  OBVIOUS
<1> HIDE DEF l
<1>2. /\ SubSeq(l, 1, n) \in Seq(S)
      /\ Len(SubSeq(l, 1, n)) = n
      /\ \A i \in 1 .. n : SubSeq(l, 1, n)[i] = q[i]
  BY <1>1, SubSeqProperties
<1> QED BY <1>2, SeqEqual DEF l

\* Every place of a handler is where its definition says.
LEMMA Places ==
    /\ "idle" \notin Closure \cup Unpacked
    /\ "commit" \notin Closure
    /\ Packed \subseteq Closure /\ PastEvidence \subseteq Closure /\ PastToken \subseteq Closure
    /\ PastTerminal \subseteq Closure /\ PastAction \subseteq Closure
  BY DEF Closure, Unpacked, PastAction, PastTerminal, PastToken, PastEvidence, Packed

\* A handler that is not idle has all its fields.
LEMMA HandlerShape ==
    ASSUME TypeInv, NEW s \in Slots, handler[s].pc # "idle"
    PROVE  /\ handler[s] \in UnpackedHandler \cup PackedHandler
           /\ handler[s].rec \in RecordType
           /\ handler[s].actor \in Actors
           /\ handler[s].issuedAt \in Times
           /\ handler[s].expectedCount \in Nat
           /\ handler[s].pc \in Unpacked \cup Packed
           /\ handler[s].pc \in Packed =>
                 handler[s] \in PackedHandler /\ handler[s].pack \in PackType
           /\ handler[s].pc \in Unpacked => handler[s] \in UnpackedHandler
<1>1. handler[s] \in HandlerType
  BY DEF TypeInv
<1>2. handler[s] # Idle
  BY DEF Idle
<1>3. handler[s] \in UnpackedHandler \cup PackedHandler
  BY <1>1, <1>2 DEF HandlerType
<1>4. Unpacked \cap Packed = {}
  BY DEF Unpacked, Packed
<1>5. CASE handler[s] \in UnpackedHandler
  BY <1>3, <1>4, <1>5 DEF UnpackedHandler
<1>6. CASE handler[s] \in PackedHandler
  BY <1>3, <1>4, <1>6 DEF PackedHandler
<1> QED BY <1>3, <1>5, <1>6

\* Moving a handler on between places without a pack, or between the last two.
LEMMA GotoType ==
    ASSUME TypeInv, NEW s \in Slots, NEW p, Goto(s, p),
           \/ handler[s].pc \in Unpacked /\ p \in Unpacked
           \/ handler[s].pc \in Packed /\ p \in Packed
    PROVE  /\ handler' \in [Slots -> HandlerType]
           /\ handler'[s].pc = p
           /\ handler'[s].rec = handler[s].rec
           /\ handler'[s].issuedAt = handler[s].issuedAt
           /\ handler[s].pc \in Packed => handler'[s].pack = handler[s].pack
           /\ \A t \in Slots \ {s} : handler'[t] = handler[t]
<1> DEFINE h == [handler[s] EXCEPT !.pc = p]
<1>1. handler \in [Slots -> HandlerType]
  BY DEF TypeInv
<1>2. handler[s].pc # "idle"
  BY Places, "idle" \notin Packed DEF Packed
<1>3. handler' = [handler EXCEPT ![s] = h]
  BY <1>1 DEF Goto
<1>4. CASE handler[s].pc \in Unpacked /\ p \in Unpacked
  <2>1. handler[s] \in UnpackedHandler
    BY <1>2, <1>4, HandlerShape
  <2>2. h \in UnpackedHandler /\ h.pc = p /\ h.rec = handler[s].rec /\ h.issuedAt = handler[s].issuedAt
    BY <1>4, <2>1 DEF UnpackedHandler
  <2>3. handler[s].pc \notin Packed
    BY <1>4 DEF Unpacked, Packed
  <2> HIDE DEF h
  <2> QED BY <1>1, <1>3, <2>2, <2>3 DEF HandlerType
<1>5. CASE handler[s].pc \in Packed /\ p \in Packed
  <2>1. handler[s] \in PackedHandler
    BY <1>2, <1>5, HandlerShape
  <2>2. h \in PackedHandler /\ h.pc = p /\ h.rec = handler[s].rec /\ h.issuedAt = handler[s].issuedAt
        /\ h.pack = handler[s].pack
    BY <1>5, <2>1 DEF PackedHandler
  <2> HIDE DEF h
  <2> QED BY <1>1, <1>3, <2>2 DEF HandlerType
<1> QED BY <1>4, <1>5

\* Ending a request.
LEMMA FinishType ==
    ASSUME TypeInv, NEW s \in Slots, Finish(s)
    PROVE  /\ handler' \in [Slots -> HandlerType]
           /\ handler'[s].pc = "idle"
           /\ \A t \in Slots \ {s} : handler'[t] = handler[t]
  BY DEF TypeInv, Finish, HandlerType, Idle

\* Recording a decision: the decision is appended, and the summary is computed from
\* the decisions as they are then.
LEMMA WithDecisionShape ==
    ASSUME NEW rec \in RecordType, NEW a \in Reviewers, NEW o \in Decided, NEW at \in Times,
           NEW r, r = WithDecision(rec, a, o, at)
    PROVE  /\ r \in RecordType
           /\ r.reviewerDecisions
                = Append(rec.reviewerDecisions, [reviewer |-> a, outcome |-> o])
           /\ ~ rec.closed => ~ r.closed
           /\ r.authorityState = AuthorityAfter(r)
           /\ r.authorityState \in {"pending", "approved", "rejected"}
           /\ r.authorityState # "pending" => r.terminalAt = at
<1> DEFINE d == [reviewer |-> a, outcome |-> o]
           noted == [rec EXCEPT !.reviewerDecisions = Append(@, d)]
           state == AuthorityAfter(noted)
           at2 == IF state = "pending" THEN rec.terminalAt ELSE at
<1>1. d \in ReviewerDecision
  BY DEF ReviewerDecision
<1>2. rec.reviewerDecisions \in Seq(ReviewerDecision) /\ rec.terminalAt \in Times
  BY DEF RecordType
<1>3. Append(rec.reviewerDecisions, d) \in Seq(ReviewerDecision)
  BY <1>1, <1>2
<1>4. /\ noted \in RecordType
      /\ noted.reviewerDecisions = Append(rec.reviewerDecisions, d)
      /\ noted.closed = rec.closed
      /\ noted.terminalAt = rec.terminalAt
  <2> DEFINE ds == Append(rec.reviewerDecisions, d)
  <2>1. ds \in Seq(ReviewerDecision)
    BY <1>3
  <2> HIDE DEF ds
  <2>2. LET n == [rec EXCEPT !.reviewerDecisions = ds] IN
        /\ n \in RecordType /\ n.reviewerDecisions = ds /\ n.closed = rec.closed
        /\ n.terminalAt = rec.terminalAt
    BY <2>1 DEF RecordType
  <2> QED BY <2>2 DEF ds
<1>5. state \in {"pending", "approved", "rejected"}
  BY DEF AuthorityAfter
<1>6. /\ r \in RecordType
      /\ r.reviewerDecisions = noted.reviewerDecisions
      /\ r.closed = noted.closed
      /\ r.authorityState = state
      /\ r.terminalAt = at2
  <2>1. r = [noted EXCEPT !.authorityState = state,
                          !.terminalAt = IF state = "pending" THEN @ ELSE at]
    BY DEF WithDecision
  <2>2. at2 \in Times
    BY <1>2
  <2> HIDE DEF noted, state
  <2> QED BY <1>4, <1>5, <2>1, <2>2 DEF RecordType, States
<1>7. Outcomes(r, "rejected") = Outcomes(noted, "rejected")
      /\ Outcomes(r, "approved") = Outcomes(noted, "approved")
  <2> HIDE DEF noted
  <2> QED BY <1>6 DEF Outcomes
<1>8. AuthorityAfter(r) = state
  <2> HIDE DEF noted
  <2> QED BY <1>7 DEF AuthorityAfter
<1> HIDE DEF state, noted
<1> QED BY <1>4, <1>5, <1>6, <1>8

\* Overriding: the decisions stay.
LEMMA WithOverrideShape ==
    ASSUME NEW rec \in RecordType, NEW at \in Times
    PROVE  LET r == WithOverride(rec, at) IN
           /\ r \in RecordType
           /\ r.reviewerDecisions = rec.reviewerDecisions
           /\ ~ rec.closed => ~ r.closed
           /\ r.authorityState = "overridden"
           /\ r.terminalAt = at
  BY DEF RecordType, WithOverride, States

\* Storing the closure sets one field.
LEMMA ClosedRecordShape ==
    ASSUME NEW rec \in RecordType
    PROVE  LET r == [rec EXCEPT !.closed = TRUE] IN
           /\ r \in RecordType
           /\ r.reviewerDecisions = rec.reviewerDecisions
           /\ r.authorityState = rec.authorityState
           /\ r.terminalAt = rec.terminalAt
           /\ r.closed
           /\ rec.closed => r = rec
  BY DEF RecordType

\* A record that differs from another at most in its closure.
LEMMA SameButClosed ==
    ASSUME NEW rec \in RecordType, NEW c \in {rec, [rec EXCEPT !.closed = TRUE]}
    PROVE  /\ c.authorityState = rec.authorityState
           /\ c.terminalAt = rec.terminalAt
           /\ [rec EXCEPT !.closed = TRUE] = [c EXCEPT !.closed = TRUE]
<1>1. CASE c = rec
  BY <1>1
<1>2. CASE c = [rec EXCEPT !.closed = TRUE]
  <2>1. c \in RecordType /\ c.closed /\ c.authorityState = rec.authorityState
        /\ c.terminalAt = rec.terminalAt
    BY <1>2, ClosedRecordShape
  <2>2. [c EXCEPT !.closed = TRUE] = c
    BY <2>1, ClosedRecordShape
  <2> QED BY <1>2, <2>1, <2>2
<1> QED BY <1>1, <1>2

\* No pack is the empty tuple, which stands for a pack that is not there.
LEMMA PackNotEmpty == \A p \in PackType : p # <<>>
<1>1. ASSUME NEW l \in Seq(Phases), NEW t \in Times, NEW a \in Actors PROVE <<l, t, a>> # <<>>
  OBVIOUS
<1>2. ASSUME NEW p \in PackType PROVE p = <<p[1], p[2], p[3]>> /\ p[1] \in Seq(Phases)
                                      /\ p[2] \in Times /\ p[3] \in Actors
  BY DEF PackType
<1>3. ASSUME NEW p \in PackType PROVE p # <<>>
  <2> DEFINE l == p[1]
             t == p[2]
             a == p[3]
  <2>1. p = <<l, t, a>> /\ l \in Seq(Phases) /\ t \in Times /\ a \in Actors
    BY <1>2
  <2> HIDE DEF l, t, a
  <2> QED BY <1>1, <2>1
<1> QED BY <1>3

\* A decision keeps a pending record sound.
LEMMA DecisionSound ==
    ASSUME NEW rec \in RecordType, Sound(rec), NEW a \in Reviewers, CanDecide(rec, a),
           NEW o \in Decided, NEW at \in Times
    PROVE  Sound(WithDecision(rec, a, o, at))
<1> DEFINE r == WithDecision(rec, a, o, at)
           d == [reviewer |-> a, outcome |-> o]
<1>1. /\ r.reviewerDecisions = Append(rec.reviewerDecisions, d)
      /\ ~ rec.closed => ~ r.closed
      /\ r.authorityState = AuthorityAfter(r)
  BY WithDecisionShape
<1>2. rec.reviewerDecisions \in Seq(ReviewerDecision) /\ rec.authorityState = "pending"
  BY DEF RecordType, CanDecide
<1>3. \A i \in DOMAIN rec.reviewerDecisions : rec.reviewerDecisions[i].reviewer # a
  BY DEF CanDecide, HasActed
<1> HIDE DEF r
<1>4. \A i, j \in DOMAIN r.reviewerDecisions :
          r.reviewerDecisions[i].reviewer = r.reviewerDecisions[j].reviewer => i = j
  <2> DEFINE ds == rec.reviewerDecisions
             n == Len(rec.reviewerDecisions)
  <2>1. /\ n \in Nat
        /\ DOMAIN ds = 1 .. n
        /\ DOMAIN r.reviewerDecisions = 1 .. n + 1
        /\ \A i \in 1 .. n : r.reviewerDecisions[i] = ds[i]
        /\ r.reviewerDecisions[n + 1] = d
    BY <1>1, <1>2
  <2>2. d.reviewer = a
    OBVIOUS
  <2>3. \A i, j \in 1 .. n : ds[i].reviewer = ds[j].reviewer => i = j
    BY <2>1 DEF Sound
  <2> HIDE DEF ds, n, d
  <2> SUFFICES ASSUME NEW i \in 1 .. n + 1, NEW j \in 1 .. n + 1,
                      r.reviewerDecisions[i].reviewer = r.reviewerDecisions[j].reviewer
               PROVE  i = j
    BY <2>1
  <2>4. \A k \in 1 .. n : r.reviewerDecisions[k].reviewer # a
    BY <1>3, <2>1 DEF ds
  <2> QED BY <2>1, <2>2, <2>3, <2>4
<1>5. ~ rec.closed
  BY <1>2 DEF Sound, Accepting
<1>6. r.authorityState \in {"pending", "approved"} => Outcomes(r, "rejected") = {}
  BY <1>1 DEF AuthorityAfter
<1>7. r.authorityState = "approved" => Cardinality(Outcomes(r, "approved")) >= MinReviewers
  BY <1>1 DEF AuthorityAfter
<1> QED BY <1>1, <1>4, <1>5, <1>6, <1>7 DEF Sound, r

\* So does an override.
LEMMA OverrideSound ==
    ASSUME NEW rec \in RecordType, Sound(rec), NEW at \in Times
    PROVE  Sound(WithOverride(rec, at))
<1> DEFINE r == WithOverride(rec, at)
<1>1. /\ r.reviewerDecisions = rec.reviewerDecisions
      /\ r.authorityState = "overridden"
  BY WithOverrideShape
<1> HIDE DEF r
<1>2. Sound(r)
  BY <1>1 DEF Sound, Accepting
<1> QED BY <1>2 DEF r

\* And the closure of an accepted review.
LEMMA ClosureSound ==
    ASSUME NEW rec \in RecordType, Sound(rec), rec.authorityState \in Accepting
    PROVE  Sound([rec EXCEPT !.closed = TRUE])
<1> DEFINE r == [rec EXCEPT !.closed = TRUE]
<1>1. /\ r.reviewerDecisions = rec.reviewerDecisions
      /\ r.authorityState = rec.authorityState
  BY ClosedRecordShape
<1> HIDE DEF r
<1>2. Outcomes(r, "rejected") = Outcomes(rec, "rejected")
      /\ Outcomes(r, "approved") = Outcomes(rec, "approved")
  BY <1>1 DEF Outcomes
<1>3. Sound(r)
  BY <1>1, <1>2 DEF Sound
<1> QED BY <1>3 DEF r

\* What a commit makes of a pending record: sound, not closed, with all decisions
\* of before; one more if it stays pending, and dated if it does not.
Successor(rec, r, at) ==
    /\ Sound(r)
    /\ ~ r.closed
    /\ r.authorityState # "pending" => r.terminalAt = at
    /\ Len(r.reviewerDecisions) >= Len(rec.reviewerDecisions)
    /\ r.authorityState = "pending" => Len(r.reviewerDecisions) > Len(rec.reviewerDecisions)
    /\ SubSeq(r.reviewerDecisions, 1, Len(rec.reviewerDecisions)) = rec.reviewerDecisions

\* A decision makes such a record,
LEMMA DecisionSuccessor ==
    ASSUME NEW rec \in RecordType, Sound(rec), NEW a \in Reviewers, CanDecide(rec, a),
           NEW o \in Decided, NEW at \in Times
    PROVE  Successor(rec, WithDecision(rec, a, o, at), at)
<1> DEFINE d == [reviewer |-> a, outcome |-> o]
           r == WithDecision(rec, a, o, at)
           ds == rec.reviewerDecisions
<1>1. /\ r.reviewerDecisions = Append(ds, d)
      /\ r.authorityState # "pending" => r.terminalAt = at
      /\ ~ rec.closed => ~ r.closed
  BY WithDecisionShape
<1>2. Sound(r)
  BY DecisionSound
<1>3. ~ rec.closed
  BY DEF Sound, Accepting, CanDecide
<1>4. d \in ReviewerDecision /\ ds \in Seq(ReviewerDecision)
  BY DEF ReviewerDecision, RecordType
<1> HIDE DEF d, r, ds
<1>5. Len(Append(ds, d)) = Len(ds) + 1 /\ Len(ds) \in Nat
  BY <1>4
<1>6. SubSeq(Append(ds, d), 1, Len(ds)) = ds
  BY <1>4, AppendPrefix
<1>7. Successor(rec, r, at)
  BY <1>1, <1>2, <1>3, <1>5, <1>6 DEF Successor, ds
<1> QED BY <1>7 DEF r

\* and so does an override.
LEMMA OverrideSuccessor ==
    ASSUME NEW rec \in RecordType, Sound(rec), rec.authorityState = "pending", NEW at \in Times
    PROVE  Successor(rec, WithOverride(rec, at), at)
<1> DEFINE r == WithOverride(rec, at)
           ds == rec.reviewerDecisions
<1>1. /\ r.reviewerDecisions = ds
      /\ ~ rec.closed => ~ r.closed
      /\ r.authorityState = "overridden"
      /\ r.terminalAt = at
  BY WithOverrideShape
<1>2. Sound(r)
  BY OverrideSound
<1>3. ~ rec.closed
  BY DEF Sound, Accepting
<1>4. ds \in Seq(ReviewerDecision)
  BY DEF RecordType
<1> HIDE DEF r, ds
<1>5. SubSeq(ds, 1, Len(ds)) = ds /\ Len(ds) \in Nat
  BY <1>4, SubSeqFull
<1>6. Successor(rec, r, at)
  BY <1>1, <1>2, <1>3, <1>5 DEF Successor, ds
<1> QED BY <1>6 DEF r

\* So a handler whose compare succeeds commits a successor of the record.
LEMMA FollowsShape ==
    ASSUME TypeInv, RecordInv, NEW s \in Slots, handler[s].pc # "idle",
           record.authorityState = "pending", FollowsRecord(handler[s])
    PROVE  Successor(record, handler[s].rec, handler[s].issuedAt)
<1>1. record \in RecordType /\ handler[s].issuedAt \in Times /\ Sound(record)
  BY HandlerShape DEF TypeInv, RecordInv
<1>2. CASE handler[s].rec = WithOverride(record, handler[s].issuedAt)
  BY <1>1, <1>2, OverrideSuccessor
<1>3. ASSUME NEW a \in Reviewers, NEW o \in Decided, CanDecide(record, a),
             handler[s].rec = WithDecision(record, a, o, handler[s].issuedAt)
      PROVE  Successor(record, handler[s].rec, handler[s].issuedAt)
  BY <1>1, <1>3, DecisionSuccessor
<1> QED BY <1>2, <1>3 DEF FollowsRecord


-----------------------------------------------------------------------------
\* What a step does to the stores, as the other handlers see it.

\* The record stays, moves on from `pending`, or has its closure stored.
RecordMoves ==
    \/ record' = record
    \/ /\ record.authorityState = "pending"
       /\ Len(record'.reviewerDecisions) >= Len(record.reviewerDecisions)
       /\ record'.authorityState = "pending" =>
             Len(record'.reviewerDecisions) > Len(record.reviewerDecisions)
    \/ /\ record.authorityState \in Accepting
       /\ record' = [record EXCEPT !.closed = TRUE]

\* Nothing leaves the log, the registry or the pack store.
StoresGrow ==
    /\ \A i \in DOMAIN log : i \in DOMAIN log' /\ log'[i] = log[i]
    /\ \A st \in Accepting : status[st] # "none" => status'[st] # "none"
    /\ \A st \in Accepting : packs[st] # <<>> => packs'[st] # <<>>

\* An entry stays in the log.
LEMMA LoggedStays ==
    ASSUME StoresGrow
    PROVE  \A phase : Logged(phase) => Logged(phase)'
  BY DEF StoresGrow, Logged

\* A handler that does not move keeps its invariant, whatever others do: its
\* compare fails once the record moved, a closing handler has a terminal record in
\* hand, which can only be closed, and what it wrote stays.
LEMMA OthersKeep ==
    ASSUME TypeInv, RecordInv, RecordMoves, StoresGrow, NEW t \in Slots,
           CommitInv(t), ClosingInv(t), ProgressInv(t), handler'[t] = handler[t]
    PROVE  CommitInv(t)' /\ ClosingInv(t)' /\ ProgressInv(t)'
<1>0. CASE handler[t].pc = "idle"
  <2>1. "idle" \notin Closure \cup {"commit"}
    BY Places
  <2> QED BY <1>0, <2>1, Places DEF CommitInv, ClosingInv, ProgressInv, PastEvidence
<1>1. CASE handler[t].pc # "idle"
  <2>1. /\ handler[t].rec \in RecordType
        /\ handler[t].expectedCount \in Nat
        /\ record \in RecordType
        /\ Len(record.reviewerDecisions) \in Nat
    BY <1>1, HandlerShape DEF TypeInv, RecordType
  <2>2. CommitInv(t)'
    <3> SUFFICES ASSUME handler[t].pc = "commit"
                 PROVE  /\ handler[t].expectedCount <= Len(record'.reviewerDecisions)
                        /\ CommitAllowed(handler[t])' => FollowsRecord(handler[t])'
      BY DEF CommitInv
    <3>1. handler[t].expectedCount <= Len(record.reviewerDecisions)
          /\ (CommitAllowed(handler[t]) => FollowsRecord(handler[t]))
      BY DEF CommitInv
    <3>2. CASE record' = record
      BY <3>1, <3>2 DEF CommitAllowed, FollowsRecord
    <3>3. CASE /\ record.authorityState = "pending"
               /\ Len(record'.reviewerDecisions) >= Len(record.reviewerDecisions)
               /\ record'.authorityState = "pending" =>
                     Len(record'.reviewerDecisions) > Len(record.reviewerDecisions)
      BY <2>1, <3>1, <3>3 DEF CommitAllowed
    <3>4. CASE /\ record.authorityState \in Accepting
               /\ record' = [record EXCEPT !.closed = TRUE]
      <4>1. /\ record'.reviewerDecisions = record.reviewerDecisions
            /\ record'.authorityState # "pending"
        BY <2>1, <3>4, ClosedRecordShape DEF Accepting
      <4> QED BY <3>1, <4>1 DEF CommitAllowed
    <3> QED BY <3>2, <3>3, <3>4 DEF RecordMoves
  <2>3. ClosingInv(t)'
    <3> SUFFICES ASSUME handler[t].pc \in Closure
                 PROVE  /\ handler[t].rec.authorityState \in Accepting
                        /\ ~ handler[t].rec.closed
                        /\ handler[t].issuedAt = handler[t].rec.terminalAt
                        /\ record' \in {handler[t].rec, [handler[t].rec EXCEPT !.closed = TRUE]}
      BY DEF ClosingInv, ClosedRecord
    <3>1. /\ handler[t].rec.authorityState \in Accepting
          /\ ~ handler[t].rec.closed
          /\ handler[t].issuedAt = handler[t].rec.terminalAt
          /\ record \in {handler[t].rec, [handler[t].rec EXCEPT !.closed = TRUE]}
      BY DEF ClosingInv, ClosedRecord
    <3>2. record.authorityState \in Accepting
      BY <2>1, <3>1, ClosedRecordShape
    <3>3. CASE record' = record
      BY <3>1, <3>3
    <3>4. CASE record' = [record EXCEPT !.closed = TRUE]
      <4>1. record' = [handler[t].rec EXCEPT !.closed = TRUE]
        BY <2>1, <3>1, <3>4, ClosedRecordShape
      <4> QED BY <3>1, <4>1
    <3> QED BY <3>2, <3>3, <3>4 DEF RecordMoves, Accepting
  <2>4. ProgressInv(t)'
    <3>1. handler[t].pc \in Closure => handler[t].rec.authorityState \in Accepting
      BY DEF ClosingInv
    <3>2. \A phase : Logged(phase) => Logged(phase)'
      BY LoggedStays
    <3> QED BY <3>1, <3>2, Places DEF ProgressInv, StoresGrow, Complete, PastToken, PastEvidence, Packed
  <2> QED BY <2>2, <2>3, <2>4
<1> QED BY <1>0, <1>1

\* A step of one handler keeps the handlers' invariant when it keeps its own.
LEMMA OneHandler ==
    ASSUME TypeInv, RecordInv, HandlerInv, RecordMoves, StoresGrow, NEW s \in Slots,
           \A t \in Slots \ {s} : handler'[t] = handler[t],
           CommitInv(s)', ClosingInv(s)', ProgressInv(s)'
    PROVE  HandlerInv'
<1>1. ASSUME NEW t \in Slots, t # s PROVE CommitInv(t)' /\ ClosingInv(t)' /\ ProgressInv(t)'
  BY <1>1, OthersKeep DEF HandlerInv
<1> QED BY <1>1 DEF HandlerInv

\* A request that ended knows nothing.
LEMMA EndedHandler ==
    ASSUME NEW s \in Slots, handler'[s].pc = "idle"
    PROVE  CommitInv(s)' /\ ClosingInv(s)' /\ ProgressInv(s)'
  BY DEF CommitInv, ClosingInv, ProgressInv, Closure, PastAction, PastTerminal, PastToken,
         PastEvidence, Packed

-----------------------------------------------------------------------------
\* The steps.

\* A step that leaves record, registry and packs alone keeps the invariant when the
\* handler that takes it keeps its own.
LEMMA QuietStep ==
    ASSUME ReviewInv, UNCHANGED <<rvars, record, packs>>, now' \in Times,
           log' = log \/ \E phase \in Phases : log' = Append(log, phase),
           handler' \in [Slots -> HandlerType],
           NEW s \in Slots, \A t \in Slots \ {s} : handler'[t] = handler[t],
           CommitInv(s)', ClosingInv(s)', ProgressInv(s)'
    PROVE  ReviewInv'
<1> USE DEF ReviewInv
<1>1. log' \in Seq(Phases) /\ \A i \in DOMAIN log : i \in DOMAIN log' /\ log'[i] = log[i]
  <2>1. log \in Seq(Phases)
    BY DEF TypeInv
  <2>2. ASSUME NEW phase \in Phases, log' = Append(log, phase)
        PROVE  log' \in Seq(Phases) /\ \A i \in DOMAIN log : i \in DOMAIN log' /\ log'[i] = log[i]
    BY <2>1, <2>2
  <2> QED BY <2>1, <2>2
<1>2. TypeInv'
  BY <1>1 DEF TypeInv, RTypeOK, rvars
<1>3. RecordInv' /\ TokenInv' /\ PackInv'
  BY DEF RecordInv, Sound, Outcomes, TokenInv, PackInv, rvars
<1>4. RecordMoves /\ StoresGrow
  BY <1>1 DEF RecordMoves, StoresGrow, rvars
<1>5. HandlerInv'
  BY <1>4, OneHandler
<1> QED BY <1>2, <1>3, <1>5

\* A request that only ends.
LEMMA QuietEnd ==
    ASSUME ReviewInv, UNCHANGED <<rvars, record, packs>>, now' \in Times,
           log' = log \/ \E phase \in Phases : log' = Append(log, phase),
           NEW s \in Slots, Finish(s)
    PROVE  ReviewInv'
  BY QuietStep, FinishType, EndedHandler DEF ReviewInv

\* A request that has read the pending record is about to commit a successor of it.
LEMMA CommittingKeeps ==
    ASSUME ReviewInv, UNCHANGED <<rvars, now, record, log, packs>>, NEW s \in Slots,
           NEW a \in Actors, NEW next \in RecordType, Busy(s, Committing(next, a)),
           \/ next = WithOverride(record, now)
           \/ \E b \in Reviewers, o \in Decided :
                 CanDecide(record, b) /\ next = WithDecision(record, b, o, now)
    PROVE  ReviewInv'
<1> DEFINE h == Committing(next, a)
<1>1. handler \in [Slots -> HandlerType] /\ now \in Times /\ record \in RecordType
  BY DEF ReviewInv, TypeInv
<1>2. Len(record.reviewerDecisions) \in Nat
  BY <1>1 DEF RecordType
<1>3. h \in UnpackedHandler
  BY <1>1, <1>2 DEF Committing, UnpackedHandler, Unpacked
<1>4. /\ h.pc = "commit" /\ h.rec = next /\ h.issuedAt = now
      /\ h.expectedCount = Len(record.reviewerDecisions)
  BY DEF Committing
<1> HIDE DEF h
<1>5. /\ handler' \in [Slots -> HandlerType]
      /\ handler'[s] = h
      /\ \A t \in Slots \ {s} : handler'[t] = handler[t]
  BY <1>1, <1>3 DEF Busy, h, HandlerType
<1>6. CommitInv(s)'
  BY <1>2, <1>4, <1>5 DEF CommitInv, FollowsRecord
<1>7. ClosingInv(s)' /\ ProgressInv(s)'
  BY <1>4, <1>5, Places DEF ClosingInv, ProgressInv, PastEvidence
<1> QED BY <1>1, <1>5, <1>6, <1>7, QuietStep

\* A request that repairs the closure of an accepted review.
LEMMA RepairingKeeps ==
    ASSUME ReviewInv, UNCHANGED <<rvars, now, record, log, packs>>, NEW s \in Slots,
           NEW a \in Actors, Busy(s, Repairing(a)),
           record.authorityState \in Accepting, ~ record.closed
    PROVE  ReviewInv'
<1> DEFINE h == Repairing(a)
<1>1. handler \in [Slots -> HandlerType] /\ now \in Times /\ record \in RecordType
  BY DEF ReviewInv, TypeInv
<1>2. Len(record.reviewerDecisions) \in Nat /\ record.terminalAt \in Times
  BY <1>1 DEF RecordType
<1>3. h \in UnpackedHandler
  BY <1>1, <1>2 DEF Repairing, UnpackedHandler, Unpacked, Closure, Packed
<1>4. h.pc = "logAction" /\ h.rec = record /\ h.issuedAt = record.terminalAt
  BY DEF Repairing
<1> HIDE DEF h
<1>5. /\ handler' \in [Slots -> HandlerType]
      /\ handler'[s] = h
      /\ \A t \in Slots \ {s} : handler'[t] = handler[t]
  BY <1>1, <1>3 DEF Busy, h, HandlerType
<1>6. CommitInv(s)' /\ ClosingInv(s)'
  BY <1>4, <1>5 DEF CommitInv, ClosingInv
<1>7. ProgressInv(s)'
  BY <1>4, <1>5 DEF ProgressInv, PastAction, PastTerminal, PastToken, PastEvidence, Packed
<1> QED BY <1>1, <1>5, <1>6, <1>7, QuietStep

\* The three routes, up to their first write.
LEMMA StartKeeps == ASSUME ReviewInv, NEW s \in Slots, Start(s) PROVE ReviewInv'
<1>1. record \in RecordType /\ now \in Times
  BY DEF ReviewInv, TypeInv
<1>2. ASSUME NEW a \in Reviewers, StartApprove(s, a) \/ StartReject(s, a) PROVE ReviewInv'
  <2>1. a \in Actors /\ UNCHANGED <<rvars, now, record, log, packs>>
    BY <1>2 DEF Actors, StartApprove, StartReject
  <2>2. CASE \E st \in Accepting : NeedsRepair(record, st) /\ Busy(s, Repairing(a))
    BY <2>1, <2>2, RepairingKeeps DEF NeedsRepair
  <2>3. ASSUME NEW o \in Decided, CanDecide(record, a),
               Busy(s, Committing(WithDecision(record, a, o, now), a))
        PROVE  ReviewInv'
    <3>1. WithDecision(record, a, o, now) \in RecordType
      BY <1>1, WithDecisionShape
    <3> QED BY <2>1, <2>3, <3>1, CommittingKeeps
  <2> QED BY <1>2, <2>2, <2>3 DEF StartApprove, StartReject, Accepting, Decided
<1>3. ASSUME NEW a \in BreakGlassActors, StartOverride(s, a) PROVE ReviewInv'
  <2>1. /\ a \in Actors
        /\ UNCHANGED <<rvars, now, record, log, packs>>
        /\ Busy(s, Committing(WithOverride(record, now), a))
    BY <1>3 DEF Actors, StartOverride
  <2>2. WithOverride(record, now) \in RecordType
    BY <1>1, WithOverrideShape
  <2> QED BY <2>1, <2>2, CommittingKeeps
<1> QED BY <1>2, <1>3 DEF Start

\* commitPendingTransition: only a successor of the present record is stored, and
\* only in place of a pending one, which has neither a token nor a closure.
LEMMA CommitKeeps == ASSUME ReviewInv, NEW s \in Slots, Commit(s) PROVE ReviewInv'
<1> USE DEF ReviewInv
<1>1. /\ handler[s].pc = "commit" /\ handler[s].pc # "idle" /\ handler[s].pc \in Unpacked
      /\ UNCHANGED <<rvars, now, log, packs, failures>>
      /\ now' \in Times
  BY DEF Commit, Unpacked, TypeInv
<1>2. CASE ~ CommitAllowed(handler[s])
  BY <1>1, <1>2, QuietEnd DEF Commit
<1>3. CASE CommitAllowed(handler[s])
  <2> DEFINE r == handler[s].rec
             p == AfterCommit(r.authorityState)
  <2>1. record' = r /\ Goto(s, p)
    BY <1>3 DEF Commit
  <2>2. r \in RecordType /\ r.authorityState \in States
    BY <1>1, HandlerShape DEF RecordType
  <2>3. record.authorityState = "pending" /\ Successor(record, r, handler[s].issuedAt)
    BY <1>1, <1>3, FollowsShape DEF CommitAllowed, HandlerInv, CommitInv
  <2>4. /\ p \in {"logAction", "logReject", "logPartial"}
        /\ p = "logAction" => r.authorityState \in Accepting
    BY <2>2 DEF AfterCommit, States, Accepting
  <2>5. p \in Unpacked
    BY <2>4 DEF Unpacked, Closure, Packed
  <2>6. /\ handler' \in [Slots -> HandlerType]
        /\ handler'[s].pc = p /\ handler'[s].rec = r /\ handler'[s].issuedAt = handler[s].issuedAt
        /\ \A t \in Slots \ {s} : handler'[t] = handler[t]
    BY <1>1, <2>1, <2>5, GotoType
  <2> HIDE DEF p
  <2>7. TypeInv'
    BY <1>1, <2>1, <2>2, <2>6 DEF TypeInv, RTypeOK, rvars
  <2>8. RecordInv'
    BY <2>1, <2>3 DEF RecordInv, Successor
  <2>9. TokenInv'
    BY <1>1, <2>3 DEF TokenInv, Accepting, rvars
  <2>10. PackInv'
    BY <1>1, <2>1, <2>3 DEF PackInv, Successor
  <2>11. RecordMoves /\ StoresGrow
    BY <1>1, <2>1, <2>3 DEF RecordMoves, StoresGrow, Successor, rvars
  <2>12. CommitInv(s)' /\ ProgressInv(s)'
    BY <2>4, <2>6
    DEF CommitInv, ProgressInv, PastAction, PastTerminal, PastToken, PastEvidence, Packed
  <2>13. ClosingInv(s)'
    <3> SUFFICES ASSUME p \in Closure
                 PROVE  /\ r.authorityState \in Accepting
                        /\ ~ r.closed
                        /\ handler[s].issuedAt = r.terminalAt
                        /\ record' = r
      BY <2>6 DEF ClosingInv
    <3>1. p = "logAction"
      BY <2>4 DEF Closure, PastAction, PastTerminal, PastToken, PastEvidence, Packed
    <3> QED BY <2>1, <2>3, <2>4, <3>1 DEF Successor, Accepting
  <2>14. HandlerInv'
    BY <2>6, <2>11, <2>12, <2>13, OneHandler
  <2> QED BY <2>7, <2>8, <2>9, <2>10, <2>14
<1> QED BY <1>2, <1>3

\* A closing handler moves on to its next place before the pack is issued.
LEMMA ForwardStep ==
    ASSUME ReviewInv, UNCHANGED <<rvars, now, record, packs>>,
           log' = log \/ \E phase \in Phases : log' = Append(log, phase),
           NEW s \in Slots, handler[s].pc \in Closure \ Packed,
           NEW p \in Closure \ Packed, Goto(s, p),
           p \in PastAction => Has(log', ActionPhase(handler[s].rec.authorityState)),
           p \in PastTerminal => Has(log', "terminal-accept"),
           p \in PastToken => handler[s].pc \in PastToken,
           p = "issuePack" => Has(log', "evidence-pack")
    PROVE  ReviewInv'
<1>1. handler[s].pc \in Unpacked /\ p \in Unpacked /\ now' \in Times /\ TypeInv
  BY DEF Unpacked, ReviewInv, TypeInv
<1>2. /\ handler' \in [Slots -> HandlerType]
      /\ handler'[s].pc = p /\ handler'[s].rec = handler[s].rec
      /\ handler'[s].issuedAt = handler[s].issuedAt
      /\ \A t \in Slots \ {s} : handler'[t] = handler[t]
  BY <1>1, GotoType
<1>3. CommitInv(s)'
  BY <1>2, Places DEF CommitInv
<1>4. ClosingInv(s)'
  BY <1>2 DEF ReviewInv, HandlerInv, ClosingInv, ClosedRecord
<1>5. ProgressInv(s)'
  BY <1>2, Places DEF ReviewInv, HandlerInv, ProgressInv, Logged, Has, Packed, rvars
<1> QED BY <1>1, <1>2, <1>3, <1>4, <1>5, QuietStep

\* Appending puts an entry in the log and leaves the others there.
LEMMA AppendHas ==
    ASSUME NEW l \in Seq(Phases), NEW phase \in Phases
    PROVE  /\ Has(Append(l, phase), phase)
           /\ \A q : Has(l, q) => Has(Append(l, phase), q)
<1> DEFINE m == Append(l, phase)
<1>1. /\ DOMAIN m = 1 .. Len(l) + 1 /\ DOMAIN l = 1 .. Len(l) /\ Len(l) \in Nat
      /\ m[Len(l) + 1] = phase
      /\ \A i \in 1 .. Len(l) : m[i] = l[i]
  OBVIOUS
<1> HIDE DEF m
<1>2. Has(m, phase)
  BY <1>1 DEF Has
<1>3. ASSUME NEW q, Has(l, q) PROVE Has(m, q)
  BY <1>1, <1>3 DEF Has
<1> QED BY <1>2, <1>3 DEF m

\* The log entries of a partial approval and of a rejection.
LEMMA LogKeeps ==
    ASSUME ReviewInv, NEW s \in Slots, LogPartial(s) \/ LogReject(s) \/ LogDeny(s)
    PROVE  ReviewInv'
<1> USE DEF AppendAlways, Phases
<1>1. now \in Times /\ TypeInv
  BY DEF ReviewInv, TypeInv
<1>2. CASE LogPartial(s)
  BY <1>1, <1>2, QuietEnd DEF LogPartial
<1>3. CASE LogDeny(s)
  BY <1>1, <1>3, QuietEnd DEF LogDeny
<1>4. CASE LogReject(s)
  <2>1. /\ UNCHANGED <<rvars, now, record, packs>>
        /\ log' = Append(log, "reject")
        /\ handler[s].pc = "logReject"
        /\ Goto(s, "logDeny")
    BY <1>4 DEF LogReject
  <2>2. handler[s].pc \in Unpacked /\ "logDeny" \in Unpacked
    BY <2>1 DEF Unpacked
  <2>3. /\ handler' \in [Slots -> HandlerType] /\ handler'[s].pc = "logDeny"
        /\ \A t \in Slots \ {s} : handler'[t] = handler[t]
    BY <1>1, <2>1, <2>2, GotoType
  <2>4. CommitInv(s)' /\ ClosingInv(s)' /\ ProgressInv(s)'
    BY <2>3
    DEF CommitInv, ClosingInv, ProgressInv, Closure, PastAction, PastTerminal, PastToken,
        PastEvidence, Packed
  <2> QED BY <1>1, <2>1, <2>3, <2>4, QuietStep
<1> QED BY <1>2, <1>3, <1>4

\* The log entries of the closure, each after a look whether it is there: after
\* either, the entry is in the log.
LEMMA ClosureLogKeeps ==
    ASSUME ReviewInv, NEW s \in Slots,
           \/ CheckAction(s) \/ AppendAction(s)
           \/ CheckTerminal(s) \/ AppendTerminal(s)
           \/ CheckEvidence(s) \/ AppendEvidence(s)
    PROVE  ReviewInv'
<1> DEFINE action == ActionPhase(handler[s].rec.authorityState)
<1>0. /\ log \in Seq(Phases)
      /\ action \in Phases /\ "terminal-accept" \in Phases /\ "evidence-pack" \in Phases
      /\ ProgressInv(s)
  BY DEF ReviewInv, TypeInv, HandlerInv, ActionPhase, Phases
<1> USE DEF Closure, PastAction, PastTerminal, PastToken, PastEvidence, Packed
<1>1. CASE CheckAction(s)
  <2>1. PICK p \in {"appendAction", "logTerminal"} :
          /\ handler[s].pc = "logAction" /\ Goto(s, p)
          /\ UNCHANGED <<rvars, now, record, log, packs>>
          /\ p = "logTerminal" => Has(log, action)
    BY <1>1 DEF CheckAction, CheckLogged, Logged, Has
  <2> QED BY <2>1, ForwardStep
<1>2. CASE AppendAction(s)
  <2>1. /\ handler[s].pc = "appendAction" /\ Goto(s, "logTerminal")
        /\ UNCHANGED <<rvars, now, record, packs>>
        /\ log' = Append(log, action)
    BY <1>2 DEF AppendAction, AppendAlways
  <2>2. Has(log', action)
    BY <1>0, <2>1, AppendHas
  <2> QED BY <1>0, <2>1, <2>2, ForwardStep
<1>3. CASE CheckTerminal(s)
  <2>1. PICK p \in {"appendTerminal", "register"} :
          /\ handler[s].pc = "logTerminal" /\ Goto(s, p)
          /\ UNCHANGED <<rvars, now, record, log, packs>>
          /\ p = "register" => Has(log, "terminal-accept")
    BY <1>3 DEF CheckTerminal, CheckLogged, Logged, Has
  <2>2. Has(log, action)
    BY <1>0, <2>1 DEF ProgressInv, Logged, Has
  <2> QED BY <2>1, <2>2, ForwardStep
<1>4. CASE AppendTerminal(s)
  <2>1. /\ handler[s].pc = "appendTerminal" /\ Goto(s, "register")
        /\ UNCHANGED <<rvars, now, record, packs>>
        /\ log' = Append(log, "terminal-accept")
    BY <1>4 DEF AppendTerminal, AppendAlways
  <2>2. Has(log, action)
    BY <1>0, <2>1 DEF ProgressInv, Logged, Has
  <2>3. Has(log', action) /\ Has(log', "terminal-accept")
    BY <1>0, <2>1, <2>2, AppendHas
  <2> QED BY <1>0, <2>1, <2>3, ForwardStep
<1>5. CASE CheckEvidence(s)
  <2>1. PICK p \in {"appendEvidence", "issuePack"} :
          /\ handler[s].pc = "logEvidence" /\ Goto(s, p)
          /\ UNCHANGED <<rvars, now, record, log, packs>>
          /\ p = "issuePack" => Has(log, "evidence-pack")
    BY <1>5 DEF CheckEvidence, CheckLogged, Logged, Has
  <2>2. Has(log, action) /\ Has(log, "terminal-accept")
    BY <1>0, <2>1 DEF ProgressInv, Logged, Has
  <2> QED BY <2>1, <2>2, ForwardStep
<1>6. CASE AppendEvidence(s)
  <2>1. /\ handler[s].pc = "appendEvidence" /\ Goto(s, "issuePack")
        /\ UNCHANGED <<rvars, now, record, packs>>
        /\ log' = Append(log, "evidence-pack")
    BY <1>6 DEF AppendEvidence, AppendAlways
  <2>2. Has(log, action) /\ Has(log, "terminal-accept")
    BY <1>0, <2>1 DEF ProgressInv, Logged, Has
  <2>3. Has(log', action) /\ Has(log', "terminal-accept") /\ Has(log', "evidence-pack")
    BY <1>0, <2>1, <2>2, AppendHas
  <2> QED BY <1>0, <2>1, <2>3, ForwardStep
<1> QED BY <1>1, <1>2, <1>3, <1>4, <1>5, <1>6

-----------------------------------------------------------------------------
\* What the operations of the registry leave true: its types, the tokens that are
\* there, and what they were issued with.
RegistryKept ==
    /\ RTypeOK'
    /\ \A t \in TokenIds : status[t] # "none" => status'[t] # "none" /\ issuance'[t] = issuance[t]

\* registerIssuedToken adds at most the token it is called with.
LEMMA RegisterShape ==
    ASSUME RTypeOK, NEW i \in Issuances, RegisterIssuedToken(i)
    PROVE  /\ RegistryKept
           /\ i.tokenId \in TokenIds
           /\ status'[i.tokenId] # "none"
           /\ issuance'[i.tokenId] = i
           /\ \A t \in TokenIds \ {i.tokenId} : status'[t] = status[t] /\ issuance'[t] = issuance[t]
<1>1. i.tokenId \in TokenIds
  BY IssuancesAssumption DEF IssuedToken
<1>2. CASE CanInsert(i) /\ ~ UNCHANGED rvars
  <2>1. /\ issuance' = [issuance EXCEPT ![i.tokenId] = i]
        /\ status' = [status EXCEPT ![i.tokenId] = "issued"]
        /\ UNCHANGED <<useCount, lastUsedAt, decisionRevocations>>
        /\ status[i.tokenId] = "none"
    BY <1>2 DEF RegisterIssuedToken, CanInsert
  <2>2. RTypeOK'
    BY <1>1, <2>1 DEF RTypeOK, Statuses
  <2> QED BY <1>1, <2>1, <2>2 DEF RegistryKept, RTypeOK
<1>3. CASE UNCHANGED rvars
  <2>1. RTypeOK'
    BY <1>3 DEF rvars, RTypeOK
  <2>2. status[i.tokenId] # "none" /\ issuance[i.tokenId] = i
    BY <1>1, <1>3, IssuancesAssumption DEF RegisterIssuedToken, CanInsert, CanReplay, RTypeOK, rvars
  <2> QED BY <1>1, <1>3, <2>1, <2>2 DEF RegistryKept, rvars
<1> QED BY <1>2, <1>3 DEF RegisterIssuedToken

\* Expiry and revocation add none.
LEMMA EndShape ==
    ASSUME RTypeOK,
           (\E at \in Times : SyncLifecycle(at)) \/ (\E d \in Decisions : RevokeTokensForDecision(d))
    PROVE  /\ RegistryKept
           /\ \A t \in TokenIds : status'[t] = "none" <=> status[t] = "none"
           /\ issuance' = issuance
<1>1. ASSUME NEW at \in Times, SyncLifecycle(at)
      PROVE  /\ RTypeOK'
             /\ \A t \in TokenIds : status'[t] = "none" <=> status[t] = "none"
             /\ issuance' = issuance
  BY <1>1 DEF SyncLifecycle, StatusAfterSync, Overdue, RTypeOK, Statuses
<1>2. ASSUME NEW d \in Decisions, RevokeTokensForDecision(d)
      PROVE  /\ RTypeOK'
             /\ \A t \in TokenIds : status'[t] = "none" <=> status[t] = "none"
             /\ issuance' = issuance
  BY <1>2 DEF RevokeTokensForDecision, RTypeOK, Statuses
<1> QED BY <1>1, <1>2 DEF RegistryKept

\* Registering the token of the closure: the record is terminal and the token is
\* the one of its state and its date.
LEMMA RegisterKeeps == ASSUME ReviewInv, NEW s \in Slots, RegisterToken(s) PROVE ReviewInv'
<1> USE DEF ReviewInv
<1> DEFINE st == handler[s].rec.authorityState
           i == ClosureIssuance(st, handler[s].issuedAt)
<1>1. /\ handler[s].pc = "register" /\ handler[s].pc # "idle"
      /\ handler[s].pc \in Unpacked /\ handler[s].pc \in Closure
      /\ UNCHANGED <<now, record, log, packs>>
      /\ now' \in Times
  BY DEF RegisterToken, Unpacked, Closure, PastAction, PastTerminal, Packed, TypeInv
<1>2. /\ st \in Accepting
      /\ handler[s].issuedAt \in Times
      /\ record.authorityState = st
      /\ record.terminalAt = handler[s].issuedAt
  <2>1. handler[s].rec \in RecordType /\ handler[s].issuedAt \in Times
    BY <1>1, HandlerShape
  <2>2. /\ st \in Accepting
        /\ handler[s].issuedAt = handler[s].rec.terminalAt
        /\ record \in {handler[s].rec, [handler[s].rec EXCEPT !.closed = TRUE]}
    BY <1>1 DEF HandlerInv, ClosingInv, ClosedRecord
  <2> QED BY <2>1, <2>2, SameButClosed
<1>3. i \in Issuances /\ i.tokenId = st
  BY <1>2, ReviewAssumption DEF ClosureIssuance
<1>4. CASE UNCHANGED rvars /\ Finish(s)
  BY <1>1, <1>4, QuietEnd
<1>5. CASE RegisterIssuedToken(i) /\ Goto(s, "logEvidence")
  <2>1. "logEvidence" \in Unpacked /\ "logEvidence" \in Closure
    BY DEF Unpacked, Closure, PastAction, PastTerminal, PastToken, Packed
  <2>2. /\ handler' \in [Slots -> HandlerType]
        /\ handler'[s].pc = "logEvidence" /\ handler'[s].rec = handler[s].rec
        /\ handler'[s].issuedAt = handler[s].issuedAt
        /\ \A t \in Slots \ {s} : handler'[t] = handler[t]
    BY <1>1, <1>5, <2>1, GotoType
  <2> HIDE DEF i
  <2>3. /\ RegistryKept
        /\ status'[st] # "none" /\ issuance'[st] = i
        /\ \A t \in TokenIds \ {st} : status'[t] = status[t] /\ issuance'[t] = issuance[t]
    BY <1>3, <1>5, RegisterShape DEF TypeInv
  <2>4. Accepting \subseteq TokenIds
    BY ReviewAssumption
  <2>5. TypeInv'
    BY <1>1, <2>2, <2>3 DEF TypeInv, RegistryKept
  <2>6. RecordInv'
    BY <1>1 DEF RecordInv, Sound, Outcomes
  <2>7. TokenInv'
    BY <1>1, <1>2, <2>3, <2>4 DEF TokenInv, i
  <2>8. RecordMoves /\ StoresGrow
    BY <1>1, <2>3, <2>4 DEF RecordMoves, StoresGrow, RegistryKept
  <2>9. PackInv'
    <3>1. record.closed => record.authorityState \in TokenIds
      BY <1>2, <2>4
    <3> QED BY <1>1, <2>3, <3>1 DEF PackInv, RegistryKept
  <2>10. CommitInv(s)' /\ ClosingInv(s)'
    BY <1>1, <2>1, <2>2 DEF HandlerInv, CommitInv, ClosingInv, ClosedRecord
  <2>11. ProgressInv(s)'
    <3>1. Logged(ActionPhase(st)) /\ Logged("terminal-accept")
      BY <1>1 DEF HandlerInv, ProgressInv, PastAction, PastTerminal
    <3> QED BY <1>1, <2>2, <2>3, <3>1 DEF ProgressInv, Logged, PastEvidence, Packed
  <2>12. HandlerInv'
    BY <2>2, <2>8, <2>10, <2>11, OneHandler
  <2> QED BY <2>5, <2>6, <2>7, <2>9, <2>12
<1> QED BY <1>4, <1>5 DEF RegisterToken

\* The evidence pack covers a log that has all closure phases.
LEMMA IssuePackKeeps == ASSUME ReviewInv, NEW s \in Slots, IssuePack(s) PROVE ReviewInv'
<1> USE DEF ReviewInv
<1> DEFINE g == handler[s]
           h == [pc |-> "storePack", rec |-> g.rec, actor |-> g.actor, issuedAt |-> g.issuedAt,
                 expectedCount |-> g.expectedCount, pack |-> <<log, g.issuedAt, g.actor>>]
           st == g.rec.authorityState
<1>1. /\ g.pc = "issuePack" /\ g.pc # "idle" /\ g.pc \in Closure
      /\ UNCHANGED <<rvars, now, record, log, packs>>
      /\ now' \in Times
      /\ handler' = [handler EXCEPT ![s] = h]
  BY DEF IssuePack, Closure, PastAction, PastTerminal, PastToken, PastEvidence, TypeInv
<1>2. /\ g.rec \in RecordType /\ g.actor \in Actors /\ g.issuedAt \in Times
      /\ g.expectedCount \in Nat
      /\ log \in Seq(Phases)
      /\ handler \in [Slots -> HandlerType]
  BY <1>1, HandlerShape DEF TypeInv
<1>3. h \in PackedHandler
  <2>1. <<log, g.issuedAt, g.actor>> \in PackType
    BY <1>2 DEF PackType
  <2> QED BY <1>2, <2>1 DEF PackedHandler, Packed
<1>4. /\ h.pc = "storePack" /\ h.rec = g.rec /\ h.issuedAt = g.issuedAt /\ h.pack[1] = log
  OBVIOUS
<1> HIDE DEF h
<1>5. /\ handler' \in [Slots -> HandlerType]
      /\ handler'[s] = h
      /\ \A t \in Slots \ {s} : handler'[t] = handler[t]
  BY <1>1, <1>2, <1>3 DEF HandlerType
<1>6. CommitInv(s)' /\ ClosingInv(s)'
  BY <1>1, <1>4, <1>5 DEF HandlerInv, CommitInv, ClosingInv, ClosedRecord
<1>7. /\ Has(log, ActionPhase(st)) /\ Has(log, "terminal-accept") /\ Has(log, "evidence-pack")
      /\ status[st] # "none"
  BY <1>1
  DEF HandlerInv, ProgressInv, Logged, Has, PastAction, PastTerminal, PastToken, PastEvidence
<1>8. ProgressInv(s)'
  BY <1>1, <1>4, <1>5, <1>7 DEF ProgressInv, Complete, Logged, Has, rvars
<1> QED BY <1>1, <1>5, <1>6, <1>8, QuietStep

\* The pack store takes a pack where there is none, or the same again.
LEMMA StorePackKeeps == ASSUME ReviewInv, NEW s \in Slots, StorePack(s) PROVE ReviewInv'
<1> USE DEF ReviewInv
<1> DEFINE st == handler[s].rec.authorityState
           pack == handler[s].pack
<1>1. /\ handler[s].pc = "storePack" /\ handler[s].pc # "idle"
      /\ handler[s].pc \in Closure /\ handler[s].pc \in Packed
      /\ UNCHANGED <<rvars, now, record, log>>
      /\ now' \in Times
  BY DEF StorePack, Closure, PastAction, PastTerminal, PastToken, PastEvidence, Packed, TypeInv
<1>2. CASE UNCHANGED packs /\ Finish(s)
  BY <1>1, <1>2, QuietEnd
<1>3. CASE /\ packs' = [packs EXCEPT ![st] = pack]
           /\ Goto(s, "storeRecord")
           /\ packs[st] \in {<<>>, pack}
  <2>1. st \in Accepting /\ pack \in PackType /\ Complete(pack[1], st) /\ pack # <<>>
    <3>1. pack \in PackType
      BY <1>1, HandlerShape
    <3>2. pack # <<>>
      BY <3>1, PackNotEmpty
    <3> QED BY <1>1, <3>1, <3>2 DEF HandlerInv, ClosingInv, ProgressInv
  <2>2. /\ handler' \in [Slots -> HandlerType]
        /\ handler'[s].pc = "storeRecord" /\ handler'[s].rec = handler[s].rec
        /\ handler'[s].issuedAt = handler[s].issuedAt
        /\ handler'[s].pack = pack
        /\ \A t \in Slots \ {s} : handler'[t] = handler[t]
    <3>1. "storeRecord" \in Packed
      BY DEF Packed
    <3> QED BY <1>1, <1>3, <3>1, GotoType
  <2>3. /\ packs' \in [Accepting -> PackType \cup {<<>>}]
        /\ packs'[st] = pack
        /\ \A u \in Accepting \ {st} : packs'[u] = packs[u]
    BY <1>3, <2>1 DEF TypeInv
  <2> HIDE DEF pack
  <2>4. TypeInv'
    BY <1>1, <2>2, <2>3 DEF TypeInv, RTypeOK, rvars
  <2>5. RecordInv' /\ TokenInv'
    BY <1>1 DEF RecordInv, Sound, Outcomes, TokenInv, rvars
  <2>6. PackInv'
    <3>1. record.closed => record.authorityState \in Accepting
      BY DEF RecordInv, Sound
    <3> QED BY <1>1, <2>1, <2>3, <3>1 DEF PackInv, rvars
  <2>7. RecordMoves /\ StoresGrow
    BY <1>1, <2>1, <2>3 DEF RecordMoves, StoresGrow, rvars
  <2>8. CommitInv(s)' /\ ClosingInv(s)'
    BY <1>1, <2>2 DEF HandlerInv, CommitInv, ClosingInv, ClosedRecord
  <2>9. ProgressInv(s)'
    <3>1. Logged(ActionPhase(st)) /\ Logged("terminal-accept") /\ status[st] # "none"
      BY <1>1 DEF HandlerInv, ProgressInv, PastAction, PastTerminal, PastToken, PastEvidence
    <3> QED BY <1>1, <2>1, <2>2, <2>3, <3>1 DEF ProgressInv, Logged, rvars
  <2>10. HandlerInv'
    BY <2>2, <2>7, <2>8, <2>9, OneHandler
  <2> QED BY <2>4, <2>5, <2>6, <2>10
<1> QED BY <1>2, <1>3 DEF StorePack

\* Storing the closure overwrites the record with itself, closed.
LEMMA StoreRecordShape ==
    ASSUME ReviewInv, NEW s \in Slots, StoreRecord(s)
    PROVE  /\ record' = [record EXCEPT !.closed = TRUE]
           /\ record.authorityState \in Accepting
           /\ record.authorityState = handler[s].rec.authorityState
           /\ handler[s].pc \in Closure
<1> USE DEF ReviewInv
<1>1. /\ handler[s].pc = "storeRecord" /\ handler[s].pc # "idle" /\ handler[s].pc \in Closure
      /\ record' = [handler[s].rec EXCEPT !.closed = TRUE]
  BY DEF StoreRecord, ClosedRecord, Closure, PastAction, PastTerminal, PastToken, PastEvidence, Packed
<1>2. handler[s].rec \in RecordType
  BY <1>1, HandlerShape
<1>3. /\ handler[s].rec.authorityState \in Accepting
      /\ record \in {handler[s].rec, [handler[s].rec EXCEPT !.closed = TRUE]}
  BY <1>1 DEF HandlerInv, ClosingInv, ClosedRecord
<1> QED BY <1>1, <1>2, <1>3, SameButClosed

\* Hence a closed record has its token and its pack.
LEMMA StoreRecordKeeps == ASSUME ReviewInv, NEW s \in Slots, StoreRecord(s) PROVE ReviewInv'
<1> USE DEF ReviewInv
<1>1. /\ handler[s].pc = "storeRecord" /\ Finish(s)
      /\ UNCHANGED <<rvars, now, log, packs>>
  BY DEF StoreRecord
<1>2. /\ record' = [record EXCEPT !.closed = TRUE]
      /\ record.authorityState \in Accepting
      /\ record.authorityState = handler[s].rec.authorityState
  BY StoreRecordShape
<1>3. /\ record \in RecordType /\ record' \in RecordType
      /\ record'.authorityState = record.authorityState
      /\ record'.terminalAt = record.terminalAt
  BY <1>2, ClosedRecordShape DEF TypeInv
<1>4. TypeInv'
  BY <1>1, <1>3, FinishType DEF TypeInv, RTypeOK, rvars
<1>5. RecordInv'
  <2>1. Sound([record EXCEPT !.closed = TRUE])
    BY <1>2, <1>3, ClosureSound DEF RecordInv
  <2> QED BY <1>2, <2>1 DEF RecordInv
<1>6. TokenInv'
  BY <1>1, <1>3 DEF TokenInv, rvars
<1>7. PackInv'
  <2>1. status[record.authorityState] # "none" /\ packs[record.authorityState] # <<>>
    BY <1>1, <1>2 DEF HandlerInv, ProgressInv, PastToken, PastEvidence, Packed
  <2> QED BY <1>1, <1>3, <2>1 DEF PackInv, rvars
<1>8. RecordMoves /\ StoresGrow
  BY <1>1, <1>2 DEF RecordMoves, StoresGrow, rvars
<1>9. HandlerInv'
  BY <1>1, <1>8, FinishType, EndedHandler, OneHandler
<1> QED BY <1>4, <1>5, <1>6, <1>7, <1>9

\* Expiry and revocation leave the tokens of the review where they are.
LEMMA EnvironmentKeeps ==
    ASSUME ReviewInv, ExpireTokens \/ RevokeDecision
    PROVE  ReviewInv'
<1> USE DEF ReviewInv
<1>1. UNCHANGED reviewVars
  BY DEF ExpireTokens, RevokeDecision
<1>2. (\E at \in Times : SyncLifecycle(at)) \/ (\E d \in Decisions : RevokeTokensForDecision(d))
  BY ReviewAssumption DEF ExpireTokens, RevokeDecision, TypeInv
<1>3. /\ RTypeOK'
      /\ \A t \in TokenIds : status'[t] = "none" <=> status[t] = "none"
      /\ issuance' = issuance
  BY <1>2, EndShape DEF TypeInv, RegistryKept
<1>4. Accepting \subseteq TokenIds
  BY ReviewAssumption
<1>5. TypeInv' /\ RecordInv'
  BY <1>1, <1>3 DEF TypeInv, RecordInv, Sound, Outcomes, reviewVars
<1>6. TokenInv'
  BY <1>1, <1>3, <1>4 DEF TokenInv, reviewVars
<1>7. PackInv'
  BY <1>1, <1>3, <1>4 DEF PackInv, RecordInv, Sound, reviewVars
<1>8. RecordMoves /\ StoresGrow
  BY <1>1, <1>3, <1>4 DEF RecordMoves, StoresGrow, reviewVars
<1>9. \A t \in Slots : handler'[t] = handler[t]
  BY <1>1 DEF reviewVars
<1>10. ASSUME NEW t \in Slots PROVE CommitInv(t)' /\ ClosingInv(t)' /\ ProgressInv(t)'
  BY <1>8, <1>9, OthersKeep DEF HandlerInv
<1>11. HandlerInv'
  BY <1>10 DEF HandlerInv
<1> QED BY <1>5, <1>6, <1>7, <1>11

\* A step that touches neither stores nor handlers keeps the invariant.
LEMMA IdleStep ==
    ASSUME ReviewInv, UNCHANGED <<rvars, record, log, packs, handler>>, now' \in Times
    PROVE  ReviewInv'
<1> USE DEF ReviewInv
<1>1. TypeInv'
  BY DEF TypeInv, RTypeOK, rvars
<1>2. RecordInv' /\ TokenInv' /\ PackInv'
  BY DEF RecordInv, Sound, Outcomes, TokenInv, PackInv, rvars
<1>3. RecordMoves /\ StoresGrow
  BY DEF RecordMoves, StoresGrow, rvars
<1>4. ASSUME NEW t \in Slots PROVE CommitInv(t)' /\ ClosingInv(t)' /\ ProgressInv(t)'
  BY <1>3, OthersKeep DEF HandlerInv
<1>5. HandlerInv'
  BY <1>4 DEF HandlerInv
<1> QED BY <1>1, <1>2, <1>5

\* Every step keeps the invariant.
LEMMA ReviewInvStep == ReviewInv /\ [Next]_vars => ReviewInv'
<1> SUFFICES ASSUME ReviewInv, [Next]_vars PROVE ReviewInv'
  OBVIOUS
<1>0. now \in Times
  BY DEF ReviewInv, TypeInv
<1>1. CASE UNCHANGED vars
  BY <1>0, <1>1, IdleStep DEF vars, reviewVars
<1>2. ASSUME NEW s \in Slots, Start(s) PROVE ReviewInv'
  BY <1>2, StartKeeps
<1>3. ASSUME NEW s \in Slots, Commit(s) PROVE ReviewInv'
  BY <1>3, CommitKeeps
<1>4. ASSUME NEW s \in Slots, LogPartial(s) \/ LogReject(s) \/ LogDeny(s) PROVE ReviewInv'
  BY <1>4, LogKeeps
<1>5. ASSUME NEW s \in Slots,
             \/ CheckAction(s) \/ AppendAction(s)
             \/ CheckTerminal(s) \/ AppendTerminal(s)
             \/ CheckEvidence(s) \/ AppendEvidence(s)
      PROVE  ReviewInv'
  BY <1>5, ClosureLogKeeps
<1>6. ASSUME NEW s \in Slots, RegisterToken(s) PROVE ReviewInv'
  BY <1>6, RegisterKeeps
<1>7. ASSUME NEW s \in Slots, IssuePack(s) PROVE ReviewInv'
  BY <1>7, IssuePackKeeps
<1>8. ASSUME NEW s \in Slots, StorePack(s) PROVE ReviewInv'
  BY <1>8, StorePackKeeps
<1>9. ASSUME NEW s \in Slots, StoreRecord(s) PROVE ReviewInv'
  BY <1>9, StoreRecordKeeps
<1>10. ASSUME NEW s \in Slots, Fail(s) PROVE ReviewInv'
  BY <1>0, <1>10, QuietEnd DEF Fail
<1>11. CASE Tick
  <2>1. now' \in Times
    BY <1>0, <1>11, IssuancesAssumption DEF Tick, Times
  <2> QED BY <1>11, <2>1, IdleStep DEF Tick
<1>12. CASE ExpireTokens \/ RevokeDecision
  BY <1>12, EnvironmentKeeps
<1> QED
  BY <1>1, <1>2, <1>3, <1>4, <1>5, <1>6, <1>7, <1>8, <1>9, <1>10, <1>11, <1>12
  DEF Next, ClosureStep

\* The review starts pending, with empty stores and no request.
LEMMA ReviewInvInit == Init => ReviewInv
<1> SUFFICES ASSUME Init PROVE ReviewInv
  OBVIOUS
<1>1. RTypeOK
  BY IssuancesAssumption DEF Init, RInit, RTypeOK, Statuses, Times
<1>2. now \in Times
  BY IssuancesAssumption DEF Init, Times
<1>3. record \in RecordType
  BY <1>2 DEF Init, RecordType, States
<1>4. log \in Seq(Phases) /\ packs \in [Accepting -> PackType \cup {<<>>}]
  BY DEF Init
<1>5. handler \in [Slots -> HandlerType] /\ \A s \in Slots : handler[s].pc = "idle"
  BY DEF Init, HandlerType, Idle
<1>6. RecordInv
  BY DEF Init, RecordInv, Sound, Outcomes
<1>7. TokenInv /\ PackInv
  BY ReviewAssumption DEF Init, RInit, TokenInv, PackInv
<1>8. HandlerInv
  BY <1>5
  DEF HandlerInv, CommitInv, ClosingInv, ProgressInv, Closure, PastAction, PastTerminal,
      PastToken, PastEvidence, Packed
<1> QED BY <1>1, <1>2, <1>3, <1>4, <1>5, <1>6, <1>7, <1>8 DEF ReviewInv, TypeInv

\* The invariant holds in every reachable state of the review.
THEOREM ReviewInvariant == Spec => []ReviewInv
  BY ReviewInvInit, ReviewInvStep, PTL DEF Spec

-----------------------------------------------------------------------------
\* The theorems.

\* Stores and handlers are always well typed, and a request that works on the
\* closure has an accepting record in hand (release-review-routes.ts).
THEOREM ReviewTypeCorrect == Spec => []TypeOK
<1>1. ReviewInv => TypeOK
  <2> SUFFICES ASSUME ReviewInv PROVE TypeOK
    OBVIOUS
  <2>1. /\ record.authorityState \in {"pending", "approved", "rejected", "overridden"}
        /\ record.terminalAt \in Times
        /\ record.closed \in BOOLEAN
    BY DEF ReviewInv, TypeInv, RecordType, States
  <2>2. \A i \in DOMAIN log : log[i] \in Phases
    BY DEF ReviewInv, TypeInv
  <2>3. ASSUME NEW s \in Slots,
               handler[s].pc \notin {"idle", "commit", "logPartial", "logReject", "logDeny"}
        PROVE  handler[s].rec.authorityState \in Accepting
    <3>1. handler[s].pc \in Closure
      BY <2>3, HandlerShape, Places DEF ReviewInv, Unpacked
    <3> QED BY <3>1 DEF ReviewInv, HandlerInv, ClosingInv
  <2> QED BY <2>1, <2>2, <2>3 DEF ReviewInv, TypeInv, TypeOK
<1> QED BY <1>1, ReviewInvariant, PTL

\* Decisions of distinct reviewers are as many as their reviewers.
LEMMA DistinctReviewers ==
    ASSUME NEW rec \in RecordType, Sound(rec), NEW o
    PROVE  Cardinality({rec.reviewerDecisions[i].reviewer : i \in Outcomes(rec, o)})
             = Cardinality(Outcomes(rec, o))
<1> DEFINE S == Outcomes(rec, o)
           T == {rec.reviewerDecisions[i].reviewer : i \in S}
           f == [i \in S |-> rec.reviewerDecisions[i].reviewer]
<1>1. S \subseteq DOMAIN rec.reviewerDecisions
  BY DEF Outcomes
<1>2. IsFiniteSet(S)
  <2>1. rec.reviewerDecisions \in Seq(ReviewerDecision)
    BY DEF RecordType
  <2>2. DOMAIN rec.reviewerDecisions = 1 .. Len(rec.reviewerDecisions)
        /\ Len(rec.reviewerDecisions) \in Nat
    BY <2>1
  <2>3. IsFiniteSet(1 .. Len(rec.reviewerDecisions))
    BY <2>2, FS_Interval
  <2> HIDE DEF S
  <2> QED BY <1>1, <2>2, <2>3, FS_Subset
<1>3. \A i, j \in S : f[i] = f[j] => i = j
  BY <1>1 DEF Sound
<1> HIDE DEF S
<1>4. f \in Bijection(S, T)
  BY <1>3 DEF Bijection, Injection, Surjection, IsInjective
<1>5. ExistsBijection(S, T)
  BY <1>4 DEF ExistsBijection
<1> HIDE DEF T
<1>6. Cardinality(T) = Cardinality(S)
  BY <1>2, <1>5, FS_Bijection
<1> QED BY <1>6 DEF T, S

\* However requests interleave, fail and retry, an approval token is backed by
\* enough distinct approvers and no rejection, and a break-glass token by an
\* override; no other token is ever issued for the review.
THEOREM ReviewTokenNeedsAuthority == Spec => []TokenNeedsAuthority
<1>1. ReviewInv => TokenNeedsAuthority
  <2> SUFFICES ASSUME ReviewInv PROVE TokenNeedsAuthority
    OBVIOUS
  <2>1. record \in RecordType /\ Sound(record)
    BY DEF ReviewInv, TypeInv, RecordInv
  <2>2. /\ status["approved"] # "none" => record.authorityState = "approved"
        /\ status["overridden"] # "none" => record.authorityState = "overridden"
    BY DEF ReviewInv, TokenInv, Accepting
  <2>3. Cardinality({record.reviewerDecisions[i].reviewer : i \in Outcomes(record, "approved")})
          = Cardinality(Outcomes(record, "approved"))
    BY <2>1, DistinctReviewers
  <2> QED BY <2>1, <2>2, <2>3 DEF TokenNeedsAuthority, Sound
<1> QED BY <1>1, ReviewInvariant, PTL

\* A closed review has the token of its terminal decision and a stored evidence
\* pack that covers all phases of the closure.
THEOREM ReviewClosedIsBacked == Spec => []ClosedIsBacked
<1>1. ReviewInv => ClosedIsBacked
  BY DEF ReviewInv, RecordInv, Sound, TokenInv, PackInv, Complete, Has, ClosedIsBacked
<1> QED BY <1>1, ReviewInvariant, PTL

\* Every step keeps what was decided, closed and stored.
LEMMA ReviewStepHolds == ReviewInv /\ [Next]_vars => [ReviewStep]_vars
<1> SUFFICES ASSUME ReviewInv, Next PROVE ReviewStep
  OBVIOUS
<1> DEFINE ds == record.reviewerDecisions
<1>0. /\ record \in RecordType
      /\ ds \in Seq(ReviewerDecision) /\ Len(ds) \in Nat
      /\ packs \in [Accepting -> PackType \cup {<<>>}]
  BY DEF ReviewInv, TypeInv, RecordType
<1>1. SubSeq(ds, 1, Len(ds)) = ds
  <2> HIDE DEF ds
  <2> QED BY <1>0, SubSeqFull
<1>2. CASE UNCHANGED <<record, packs>>
  BY <1>0, <1>1, <1>2 DEF ReviewStep
<1>3. ASSUME NEW s \in Slots, Commit(s), record' # record PROVE ReviewStep
  <2>1. /\ handler[s].pc = "commit" /\ handler[s].pc # "idle" /\ CommitAllowed(handler[s])
        /\ record' = handler[s].rec /\ packs' = packs
    BY <1>3 DEF Commit
  <2>2. record.authorityState = "pending" /\ Successor(record, record', handler[s].issuedAt)
    BY <2>1, FollowsShape DEF ReviewInv, HandlerInv, CommitInv, CommitAllowed
  <2>3. ~ record.closed
    BY <2>2 DEF ReviewInv, RecordInv, Sound, Accepting
  <2> QED BY <1>0, <2>1, <2>2, <2>3 DEF ReviewStep, Successor
<1>4. ASSUME NEW s \in Slots, StorePack(s) PROVE ReviewStep
  <2> DEFINE st == handler[s].rec.authorityState
  <2>1. record' = record
    BY <1>4 DEF StorePack
  <2>2. ASSUME NEW u \in Accepting, packs[u] # <<>> PROVE packs'[u] = packs[u]
    BY <1>0, <1>4, <2>2 DEF StorePack
  <2> QED BY <1>0, <1>1, <2>1, <2>2 DEF ReviewStep
<1>5. ASSUME NEW s \in Slots, StoreRecord(s) PROVE ReviewStep
  <2>1. record' = [record EXCEPT !.closed = TRUE] /\ packs' = packs
    BY <1>5, StoreRecordShape DEF StoreRecord
  <2>2. /\ record'.reviewerDecisions = ds
        /\ record'.authorityState = record.authorityState
        /\ record.closed => record' = record
    BY <1>0, <2>1, ClosedRecordShape
  <2> QED BY <1>0, <1>1, <2>1, <2>2 DEF ReviewStep
<1>6. ASSUME NEW s \in Slots,
             \/ Start(s) \/ LogPartial(s) \/ LogReject(s) \/ LogDeny(s)
             \/ CheckAction(s) \/ AppendAction(s)
             \/ CheckTerminal(s) \/ AppendTerminal(s)
             \/ CheckEvidence(s) \/ AppendEvidence(s)
             \/ RegisterToken(s) \/ IssuePack(s) \/ Fail(s)
      PROVE  UNCHANGED <<record, packs>>
  <2>1. CASE Start(s) \/ RegisterToken(s) \/ IssuePack(s) \/ Fail(s)
    BY <2>1 DEF Start, StartApprove, StartReject, StartOverride, RegisterToken, IssuePack, Fail
  <2>2. CASE \/ LogPartial(s) \/ LogReject(s) \/ LogDeny(s)
             \/ AppendAction(s) \/ AppendTerminal(s) \/ AppendEvidence(s)
    BY <2>2 DEF LogPartial, LogReject, LogDeny, AppendAction, AppendTerminal, AppendEvidence,
                AppendAlways
  <2>3. CASE CheckAction(s) \/ CheckTerminal(s) \/ CheckEvidence(s)
    BY <2>3 DEF CheckAction, CheckTerminal, CheckEvidence, CheckLogged
  <2> QED BY <1>6, <2>1, <2>2, <2>3
<1>7. ASSUME Tick \/ ExpireTokens \/ RevokeDecision PROVE UNCHANGED <<record, packs>>
  BY <1>7 DEF Tick, ExpireTokens, RevokeDecision, reviewVars
<1>8. ASSUME NEW s \in Slots, Commit(s) PROVE packs' = packs
  BY <1>8 DEF Commit
<1> QED
  BY <1>2, <1>3, <1>4, <1>5, <1>6, <1>7, <1>8 DEF Next, ClosureStep

\* No request, however stale, loses a decision, reopens or changes a terminal
\* review, undoes its closure or rewrites stored evidence.
THEOREM ReviewHistoryIsKept == Spec => ReviewHistoryKept
  BY ReviewInvariant, ReviewStepHolds, PTL DEF Spec, ReviewHistoryKept

=============================================================================
