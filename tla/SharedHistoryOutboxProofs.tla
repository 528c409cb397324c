--------------------- MODULE SharedHistoryOutboxProofs ---------------------
(***************************************************************************)
(* Proofs about the shared history and its outbox, for any number of       *)
(* writers, workers and sources, any lease and any clock skew: the history *)
(* is dense, a lease protects its holder until MaxSkew before its end,     *)
(* deliveries are counted, and the outbox implements DeliveryQueue.        *)
(***************************************************************************)
EXTENDS SharedHistoryOutbox, FiniteSetTheorems, TLAPS

Message == [status : {"pending", "claimed", "published"}, token : Nat, expiresAt : Nat, attempts : Nat]

WriterType == {IdleWriter} \cup [pc : {"lock", "examine", "insert"}, row : Rows]

WorkerType(H) == [pc : {"idle", "claiming", "locked", "working"}, at : Nat, token : Nat,
                  expiresAt : Nat, batch : SUBSET H, sent : SUBSET H]

-----------------------------------------------------------------------------
\* Types of the initial values.
LEMMA InitialTypes ==
    /\ NewMessage \in Message
    /\ \A H : IdleWorker \in WorkerType(H)
    /\ IdleWorker.pc = "idle" /\ IdleWorker.batch = {} /\ IdleWorker.sent = {}
    /\ IdleWriter.pc = "idle"
    /\ NewMessage.status = "pending" /\ NewMessage.token = 0 /\ NewMessage.attempts = 0
  BY DEF NewMessage, Message, IdleWorker, WorkerType, IdleWriter

\* The types of the variables, one by one.
LEMMA Types ==
    ASSUME TypeOK
    PROVE  /\ history \subseteq Rows
           /\ outbox \in [history -> Message]
           /\ deliveries \in [history -> Nat]
           /\ lockHolder \in Writers \cup {NoWriter}
           /\ writer \in [Writers -> WriterType]
           /\ begins \in Nat /\ claims \in Nat /\ crashes \in Nat
           /\ clock \in [Workers -> Nat]
           /\ worker \in [Workers -> WorkerType(history)]
  BY DEF TypeOK, Message, WriterType, WorkerType


\* Appends: whoever is past the lock is its holder, the history is finite and dense,
\* and what the holder read still holds.
AppendInv ==
    /\ IsFiniteSet(history)
    /\ \A x \in Writers : writer[x].pc \in {"examine", "insert"} => lockHolder = x
    /\ HistoryDense
    /\ ExaminedStillTrue

\* The next sequence number of a dense history.
LEMMA NextSequenceDense ==
    ASSUME IsFiniteSet(history), Sequences = 1 .. Cardinality(history), NEW t
    PROVE  NextSequence(t) = Cardinality(history) + 1
<1> DEFINE N == Cardinality(history)
<1>0. N \in Nat
  BY FS_CardinalityType
<1> HIDE DEF N
<1>1. CASE N = 0
  BY <1>1 DEF NextSequence, N
<1>2. CASE N # 0
  <2>1. N \in 1 .. N /\ \A k \in 1 .. N : k <= N
    BY <1>0, <1>2
  <2> DEFINE m == CHOOSE m \in 1 .. N : \A k \in 1 .. N : k <= m
  <2>2. m \in 1 .. N /\ \A k \in 1 .. N : k <= m
    BY <2>1
  <2>3. m = N
    BY <1>0, <2>1, <2>2
  <2>4. NextSequence(t) = 1 + m
    BY <2>1 DEF NextSequence, N
  <2> HIDE DEF m
  <2>5. NextSequence(t) = N + 1
    BY <1>0, <2>3, <2>4
  <2> QED BY <2>5 DEF N
<1> QED BY <1>1, <1>2

\* What a step of a writer does to the writer: it ends the transaction, or moves it on.
LEMMA WriterMoves ==
    ASSUME TypeOK, AppendInv, NEW x \in Writers
    PROVE  /\ \A s \in Sources : BeginAppend(x, s) => \E t \in WriterType :
                 writer' = [writer EXCEPT ![x] = t] /\ t.pc = "lock"
           /\ AcquireScopeLock(x) => \E t \in WriterType :
                 writer' = [writer EXCEPT ![x] = t] /\ t.pc = "examine"
           /\ ExamineSource(x) /\ ~ Recorded(writer[x].row.source) => \E t \in WriterType :
                 /\ writer' = [writer EXCEPT ![x] = t] /\ t.pc = "insert"
                 /\ t.row.source = writer[x].row.source
                 /\ t.row.sequence = NextSequence(t.row)
           /\ EndAppend(x) => writer' = [writer EXCEPT ![x] = IdleWriter]
<1>0. writer \in [Writers -> WriterType] /\ begins \in Nat /\ history \subseteq Rows
  BY Types
<1>1. ASSUME NEW s \in Sources, BeginAppend(x, s)
      PROVE  \E t \in WriterType : writer' = [writer EXCEPT ![x] = t] /\ t.pc = "lock"
  <2>1. [pc |-> "lock", row |-> [source |-> s, sequence |-> 0, created |-> begins + 1]] \in WriterType
    BY <1>0 DEF WriterType, Rows
  <2> QED BY <1>1, <2>1 DEF BeginAppend
<1>2. ASSUME writer[x].pc # "idle" PROVE writer[x] \in [pc : {"lock", "examine", "insert"}, row : Rows]
  BY <1>0, <1>2, InitialTypes DEF WriterType
<1>3. ASSUME AcquireScopeLock(x)
      PROVE  \E t \in WriterType : writer' = [writer EXCEPT ![x] = t] /\ t.pc = "examine"
  <2>1. writer[x] \in [pc : {"lock", "examine", "insert"}, row : Rows]
    BY <1>2, <1>3 DEF AcquireScopeLock
  <2> DEFINE t == [writer[x] EXCEPT !.pc = "examine"]
  <2>2. t \in WriterType /\ t.pc = "examine"
    BY <2>1 DEF WriterType
  <2>3. writer' = [writer EXCEPT ![x] = t]
    BY <1>3 DEF AcquireScopeLock
  <2> QED BY <2>2, <2>3
<1>4. ASSUME ExamineSource(x), ~ Recorded(writer[x].row.source)
      PROVE  \E t \in WriterType : /\ writer' = [writer EXCEPT ![x] = t] /\ t.pc = "insert"
                                   /\ t.row.source = writer[x].row.source
                                   /\ t.row.sequence = NextSequence(t.row)
  <2>1. writer[x] \in [pc : {"lock", "examine", "insert"}, row : Rows]
    BY <1>2, <1>4 DEF ExamineSource
  <2>2. NextSequence(writer[x].row) \in Nat /\ \A u : NextSequence(u) = NextSequence(writer[x].row)
    BY NextSequenceDense, FS_CardinalityType DEF AppendInv, HistoryDense
  <2> DEFINE r == [writer[x].row EXCEPT !.sequence = NextSequence(writer[x].row)]
             t == [pc |-> "insert", row |-> r]
  <2>3. r \in Rows /\ r.source = writer[x].row.source /\ r.sequence = NextSequence(writer[x].row)
    BY <2>1, <2>2 DEF Rows
  <2>4. t \in WriterType /\ t.pc = "insert" /\ t.row = r
    BY <2>3 DEF WriterType
  <2>5. writer' = [writer EXCEPT ![x] = t]
    BY <1>0, <1>4, <2>1 DEF ExamineSource
  <2> HIDE DEF r, t
  <2> QED BY <2>2, <2>3, <2>4, <2>5
<1> QED BY <1>1, <1>3, <1>4 DEF EndAppend

\* A record inserted by the lock's holder extends the dense history by one.
LEMMA InsertExtends ==
    ASSUME TypeOK, AppendInv, NEW x \in Writers, InsertRecord(x)
    PROVE  LET row == writer[x].row IN
           /\ row \in Rows /\ row \notin history
           /\ row.sequence = Cardinality(history) + 1
           /\ \A r \in history : r.source # row.source
           /\ history' = history \cup {row}
           /\ outbox' = [r \in history \cup {row} |-> IF r = row THEN NewMessage ELSE outbox[r]]
           /\ deliveries' = [r \in history \cup {row} |-> IF r = row THEN 0 ELSE deliveries[r]]
<1> DEFINE row == writer[x].row
<1>0. writer \in [Writers -> WriterType] /\ history \subseteq Rows
  BY Types
<1>1. writer[x] \in [pc : {"lock", "examine", "insert"}, row : Rows] /\ writer[x].pc = "insert"
  BY <1>0, InitialTypes DEF InsertRecord, WriterType
<1>2. ~ Recorded(row.source) /\ row.sequence = Cardinality(history) + 1
  BY <1>1, NextSequenceDense DEF AppendInv, ExaminedStillTrue, HistoryDense
<1>3. Cardinality(history) \in Nat /\ Sequences = 1 .. Cardinality(history)
  BY FS_CardinalityType DEF AppendInv, HistoryDense
<1>4. Unique(row)
  BY <1>2, <1>3 DEF Unique
<1>5. \A r \in history : r.source # row.source
  BY <1>2 DEF Recorded
<1>6. row \notin history
  BY <1>5
<1> QED BY <1>1, <1>2, <1>4, <1>5, <1>6 DEF InsertRecord

\* What a step of a worker does to the worker.
WorkerBecomes(w, v) == worker' = [worker EXCEPT ![w] = v]

\* A committed claim gives the worker a fresh token and a lease from its own clock.
LEMMA CommitMove ==
    ASSUME TypeOK, NEW w \in Workers, CommitClaim(w)
    PROVE  \E v \in WorkerType(history) :
              /\ WorkerBecomes(w, v)
              /\ v.pc = "working" /\ v.token = claims + 1 /\ v.expiresAt = worker[w].at + Lease
              /\ v.batch = worker[w].batch /\ v.sent = worker[w].sent
<1> DEFINE u == worker[w]
           v == [u EXCEPT !.pc = "working", !.token = claims + 1, !.expiresAt = u.at + Lease]
<1>1. u \in WorkerType(history) /\ claims \in Nat /\ worker \in [Workers -> WorkerType(history)]
  BY Types
<1>2. claims + 1 \in Nat /\ u.at + Lease \in Nat
  BY <1>1, OutboxAssumption DEF WorkerType
<1>3. worker' = [worker EXCEPT ![w].pc = "working", ![w].token = claims + 1, ![w].expiresAt = u.at + Lease]
  BY DEF CommitClaim
<1>4. WorkerBecomes(w, v)
  BY <1>3 DEF WorkerBecomes
<1>5. /\ v \in WorkerType(history) /\ v.pc = "working" /\ v.token = claims + 1
      /\ v.expiresAt = u.at + Lease /\ v.batch = u.batch /\ v.sent = u.sent
  BY <1>1, <1>2 DEF WorkerType
<1> HIDE DEF v
<1> QED BY <1>4, <1>5

\* A worker that is done with a message keeps its lease and shrinks its batch, or is idle.
LEMMA DropMove ==
    ASSUME TypeOK, NEW w \in Workers, NEW r \in history, Drop(w, r)
    PROVE  \E v \in WorkerType(history) :
              /\ WorkerBecomes(w, v)
              /\ v.pc \in {"idle", worker[w].pc}
              /\ v.pc # "idle" => v.token = worker[w].token /\ v.expiresAt = worker[w].expiresAt
              /\ v.batch \subseteq worker[w].batch /\ v.sent \subseteq worker[w].sent
              /\ v.batch \ v.sent \subseteq worker[w].batch \ worker[w].sent
<1> DEFINE u == worker[w]
           v == [u EXCEPT !.batch = u.batch \ {r}, !.sent = u.sent \ {r}]
<1>1. u \in WorkerType(history)
  BY Types
<1>2. CASE u.batch = {r}
  <2>1. WorkerBecomes(w, IdleWorker)
    BY <1>2 DEF Drop, WorkerBecomes
  <2> QED BY <2>1, InitialTypes
<1>3. CASE u.batch # {r}
  <2>1. WorkerBecomes(w, v)
    BY <1>3 DEF Drop, WorkerBecomes
  <2>2. /\ v \in WorkerType(history) /\ v.pc = u.pc /\ v.token = u.token /\ v.expiresAt = u.expiresAt
        /\ v.batch = u.batch \ {r} /\ v.sent = u.sent \ {r}
    BY <1>1 DEF WorkerType
  <2> HIDE DEF v
  <2> QED BY <2>1, <2>2
<1> QED BY <1>2, <1>3

\* Every step keeps the types: the worker's batch stays a part of the history.
LEMMA TypeOKStep ==
    ASSUME TypeOK, AppendInv, [Next]_vars
    PROVE  TypeOK'
<1> USE OutboxAssumption
<1>0. /\ history \subseteq Rows
      /\ outbox \in [history -> Message]
      /\ deliveries \in [history -> Nat]
      /\ lockHolder \in Writers \cup {NoWriter}
      /\ writer \in [Writers -> WriterType]
      /\ begins \in Nat /\ claims \in Nat /\ crashes \in Nat
      /\ clock \in [Workers -> Nat]
      /\ worker \in [Workers -> WorkerType(history)]
  BY Types
<1>a. ASSUME /\ history' \subseteq Rows
             /\ outbox' \in [history' -> Message]
             /\ deliveries' \in [history' -> Nat]
             /\ lockHolder' \in Writers \cup {NoWriter}
             /\ writer' \in [Writers -> WriterType]
             /\ begins' \in Nat /\ claims' \in Nat /\ crashes' \in Nat
             /\ clock' \in [Workers -> Nat]
             /\ worker' \in [Workers -> WorkerType(history')]
      PROVE  TypeOK'
  BY <1>a DEF TypeOK, Message, WriterType, WorkerType
<1>b. IdleWriter \in WriterType
  BY DEF WriterType
<1>1. ASSUME NEW x \in Writers, NEW s \in Sources, BeginAppend(x, s) PROVE TypeOK'
  <2>1. writer' \in [Writers -> WriterType]
    BY <1>0, <1>1, WriterMoves
  <2> QED BY <1>0, <1>1, <1>a, <2>1 DEF BeginAppend
<1>2. ASSUME NEW x \in Writers, AcquireScopeLock(x) PROVE TypeOK'
  <2>1. writer' \in [Writers -> WriterType]
    BY <1>0, <1>2, WriterMoves
  <2> QED BY <1>0, <1>2, <1>a, <2>1 DEF AcquireScopeLock
<1>3. ASSUME NEW x \in Writers, ExamineSource(x) PROVE TypeOK'
  <2>1. CASE Recorded(writer[x].row.source)
    BY <1>0, <1>3, <1>a, <1>b, <2>1 DEF ExamineSource, EndAppend
  <2>2. CASE ~ Recorded(writer[x].row.source)
    <3>1. writer' \in [Writers -> WriterType]
      BY <1>0, <1>3, <2>2, WriterMoves
    <3> QED BY <1>0, <1>3, <1>a, <2>2, <3>1 DEF ExamineSource
  <2> QED BY <2>1, <2>2
<1>4. ASSUME NEW x \in Writers, InsertRecord(x) PROVE TypeOK'
  <2> DEFINE row == writer[x].row
  <2>1. /\ row \in Rows /\ history' = history \cup {row}
        /\ outbox' = [r \in history \cup {row} |-> IF r = row THEN NewMessage ELSE outbox[r]]
        /\ deliveries' = [r \in history \cup {row} |-> IF r = row THEN 0 ELSE deliveries[r]]
    BY <1>4, InsertExtends
  <2> HIDE DEF row
  <2>2. outbox' \in [history' -> Message] /\ deliveries' \in [history' -> Nat] /\ history' \subseteq Rows
    BY <1>0, <2>1, InitialTypes
  <2>3. worker' \in [Workers -> WorkerType(history')]
    BY <1>0, <1>4, <2>1 DEF InsertRecord, WorkerType
  <2> QED BY <1>0, <1>4, <1>a, <1>b, <2>2, <2>3 DEF InsertRecord, EndAppend
<1>5. ASSUME NEW x \in Writers, FailAppend(x) PROVE TypeOK'
  BY <1>0, <1>5, <1>a, <1>b DEF FailAppend, EndAppend
<1>6. ASSUME NEW w \in Workers, NEW v \in WorkerType(history), worker' = [worker EXCEPT ![w] = v],
             UNCHANGED <<history, lockHolder, writer, begins, clock>>,
             outbox' \in [history -> Message], deliveries' \in [history -> Nat],
             claims' \in Nat, crashes' \in Nat
      PROVE  TypeOK'
  <2>1. worker' \in [Workers -> WorkerType(history)]
    BY <1>0, <1>6
  <2> QED BY <1>0, <1>6, <1>a, <2>1
<1>7. ASSUME NEW w \in Workers, BeginClaim(w) PROVE TypeOK'
  <2> DEFINE v == [worker[w] EXCEPT !.pc = "claiming", !.at = clock[w]]
  <2>1. v \in WorkerType(history) /\ worker' = [worker EXCEPT ![w] = v]
    BY <1>0, <1>7 DEF BeginClaim, WorkerType
  <2> QED BY <1>0, <1>6, <1>7, <2>1 DEF BeginClaim
<1>8. ASSUME NEW w \in Workers, LockCandidates(w) PROVE TypeOK'
  <2>1. CASE worker' = [worker EXCEPT ![w] = IdleWorker]
    BY <1>0, <1>6, <1>8, <2>1, InitialTypes DEF LockCandidates
  <2>2. ASSUME NEW B \in Oldest(Candidates(worker[w].at)),
               worker' = [worker EXCEPT ![w].pc = "locked", ![w].batch = B]
        PROVE  TypeOK'
    <3> DEFINE v == [worker[w] EXCEPT !.pc = "locked", !.batch = B]
    <3>1. B \subseteq history
      BY DEF Oldest, Candidates
    <3>2. v \in WorkerType(history) /\ worker' = [worker EXCEPT ![w] = v]
      BY <1>0, <2>2, <3>1 DEF WorkerType
    <3> QED BY <1>0, <1>6, <1>8, <3>2 DEF LockCandidates
  <2> QED BY <1>8, <2>1, <2>2 DEF LockCandidates
<1>9. ASSUME NEW w \in Workers, CommitClaim(w) PROVE TypeOK'
  <2>1. PICK v \in WorkerType(history) : WorkerBecomes(w, v)
    BY <1>9, CommitMove
  <2>2. \A r \in history : ClaimedMessage(outbox[r], claims + 1, worker[w].at) \in Message
    BY <1>0 DEF ClaimedMessage, Message, WorkerType
  <2>3. outbox' \in [history -> Message]
    BY <1>0, <1>9, <2>2 DEF CommitClaim
  <2>4. UNCHANGED <<history, lockHolder, writer, begins, clock, deliveries, crashes>> /\ claims' = claims + 1
    BY <1>9 DEF CommitClaim
  <2>5. claims' \in Nat /\ crashes' \in Nat /\ deliveries' \in [history -> Nat]
    BY <1>0, <2>4
  <2> QED BY <1>6, <2>1, <2>3, <2>4, <2>5 DEF WorkerBecomes
<1>10. ASSUME NEW w \in Workers, NEW r \in history, DeliverMessage(w, r) PROVE TypeOK'
  <2> DEFINE v == [worker[w] EXCEPT !.sent = @ \cup {r}]
  <2>1. v \in WorkerType(history) /\ worker' = [worker EXCEPT ![w] = v]
    BY <1>0, <1>10 DEF DeliverMessage, WorkerType
  <2>2. deliveries' \in [history -> Nat]
    BY <1>0, <1>10 DEF DeliverMessage
  <2> HIDE DEF v
  <2> QED BY <1>0, <1>6, <1>10, <2>1, <2>2 DEF DeliverMessage
<1>11. ASSUME NEW r \in history, NEW t PROVE Published(r, t) \in [history -> Message]
  <2>1. [outbox[r] EXCEPT !.status = "published"] \in Message
    BY <1>0 DEF Message
  <2> QED BY <1>0, <2>1 DEF Published
<1>12. ASSUME NEW w \in Workers, NEW r \in history, PublishMessage(w, r) PROVE TypeOK'
  <2>1. PICK v \in WorkerType(history) : WorkerBecomes(w, v)
    BY <1>12, DropMove DEF PublishMessage
  <2>2. outbox' \in [history -> Message]
    BY <1>11, <1>12 DEF PublishMessage
  <2> QED BY <1>0, <1>6, <1>12, <2>1, <2>2 DEF PublishMessage, WorkerBecomes
<1>13. ASSUME NEW w \in Workers, NEW r \in history, PublishUnanswered(w, r) PROVE TypeOK'
  BY <1>0, <1>11, <1>13, <1>a DEF PublishUnanswered
<1>14. ASSUME NEW w \in Workers, CrashWorker(w) PROVE TypeOK'
  <2>1. IdleWorker \in WorkerType(history) /\ worker' = [worker EXCEPT ![w] = IdleWorker]
    BY <1>14, InitialTypes DEF CrashWorker
  <2>2. crashes' \in Nat /\ UNCHANGED <<history, outbox, lockHolder, writer, begins, clock, deliveries, claims>>
    BY <1>0, <1>14 DEF CrashWorker
  <2> QED BY <1>0, <1>6, <2>1, <2>2
<1>15. ASSUME NEW w \in Workers, Tick(w) PROVE TypeOK'
  BY <1>0, <1>15, <1>a DEF Tick
<1>16. CASE UNCHANGED vars
  BY <1>0, <1>16, <1>a DEF vars
<1> QED
  BY <1>1, <1>2, <1>3, <1>4, <1>5, <1>7, <1>8, <1>9, <1>10, <1>12, <1>13, <1>14, <1>15, <1>16
  DEF Next, AppendStep, ClaimStep, DeliveryStep

-----------------------------------------------------------------------------
\* Steps of the workers leave the history and its writers alone.
LEMMA WorkerFrame ==
    ASSUME NEW w \in Workers,
           \/ ClaimStep(w) \/ DeliveryStep(w) \/ CrashWorker(w) \/ Tick(w)
           \/ \E r \in history : PublishUnanswered(w, r)
    PROVE  UNCHANGED <<history, lockHolder, writer>>
<1>1. CASE ClaimStep(w)
  BY <1>1 DEF ClaimStep, BeginClaim, LockCandidates, CommitClaim
<1>2. CASE DeliveryStep(w)
  BY <1>2 DEF DeliveryStep, DeliverMessage, PublishMessage
<1>3. CASE CrashWorker(w) \/ Tick(w) \/ \E r \in history : PublishUnanswered(w, r)
  BY <1>3 DEF CrashWorker, Tick, PublishUnanswered
<1> QED BY <1>1, <1>2, <1>3

\* Every step keeps the append invariant: only the holder of the lock writes.
LEMMA AppendInvStep ==
    ASSUME TypeOK, AppendInv, [Next]_vars
    PROVE  AppendInv'
<1> USE OutboxAssumption
<1>0. /\ history \subseteq Rows
      /\ lockHolder \in Writers \cup {NoWriter}
      /\ writer \in [Writers -> WriterType]
      /\ Cardinality(history) \in Nat
  BY Types, FS_CardinalityType DEF AppendInv
<1>c. /\ \A x \in Writers : writer[x].pc \in {"examine", "insert"} => lockHolder = x
      /\ \A x \in Writers : writer[x].pc = "insert" =>
            /\ ~ Recorded(writer[x].row.source)
            /\ writer[x].row.sequence = NextSequence(writer[x].row)
  BY DEF AppendInv, ExaminedStillTrue
\* A step that leaves the history alone and moves one writer.
<1>a. ASSUME history' = history, NEW x \in Writers, NEW t \in WriterType,
             writer' = [writer EXCEPT ![x] = t],
             t.pc \in {"examine", "insert"} => lockHolder' = x,
             lockHolder' = lockHolder \/ lockHolder = NoWriter \/ (lockHolder = x /\ lockHolder' = NoWriter),
             t.pc = "insert" => ~ Recorded(t.row.source) /\ t.row.sequence = NextSequence(t.row)
      PROVE  AppendInv'
  <2>1. \A y \in Writers : writer'[y] = IF y = x THEN t ELSE writer[y]
    BY <1>0, <1>a
  <2>2. \A y \in Writers : writer'[y].pc \in {"examine", "insert"} => lockHolder' = y
    BY <1>c, <1>a, <2>1
  <2>3. Sequences' = Sequences
    BY <1>a DEF Sequences
  <2>4. \A u : NextSequence(u)' = NextSequence(u) /\ Recorded(u)' = Recorded(u)
    BY <1>a, <2>3 DEF NextSequence, Recorded
  <2>5. HistoryDense' /\ IsFiniteSet(history')
    BY <1>a, <2>3 DEF AppendInv, HistoryDense
  <2>6. ExaminedStillTrue'
    <3> SUFFICES ASSUME NEW y \in Writers, writer'[y].pc = "insert"
                 PROVE  /\ ~ Recorded(writer[y].row.source)'
                        /\ writer'[y].row.sequence = NextSequence(writer[y].row)'
      BY DEF ExaminedStillTrue
    <3>1. /\ Recorded(writer[y].row.source)' = Recorded(writer'[y].row.source)
          /\ NextSequence(writer[y].row)' = NextSequence(writer'[y].row)
      BY <1>a, <2>3 DEF Recorded, NextSequence
    <3> QED BY <1>c, <1>a, <2>1, <3>1
  <2> QED BY <2>2, <2>5, <2>6 DEF AppendInv
<1>b. IdleWriter \in WriterType /\ IdleWriter.pc = "idle"
  BY InitialTypes DEF WriterType
<1>1. ASSUME NEW x \in Writers, NEW s \in Sources, BeginAppend(x, s) PROVE AppendInv'
  <2>1. PICK t \in WriterType : writer' = [writer EXCEPT ![x] = t] /\ t.pc = "lock"
    BY <1>1, WriterMoves
  <2> QED BY <1>1, <1>a, <2>1 DEF BeginAppend
<1>2. ASSUME NEW x \in Writers, AcquireScopeLock(x) PROVE AppendInv'
  <2>1. PICK t \in WriterType : writer' = [writer EXCEPT ![x] = t] /\ t.pc = "examine"
    BY <1>2, WriterMoves
  <2> QED BY <1>2, <1>a, <2>1 DEF AcquireScopeLock, LockFree
<1>3. ASSUME NEW x \in Writers, EndAppend(x), history' = history PROVE AppendInv'
  BY <1>3, <1>a, <1>b DEF EndAppend
<1>4. ASSUME NEW x \in Writers, ExamineSource(x) PROVE AppendInv'
  <2>1. CASE Recorded(writer[x].row.source)
    BY <1>3, <1>4, <2>1 DEF ExamineSource
  <2>2. CASE ~ Recorded(writer[x].row.source)
    <3>1. PICK t \in WriterType : /\ writer' = [writer EXCEPT ![x] = t] /\ t.pc = "insert"
                                  /\ t.row.source = writer[x].row.source
                                  /\ t.row.sequence = NextSequence(t.row)
      BY <1>4, <2>2, WriterMoves
    <3>2. lockHolder' = lockHolder /\ lockHolder = x /\ history' = history
      BY <1>4, <1>c, <2>2 DEF ExamineSource
    <3> QED BY <1>a, <2>2, <3>1, <3>2
  <2> QED BY <2>1, <2>2
<1>5. ASSUME NEW x \in Writers, FailAppend(x) PROVE AppendInv'
  BY <1>3, <1>5 DEF FailAppend
<1>6. ASSUME NEW x \in Writers, InsertRecord(x) PROVE AppendInv'
  <2> DEFINE row == writer[x].row
             N == Cardinality(history)
  <2>1. /\ row \in Rows /\ row \notin history
        /\ row.sequence = N + 1
        /\ \A r \in history : r.source # row.source
        /\ history' = history \cup {row}
    BY <1>6, InsertExtends
  <2>2. lockHolder = x /\ EndAppend(x)
    BY <1>6, <1>c DEF InsertRecord
  <2>3. \A y \in Writers : writer'[y].pc \notin {"examine", "insert"}
    BY <1>0, <1>b, <1>c, <2>2 DEF EndAppend
  <2> HIDE DEF row
  <2>4. IsFiniteSet(history') /\ Cardinality(history') = N + 1
    BY <2>1, FS_AddElement DEF AppendInv
  <2>5. Sequences = 1 .. N
    BY DEF AppendInv, HistoryDense
  <2>6. \A r \in history : r.sequence \in 1 .. N
    BY <2>5 DEF Sequences
  <2>7. Sequences' = Sequences \cup {row.sequence}
    BY <2>1 DEF Sequences
  <2>8. Sequences' = 1 .. N + 1
    BY <1>0, <2>1, <2>5, <2>7
  <2>9. \A r, q \in history' : r.source = q.source \/ r.sequence = q.sequence => r = q
    <3>1. \A r, q \in history : r.source = q.source \/ r.sequence = q.sequence => r = q
      BY DEF AppendInv, HistoryDense
    <3>2. \A r \in history : r.sequence # row.sequence
      BY <1>0, <2>1, <2>6
    <3> HIDE DEF N
    <3> QED BY <2>1, <3>1, <3>2
  <2> QED BY <2>3, <2>4, <2>8, <2>9 DEF AppendInv, HistoryDense, ExaminedStillTrue
<1>7. ASSUME UNCHANGED <<history, lockHolder, writer>> PROVE AppendInv'
  BY <1>7 DEF AppendInv, HistoryDense, ExaminedStillTrue, Sequences, Recorded, NextSequence
<1>8. CASE UNCHANGED vars
  BY <1>7, <1>8 DEF vars
<1> QED
  BY <1>1, <1>2, <1>4, <1>5, <1>6, <1>7, <1>8, WorkerFrame DEF Next, AppendStep

\* Types and the append invariant hold in every reachable state.
LEMMA OutboxAppendInv == Spec => [](TypeOK /\ AppendInv)
<1>1. Init => TypeOK /\ AppendInv
  <2> SUFFICES ASSUME Init PROVE TypeOK /\ AppendInv
    OBVIOUS
  <2>1. outbox \in [history -> Message] /\ deliveries \in [history -> Nat]
    BY DEF Init
  <2>2. TypeOK
    BY <2>1, OutboxAssumption, InitialTypes DEF Init, TypeOK, Message, WorkerType
  <2>3. IsFiniteSet(history) /\ Cardinality(history) = 0 /\ Sequences = {}
    BY FS_EmptySet DEF Init, Sequences
  <2>4. \A x \in Writers : writer[x].pc = "idle"
    BY InitialTypes DEF Init
  <2>5. HistoryDense
    BY <2>3 DEF HistoryDense, Init
  <2> QED BY <2>2, <2>3, <2>4, <2>5 DEF AppendInv, ExaminedStillTrue
<1>2. TypeOK /\ AppendInv /\ [Next]_vars => (TypeOK /\ AppendInv)'
  BY TypeOKStep, AppendInvStep
<1> QED BY <1>1, <1>2, PTL DEF Spec

\* The tables and processes hold values of their types, and an outbox row exists for
\* every history row and for nothing else.
THEOREM OutboxTypeCorrect == Spec => []TypeOK
  BY OutboxAppendInv, PTL

\* The history of a tenant is gap-free and has one record per source (the scope lock
\* around the duplicate check and MAX(sequence) + 1).
THEOREM OutboxHistoryDense == Spec => []HistoryDense
<1>1. AppendInv => HistoryDense
  BY DEF AppendInv
<1> QED BY <1>1, OutboxAppendInv, PTL

\* What an append examined under the lock still holds when it inserts.
THEOREM OutboxExaminedStillTrue == Spec => []ExaminedStillTrue
<1>1. AppendInv => ExaminedStillTrue
  BY DEF AppendInv
<1> QED BY <1>1, OutboxAppendInv, PTL

-----------------------------------------------------------------------------
\* Claims: clocks stay within the skew, an open claim's rows stay claimable and are
\* its alone, and a worker has its claim on a message until, by its own clock, the
\* lease is less than the skew from its end.
ClockInv ==
    /\ \A v, w \in Workers : clock[v] <= clock[w] + MaxSkew
    /\ \A w \in Workers : worker[w].pc \in {"claiming", "locked"} => worker[w].at <= clock[w]

LockedInv ==
    /\ \A w \in Workers : worker[w].pc = "locked" =>
          \A r \in worker[w].batch : Claimable(r, worker[w].at)
    /\ \A v, w \in Workers : \A r \in worker[v].batch :
          worker[v].pc = "locked" /\ worker[w].pc = "locked" /\ r \in worker[w].batch => v = w

LeaseInv ==
    /\ \A r \in history : outbox[r].token # 0 => outbox[r].status # "pending"
    /\ \A w \in Workers : worker[w].pc = "working" => worker[w].token # 0
    /\ \A w \in Workers : \A r \in worker[w].batch : worker[w].pc = "working" =>
          \/ outbox[r].token = worker[w].token /\ outbox[r].expiresAt = worker[w].expiresAt
          \/ worker[w].expiresAt <= clock[w] + MaxSkew

\* What a claim finds: rows that are claimable and that no other claim has locked.
LEMMA CandidatesFree ==
    ASSUME NEW at, NEW B \in Oldest(Candidates(at))
    PROVE  /\ B \subseteq history
           /\ \A r \in B : Claimable(r, at) /\ \A v \in Workers : worker[v].pc = "locked" => r \notin worker[v].batch
  BY DEF Oldest, Candidates, RowLocked

\* What a publication leaves of a row.
LEMMA PublishedRow ==
    ASSUME outbox \in [history -> Message], NEW r \in history, NEW t, NEW q \in history
    PROVE  /\ Published(r, t)[q].token = outbox[q].token
           /\ Published(r, t)[q].expiresAt = outbox[q].expiresAt
           /\ Published(r, t)[q].attempts = outbox[q].attempts
           /\ q # r => Published(r, t)[q] = outbox[q]
           /\ Published(r, t)[q].status \in {outbox[q].status, "published"}
<1>1. outbox[r] \in Message
  OBVIOUS
<1>2. CASE Publishable(r, t)
  <2>1. Published(r, t)[q] = IF q = r THEN [outbox[r] EXCEPT !.status = "published"] ELSE outbox[q]
    BY <1>2 DEF Published
  <2> QED BY <1>1, <2>1 DEF Message
<1>3. CASE ~ Publishable(r, t)
  BY <1>3 DEF Published
<1> QED BY <1>2, <1>3

\* Clocks and readings of clocks.
LEMMA ClockInvStep ==
    ASSUME TypeOK, AppendInv, ClockInv, [Next]_vars
    PROVE  ClockInv'
<1> USE OutboxAssumption
<1>0. clock \in [Workers -> Nat] /\ worker \in [Workers -> WorkerType(history)]
  BY Types
<1>a. ASSUME UNCHANGED clock, \A w \in Workers : worker'[w].pc \in {"claiming", "locked"} =>
                 \/ worker[w].pc \in {"claiming", "locked"} /\ worker'[w].at = worker[w].at
                 \/ worker'[w].at = clock[w]
      PROVE  ClockInv'
  BY <1>0, <1>a DEF ClockInv
<1>1. ASSUME UNCHANGED <<clock, worker>> PROVE ClockInv'
  BY <1>1 DEF ClockInv
<1>2. ASSUME NEW x \in Writers,
             (\E s \in Sources : BeginAppend(x, s)) \/ AppendStep(x) \/ FailAppend(x)
      PROVE  UNCHANGED <<clock, worker>>
  BY <1>2 DEF BeginAppend, AppendStep, AcquireScopeLock, ExamineSource, InsertRecord, FailAppend
<1>3. ASSUME NEW w \in Workers, BeginClaim(w) PROVE ClockInv'
  <2>1. /\ worker'[w].at = clock[w]
        /\ \A v \in Workers \ {w} : worker'[v] = worker[v]
        /\ UNCHANGED clock
    BY <1>0, <1>3 DEF BeginClaim, WorkerType
  <2> QED BY <2>1, <1>a
<1>4. ASSUME NEW w \in Workers, LockCandidates(w) PROVE ClockInv'
  <2>1. /\ worker'[w].pc = "idle" \/ (worker'[w].at = worker[w].at /\ worker[w].pc = "claiming")
        /\ \A v \in Workers \ {w} : worker'[v] = worker[v]
        /\ UNCHANGED clock
    BY <1>0, <1>4, InitialTypes DEF LockCandidates, WorkerType
  <2> QED BY <2>1, <1>a
<1>5. ASSUME NEW w \in Workers, NEW u \in WorkerType(history), WorkerBecomes(w, u), UNCHANGED clock,
             u.pc \in {"idle", "working"}
      PROVE  ClockInv'
  <2>1. \A v \in Workers : worker'[v] = IF v = w THEN u ELSE worker[v]
    BY <1>0, <1>5 DEF WorkerBecomes
  <2> QED BY <1>5, <2>1, <1>a
<1>6. ASSUME NEW w \in Workers, CommitClaim(w) PROVE ClockInv'
  <2>1. UNCHANGED clock
    BY <1>6 DEF CommitClaim
  <2> QED BY <1>5, <1>6, <2>1, CommitMove
<1>7. ASSUME NEW w \in Workers, NEW r \in history, DeliverMessage(w, r) PROVE ClockInv'
  <2>1. /\ worker'[w].pc = "working"
        /\ \A v \in Workers \ {w} : worker'[v] = worker[v]
        /\ UNCHANGED clock
    BY <1>0, <1>7 DEF DeliverMessage, WorkerType
  <2> QED BY <2>1, <1>a
<1>8. ASSUME NEW w \in Workers, NEW r \in history, PublishMessage(w, r) PROVE ClockInv'
  <2>1. UNCHANGED clock /\ worker[w].pc = "working" /\ Drop(w, r)
    BY <1>8 DEF PublishMessage
  <2> QED BY <1>5, <2>1, DropMove
<1>9. ASSUME NEW w \in Workers, NEW r \in history, PublishUnanswered(w, r) PROVE ClockInv'
  BY <1>1, <1>9 DEF PublishUnanswered
<1>10. ASSUME NEW w \in Workers, CrashWorker(w) PROVE ClockInv'
  BY <1>5, <1>10, InitialTypes DEF CrashWorker, WorkerBecomes
<1>11. ASSUME NEW w \in Workers, Tick(w) PROVE ClockInv'
  <2>1. /\ \A v \in Workers : clock'[v] = IF v = w THEN clock[v] + 1 ELSE clock[v]
        /\ \A v \in Workers : clock[w] < clock[v] + MaxSkew \/ v = w
        /\ UNCHANGED worker
    BY <1>0, <1>11 DEF Tick
  <2>2. \A v, u \in Workers : clock'[v] <= clock'[u] + MaxSkew
    BY <1>0, <2>1 DEF ClockInv
  <2>3. \A v \in Workers : worker[v].at \in Nat
    BY <1>0 DEF WorkerType
  <2>4. \A v \in Workers : worker'[v].pc \in {"claiming", "locked"} => worker'[v].at <= clock'[v]
    BY <1>0, <2>1, <2>3 DEF ClockInv
  <2> QED BY <2>2, <2>4 DEF ClockInv
<1>12. CASE UNCHANGED vars
  BY <1>1, <1>12 DEF vars
<1> QED
  BY <1>1, <1>2, <1>3, <1>4, <1>6, <1>7, <1>8, <1>9, <1>10, <1>11, <1>12
  DEF Next, ClaimStep, DeliveryStep

\* An append leaves the outbox rows of the history, and the workers, alone.
LEMMA AppendFrame ==
    ASSUME TypeOK, AppendInv, NEW x \in Writers,
           (\E s \in Sources : BeginAppend(x, s)) \/ AppendStep(x) \/ FailAppend(x)
    PROVE  /\ UNCHANGED <<worker, clock, claims>>
           /\ history \subseteq history'
           /\ \A r \in history : outbox'[r] = outbox[r] /\ deliveries'[r] = deliveries[r]
           /\ \A r \in history' \ history : outbox'[r] = NewMessage /\ deliveries'[r] = 0
<1>1. CASE InsertRecord(x)
  <2> DEFINE row == writer[x].row
  <2>1. /\ row \notin history /\ history' = history \cup {row}
        /\ outbox' = [r \in history \cup {row} |-> IF r = row THEN NewMessage ELSE outbox[r]]
        /\ deliveries' = [r \in history \cup {row} |-> IF r = row THEN 0 ELSE deliveries[r]]
    BY <1>1, InsertExtends
  <2> HIDE DEF row
  <2>2. UNCHANGED <<worker, clock, claims>>
    BY <1>1 DEF InsertRecord
  <2> QED BY <2>1, <2>2
<1>2. CASE ~ InsertRecord(x)
  <2>1. UNCHANGED <<worker, clock, claims, history, outbox, deliveries>>
    BY <1>2 DEF BeginAppend, AppendStep, AcquireScopeLock, ExamineSource, FailAppend
  <2> QED BY <2>1
<1> QED BY <1>1, <1>2

\* Every step keeps the rows of open claims claimable: nobody else touches them.
LEMMA LockedInvStep ==
    ASSUME TypeOK, AppendInv, LockedInv, [Next]_vars
    PROVE  LockedInv'
<1>0. /\ outbox \in [history -> Message]
      /\ worker \in [Workers -> WorkerType(history)]
  BY Types
<1>b. \A w \in Workers : worker[w].batch \subseteq history
  BY <1>0 DEF WorkerType
<1>a. ASSUME \A w \in Workers : worker'[w].pc = "locked" =>
                 /\ worker[w].pc = "locked" /\ worker'[w].batch = worker[w].batch /\ worker'[w].at = worker[w].at
                 /\ \A r \in worker[w].batch : outbox'[r] = outbox[r]
      PROVE  LockedInv'
  BY <1>a DEF LockedInv, Claimable
<1>1. ASSUME NEW x \in Writers,
             (\E s \in Sources : BeginAppend(x, s)) \/ AppendStep(x) \/ FailAppend(x)
      PROVE  LockedInv'
  BY <1>1, <1>a, <1>b, AppendFrame
<1>2. ASSUME NEW w \in Workers, BeginClaim(w) PROVE LockedInv'
  <2>1. /\ worker'[w].pc = "claiming"
        /\ \A v \in Workers \ {w} : worker'[v] = worker[v]
        /\ UNCHANGED outbox
    BY <1>0, <1>2 DEF BeginClaim, WorkerType
  <2> QED BY <2>1, <1>a
<1>3. ASSUME NEW w \in Workers, LockCandidates(w) PROVE LockedInv'
  <2>1. CASE worker' = [worker EXCEPT ![w] = IdleWorker]
    BY <1>0, <1>3, <1>a, <2>1, InitialTypes DEF LockCandidates
  <2>2. ASSUME NEW B \in Oldest(Candidates(worker[w].at)),
               worker' = [worker EXCEPT ![w].pc = "locked", ![w].batch = B]
        PROVE  LockedInv'
    <3>1. /\ worker'[w].batch = B /\ worker'[w].at = worker[w].at
          /\ \A v \in Workers \ {w} : worker'[v] = worker[v]
      BY <1>0, <2>2 DEF WorkerType
    <3>2. UNCHANGED outbox
      BY <1>3 DEF LockCandidates
    <3>3. /\ \A r \in B : Claimable(r, worker[w].at)
          /\ \A r \in B : \A v \in Workers : worker[v].pc = "locked" => r \notin worker[v].batch
      BY CandidatesFree
    <3>4. \A v \in Workers : worker'[v].pc = "locked" =>
              \A r \in worker'[v].batch : Claimable(r, worker[v].at)'
      BY <3>1, <3>2, <3>3 DEF LockedInv, Claimable
    <3>5. \A v, u \in Workers : \A r \in worker'[v].batch :
              worker'[v].pc = "locked" /\ worker'[u].pc = "locked" /\ r \in worker'[u].batch => v = u
      BY <3>1, <3>3 DEF LockedInv
    <3> QED BY <3>4, <3>5 DEF LockedInv
  <2> QED BY <1>3, <2>1, <2>2 DEF LockCandidates
<1>4. ASSUME NEW w \in Workers, CommitClaim(w) PROVE LockedInv'
  <2>1. PICK u \in WorkerType(history) : WorkerBecomes(w, u) /\ u.pc = "working"
    BY <1>4, CommitMove
  <2>2. \A v \in Workers : worker'[v] = IF v = w THEN u ELSE worker[v]
    BY <1>0, <2>1 DEF WorkerBecomes
  <2>3. worker[w].pc = "locked" /\ \A r \in history : r \notin worker[w].batch => outbox'[r] = outbox[r]
    BY <1>0, <1>4 DEF CommitClaim
  <2>4. \A v \in Workers \ {w} : worker[v].pc = "locked" => \A r \in worker[v].batch : outbox'[r] = outbox[r]
    BY <1>b, <2>3 DEF LockedInv
  <2> QED BY <1>a, <2>1, <2>2, <2>4
<1>5. ASSUME NEW w \in Workers, NEW r \in history, DeliverMessage(w, r) PROVE LockedInv'
  <2>1. /\ worker'[w].pc = "working"
        /\ \A v \in Workers \ {w} : worker'[v] = worker[v]
        /\ UNCHANGED outbox
    BY <1>0, <1>5 DEF DeliverMessage, WorkerType
  <2> QED BY <2>1, <1>a
<1>6. ASSUME NEW r \in history, NEW t, ~ RowLocked(r), outbox' = Published(r, t)
      PROVE  \A v \in Workers : worker[v].pc = "locked" => \A q \in worker[v].batch : outbox'[q] = outbox[q]
  <2>1. \A v \in Workers : worker[v].pc = "locked" => r \notin worker[v].batch
    BY <1>6 DEF RowLocked
  <2>2. \A q \in history : q # r => outbox'[q] = outbox[q]
    BY <1>0, <1>6, PublishedRow
  <2> QED BY <1>b, <2>1, <2>2
<1>7. ASSUME NEW w \in Workers, NEW r \in history, PublishMessage(w, r) PROVE LockedInv'
  <2>1. worker[w].pc = "working" /\ Drop(w, r) /\ ~ RowLocked(r) /\ outbox' = Published(r, worker[w].token)
    BY <1>7 DEF PublishMessage
  <2>2. PICK u \in WorkerType(history) : WorkerBecomes(w, u) /\ u.pc \in {"idle", worker[w].pc}
    BY <2>1, DropMove
  <2>3. \A v \in Workers : worker'[v] = IF v = w THEN u ELSE worker[v]
    BY <1>0, <2>2 DEF WorkerBecomes
  <2>4. \A v \in Workers : worker[v].pc = "locked" => \A q \in worker[v].batch : outbox'[q] = outbox[q]
    BY <1>6, <2>1
  <2> QED BY <1>a, <2>1, <2>2, <2>3, <2>4
<1>8. ASSUME NEW w \in Workers, NEW r \in history, PublishUnanswered(w, r) PROVE LockedInv'
  <2>1. ~ RowLocked(r) /\ outbox' = Published(r, worker[w].token) /\ worker' = worker
    BY <1>8 DEF PublishUnanswered
  <2>2. \A v \in Workers : worker[v].pc = "locked" => \A q \in worker[v].batch : outbox'[q] = outbox[q]
    BY <1>6, <2>1
  <2> QED BY <1>a, <2>1, <2>2
<1>9. ASSUME NEW w \in Workers, CrashWorker(w) PROVE LockedInv'
  BY <1>0, <1>9, <1>a, InitialTypes DEF CrashWorker
<1>10. ASSUME NEW w \in Workers, Tick(w) PROVE LockedInv'
  BY <1>10, <1>a DEF Tick
<1>11. CASE UNCHANGED vars
  BY <1>11, <1>a DEF vars
<1> QED
  BY <1>1, <1>2, <1>3, <1>4, <1>5, <1>7, <1>8, <1>9, <1>10, <1>11
  DEF Next, ClaimStep, DeliveryStep

\* The row a claim writes.
LEMMA ClaimedRows ==
    ASSUME TypeOK, NEW w \in Workers, CommitClaim(w), NEW r \in history
    PROVE  /\ r \notin worker[w].batch => outbox'[r] = outbox[r]
           /\ r \in worker[w].batch => /\ outbox'[r].status = "claimed"
                                       /\ outbox'[r].token = claims + 1
                                       /\ outbox'[r].expiresAt = worker[w].at + Lease
                                       /\ outbox'[r].attempts = outbox[r].attempts + 1
<1>1. outbox \in [history -> Message]
  BY Types
<1>2. outbox'[r] = IF r \in worker[w].batch THEN ClaimedMessage(outbox[r], claims + 1, worker[w].at) ELSE outbox[r]
  BY <1>1 DEF CommitClaim
<1> QED BY <1>2 DEF ClaimedMessage

\* Every step keeps the lease invariant: a claim replaces another only when the
\* claimant's clock, and so every clock up to the skew, has reached the lease's end.
LEMMA LeaseInvStep ==
    ASSUME TypeOK, AppendInv, ClockInv, LockedInv, LeaseInv, [Next]_vars
    PROVE  LeaseInv'
<1> USE OutboxAssumption
<1>0. /\ outbox \in [history -> Message]
      /\ worker \in [Workers -> WorkerType(history)]
      /\ clock \in [Workers -> Nat] /\ claims \in Nat
  BY Types
<1>b. \A w \in Workers : /\ worker[w].batch \subseteq history
                         /\ worker[w].at \in Nat /\ worker[w].token \in Nat /\ worker[w].expiresAt \in Nat
  BY <1>0 DEF WorkerType
<1>a. ASSUME history \subseteq history',
             \A w \in Workers : worker'[w].pc = "working" =>
                 /\ worker[w].pc = "working" /\ worker'[w].batch \subseteq worker[w].batch
                 /\ worker'[w].token = worker[w].token /\ worker'[w].expiresAt = worker[w].expiresAt,
             \A r \in history : /\ outbox'[r].token = outbox[r].token /\ outbox'[r].expiresAt = outbox[r].expiresAt
                                /\ outbox'[r].status \in {outbox[r].status, "published"},
             \A r \in history' \ history : outbox'[r].token = 0,
             \A w \in Workers : clock'[w] \in Nat /\ clock'[w] >= clock[w]
      PROVE  LeaseInv'
  <2>1. \A r \in history' : outbox'[r].token # 0 => outbox'[r].status # "pending"
    BY <1>a DEF LeaseInv
  <2>2. \A w \in Workers : worker'[w].pc = "working" => worker'[w].token # 0
    BY <1>a DEF LeaseInv
  <2>3. ASSUME NEW w \in Workers, NEW r \in worker'[w].batch, worker'[w].pc = "working"
        PROVE  \/ outbox'[r].token = worker'[w].token /\ outbox'[r].expiresAt = worker'[w].expiresAt
               \/ worker'[w].expiresAt <= clock'[w] + MaxSkew
    <3>1. /\ worker[w].pc = "working" /\ r \in worker[w].batch /\ r \in history
          /\ worker'[w].token = worker[w].token /\ worker'[w].expiresAt = worker[w].expiresAt
      BY <1>a, <1>b, <2>3
    <3>2. \/ outbox[r].token = worker[w].token /\ outbox[r].expiresAt = worker[w].expiresAt
          \/ worker[w].expiresAt <= clock[w] + MaxSkew
      BY <3>1 DEF LeaseInv
    <3>3. CASE outbox[r].token = worker[w].token /\ outbox[r].expiresAt = worker[w].expiresAt
      BY <1>a, <3>1, <3>3
    <3>4. CASE worker[w].expiresAt <= clock[w] + MaxSkew
      BY <1>0, <1>b, <1>a, <3>1, <3>4
    <3> QED BY <3>2, <3>3, <3>4
  <2> QED BY <2>1, <2>2, <2>3 DEF LeaseInv
<1>c. ASSUME clock' = clock PROVE \A w \in Workers : clock'[w] \in Nat /\ clock'[w] >= clock[w]
  BY <1>0, <1>c
<1>1. ASSUME NEW x \in Writers,
             (\E s \in Sources : BeginAppend(x, s)) \/ AppendStep(x) \/ FailAppend(x)
      PROVE  LeaseInv'
  <2>1. /\ UNCHANGED <<worker, clock>> /\ history \subseteq history'
        /\ \A r \in history : outbox'[r] = outbox[r]
        /\ \A r \in history' \ history : outbox'[r] = NewMessage
    BY <1>1, AppendFrame
  <2> QED BY <1>a, <1>c, <2>1, InitialTypes
<1>2. ASSUME NEW w \in Workers, BeginClaim(w) PROVE LeaseInv'
  <2>1. /\ worker'[w].pc = "claiming"
        /\ \A v \in Workers \ {w} : worker'[v] = worker[v]
        /\ UNCHANGED <<outbox, clock, history>>
    BY <1>0, <1>2 DEF BeginClaim, WorkerType
  <2> QED BY <2>1, <1>a, <1>c
<1>3. ASSUME NEW w \in Workers, LockCandidates(w) PROVE LeaseInv'
  <2>1. /\ worker'[w].pc \in {"idle", "locked"}
        /\ \A v \in Workers \ {w} : worker'[v] = worker[v]
        /\ UNCHANGED <<outbox, clock, history>>
    BY <1>0, <1>3, InitialTypes DEF LockCandidates, WorkerType
  <2> QED BY <2>1, <1>a, <1>c
<1>4. ASSUME NEW w \in Workers, CommitClaim(w) PROVE LeaseInv'
  <2>1. PICK u \in WorkerType(history) :
            /\ WorkerBecomes(w, u) /\ u.pc = "working" /\ u.token = claims + 1
            /\ u.expiresAt = worker[w].at + Lease /\ u.batch = worker[w].batch
    BY <1>4, CommitMove
  <2>2. \A v \in Workers : worker'[v] = IF v = w THEN u ELSE worker[v]
    BY <1>0, <2>1 DEF WorkerBecomes
  <2>3. worker[w].pc = "locked" /\ UNCHANGED <<clock, history>>
    BY <1>4 DEF CommitClaim
  <2>4. \A r \in history :
           /\ r \notin worker[w].batch => outbox'[r] = outbox[r]
           /\ r \in worker[w].batch => /\ outbox'[r].status = "claimed"
                                       /\ outbox'[r].token = claims + 1
                                       /\ outbox'[r].expiresAt = worker[w].at + Lease
    BY <1>4, ClaimedRows
  <2>5. \A r \in history' : outbox'[r].token # 0 => outbox'[r].status # "pending"
    BY <2>3, <2>4 DEF LeaseInv
  <2>6. \A v \in Workers : worker'[v].pc = "working" => worker'[v].token # 0
    BY <1>0, <2>1, <2>2 DEF LeaseInv
  <2>7. ASSUME NEW v \in Workers, NEW r \in worker'[v].batch, worker'[v].pc = "working"
        PROVE  \/ outbox'[r].token = worker'[v].token /\ outbox'[r].expiresAt = worker'[v].expiresAt
               \/ worker'[v].expiresAt <= clock'[v] + MaxSkew
    <3>1. CASE v = w
      BY <1>b, <2>1, <2>2, <2>4, <2>7, <3>1
    <3>2. CASE v # w /\ r \notin worker[w].batch
      <4>1. worker'[v] = worker[v] /\ r \in worker[v].batch /\ outbox'[r] = outbox[r]
        BY <1>b, <2>2, <2>4, <2>7, <3>2
      <4> QED BY <2>3, <2>7, <4>1 DEF LeaseInv
    <3>3. CASE v # w /\ r \in worker[w].batch
      <4>1. worker'[v] = worker[v] /\ r \in worker[v].batch /\ r \in history /\ worker[v].pc = "working"
        BY <1>b, <2>2, <2>7, <3>3
      <4>2. \/ outbox[r].token = worker[v].token /\ outbox[r].expiresAt = worker[v].expiresAt
            \/ worker[v].expiresAt <= clock[v] + MaxSkew
        BY <4>1 DEF LeaseInv
      <4>3. CASE outbox[r].token = worker[v].token /\ outbox[r].expiresAt = worker[v].expiresAt
        <5>1. outbox[r].status # "pending"
          BY <4>1, <4>3 DEF LeaseInv
        <5>2. outbox[r].expiresAt <= worker[w].at
          BY <2>3, <3>3, <5>1 DEF LockedInv, Claimable
        <5>3. worker[w].at <= clock[w] /\ clock[w] <= clock[v] + MaxSkew
          BY <2>3 DEF ClockInv
        <5>4. worker[v].expiresAt <= clock[v] + MaxSkew
          BY <1>0, <1>b, <4>3, <5>2, <5>3
        <5> QED BY <2>3, <4>1, <5>4
      <4>4. CASE worker[v].expiresAt <= clock[v] + MaxSkew
        BY <2>3, <4>1, <4>4
      <4> QED BY <4>2, <4>3, <4>4
    <3> QED BY <3>1, <3>2, <3>3
  <2> QED BY <2>5, <2>6, <2>7 DEF LeaseInv
<1>5. ASSUME NEW w \in Workers, NEW r \in history, DeliverMessage(w, r) PROVE LeaseInv'
  <2>1. /\ worker[w].pc = "working" /\ worker'[w].batch = worker[w].batch
        /\ worker'[w].token = worker[w].token /\ worker'[w].expiresAt = worker[w].expiresAt
        /\ \A v \in Workers \ {w} : worker'[v] = worker[v]
        /\ UNCHANGED <<outbox, clock, history>>
    BY <1>0, <1>5 DEF DeliverMessage, WorkerType
  <2> QED BY <2>1, <1>a, <1>c
<1>6. ASSUME NEW r \in history, NEW t, outbox' = Published(r, t)
      PROVE  \A q \in history : /\ outbox'[q].token = outbox[q].token /\ outbox'[q].expiresAt = outbox[q].expiresAt
                                /\ outbox'[q].status \in {outbox[q].status, "published"}
  BY <1>0, <1>6, PublishedRow
<1>7. ASSUME NEW w \in Workers, NEW r \in history, PublishMessage(w, r) PROVE LeaseInv'
  <2>1. /\ worker[w].pc = "working" /\ Drop(w, r) /\ outbox' = Published(r, worker[w].token)
        /\ UNCHANGED <<clock, history>>
    BY <1>7 DEF PublishMessage
  <2>2. PICK u \in WorkerType(history) :
            /\ WorkerBecomes(w, u) /\ u.pc \in {"idle", worker[w].pc} /\ u.batch \subseteq worker[w].batch
            /\ u.pc # "idle" => u.token = worker[w].token /\ u.expiresAt = worker[w].expiresAt
    BY <2>1, DropMove
  <2>3. \A v \in Workers : worker'[v] = IF v = w THEN u ELSE worker[v]
    BY <1>0, <2>2 DEF WorkerBecomes
  <2>4. \A q \in history : /\ outbox'[q].token = outbox[q].token /\ outbox'[q].expiresAt = outbox[q].expiresAt
                           /\ outbox'[q].status \in {outbox[q].status, "published"}
    BY <1>6, <2>1
  <2> QED BY <1>a, <1>c, <2>1, <2>2, <2>3, <2>4
<1>8. ASSUME NEW w \in Workers, NEW r \in history, PublishUnanswered(w, r) PROVE LeaseInv'
  <2>1. outbox' = Published(r, worker[w].token) /\ UNCHANGED <<worker, clock, history>>
    BY <1>8 DEF PublishUnanswered
  <2>2. \A q \in history : /\ outbox'[q].token = outbox[q].token /\ outbox'[q].expiresAt = outbox[q].expiresAt
                           /\ outbox'[q].status \in {outbox[q].status, "published"}
    BY <1>6, <2>1
  <2> QED BY <1>a, <1>c, <2>1, <2>2
<1>9. ASSUME NEW w \in Workers, CrashWorker(w) PROVE LeaseInv'
  BY <1>0, <1>9, <1>a, <1>c, InitialTypes DEF CrashWorker
<1>10. ASSUME NEW w \in Workers, Tick(w) PROVE LeaseInv'
  <2>1. \A v \in Workers : clock'[v] \in Nat /\ clock'[v] >= clock[v]
    BY <1>0, <1>10 DEF Tick
  <2> QED BY <1>10, <1>a, <2>1 DEF Tick
<1>11. CASE UNCHANGED vars
  BY <1>11, <1>a, <1>c DEF vars
<1> QED
  BY <1>1, <1>2, <1>3, <1>4, <1>5, <1>7, <1>8, <1>9, <1>10, <1>11
  DEF Next, ClaimStep, DeliveryStep

\* The claim invariants hold in every reachable state.
LEMMA OutboxClaimInv == Spec => [](TypeOK /\ AppendInv /\ ClockInv /\ LockedInv /\ LeaseInv)
<1>1. Init => ClockInv /\ LockedInv /\ LeaseInv
  <2> SUFFICES ASSUME Init PROVE ClockInv /\ LockedInv /\ LeaseInv
    OBVIOUS
  <2>1. \A w \in Workers : worker[w].pc = "idle" /\ clock[w] = 0
    BY InitialTypes DEF Init
  <2> QED BY <2>1, OutboxAssumption DEF Init, ClockInv, LockedInv, LeaseInv
<1>2. (TypeOK /\ AppendInv) /\ ClockInv /\ LockedInv /\ LeaseInv /\ [Next]_vars
      => (ClockInv /\ LockedInv /\ LeaseInv)'
  BY ClockInvStep, LockedInvStep, LeaseInvStep
<1> QED BY <1>1, <1>2, OutboxAppendInv, PTL DEF Spec

\* A worker that gives up its batch MaxSkew before its lease ends is alone with it,
\* for every lease and every bound on the clock skew.
THEOREM OutboxLeaseProtects == Spec => []LeaseProtects
<1>1. TypeOK /\ LeaseInv => LeaseProtects
  <2> SUFFICES ASSUME TypeOK, LeaseInv, NEW w \in Workers, NEW r \in worker[w].batch,
                      worker[w].pc = "working", clock[w] + MaxSkew < worker[w].expiresAt
               PROVE  outbox[r].token = worker[w].token
    BY DEF LeaseProtects
  <2>1. clock[w] \in Nat /\ worker[w].expiresAt \in Nat
    BY Types DEF WorkerType
  <2> QED BY <2>1, OutboxAssumption DEF LeaseInv
<1> QED BY <1>1, OutboxClaimInv, PTL

-----------------------------------------------------------------------------
\* Workers that have claimed message r and not delivered it yet.
Unsent(r) == {w \in Workers : worker[w].pc = "working" /\ r \in worker[w].batch \ worker[w].sent}

\* Every claim is one attempt and allows one delivery.
DeliveryInv ==
    /\ \A w \in Workers : \A r \in worker[w].sent : deliveries[r] >= 1
    /\ \A r \in history : outbox[r].status = "published" => deliveries[r] >= 1
    /\ \A r \in history : deliveries[r] + Cardinality(Unsent(r)) <= outbox[r].attempts

\* There are finitely many workers.
LEMMA UnsentFinite ==
    ASSUME NEW r
    PROVE  /\ IsFiniteSet(Unsent(r)) /\ Cardinality(Unsent(r)) \in Nat
           /\ IsFiniteSet(Unsent(r)') /\ Cardinality(Unsent(r)') \in Nat
<1>1. Unsent(r) \in SUBSET Workers /\ Unsent(r)' \in SUBSET Workers
  BY DEF Unsent
<1> QED BY <1>1, OutboxAssumption, FS_Subset, FS_CardinalityType

\* Fewer workers with r undelivered are fewer.
LEMMA UnsentShrinks ==
    ASSUME NEW r, Unsent(r)' \subseteq Unsent(r)
    PROVE  Cardinality(Unsent(r)') <= Cardinality(Unsent(r))
  BY UnsentFinite, FS_Subset

\* Every step keeps the delivery invariant.
LEMMA DeliveryInvStep ==
    ASSUME TypeOK, AppendInv, LockedInv, DeliveryInv, [Next]_vars
    PROVE  DeliveryInv'
<1> USE OutboxAssumption
<1>0. /\ outbox \in [history -> Message]
      /\ deliveries \in [history -> Nat]
      /\ worker \in [Workers -> WorkerType(history)]
  BY Types
<1>b. /\ \A w \in Workers : worker[w].batch \subseteq history /\ worker[w].sent \subseteq history
      /\ \A r \in history : outbox[r].attempts \in Nat
  BY <1>0 DEF WorkerType, Message
\* A step that delivers nothing and adds no worker to Unsent.
<1>a. ASSUME history' = history, deliveries' = deliveries,
             \A w \in Workers : worker'[w].sent \subseteq worker[w].sent,
             \A r \in history : Unsent(r)' \subseteq Unsent(r),
             \A r \in history : outbox'[r].attempts = outbox[r].attempts,
             \A r \in history : outbox'[r].status = "published" => deliveries[r] >= 1
      PROVE  DeliveryInv'
  <2>1. ASSUME NEW r \in history PROVE deliveries[r] + Cardinality(Unsent(r)') <= outbox'[r].attempts
    <3>1. Cardinality(Unsent(r)') <= Cardinality(Unsent(r)) /\ Cardinality(Unsent(r)') \in Nat
          /\ Cardinality(Unsent(r)) \in Nat
      BY <1>a, UnsentShrinks, UnsentFinite
    <3>2. deliveries[r] + Cardinality(Unsent(r)) <= outbox[r].attempts
      BY DEF DeliveryInv
    <3> QED BY <1>0, <1>b, <1>a, <3>1, <3>2
  <2> QED BY <1>a, <2>1 DEF DeliveryInv
<1>c. \A r \in history : outbox[r].status = "published" => deliveries[r] >= 1
  BY DEF DeliveryInv
<1>1. ASSUME NEW x \in Writers,
             (\E s \in Sources : BeginAppend(x, s)) \/ AppendStep(x) \/ FailAppend(x)
      PROVE  DeliveryInv'
  <2>1. /\ worker' = worker /\ history \subseteq history'
        /\ \A r \in history : outbox'[r] = outbox[r] /\ deliveries'[r] = deliveries[r]
        /\ \A r \in history' \ history : outbox'[r] = NewMessage /\ deliveries'[r] = 0
    BY <1>1, AppendFrame
  <2>2. \A r : Unsent(r)' = Unsent(r)
    BY <2>1 DEF Unsent
  <2>3. \A w \in Workers : \A r \in worker'[w].sent : deliveries'[r] >= 1
    BY <1>b, <2>1 DEF DeliveryInv
  <2>4. \A r \in history' : outbox'[r].status = "published" => deliveries'[r] >= 1
    BY <2>1, InitialTypes DEF DeliveryInv
  <2>5. ASSUME NEW r \in history' PROVE deliveries'[r] + Cardinality(Unsent(r)') <= outbox'[r].attempts
    <3>1. CASE r \in history
      BY <2>1, <2>2, <3>1 DEF DeliveryInv
    <3>2. CASE r \notin history
      <4>1. Unsent(r) = {}
        BY <1>b, <3>2 DEF Unsent
      <4>2. Cardinality(Unsent(r)') = 0
        BY <2>2, <4>1, FS_EmptySet
      <4> QED BY <2>1, <3>2, <4>2, InitialTypes
    <3> QED BY <3>1, <3>2
  <2> QED BY <2>3, <2>4, <2>5 DEF DeliveryInv
<1>2. ASSUME NEW w \in Workers, BeginClaim(w) PROVE DeliveryInv'
  <2>1. /\ worker'[w].pc = "claiming" /\ worker'[w].sent = worker[w].sent
        /\ \A v \in Workers \ {w} : worker'[v] = worker[v]
        /\ UNCHANGED <<outbox, deliveries, history>>
    BY <1>0, <1>2 DEF BeginClaim, WorkerType
  <2> QED BY <1>a, <1>c, <2>1 DEF Unsent
<1>3. ASSUME NEW w \in Workers, LockCandidates(w) PROVE DeliveryInv'
  <2>1. /\ worker'[w].pc \in {"idle", "locked"} /\ worker'[w].sent \subseteq worker[w].sent
        /\ \A v \in Workers \ {w} : worker'[v] = worker[v]
        /\ UNCHANGED <<outbox, deliveries, history>>
    BY <1>0, <1>3, InitialTypes DEF LockCandidates, WorkerType
  <2> QED BY <1>a, <1>c, <2>1 DEF Unsent
<1>4. ASSUME NEW w \in Workers, CommitClaim(w) PROVE DeliveryInv'
  <2>1. PICK u \in WorkerType(history) :
            /\ WorkerBecomes(w, u) /\ u.batch = worker[w].batch /\ u.sent = worker[w].sent
    BY <1>4, CommitMove
  <2>2. \A v \in Workers : worker'[v] = IF v = w THEN u ELSE worker[v]
    BY <1>0, <2>1 DEF WorkerBecomes
  <2>3. worker[w].pc = "locked" /\ UNCHANGED <<deliveries, history>>
    BY <1>4 DEF CommitClaim
  <2>4. \A r \in history :
           /\ r \notin worker[w].batch => outbox'[r] = outbox[r]
           /\ r \in worker[w].batch => /\ outbox'[r].status = "claimed"
                                       /\ outbox'[r].attempts = outbox[r].attempts + 1
    BY <1>4, ClaimedRows
  <2>5. ASSUME NEW r \in history PROVE deliveries'[r] + Cardinality(Unsent(r)') <= outbox'[r].attempts
    <3>0. deliveries[r] + Cardinality(Unsent(r)) <= outbox[r].attempts
      BY DEF DeliveryInv
    <3>1. /\ Cardinality(Unsent(r)) \in Nat /\ Cardinality(Unsent(r)') \in Nat
          /\ IsFiniteSet(Unsent(r))
      BY UnsentFinite
    <3>2. CASE r \in worker[w].batch
      <4>1. Unsent(r)' \in SUBSET (Unsent(r) \cup {w})
        BY <2>2 DEF Unsent
      <4>2. IsFiniteSet(Unsent(r) \cup {w}) /\ Cardinality(Unsent(r) \cup {w}) <= Cardinality(Unsent(r)) + 1
        <5> DEFINE U == Unsent(r)
        <5>1. IsFiniteSet(U) /\ Cardinality(U) \in Nat
          BY <3>1
        <5> HIDE DEF U
        <5>2. /\ IsFiniteSet(U \cup {w})
              /\ Cardinality(U \cup {w}) = IF w \in U THEN Cardinality(U) ELSE Cardinality(U) + 1
          BY <5>1, FS_AddElement, Zenon
        <5>3. Cardinality(U \cup {w}) <= Cardinality(U) + 1
          BY <5>1, <5>2
        <5> QED BY <5>2, <5>3 DEF U
      <4>3. Cardinality(Unsent(r)') <= Cardinality(Unsent(r) \cup {w}) /\ Cardinality(Unsent(r) \cup {w}) \in Nat
        BY <4>1, <4>2, FS_Subset, FS_CardinalityType
      <4>4. Cardinality(Unsent(r)') <= Cardinality(Unsent(r)) + 1
        BY <3>1, <4>2, <4>3
      <4> QED BY <1>0, <1>b, <2>3, <2>4, <3>0, <3>1, <3>2, <4>4
    <3>3. CASE r \notin worker[w].batch
      <4>1. Unsent(r)' \subseteq Unsent(r)
        BY <2>1, <2>2, <3>3 DEF Unsent
      <4>2. Cardinality(Unsent(r)') <= Cardinality(Unsent(r))
        BY <4>1, UnsentShrinks
      <4> QED BY <1>0, <1>b, <2>3, <2>4, <3>0, <3>1, <3>3, <4>2
    <3> QED BY <3>2, <3>3
  <2>6. \A v \in Workers : \A r \in worker'[v].sent : deliveries'[r] >= 1
    BY <2>1, <2>2, <2>3 DEF DeliveryInv
  <2>7. \A r \in history' : outbox'[r].status = "published" => deliveries'[r] >= 1
    BY <2>3, <2>4 DEF DeliveryInv
  <2> QED BY <2>3, <2>5, <2>6, <2>7 DEF DeliveryInv
<1>5. ASSUME NEW w \in Workers, NEW r \in history, DeliverMessage(w, r) PROVE DeliveryInv'
  <2>1. /\ worker[w].pc = "working" /\ r \in worker[w].batch /\ r \notin worker[w].sent
        /\ worker'[w].pc = "working" /\ worker'[w].batch = worker[w].batch
        /\ worker'[w].sent = worker[w].sent \cup {r}
        /\ \A v \in Workers \ {w} : worker'[v] = worker[v]
        /\ UNCHANGED <<outbox, history>>
    BY <1>0, <1>5 DEF DeliverMessage, WorkerType
  <2>2. \A q \in history : deliveries'[q] = IF q = r THEN deliveries[q] + 1 ELSE deliveries[q]
    BY <1>0, <1>5 DEF DeliverMessage
  <2>3. \A v \in Workers : \A q \in worker'[v].sent : deliveries'[q] >= 1
    <3>1. \A q \in history : deliveries[q] >= 1 => deliveries'[q] >= 1
      BY <1>0, <2>2
    <3>2. deliveries'[r] >= 1
      BY <1>0, <2>2
    <3> QED BY <1>b, <2>1, <3>1, <3>2 DEF DeliveryInv
  <2>4. \A q \in history' : outbox'[q].status = "published" => deliveries'[q] >= 1
    BY <1>0, <1>c, <2>1, <2>2
  <2>5. ASSUME NEW q \in history PROVE deliveries'[q] + Cardinality(Unsent(q)') <= outbox'[q].attempts
    <3>0. deliveries[q] + Cardinality(Unsent(q)) <= outbox[q].attempts
      BY DEF DeliveryInv
    <3>1. /\ Cardinality(Unsent(q)) \in Nat /\ Cardinality(Unsent(q)') \in Nat
          /\ IsFiniteSet(Unsent(q))
      BY UnsentFinite
    <3>2. CASE q = r
      <4>1. w \in Unsent(q) /\ Unsent(q)' = Unsent(q) \ {w}
        BY <2>1, <3>2 DEF Unsent
      <4>2. Cardinality(Unsent(q)') = Cardinality(Unsent(q)) - 1
        BY <3>1, <4>1, FS_RemoveElement
      <4> QED BY <1>0, <1>b, <2>1, <2>2, <3>0, <3>1, <3>2, <4>2
    <3>3. CASE q # r
      <4>1. Unsent(q)' = Unsent(q)
        BY <2>1, <3>3 DEF Unsent
      <4> QED BY <2>1, <2>2, <3>0, <3>3, <4>1
    <3> QED BY <3>2, <3>3
  <2> QED BY <2>1, <2>3, <2>4, <2>5 DEF DeliveryInv
<1>6. ASSUME NEW w \in Workers, NEW r \in history, r \in worker[w].sent, outbox' = Published(r, worker[w].token)
      PROVE  \A q \in history : /\ outbox'[q].attempts = outbox[q].attempts
                                /\ outbox'[q].status = "published" => deliveries[q] >= 1
  <2>1. deliveries[r] >= 1
    BY <1>6 DEF DeliveryInv
  <2> QED BY <1>0, <1>6, <1>c, <2>1, PublishedRow
<1>7. ASSUME NEW w \in Workers, NEW r \in history, PublishMessage(w, r) PROVE DeliveryInv'
  <2>1. /\ worker[w].pc = "working" /\ Drop(w, r) /\ outbox' = Published(r, worker[w].token)
        /\ r \in worker[w].sent /\ UNCHANGED <<deliveries, history>>
    BY <1>7 DEF PublishMessage
  <2>2. PICK u \in WorkerType(history) :
            /\ WorkerBecomes(w, u) /\ u.pc \in {"idle", worker[w].pc}
            /\ u.sent \subseteq worker[w].sent
            /\ u.batch \ u.sent \subseteq worker[w].batch \ worker[w].sent
    BY <2>1, DropMove
  <2>3. \A v \in Workers : worker'[v] = IF v = w THEN u ELSE worker[v]
    BY <1>0, <2>2 DEF WorkerBecomes
  <2>4. \A q \in history : Unsent(q)' \subseteq Unsent(q)
    BY <2>1, <2>2, <2>3 DEF Unsent
  <2>5. \A q \in history : /\ outbox'[q].attempts = outbox[q].attempts
                           /\ outbox'[q].status = "published" => deliveries[q] >= 1
    BY <1>6, <2>1
  <2> QED BY <1>a, <2>1, <2>2, <2>3, <2>4, <2>5
<1>8. ASSUME NEW w \in Workers, NEW r \in history, PublishUnanswered(w, r) PROVE DeliveryInv'
  <2>1. /\ outbox' = Published(r, worker[w].token) /\ r \in worker[w].sent
        /\ UNCHANGED <<worker, deliveries, history>>
    BY <1>8 DEF PublishUnanswered
  <2>2. \A q \in history : /\ outbox'[q].attempts = outbox[q].attempts
                           /\ outbox'[q].status = "published" => deliveries[q] >= 1
    BY <1>6, <2>1
  <2> QED BY <1>a, <2>1, <2>2 DEF Unsent
<1>9. ASSUME NEW w \in Workers, CrashWorker(w) PROVE DeliveryInv'
  <2>1. /\ \A v \in Workers : worker'[v] = IF v = w THEN IdleWorker ELSE worker[v]
        /\ UNCHANGED <<outbox, deliveries, history>>
    BY <1>0, <1>9 DEF CrashWorker
  <2> QED BY <1>a, <1>c, <2>1, InitialTypes DEF Unsent
<1>10. ASSUME UNCHANGED <<worker, outbox, deliveries, history>> PROVE DeliveryInv'
  BY <1>a, <1>c, <1>10 DEF Unsent
<1>11. CASE \E w \in Workers : Tick(w)
  BY <1>10, <1>11 DEF Tick
<1>12. CASE UNCHANGED vars
  BY <1>10, <1>12 DEF vars
<1> QED
  BY <1>1, <1>2, <1>3, <1>4, <1>5, <1>7, <1>8, <1>9, <1>11, <1>12
  DEF Next, ClaimStep, DeliveryStep

\* All invariants of the outbox together.
LEMMA OutboxInv == Spec => [](TypeOK /\ AppendInv /\ LockedInv /\ DeliveryInv)
<1>1. Init => DeliveryInv
  <2> SUFFICES ASSUME Init PROVE DeliveryInv
    OBVIOUS
  <2>1. \A w \in Workers : worker[w].sent = {}
    BY InitialTypes DEF Init
  <2> QED BY <2>1 DEF Init, DeliveryInv
<1>2. (TypeOK /\ AppendInv /\ ClockInv /\ LockedInv /\ LeaseInv) /\ DeliveryInv /\ [Next]_vars => DeliveryInv'
  BY DeliveryInvStep
<1> QED BY <1>1, <1>2, OutboxClaimInv, PTL DEF Spec

\* The attempt count bounds the deliveries of a message, and a published message was
\* delivered.
THEOREM OutboxDeliveriesCounted == Spec => []DeliveriesCounted
<1>1. TypeOK /\ DeliveryInv => DeliveriesCounted
  <2> SUFFICES ASSUME TypeOK, DeliveryInv, NEW r \in history
               PROVE  /\ deliveries[r] <= outbox[r].attempts
                      /\ outbox[r].status = "published" => deliveries[r] >= 1
    BY DEF DeliveriesCounted
  <2>1. deliveries[r] \in Nat /\ outbox[r].attempts \in Nat /\ Cardinality(Unsent(r)) \in Nat
    BY Types, UnsentFinite DEF Message
  <2> QED BY <2>1 DEF DeliveryInv
<1> QED BY <1>1, OutboxInv, PTL

-----------------------------------------------------------------------------
\* The abstract queue's sets, as sets of rows.
Delivered == {r \in history : deliveries[r] > 0}
Done == {r \in history : outbox[r].status = "published"}

\* Every step of the outbox is a step of the queue or invisible to it: an insert
\* accepts, a delivery delivers, a publication acknowledges.
LEMMA QueueStep ==
    ASSUME TypeOK, AppendInv, LockedInv, DeliveryInv, [Next]_vars
    PROVE  [Queue!DNext]_(Queue!dvars)
<1> USE DEF Delivered, Done
<1>0. /\ history \subseteq Rows
      /\ outbox \in [history -> Message]
      /\ deliveries \in [history -> Nat]
      /\ worker \in [Workers -> WorkerType(history)]
  BY Types
<1>b. \A w \in Workers : worker[w].batch \subseteq history /\ worker[w].sent \subseteq history
  BY <1>0 DEF WorkerType
<1>a. ASSUME history' = history, Delivered' = Delivered, Done' = Done
      PROVE  [Queue!DNext]_(Queue!dvars)
  BY <1>a DEF Queue!dvars, SourcesOf
<1>1. ASSUME NEW x \in Writers,
             (\E s \in Sources : BeginAppend(x, s)) \/ AppendStep(x) \/ FailAppend(x)
      PROVE  [Queue!DNext]_(Queue!dvars)
  <2>1. CASE InsertRecord(x)
    <3> DEFINE row == writer[x].row
    <3>1. /\ row \in Rows /\ row \notin history /\ history' = history \cup {row}
          /\ outbox' = [r \in history \cup {row} |-> IF r = row THEN NewMessage ELSE outbox[r]]
          /\ deliveries' = [r \in history \cup {row} |-> IF r = row THEN 0 ELSE deliveries[r]]
      BY <2>1, InsertExtends
    <3> HIDE DEF row
    <3>2. Delivered' = Delivered /\ Done' = Done
      BY <3>1, InitialTypes
    <3>3. row.source \in Sources /\ SourcesOf(history)' = SourcesOf(history) \cup {row.source}
      BY <3>1 DEF SourcesOf, Rows
    <3>4. SourcesOf(Delivered)' = SourcesOf(Delivered) /\ SourcesOf(Done)' = SourcesOf(Done)
      BY <3>2 DEF SourcesOf
    <3>5. Queue!Accept(row.source)
      BY <3>3, <3>4 DEF Queue!Accept
    <3> QED BY <3>3, <3>5 DEF Queue!DNext
  <2>2. CASE ~ InsertRecord(x)
    <3>1. UNCHANGED <<history, outbox, deliveries>>
      BY <1>1, <2>2 DEF BeginAppend, AppendStep, AcquireScopeLock, ExamineSource, FailAppend
    <3> QED BY <1>a, <3>1
  <2> QED BY <2>1, <2>2
<1>2. ASSUME NEW w \in Workers, BeginClaim(w) \/ LockCandidates(w) \/ CrashWorker(w) \/ Tick(w)
      PROVE  [Queue!DNext]_(Queue!dvars)
  <2>1. UNCHANGED <<history, outbox, deliveries>>
    BY <1>2 DEF BeginClaim, LockCandidates, CrashWorker, Tick
  <2> QED BY <1>a, <2>1
<1>3. ASSUME NEW w \in Workers, CommitClaim(w) PROVE [Queue!DNext]_(Queue!dvars)
  <2>1. worker[w].pc = "locked" /\ UNCHANGED <<history, deliveries>>
    BY <1>3 DEF CommitClaim
  <2>2. \A r \in history :
           /\ r \notin worker[w].batch => outbox'[r] = outbox[r]
           /\ r \in worker[w].batch => outbox'[r].status = "claimed"
    BY <1>3, ClaimedRows
  <2>3. \A r \in worker[w].batch : outbox[r].status # "published"
    BY <2>1 DEF LockedInv, Claimable
  <2> QED BY <1>a, <2>1, <2>2, <2>3
<1>4. ASSUME NEW w \in Workers, NEW r \in history, DeliverMessage(w, r) PROVE [Queue!DNext]_(Queue!dvars)
  <2>1. UNCHANGED <<history, outbox>> /\ deliveries' = [deliveries EXCEPT ![r] = @ + 1]
    BY <1>4 DEF DeliverMessage
  <2>2. Delivered' = Delivered \cup {r} /\ Done' = Done
    <3>1. \A q \in history : deliveries'[q] = IF q = r THEN deliveries[q] + 1 ELSE deliveries[q]
      BY <1>0, <2>1
    <3>2. \A q \in history : deliveries'[q] > 0 <=> (q = r \/ deliveries[q] > 0)
      BY <1>0, <3>1
    <3> QED BY <2>1, <3>2
  <2>3. SourcesOf(Delivered)' = SourcesOf(Delivered) \cup {r.source}
    BY <2>2 DEF SourcesOf
  <2>4. r.source \in Sources /\ r.source \in SourcesOf(history)
    BY <1>0 DEF SourcesOf, Rows
  <2>5. SourcesOf(history)' = SourcesOf(history) /\ SourcesOf(Done)' = SourcesOf(Done)
    BY <2>1, <2>2 DEF SourcesOf
  <2>6. Queue!Deliver(r.source)
    BY <2>3, <2>4, <2>5 DEF Queue!Deliver
  <2> QED BY <2>4, <2>6 DEF Queue!DNext
<1>5. ASSUME NEW w \in Workers, NEW r \in history, PublishMessage(w, r) \/ PublishUnanswered(w, r)
      PROVE  [Queue!DNext]_(Queue!dvars)
  <2>1. /\ outbox' = Published(r, worker[w].token) /\ r \in worker[w].sent
        /\ UNCHANGED <<history, deliveries>>
    BY <1>5 DEF PublishMessage, PublishUnanswered
  <2>2. CASE ~ Publishable(r, worker[w].token)
    BY <1>a, <2>1, <2>2 DEF Published
  <2>3. CASE Publishable(r, worker[w].token)
    <3>1. \A q \in history : outbox'[q].status = IF q = r THEN "published" ELSE outbox[q].status
      BY <1>0, <2>1, <2>3 DEF Published, Message
    <3>2. Done' = Done \cup {r} /\ Delivered' = Delivered
      BY <2>1, <3>1
    <3>3. r \in Delivered
      BY <1>0, <2>1 DEF DeliveryInv
    <3>4. r.source \in Sources /\ r.source \in SourcesOf(Delivered)
      BY <1>0, <3>3 DEF SourcesOf, Rows
    <3>5. /\ SourcesOf(Done)' = SourcesOf(Done) \cup {r.source}
          /\ SourcesOf(history)' = SourcesOf(history) /\ SourcesOf(Delivered)' = SourcesOf(Delivered)
      BY <2>1, <3>2 DEF SourcesOf
    <3>6. Queue!Acknowledge(r.source)
      BY <3>4, <3>5 DEF Queue!Acknowledge
    <3> QED BY <3>4, <3>6 DEF Queue!DNext
  <2> QED BY <2>2, <2>3
<1>6. CASE UNCHANGED vars
  BY <1>a, <1>6 DEF vars
<1> QED
  BY <1>1, <1>2, <1>3, <1>4, <1>5, <1>6 DEF Next, ClaimStep, DeliveryStep

\* The outbox implements at-least-once delivery: whatever is published was delivered,
\* and nothing accepted, delivered or published is ever taken back.
THEOREM OutboxImplementsDeliveryQueue == Spec => ImplementsDeliveryQueue
<1>1. Init => Queue!DInit
  BY DEF Init, Queue!DInit, SourcesOf
<1>2. TypeOK /\ AppendInv /\ LockedInv /\ DeliveryInv /\ [Next]_vars => [Queue!DNext]_(Queue!dvars)
  BY QueueStep
<1> QED BY <1>1, <1>2, OutboxInv, PTL DEF Spec, ImplementsDeliveryQueue, Queue!DSpec
=============================================================================
