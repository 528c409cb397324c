------------------------ MODULE SharedHistoryOutbox ------------------------
(***************************************************************************)
(* The shared source history and its outbox                                *)
(* (service/consequence-shared-history-outbox-store.ts) for one tenant     *)
(* scope: every statement is filtered by the scope and the advisory lock   *)
(* is the scope's, so scopes share nothing.  Appends of several nodes run  *)
(* as READ COMMITTED transactions under the lock; delivery workers claim   *)
(* batches of messages with FOR UPDATE SKIP LOCKED for a lease measured on *)
(* their own clocks, deliver them, and mark them published by claim token. *)
(* A worker may crash anywhere, and the answer to a publication may get    *)
(* lost.                                                                   *)
(***************************************************************************)
EXTENDS Integers, FiniteSets

CONSTANTS
    Writers,        \* sessions that append
    Workers,        \* delivery workers
    Sources,        \* (source kind, source key) of a record
    NoWriter,       \* the lock is free
    Lease,          \* leaseSeconds
    Limit,          \* batch size of a claim
    MaxSkew,        \* how far the workers' clocks drift apart
    MaxTime,        \* bound on the clocks
    MaxBegins,      \* bound on the append transactions
    MaxCrashes      \* bound on worker crashes

ASSUME OutboxAssumption ==
    /\ NoWriter \notin Writers
    /\ IsFiniteSet(Workers)
    /\ Lease \in Nat \ {0}
    /\ Limit \in Nat \ {0}
    /\ MaxSkew \in Nat
    /\ MaxTime \in Nat
    /\ MaxBegins \in Nat
    /\ MaxCrashes \in Nat

VARIABLES
    history,        \* committed history rows
    outbox,         \* outbox[r]: the outbox row of history row r
    lockHolder,     \* holder of the scope's advisory lock
    writer,         \* writer[x]: the append transaction of session x
    begins,         \* append transactions begun; orders created_at
    clock,          \* clock[w]: the wall clock worker w reads
    worker,         \* worker[w]: what worker w is doing
    deliveries,     \* deliveries[r]: how often r was handed to the event bus
    claims,         \* claim tokens generated
    crashes         \* worker crashes so far

vars == <<history, outbox, lockHolder, writer, begins, clock, worker, deliveries, claims, crashes>>

\* A history row, without its digests; created is the outbox row's created_at, PostgreSQL's NOW() of the
\* transaction's begin, which need not follow the order of the sequence numbers.
Rows == [source : Sources, sequence : Nat, created : Nat]

NewMessage == [status |-> "pending", token |-> 0, expiresAt |-> 0, attempts |-> 0]

IdleWriter == [pc |-> "idle"]
IdleWorker == [pc |-> "idle", at |-> 0, token |-> 0, expiresAt |-> 0, batch |-> {}, sent |-> {}]

Init ==
    /\ history = {}
    /\ outbox = <<>>
    /\ lockHolder = NoWriter
    /\ writer = [x \in Writers |-> IdleWriter]
    /\ begins = 0
    /\ clock = [w \in Workers |-> 0]
    /\ worker = [w \in Workers |-> IdleWorker]
    /\ deliveries = <<>>
    /\ claims = 0
    /\ crashes = 0

-----------------------------------------------------------------------------
\* appendSharedConsequenceHistory

Sequences == {r.sequence : r \in history}

\* Mutant: a sequence generator, which transactions that insert nothing use up too.
NextSequence_Serial(t) == t.created

\* COALESCE(MAX(sequence), 0) + 1
NextSequence(t) ==
    IF Sequences = {} THEN 1
    ELSE 1 + CHOOSE m \in Sequences : \A k \in Sequences : k <= m

Recorded(s) == \E r \in history : r.source = s

\* The transaction begins and asks for the lock.
BeginAppend(x, s) ==
    /\ writer[x] = IdleWriter
    /\ begins < MaxBegins
    /\ begins' = begins + 1
    /\ writer' = [writer EXCEPT ![x] =
          [pc |-> "lock", row |-> [source |-> s, sequence |-> 0, created |-> begins + 1]]]
    /\ UNCHANGED <<history, outbox, lockHolder, clock, worker, deliveries, claims, crashes>>

\* Mutant: appends do not exclude one another.
LockFree_Always(x) == TRUE

\* pg_advisory_xact_lock waits for the holder's transaction to end.
LockFree(x) == lockHolder = NoWriter

AcquireScopeLock(x) ==
    /\ writer[x].pc = "lock"
    /\ LockFree(x)
    /\ lockHolder' = x
    /\ writer' = [writer EXCEPT ![x].pc = "examine"]
    /\ UNCHANGED <<history, outbox, begins, clock, worker, deliveries, claims, crashes>>

EndAppend(x) ==
    /\ lockHolder' = IF lockHolder = x THEN NoWriter ELSE lockHolder
    /\ writer' = [writer EXCEPT ![x] = IdleWriter]

\* A known source is answered duplicate, or source-conflict when its digests differ,
\* and nothing is written;
\* otherwise the next sequence number is read.
ExamineSource(x) ==
    LET t == writer[x] IN
    /\ t.pc = "examine"
    /\ IF Recorded(t.row.source)
         THEN EndAppend(x)
         ELSE /\ writer' = [writer EXCEPT ![x].pc = "insert",
                                          ![x].row.sequence = NextSequence(t.row)]
              /\ UNCHANGED lockHolder
    /\ UNCHANGED <<history, outbox, begins, clock, worker, deliveries, claims, crashes>>

\* The unique indexes on (scope, source) and (scope, sequence).
Unique(row) == ~ Recorded(row.source) /\ row.sequence \notin Sequences

\* Both rows are inserted and committed together, or an index refuses the insert
\* and the transaction rolls back.
InsertRecord(x) ==
    LET row == writer[x].row IN
    /\ writer[x].pc = "insert"
    /\ IF Unique(row)
         THEN /\ history' = history \cup {row}
              /\ outbox' = [r \in history \cup {row} |-> IF r = row THEN NewMessage ELSE outbox[r]]
              /\ deliveries' = [r \in history \cup {row} |-> IF r = row THEN 0 ELSE deliveries[r]]
         ELSE UNCHANGED <<history, outbox, deliveries>>
    /\ EndAppend(x)
    /\ UNCHANGED <<begins, clock, worker, claims, crashes>>

\* The session fails: PostgreSQL rolls the transaction back.
FailAppend(x) ==
    /\ writer[x].pc \in {"lock", "examine", "insert"}
    /\ EndAppend(x)
    /\ UNCHANGED <<history, outbox, begins, clock, worker, deliveries, claims, crashes>>

-----------------------------------------------------------------------------
\* claimSharedConsequenceOutboxMessages

\* The worker reads its clock before it talks to the database.
BeginClaim(w) ==
    /\ worker[w].pc = "idle"
    /\ worker' = [worker EXCEPT ![w].pc = "claiming", ![w].at = clock[w]]
    /\ UNCHANGED <<history, outbox, lockHolder, writer, begins, clock, deliveries, claims, crashes>>

RowLocked(r) == \E w \in Workers : worker[w].pc = "locked" /\ r \in worker[w].batch

\* Mutant: a claimed message may be claimed again, expired or not.
Claimable_Always(r, at) == outbox[r].status # "published"

\* Mutant: only the lease decides.
Claimable_IgnoresStatus(r, at) == outbox[r].expiresAt <= at

\* Mutant: what a crashed worker had claimed stays claimed.
Claimable_PendingOnly(r, at) == outbox[r].status = "pending"

\* The WHERE clause; nothing ever sets the status `failed` it also names.
Claimable(r, at) ==
    \/ outbox[r].status = "pending"
    \/ outbox[r].status = "claimed" /\ outbox[r].expiresAt <= at

Candidates(at) == {r \in history : Claimable(r, at) /\ ~ RowLocked(r)}

\* ORDER BY created_at LIMIT n: the oldest candidates.
Oldest(S) == {B \in SUBSET S :
    /\ \A r \in B, q \in S \ B : r.created <= q.created
    /\ Cardinality(B) = IF Cardinality(S) < Limit THEN Cardinality(S) ELSE Limit}

\* The candidates are locked, rows of other open claims are skipped; a claim that
\* finds none returns an empty batch.
LockCandidates(w) ==
    LET S == Candidates(worker[w].at) IN
    /\ worker[w].pc = "claiming"
    /\ \/ /\ S = {}
          /\ worker' = [worker EXCEPT ![w] = IdleWorker]
       \/ /\ S # {}
          /\ \E B \in Oldest(S) :
                worker' = [worker EXCEPT ![w].pc = "locked", ![w].batch = B]
    /\ UNCHANGED <<history, outbox, lockHolder, writer, begins, clock, deliveries, claims, crashes>>

\* Mutant: the attempt is not counted.
ClaimedMessage_NotCounted(m, token, at) ==
    [m EXCEPT !.status = "claimed", !.token = token, !.expiresAt = at + Lease]

\* The row the claim's UPDATE writes.
ClaimedMessage(m, token, at) ==
    [status |-> "claimed", token |-> token, expiresAt |-> at + Lease, attempts |-> m.attempts + 1]

\* The claim commits and the worker has its batch.
CommitClaim(w) ==
    LET at == worker[w].at
        token == claims + 1
    IN  /\ worker[w].pc = "locked"
        /\ claims' = token
        /\ outbox' = [r \in DOMAIN outbox |->
              IF r \in worker[w].batch THEN ClaimedMessage(outbox[r], token, at) ELSE outbox[r]]
        /\ worker' = [worker EXCEPT ![w].pc = "working", ![w].token = token,
                                    ![w].expiresAt = at + Lease]
        /\ UNCHANGED <<history, lockHolder, writer, begins, clock, deliveries, crashes>>

-----------------------------------------------------------------------------
\* The worker's delivery and publishSharedConsequenceOutboxMessage

\* External: the worker hands the event to the bus.
DeliverMessage(w, r) ==
    /\ worker[w].pc = "working"
    /\ r \in worker[w].batch \ worker[w].sent
    /\ deliveries' = [deliveries EXCEPT ![r] = @ + 1]
    /\ worker' = [worker EXCEPT ![w].sent = @ \cup {r}]
    /\ UNCHANGED <<history, outbox, lockHolder, writer, begins, clock, claims, crashes>>

\* claim_token = $3 AND status = 'claimed'; the lease is not looked at.
Publishable(r, token) == outbox[r].status = "claimed" /\ outbox[r].token = token

Published(r, token) ==
    IF Publishable(r, token) THEN [outbox EXCEPT ![r].status = "published"] ELSE outbox

\* The worker is done with r, and with the batch when r was the last of it.
Drop(w, r) ==
    LET u == worker[w] IN
    worker' = [worker EXCEPT ![w] =
        IF u.batch = {r} THEN IdleWorker
        ELSE [u EXCEPT !.batch = u.batch \ {r}, !.sent = u.sent \ {r}]]

\* The UPDATE waits for a claim that holds the row.  `published` or `not-claimed`:
\* the worker is done with the message either way.
PublishMessage(w, r) ==
    /\ worker[w].pc = "working"
    /\ r \in worker[w].sent
    /\ ~ RowLocked(r)
    /\ outbox' = Published(r, worker[w].token)
    /\ Drop(w, r)
    /\ UNCHANGED <<history, lockHolder, writer, begins, clock, deliveries, claims, crashes>>

\* The same, but the answer is lost and the worker will ask again.
PublishUnanswered(w, r) ==
    /\ worker[w].pc = "working"
    /\ r \in worker[w].sent
    /\ ~ RowLocked(r)
    /\ Publishable(r, worker[w].token)
    /\ outbox' = Published(r, worker[w].token)
    /\ UNCHANGED <<history, lockHolder, writer, begins, clock, worker, deliveries, claims, crashes>>

\* A worker crashes and restarts: an open claim rolls back, a batch is forgotten.
\* Bound: not so late that its lease would end after MaxTime.
CrashWorker(w) ==
    /\ worker[w].pc # "idle"
    /\ worker[w].expiresAt <= MaxTime
    /\ crashes < MaxCrashes
    /\ crashes' = crashes + 1
    /\ worker' = [worker EXCEPT ![w] = IdleWorker]
    /\ UNCHANGED <<history, outbox, lockHolder, writer, begins, clock, deliveries, claims>>

\* Each clock runs on its own, no more than MaxSkew ahead of another.
Tick(w) ==
    /\ clock[w] < MaxTime
    /\ \A v \in Workers : clock[w] < clock[v] + MaxSkew \/ v = w
    /\ clock' = [clock EXCEPT ![w] = @ + 1]
    /\ UNCHANGED <<history, outbox, lockHolder, writer, begins, worker, deliveries, claims, crashes>>

-----------------------------------------------------------------------------
AppendStep(x) == AcquireScopeLock(x) \/ ExamineSource(x) \/ InsertRecord(x)

ClaimStep(w) == BeginClaim(w) \/ LockCandidates(w) \/ CommitClaim(w)

DeliveryStep(w) == \E r \in history : DeliverMessage(w, r) \/ PublishMessage(w, r)

Next ==
    \/ \E x \in Writers :
          \/ \E s \in Sources : BeginAppend(x, s)
          \/ AppendStep(x)
          \/ FailAppend(x)
    \/ \E w \in Workers :
          \/ ClaimStep(w)
          \/ DeliveryStep(w)
          \/ \E r \in history : PublishUnanswered(w, r)
          \/ CrashWorker(w)
          \/ Tick(w)

Spec == Init /\ [][Next]_vars

\* Workers poll and work through their batches, and clocks do not stop.
FairSpec ==
    /\ Spec
    /\ \A x \in Writers : WF_vars(AppendStep(x))
    /\ \A w \in Workers : WF_vars(ClaimStep(w)) /\ WF_vars(DeliveryStep(w)) /\ WF_vars(Tick(w))

-----------------------------------------------------------------------------
\* The tables and the processes hold values of their types, and an outbox row is
\* committed together with its history row.
TypeOK ==
    /\ history \subseteq Rows
    /\ outbox \in [history -> [status : {"pending", "claimed", "published"},
                               token : Nat, expiresAt : Nat, attempts : Nat]]
    /\ deliveries \in [history -> Nat]
    /\ lockHolder \in Writers \cup {NoWriter}
    /\ writer \in [Writers -> {IdleWriter} \cup [pc : {"lock", "examine", "insert"}, row : Rows]]
    /\ begins \in Nat /\ claims \in Nat /\ crashes \in Nat
    /\ clock \in [Workers -> Nat]
    /\ worker \in [Workers -> [pc : {"idle", "claiming", "locked", "working"}, at : Nat, token : Nat,
                               expiresAt : Nat, batch : SUBSET history, sent : SUBSET history]]

\* The history of a tenant is gap-free and has one record per source, however
\* appends fail, repeat and race: sequence allocation under the advisory lock.
HistoryDense ==
    /\ Sequences = 1 .. Cardinality(history)
    /\ \A r, q \in history : r.source = q.source \/ r.sequence = q.sequence => r = q

\* What an append read under the lock is still true when it inserts, so that the
\* unique indexes never refuse an append the caller was entitled to.
ExaminedStillTrue ==
    \A x \in Writers : writer[x].pc = "insert" =>
        /\ ~ Recorded(writer[x].row.source)
        /\ writer[x].row.sequence = NextSequence(writer[x].row)

\* A worker that gives up a batch MaxSkew before its lease ends is alone with it:
\* until then no other worker's claim has replaced its claim, whatever the clocks
\* do within that skew (the lease is set and judged by the workers' clocks).
LeaseProtects ==
    \A w \in Workers : \A r \in worker[w].batch :
        (worker[w].pc = "working" /\ clock[w] + MaxSkew < worker[w].expiresAt) =>
            outbox[r].token = worker[w].token

\* The row's attempt count bounds the deliveries of a message, and a published
\* message was delivered: the log of attempts an operator reads is never too short.
DeliveriesCounted ==
    \A r \in history :
        /\ deliveries[r] <= outbox[r].attempts
        /\ outbox[r].status = "published" => deliveries[r] >= 1

SourcesOf(S) == {r.source : r \in S}

Queue == INSTANCE DeliveryQueue WITH
    Messages <- Sources,
    accepted <- SourcesOf(history),
    delivered <- SourcesOf({r \in history : deliveries[r] > 0}),
    acknowledged <- SourcesOf({r \in history : outbox[r].status = "published"})

\* The outbox implements at-least-once delivery of one message per source: nothing
\* is published that was not delivered, nothing accepted is ever forgotten, and a
\* late worker, a retry or another claim cannot reopen what is published.
ImplementsDeliveryQueue == Queue!DSpec

\* Every recorded message is eventually published, although workers crash with
\* messages in hand and answers get lost.
EveryMessagePublished ==
    \A s \in Sources :
        Recorded(s) ~> \E r \in history : r.source = s /\ outbox[r].status = "published"
=============================================================================
