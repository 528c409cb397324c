---------------------------- MODULE ReplayLedger ----------------------------
(***************************************************************************)
(* The ledgers that make a consequence single-use, for one tenant scope:   *)
(* the presentation-replay ledger of an enforcement point                  *)
(* (consequence-admission/presentation-replay-ledger.ts) and the shared    *)
(* PostgreSQL table of consumed replay keys                                *)
(* (service/consequence-shared-atomic-stores.ts).  A point evaluates a     *)
(* presentation with its own ledger, which is lost with the process, and   *)
(* then consumes the entry it got in the shared table.  Both are pruned at *)
(* the consumption time the caller supplies.                               *)
(*                                                                         *)
(* `now` is the true time.  A point reads it within MaxSkew, and no more   *)
(* than MaxDelay passes from that reading to the end of its transaction.   *)
(* Whether the answer to a COMMIT arrives changes nothing in the tables.   *)
(***************************************************************************)
EXTENDS Integers, Sequences, FiniteSets

CONSTANTS
    Points,         \* enforcement points
    NoPoint,        \* the advisory lock of the scope is free
    Presentations,  \* presentation bindings: replay key, presentedAt, expiresAt
    Retention,      \* retentionSeconds
    MaxSkew,        \* how far a point's clock is from the true time
    MaxDelay,       \* time from reading the clock to the end of the transaction
    MaxTime         \* bound on the time

ASSUME LedgerAssumption ==
    /\ NoPoint \notin Points
    /\ \A p \in Presentations : p.presentedAt \in Nat /\ p.expiresAt \in Nat
    /\ Retention \in Nat \ {0}
    /\ MaxSkew \in Nat /\ MaxDelay \in Nat /\ MaxTime \in Nat

VARIABLES
    now,            \* the true time
    local,          \* local[n]: entries of point n's own ledger
    request,        \* request[n]: the consumption point n is working on
    lock,           \* holder of the scope's advisory lock
    ledger,         \* rows of the shared table
    log,            \* the consumptions that were committed, in this order
    horizon         \* the latest time the shared table was pruned at

vars == <<now, local, request, lock, ledger, log, horizon>>

Idle == [pc |-> "idle"]

Init ==
    /\ now = 0
    /\ local = [n \in Points |-> {}]
    /\ request = [n \in Points |-> Idle]
    /\ lock = NoPoint
    /\ ledger = {}
    /\ log = <<>>
    /\ horizon = 0

-----------------------------------------------------------------------------
\* consume: the point's own ledger

Max(a, b) == IF a >= b THEN a ELSE b

\* Mutant: an entry is kept while its presentation is valid, and no longer.
RetentionLimit_Expiry(p, at) == p.expiresAt

\* retentionLimit
RetentionLimit(p, at) == Max(at + Retention, p.expiresAt)

\* The ledger entry for presentation p consumed at `at`; entries are indexed by replay key.
Entry(p, at) == [presentation |-> p, at |-> at, until |-> RetentionLimit(p, at)]

\* Mutant: whatever was consumed earlier is pruned.
Kept_Later(S, at) == {e \in S : e.at >= at}

\* What pruning at `at` leaves.
Kept(S, at) == {e \in S : e.until >= at}

HasKey(S, p) == \E e \in S : e.presentation.key = p.key

\* evaluateConsequenceAdmissionPresentationBinding, as far as time goes.
Fresh(p, at) == p.presentedAt <= at /\ at <= p.expiresAt

\* The times a point may read.
Readings == {at \in 0 .. now + MaxSkew : now - MaxSkew <= at}

\* The ledger is pruned; the entry of a fresh presentation is stored and goes to the
\* shared table, and one that is stale or replayed, or fails another check (contract,
\* target, nonce, proofs), is held.
Consume(n, p, at) ==
    LET kept == Kept(local[n], at)
    IN  /\ request[n] = Idle
        /\ \/ /\ Fresh(p, at) /\ ~ HasKey(kept, p)
              /\ local' = [local EXCEPT ![n] = kept \cup {Entry(p, at)}]
              /\ request' = [request EXCEPT ![n] = [pc |-> "lock", begun |-> now, entry |-> Entry(p, at)]]
           \/ /\ local' = [local EXCEPT ![n] = kept]
              /\ UNCHANGED request
        /\ UNCHANGED <<now, lock, ledger, log, horizon>>

-----------------------------------------------------------------------------
\* consumeSharedConsequencePresentationReplayIfAbsent

\* lockTenantScope
AcquireLock(n) ==
    /\ request[n].pc = "lock"
    /\ lock = NoPoint
    /\ lock' = n
    /\ request' = [request EXCEPT ![n].pc = "execute"]
    /\ UNCHANGED <<now, local, ledger, log, horizon>>

\* The transaction ends, and with it the lock if it had it.
EndRequest(n) ==
    /\ request' = [request EXCEPT ![n] = Idle]
    /\ lock' = IF lock = n THEN NoPoint ELSE lock

\* DELETE, INSERT ... ON CONFLICT DO NOTHING and COMMIT under the lock: `consumed`, or
\* `duplicate`, which prunes as well.
Execute(n) ==
    LET e == request[n].entry
        kept == Kept(ledger, e.at)
    IN  /\ request[n].pc = "execute"
        /\ \/ /\ ~ HasKey(kept, e.presentation)
              /\ ledger' = kept \cup {e}
              /\ log' = Append(log, e)
           \/ /\ HasKey(kept, e.presentation)
              /\ ledger' = kept
              /\ UNCHANGED log
        /\ horizon' = Max(horizon, e.at)
        /\ EndRequest(n)
        /\ UNCHANGED <<now, local>>

\* A statement fails and the transaction is rolled back; the point's own entry stays.
FailRequest(n) ==
    /\ request[n] # Idle
    /\ EndRequest(n)
    /\ UNCHANGED <<now, local, ledger, log, horizon>>

\* The point restarts: its own ledger and its request are gone.
Restart(n) ==
    /\ local' = [local EXCEPT ![n] = {}]
    /\ EndRequest(n)
    /\ UNCHANGED <<now, ledger, log, horizon>>

\* Time passes; no consumption takes longer than MaxDelay.
Tick ==
    /\ now < MaxTime
    /\ \A n \in Points : request[n] # Idle => now - request[n].begun < MaxDelay
    /\ now' = now + 1
    /\ UNCHANGED <<local, request, lock, ledger, log, horizon>>

-----------------------------------------------------------------------------
Next ==
    \/ \E n \in Points :
          \/ \E p \in Presentations, at \in Readings : Consume(n, p, at)
          \/ AcquireLock(n) \/ Execute(n) \/ FailRequest(n) \/ Restart(n)
    \/ Tick

Spec == Init /\ [][Next]_vars

-----------------------------------------------------------------------------
Entries == [presentation : Presentations, at : Nat, until : Nat]

\* Ledgers hold entries, transactions are at one of their steps, and clocks are times.
TypeOK ==
    /\ now \in Nat /\ horizon \in Nat
    /\ local \in [Points -> SUBSET Entries]
    /\ request \in [Points -> {Idle} \cup [pc : {"lock", "execute"}, begun : Nat, entry : Entries]]
    /\ lock \in Points \cup {NoPoint}
    /\ ledger \subseteq Entries
    /\ log \in Seq(Entries)

\* How far a consumption time may lie behind the time some other consumption pruned at.
Lag == MaxDelay + 2 * MaxSkew

\* A replay key is consumed once within its retention window: a second consumption has
\* a time after the retention of the first, up to the lag of late and slow points, which
\* consume at an earlier time than the table was already pruned at.
SingleUseInWindow ==
    \A i, j \in 1 .. Len(log) :
        i < j /\ log[i].presentation.key = log[j].presentation.key
            => log[i].until < log[j].at + Lag

\* The retention outlasts every presentation by the lag.
RetentionCovers ==
    \A p \in Presentations : p.expiresAt - p.presentedAt + Lag <= Retention

\* Then no presentation is consumed twice, by any points, through restarts that forget
\* what a point consumed, failed transactions and entries pruned at a wrong time.
PresentationOnce ==
    RetentionCovers =>
        \A i, j \in 1 .. Len(log) : log[i].presentation = log[j].presentation => i = j
=============================================================================
