------------------------- MODULE ReplayLedgerProofs -------------------------
(***************************************************************************)
(* Proofs about the replay ledgers, for any points, presentations, skew,   *)
(* delay and retention: a replay key is consumed once in its retention     *)
(* window up to the lag of the points, and a presentation that the         *)
(* retention outlasts by that lag is consumed once.                        *)
(***************************************************************************)
EXTENDS ReplayLedger, TLAPS

RequestType == [pc : {"lock", "execute"}, begun : Nat, entry : Entries]

\* An entry as Consume makes it: of a presentation that was fresh, kept for Retention at least.
Sound(e) ==
    /\ Fresh(e.presentation, e.at)
    /\ e.until >= e.at + Retention

\* An open request is at most MaxDelay old, and its entry carries a reading of its start.
RequestsTimely ==
    \A n \in Points : request[n] # Idle =>
        /\ Sound(request[n].entry)
        /\ request[n].begun <= now /\ now <= request[n].begun + MaxDelay
        /\ request[n].begun <= request[n].entry.at + MaxSkew
        /\ request[n].entry.at <= request[n].begun + MaxSkew

\* A consumption is in the table until its retention is behind the horizon.
LoggedIsKept ==
    \A i \in 1 .. Len(log) : log[i] \in ledger \/ log[i].until < horizon

LoggedIsSound == \A i \in 1 .. Len(log) : Sound(log[i])

ReplayInv ==
    /\ TypeOK
    /\ horizon <= now + MaxSkew
    /\ RequestsTimely
    /\ LoggedIsKept
    /\ LoggedIsSound
    /\ SingleUseInWindow

-----------------------------------------------------------------------------
\* A request is idle or has the fields of an open one.
LEMMA RequestStages ==
    ASSUME TypeOK, NEW n \in Points
    PROVE  /\ request[n].pc # "idle" <=> request[n] # Idle
           /\ request[n] # Idle => /\ request[n] \in RequestType
                                   /\ request[n].entry \in Entries
                                   /\ request[n].entry.at \in Nat /\ request[n].entry.until \in Nat
                                   /\ request[n].begun \in Nat
  BY DEF TypeOK, RequestType, Entries, Idle

\* What Consume stores is an entry, and a sound one.
LEMMA EntryIsSound ==
    ASSUME NEW p \in Presentations, NEW at \in Nat, Fresh(p, at)
    PROVE  Entry(p, at) \in Entries /\ Sound(Entry(p, at))
  BY LedgerAssumption DEF Entry, Entries, Sound, RetentionLimit, Max

\* The consumptions that were committed are entries.
LEMMA LoggedEntries ==
    ASSUME TypeOK, NEW i \in 1 .. Len(log)
    PROVE  /\ log[i] \in Entries /\ log[i].presentation \in Presentations
           /\ log[i].at \in Nat /\ log[i].until \in Nat
<1>1. log[i] \in Entries
  BY DEF TypeOK
<1> QED BY <1>1 DEF Entries

\* The horizon h after pruning at `at`, which was read when a request began at b, is at
\* most the lag ahead of `at`.
LEMMA HorizonBound ==
    ASSUME NEW h \in Nat, NEW at \in Nat, NEW b \in Nat, NEW t \in Nat,
           h <= t + MaxSkew, b <= t, t <= b + MaxDelay, b <= at + MaxSkew, at <= b + MaxSkew
    PROVE  /\ Max(h, at) \in Nat /\ h <= Max(h, at) /\ at <= Max(h, at)
           /\ Max(h, at) <= t + MaxSkew /\ Max(h, at) <= at + Lag
  BY LedgerAssumption DEF Max, Lag

\* Readings are times.
LEMMA ReadingsAreTimes ==
    ASSUME TypeOK, NEW at \in Readings
    PROVE  at \in Nat /\ at <= now + MaxSkew /\ now <= at + MaxSkew
  BY LedgerAssumption DEF TypeOK, Readings

\* The invariant holds before anything was consumed.
LEMMA ReplayInit == Init => ReplayInv
  BY LedgerAssumption DEF Init, ReplayInv, TypeOK, RequestsTimely, LoggedIsKept, LoggedIsSound,
     SingleUseInWindow, Idle

\* Consume touches no table: the request it opens is timely.
LEMMA ConsumeMove ==
    ASSUME ReplayInv, NEW n \in Points, NEW p \in Presentations, NEW at \in Readings,
           Consume(n, p, at)
    PROVE  ReplayInv'
<1> DEFINE kept == Kept(local[n], at)
           r == [pc |-> "lock", begun |-> now, entry |-> Entry(p, at)]
<1>1. at \in Nat /\ at <= now + MaxSkew /\ now <= at + MaxSkew /\ now \in Nat
  BY ReadingsAreTimes DEF ReplayInv, TypeOK
<1>2. kept \in SUBSET Entries /\ local \in [Points -> SUBSET Entries]
  BY DEF ReplayInv, TypeOK, Kept
<1>3. UNCHANGED <<now, lock, ledger, log, horizon>>
  BY DEF Consume
<1>4. CASE Fresh(p, at) /\ local' = [local EXCEPT ![n] = kept \cup {Entry(p, at)}]
           /\ request' = [request EXCEPT ![n] = r]
  <2>1. Entry(p, at) \in Entries /\ Sound(Entry(p, at)) /\ Entry(p, at).at = at
    BY <1>1, <1>4, EntryIsSound DEF Entry
  <2>2. r \in RequestType
    BY <1>1, <2>1 DEF RequestType
  <2>3. TypeOK'
    BY <1>2, <1>3, <1>4, <2>1, <2>2 DEF ReplayInv, TypeOK, RequestType
  <2>4. RequestsTimely'
    <3> SUFFICES ASSUME NEW m \in Points, request'[m] # Idle
                 PROVE  /\ Sound(request'[m].entry)
                        /\ request'[m].begun <= now /\ now <= request'[m].begun + MaxDelay
                        /\ request'[m].begun <= request'[m].entry.at + MaxSkew
                        /\ request'[m].entry.at <= request'[m].begun + MaxSkew
      BY <1>3 DEF RequestsTimely, Sound
    <3>1. CASE m = n
      <4>1. request'[m] = r
        BY <1>4, <3>1 DEF ReplayInv, TypeOK
      <4> QED BY <1>1, <2>1, <4>1, LedgerAssumption
    <3>2. CASE m # n
      <4>1. request'[m] = request[m]
        BY <1>4, <3>2 DEF ReplayInv, TypeOK
      <4> QED BY <4>1 DEF ReplayInv, RequestsTimely
    <3> QED BY <3>1, <3>2
  <2> QED BY <1>3, <2>3, <2>4 DEF ReplayInv, LoggedIsKept, LoggedIsSound, SingleUseInWindow
<1>5. CASE local' = [local EXCEPT ![n] = kept] /\ UNCHANGED request
  <2>1. TypeOK'
    BY <1>2, <1>3, <1>5 DEF ReplayInv, TypeOK
  <2> QED BY <1>3, <1>5, <2>1 DEF ReplayInv, RequestsTimely, LoggedIsKept, LoggedIsSound,
             SingleUseInWindow
<1> QED BY <1>4, <1>5 DEF Consume

\* Closing a request leaves the other requests timely.
LEMMA EndMove ==
    ASSUME TypeOK, RequestsTimely, NEW n \in Points, EndRequest(n), now' = now
    PROVE  /\ request' \in [Points -> {Idle} \cup RequestType]
           /\ lock' \in Points \cup {NoPoint}
           /\ RequestsTimely'
<1>1. request' = [request EXCEPT ![n] = Idle] /\ request \in [Points -> {Idle} \cup RequestType]
  BY DEF EndRequest, TypeOK, RequestType
<1>2. \A m \in Points : request'[m] # Idle => request'[m] = request[m]
  BY <1>1
<1>3. RequestsTimely'
  BY <1>2 DEF RequestsTimely, Sound
<1> QED BY <1>1, <1>3 DEF EndRequest, TypeOK

\* Taking the lock changes the stage of the request and nothing of its entry.
LEMMA AcquireMove ==
    ASSUME ReplayInv, NEW n \in Points, AcquireLock(n)
    PROVE  ReplayInv'
<1>1. request[n] \in RequestType /\ request[n] # Idle
  BY RequestStages DEF AcquireLock, ReplayInv
<1>2. request' = [request EXCEPT ![n] = [request[n] EXCEPT !.pc = "execute"]]
  BY DEF AcquireLock
<1>3. \A m \in Points : request'[m] # Idle =>
          /\ request[m] # Idle
          /\ request'[m].begun = request[m].begun /\ request'[m].entry = request[m].entry
  BY <1>1, <1>2 DEF RequestType, ReplayInv, TypeOK
<1>4. TypeOK'
  BY <1>1, <1>2 DEF AcquireLock, ReplayInv, TypeOK, RequestType
<1>5. RequestsTimely'
  BY <1>3 DEF AcquireLock, ReplayInv, RequestsTimely, Sound
<1> QED BY <1>4, <1>5 DEF AcquireLock, ReplayInv, LoggedIsKept, LoggedIsSound, SingleUseInWindow

\* The transaction prunes at the time of its entry: what is not in the table then has a
\* retention that ends before the horizon, which is at most Lag ahead of the entry.
LEMMA ExecuteMove ==
    ASSUME ReplayInv, NEW n \in Points, Execute(n)
    PROVE  ReplayInv'
<1> DEFINE e == request[n].entry
           kept == Kept(ledger, e.at)
<1>1. /\ e \in Entries /\ e.at \in Nat /\ e.until \in Nat /\ request[n].begun \in Nat
      /\ request[n] # Idle
  BY RequestStages DEF Execute, ReplayInv
<1>2. /\ Sound(e) /\ now <= request[n].begun + MaxDelay /\ request[n].begun <= now
      /\ request[n].begun <= e.at + MaxSkew /\ e.at <= request[n].begun + MaxSkew
  BY <1>1 DEF ReplayInv, RequestsTimely
<1>3. /\ horizon \in Nat /\ now \in Nat /\ now' = now /\ log \in Seq(Entries) /\ Len(log) \in Nat
      /\ horizon <= now + MaxSkew /\ MaxSkew \in Nat /\ MaxDelay \in Nat
      /\ \A i \in 1 .. Len(log) : log[i] \in Entries /\ log[i].until \in Nat /\ log[i].at \in Nat
  <2>1. \A i \in 1 .. Len(log) : log[i] \in Entries /\ log[i].until \in Nat /\ log[i].at \in Nat
    BY LoggedEntries DEF ReplayInv
  <2> QED BY <2>1, LedgerAssumption DEF Execute, ReplayInv, TypeOK
<1>4. horizon' = Max(horizon, e.at)
  BY DEF Execute
<1>5. /\ horizon' \in Nat /\ horizon <= horizon' /\ e.at <= horizon'
      /\ horizon' <= now' + MaxSkew /\ horizon' <= e.at + Lag
  BY <1>1, <1>2, <1>3, <1>4, HorizonBound
<1>6. \A i \in 1 .. Len(log) : log[i] \in kept \/ log[i].until < horizon'
  BY <1>1, <1>3, <1>5 DEF ReplayInv, LoggedIsKept, Kept
<1>7. kept \subseteq Entries
  BY DEF Kept, ReplayInv, TypeOK
<1>8. /\ request' \in [Points -> {Idle} \cup RequestType] /\ lock' \in Points \cup {NoPoint}
      /\ RequestsTimely'
  BY EndMove DEF Execute, ReplayInv
<1>9. CASE ~ HasKey(kept, e.presentation) /\ ledger' = kept \cup {e} /\ log' = Append(log, e)
  <2>1. /\ log' \in Seq(Entries) /\ Len(log') = Len(log) + 1 /\ log'[Len(log) + 1] = e
        /\ \A i \in 1 .. Len(log) : log'[i] = log[i]
    BY <1>1, <1>3, <1>9
  <2>2. TypeOK'
    BY <1>1, <1>5, <1>7, <1>8, <1>9, <2>1 DEF Execute, ReplayInv, TypeOK, RequestType
  <2>3. LoggedIsKept'
    <3> SUFFICES ASSUME NEW i \in 1 .. Len(log')
                 PROVE  log'[i] \in ledger' \/ log'[i].until < horizon'
      BY DEF LoggedIsKept
    <3>1. i \in 1 .. Len(log) \/ i = Len(log) + 1
      BY <1>3, <2>1
    <3> QED BY <1>6, <1>9, <2>1, <3>1
  <2>4. LoggedIsSound'
    <3> SUFFICES ASSUME NEW i \in 1 .. Len(log')
                 PROVE  Sound(log'[i])
      BY DEF LoggedIsSound, Sound
    <3>1. i \in 1 .. Len(log) \/ i = Len(log) + 1
      BY <1>3, <2>1
    <3> QED BY <1>2, <2>1, <3>1 DEF ReplayInv, LoggedIsSound
  <2>5. SingleUseInWindow'
    <3> SUFFICES ASSUME NEW i \in 1 .. Len(log'), NEW j \in 1 .. Len(log'), i < j,
                        log'[i].presentation.key = log'[j].presentation.key
                 PROVE  log'[i].until < log'[j].at + Lag
      BY DEF SingleUseInWindow, Lag
    <3>1. i \in 1 .. Len(log) /\ (j \in 1 .. Len(log) \/ j = Len(log) + 1)
      <4> DEFINE N == Len(log)
      <4>1. N \in Nat /\ i \in 1 .. N + 1 /\ j \in 1 .. N + 1
        BY <1>3, <2>1
      <4> HIDE DEF N
      <4>2. i \in 1 .. N /\ (j \in 1 .. N \/ j = N + 1)
        BY <4>1
      <4> QED BY <4>2 DEF N
    <3>2. CASE j \in 1 .. Len(log)
      BY <2>1, <3>1, <3>2 DEF ReplayInv, SingleUseInWindow
    <3>3. CASE j = Len(log) + 1
      <4>1. log[i] \notin kept
        BY <1>9, <2>1, <3>1, <3>3 DEF HasKey
      <4>2. log[i].until < horizon' /\ log[i].until \in Nat
        BY <1>3, <1>6, <3>1, <4>1
      <4>3. log'[i] = log[i] /\ log'[j] = e
        BY <2>1, <3>1, <3>3
      <4>4. Lag \in Nat
        BY <1>3 DEF Lag
      <4> QED BY <1>1, <1>5, <4>2, <4>3, <4>4
    <3> QED BY <3>1, <3>2, <3>3
  <2> QED BY <1>5, <1>8, <2>2, <2>3, <2>4, <2>5 DEF ReplayInv
<1>10. CASE ledger' = kept /\ UNCHANGED log
  <2>1. TypeOK'
    BY <1>5, <1>7, <1>8, <1>10 DEF Execute, ReplayInv, TypeOK, RequestType
  <2>2. LoggedIsKept'
    BY <1>6, <1>10 DEF LoggedIsKept
  <2> QED BY <1>5, <1>8, <1>10, <2>1, <2>2 DEF ReplayInv, LoggedIsSound, SingleUseInWindow
<1> QED BY <1>9, <1>10 DEF Execute

\* Every step keeps the invariant.
LEMMA ReplayStep == ReplayInv /\ [Next]_vars => ReplayInv'
<1> SUFFICES ASSUME ReplayInv, [Next]_vars
             PROVE  ReplayInv'
  OBVIOUS
<1>1. ASSUME NEW n \in Points, NEW p \in Presentations, NEW at \in Readings, Consume(n, p, at)
      PROVE  ReplayInv'
  BY <1>1, ConsumeMove
<1>2. ASSUME NEW n \in Points, AcquireLock(n)
      PROVE  ReplayInv'
  BY <1>2, AcquireMove
<1>3. ASSUME NEW n \in Points, Execute(n)
      PROVE  ReplayInv'
  BY <1>3, ExecuteMove
<1>4. ASSUME NEW n \in Points, FailRequest(n)
      PROVE  ReplayInv'
  <2>1. EndRequest(n) /\ UNCHANGED <<now, local, ledger, log, horizon>>
    BY <1>4 DEF FailRequest
  <2>2. /\ request' \in [Points -> {Idle} \cup RequestType] /\ lock' \in Points \cup {NoPoint}
        /\ RequestsTimely'
    BY <2>1, EndMove DEF ReplayInv
  <2>3. TypeOK'
    BY <2>1, <2>2 DEF ReplayInv, TypeOK, RequestType
  <2> QED BY <2>1, <2>2, <2>3 DEF ReplayInv, LoggedIsKept, LoggedIsSound, SingleUseInWindow
<1>5. ASSUME NEW n \in Points, Restart(n)
      PROVE  ReplayInv'
  <2>1. /\ EndRequest(n) /\ UNCHANGED <<now, ledger, log, horizon>>
        /\ local' = [local EXCEPT ![n] = {}]
    BY <1>5 DEF Restart
  <2>2. /\ request' \in [Points -> {Idle} \cup RequestType] /\ lock' \in Points \cup {NoPoint}
        /\ RequestsTimely'
    BY <2>1, EndMove DEF ReplayInv
  <2>3. TypeOK'
    BY <2>1, <2>2 DEF ReplayInv, TypeOK, RequestType
  <2> QED BY <2>1, <2>2, <2>3 DEF ReplayInv, LoggedIsKept, LoggedIsSound, SingleUseInWindow
<1>6. CASE Tick
  <2>1. TypeOK' /\ now' = now + 1 /\ now \in Nat /\ UNCHANGED <<request, ledger, log, horizon>>
    BY <1>6 DEF Tick, ReplayInv, TypeOK
  <2>2. horizon' <= now' + MaxSkew
    BY <2>1, LedgerAssumption DEF ReplayInv, TypeOK
  <2>3. RequestsTimely'
    <3> SUFFICES ASSUME NEW n \in Points, request[n] # Idle
                 PROVE  /\ request[n].begun <= now' /\ now' <= request[n].begun + MaxDelay
      BY <2>1 DEF ReplayInv, RequestsTimely, Sound
    <3>1. request[n].begun \in Nat /\ now - request[n].begun < MaxDelay /\ request[n].begun <= now
      BY <1>6, RequestStages DEF Tick, ReplayInv, RequestsTimely
    <3> QED BY <2>1, <3>1, LedgerAssumption
  <2> QED BY <2>1, <2>2, <2>3 DEF ReplayInv, LoggedIsKept, LoggedIsSound, SingleUseInWindow
<1>7. CASE UNCHANGED vars
  BY <1>7 DEF vars, ReplayInv, TypeOK, RequestsTimely, LoggedIsKept, LoggedIsSound,
     SingleUseInWindow
<1> QED BY <1>1, <1>2, <1>3, <1>4, <1>5, <1>6, <1>7 DEF Next

\* The invariant holds throughout.
LEMMA ReplayInvariant == Spec => []ReplayInv
  BY ReplayInit, ReplayStep, PTL DEF Spec

-----------------------------------------------------------------------------
\* Ledgers, requests, lock and clocks of the replay ledgers keep their types.
THEOREM ReplayTypeCorrect == Spec => []TypeOK
<1>1. ReplayInv => TypeOK
  BY DEF ReplayInv
<1> QED BY <1>1, ReplayInvariant, PTL

\* A replay key that consumeSharedConsequencePresentationReplayIfAbsent accepted is not
\* accepted again before the end of its retention, up to the lag.
THEOREM ReplaySingleUseInWindow == Spec => []SingleUseInWindow
<1>1. ReplayInv => SingleUseInWindow
  BY DEF ReplayInv
<1> QED BY <1>1, ReplayInvariant, PTL

\* When the retention outlasts presentations by the lag, the shared table consumes each
\* presentation once, for any points that restart, fail and are late.
THEOREM ReplayPresentationOnce == Spec => []PresentationOnce
<1>1. ReplayInv => PresentationOnce
  <2> SUFFICES ASSUME ReplayInv, RetentionCovers,
                      NEW i \in 1 .. Len(log), NEW j \in 1 .. Len(log),
                      log[i].presentation = log[j].presentation, i < j
               PROVE  FALSE
    <3>1. Len(log) \in Nat
      BY DEF ReplayInv, TypeOK
    <3> QED BY <3>1 DEF PresentationOnce
  <2> DEFINE p == log[i].presentation
  <2>1. /\ p \in Presentations /\ log[i].at \in Nat /\ log[i].until \in Nat /\ log[j].at \in Nat
    BY LoggedEntries DEF ReplayInv
  <2>2. p.presentedAt \in Nat /\ p.expiresAt \in Nat /\ Lag \in Nat /\ Retention \in Nat
    BY <2>1, LedgerAssumption DEF Lag
  <2>3. p.presentedAt <= log[i].at /\ log[j].at <= p.expiresAt /\ log[i].until >= log[i].at + Retention
    BY DEF ReplayInv, LoggedIsSound, Sound, Fresh
  <2>4. log[i].until < log[j].at + Lag
    BY DEF ReplayInv, SingleUseInWindow
  <2>5. p.expiresAt - p.presentedAt + Lag <= Retention
    BY <2>1 DEF RetentionCovers
  <2>6. \A a, b, c, d, u, l, t \in Nat :
            ~ (a <= b /\ c <= d /\ u >= b + t /\ u < c + l /\ d - a + l <= t)
    OBVIOUS
  <2> QED BY <2>1, <2>2, <2>3, <2>4, <2>5, <2>6
<1> QED BY <1>1, ReplayInvariant, PTL
=============================================================================
