------------------------ MODULE StripeWebhooksProofs ------------------------
(***************************************************************************)
(* Proofs about Stripe webhook ingestion, for any number of nodes,         *)
(* requests and events and for both kinds of claim: a claim excludes, an   *)
(* event recorded as applied was applied, an answer 200 is safe, and an    *)
(* outcome is final.                                                       *)
(***************************************************************************)
EXTENDS StripeWebhooks, TLAPS

RequestType == [pc : PCs \cup {"idle"}, node : Nodes \cup {NoNode}, event : Events \cup {NoEvent},
                used : Nat, period : 0 .. MaxMonths, lost : BOOLEAN]

\* A request that is going on has a node and an event.
Busy(r) == r.pc # "idle" => r.node \in Nodes /\ r.event \in Events

-----------------------------------------------------------------------------
\* The idle request is a request.
LEMMA IdleType == Idle \in RequestType /\ Busy(Idle) /\ Idle.pc = "idle" /\ Idle.lost = FALSE
  BY WebhookAssumption DEF Idle, RequestType, PCs, Busy

\* Moving a request on keeps the types of all requests.
LEMMA GotoType ==
    ASSUME NEW q \in Requests, NEW pc \in PCs, TypeOK, request[q].pc # "idle", Goto(q, pc)
    PROVE  /\ request' \in [Requests -> RequestType]
           /\ \A p \in Requests : Busy(request'[p])
           /\ request'[q].pc = pc
           /\ request'[q].event = request[q].event
           /\ request'[q].node = request[q].node
           /\ request'[q].used = request[q].used
           /\ request'[q].period = request[q].period
           /\ request'[q].lost = request[q].lost
           /\ \A p \in Requests \ {q} : request'[p] = request[p]
<1> DEFINE moved == [request[q] EXCEPT !.pc = pc]
<1>1. request \in [Requests -> RequestType] /\ \A p \in Requests : Busy(request[p])
  BY DEF TypeOK, RequestType, Busy
<1>2. /\ moved \in RequestType /\ Busy(moved) /\ moved.pc = pc
      /\ moved.event = request[q].event /\ moved.node = request[q].node
      /\ moved.used = request[q].used /\ moved.period = request[q].period
  BY <1>1 DEF RequestType, Busy, PCs
<1>3. moved.lost = request[q].lost
  BY <1>1 DEF RequestType
<1>4. request' = [request EXCEPT ![q] = moved]
  BY <1>1 DEF Goto, RequestType
<1> HIDE DEF moved
<1> QED BY <1>1, <1>2, <1>3, <1>4

\* So does the loss of its session.
LEMMA LostType ==
    ASSUME NEW r \in RequestType, Busy(r)
    PROVE  LET l == [r EXCEPT !.lost = TRUE]
           IN  /\ l \in RequestType /\ Busy(l) /\ l.lost = TRUE
               /\ l.pc = r.pc /\ l.node = r.node /\ l.event = r.event
               /\ l.used = r.used /\ l.period = r.period
<1> DEFINE l == [r EXCEPT !.lost = TRUE]
<1>1. l \in RequestType
  BY DEF RequestType
<1>2. /\ l.pc = r.pc /\ l.node = r.node /\ l.event = r.event
      /\ l.used = r.used /\ l.period = r.period
  BY DEF RequestType
<1>3. l.lost = TRUE
  BY DEF RequestType
<1> QED BY <1>1, <1>2, <1>3 DEF Busy

\* So does ending it.
LEMMA EndType ==
    ASSUME NEW q \in Requests, TypeOK, End(q)
    PROVE  /\ request' \in [Requests -> RequestType]
           /\ \A p \in Requests : Busy(request'[p])
           /\ request'[q] = Idle
           /\ \A p \in Requests \ {q} : request'[p] = request[p]
  BY IdleType DEF End, TypeOK, RequestType, Busy

\* The months of the nodes' clocks are months.
LEMMA MonthType ==
    ASSUME TypeOK
    PROVE  /\ Month \in Nat /\ Month <= MaxMonths
           /\ \A m \in Months : m \in 0 .. MaxMonths
           /\ ~ Turning => \A m \in Months : m = Month
           /\ Turning => Month + 1 <= MaxMonths
<1>1. MaxMonths \in Nat /\ time \in Nat /\ time <= 2 * MaxMonths
  BY WebhookAssumption DEF TypeOK
<1>2. Month \in Nat /\ Month <= MaxMonths /\ (time % 2 = 1 => Month + 1 <= MaxMonths)
  BY <1>1 DEF Month
<1> HIDE DEF Month
<1>3. \A m \in Months : m \in 0 .. MaxMonths /\ (m = Month \/ Turning)
  BY <1>1, <1>2 DEF Months, Turning
<1> QED BY <1>2, <1>3 DEF Turning

\* A month turns, and then is over.
LEMMA MonthStep ==
    ASSUME TypeOK, Tick
    PROVE  /\ ~ Turning => Month' = Month /\ Turning'
           /\ Turning => Month' = Month + 1
<1>1. time \in Nat /\ time' = time + 1
  BY WebhookAssumption DEF TypeOK, Tick
<1> QED BY <1>1 DEF Month, Turning

\* Every step keeps the type invariant.
LEMMA TypeOKStep == TypeOK /\ [Next]_vars => TypeOK'
<1> SUFFICES ASSUME TypeOK, [Next]_vars PROVE TypeOK'
  OBVIOUS
<1> USE WebhookAssumption DEF claimVars, usageVars, effectVars
<1>0. /\ row \in [Events -> {"none", "pending", "applied", "ignored"}]
      /\ lock \in [Events -> Nodes \cup {NoNode}]
      /\ request \in [Requests -> RequestType]
      /\ \A p \in Requests : Busy(request[p])
      /\ answered \subseteq Events /\ written \subseteq Events
      /\ leaked \in [Nodes -> Nat]
      /\ failures \in Nat /\ crashes \in Nat
  BY DEF TypeOK, RequestType, Busy
<1>a. ASSUME request' \in [Requests -> RequestType], \A p \in Requests : Busy(request'[p]),
             row' \in [Events -> {"none", "pending", "applied", "ignored"}],
             lock' \in [Events -> Nodes \cup {NoNode}],
             leaked' \in [Nodes -> Nat],
             UNCHANGED <<budget, mode>>, answered' \subseteq Events, written' \subseteq Events,
             entitlement' \in [last : Events \cup {NoEvent}, used : Nat, period : 0 .. MaxMonths],
             admitted' \in [0 .. MaxMonths -> Nat], time' \in 0 .. 2 * MaxMonths, raced' \in BOOLEAN,
             failures' \in Nat, crashes' \in Nat
      PROVE  TypeOK'
  BY <1>a DEF TypeOK, RequestType, Busy
<1>u. ASSUME request' \in [Requests -> RequestType], \A p \in Requests : Busy(request'[p]),
             row' \in [Events -> {"none", "pending", "applied", "ignored"}],
             lock' \in [Events -> Nodes \cup {NoNode}],
             leaked' \in [Nodes -> Nat],
             UNCHANGED <<budget, mode, usageVars>>, answered' \subseteq Events, written' \subseteq Events,
             failures' \in Nat, crashes' \in Nat
      PROVE  TypeOK'
  BY <1>u DEF TypeOK, RequestType, Busy
<1>1. CASE UNCHANGED vars
  BY <1>1 DEF vars, TypeOK
<1>2. ASSUME NEW q \in Requests, NEW n \in Nodes, NEW e \in Events, Deliver(q, n, e) PROVE TypeOK'
  <2>1. request' \in [Requests -> RequestType] /\ \A p \in Requests : Busy(request'[p])
    <3> DEFINE new == [Idle EXCEPT !.pc = "claim", !.node = n, !.event = e]
    <3>1. new \in RequestType /\ Busy(new)
      BY IdleType DEF RequestType, PCs, Busy
    <3>2. request' = [request EXCEPT ![q] = new]
      BY <1>2 DEF Deliver
    <3> HIDE DEF new
    <3> QED BY <1>0, <3>1, <3>2
  <2> QED BY <1>2, <1>a, <2>1 DEF Deliver, TypeOK
<1>3. ASSUME NEW q \in Requests, LedgerClaim(q) PROVE TypeOK'
  <2>1. request[q].pc # "idle" /\ request[q].event \in Events
    BY <1>0, <1>3 DEF LedgerClaim, Busy
  <2>2. CASE Goto(q, "match") /\ row' = [row EXCEPT ![request[q].event] = "pending"] /\ answered' = answered
    BY <1>0, <1>3, <1>a, <2>1, <2>2, GotoType DEF LedgerClaim, PCs, TypeOK
  <2>3. CASE Answer200(q) /\ row' = row
    BY <1>0, <1>3, <1>a, <2>1, <2>3, EndType DEF LedgerClaim, Answer200, TypeOK
  <2> QED BY <1>3, <2>2, <2>3 DEF LedgerClaim
<1>4. ASSUME NEW q \in Requests, Connect(q) PROVE TypeOK'
  BY <1>4, <1>a, GotoType DEF Connect, PCs, TypeOK
<1>5. ASSUME NEW q \in Requests, Lock(q) PROVE TypeOK'
  <2>1. request[q].pc # "idle" /\ request[q].event \in Events /\ request[q].node \in Nodes
    BY <1>0, <1>5 DEF Lock, Busy
  <2> QED BY <1>5, <1>a, <2>1, GotoType DEF Lock, PCs, TypeOK
<1>6. ASSUME NEW q \in Requests, Examine(q) PROVE TypeOK'
  <2>1. request[q].pc # "idle" /\ request[q].event \in Events
    BY <1>0, <1>6 DEF Examine, Busy
  <2>2. CASE Goto(q, "match") /\ row' = [row EXCEPT ![request[q].event] = "pending"] /\ answered' = answered
                /\ UNCHANGED lock
    BY <1>0, <1>6, <1>a, <2>1, <2>2, GotoType DEF Examine, PCs, TypeOK
  <2>3. CASE Answer200(q) /\ row' = row /\ Unlock(request[q].event)
    BY <1>0, <1>6, <1>a, <2>1, <2>3, EndType DEF Examine, Answer200, Unlock, TypeOK
  <2> QED BY <1>6, <2>2, <2>3 DEF Examine, KeepLease
<1>7. ASSUME NEW q \in Requests, Match(q) PROVE TypeOK'
  BY <1>7, <1>a, GotoType DEF Match, AfterMatch, PCs, TypeOK
<1>8. ASSUME NEW q \in Requests, ReadEntitlement(q) PROVE TypeOK'
  <2>1. PICK m \in Months :
           request' = [request EXCEPT ![q].pc = "write", ![q].used = UsageIn(m), ![q].period = m]
    BY <1>8 DEF ReadEntitlement
  <2>2. request[q].pc = "read" /\ UsageIn(m) \in Nat /\ m \in 0 .. MaxMonths
    BY <1>8, MonthType DEF ReadEntitlement, UsageIn, TypeOK
  <2>3. request' \in [Requests -> RequestType]
    <3> DEFINE moved == [request[q] EXCEPT !.pc = "write", !.used = UsageIn(m), !.period = m]
    <3>1. request[q] \in RequestType
      BY <1>0
    <3>2. moved \in RequestType
      BY <2>2, <3>1 DEF RequestType, PCs
    <3>3. request' = [request EXCEPT ![q] = moved]
      BY <1>0, <2>1, <3>1 DEF RequestType
    <3> HIDE DEF moved
    <3> QED BY <1>0, <3>2, <3>3
  <2>4. \A p \in Requests : Busy(request'[p])
    <3>1. request[q].node \in Nodes /\ request[q].event \in Events
      BY <1>0, <2>2 DEF Busy
    <3>2. /\ \A p \in Requests \ {q} : request'[p] = request[p]
          /\ request'[q].node = request[q].node /\ request'[q].event = request[q].event
      BY <1>0, <2>1 DEF RequestType
    <3> QED BY <1>0, <3>1, <3>2 DEF Busy
  <2> QED BY <1>8, <1>a, <2>3, <2>4 DEF ReadEntitlement, TypeOK
<1>9. ASSUME NEW q \in Requests, WriteEntitlement(q) PROVE TypeOK'
  <2>1. /\ request[q].pc # "idle" /\ request[q].event \in Events
        /\ request[q].used \in Nat /\ request[q].period \in 0 .. MaxMonths
    BY <1>0, <1>9 DEF WriteEntitlement, Busy, RequestType
  <2> QED BY <1>9, <1>a, <2>1, GotoType DEF WriteEntitlement, PCs, TypeOK
<1>10. ASSUME NEW q \in Requests, Finalize(q) PROVE TypeOK'
  <2>1. request[q].pc # "idle" /\ request[q].event \in Events
    BY <1>0, <1>10 DEF Finalize, Finalizing, Busy
  <2>2. CASE Goto(q, "audit") /\ answered' = answered
    BY <1>0, <1>10, <1>a, <2>1, <2>2, GotoType DEF Finalize, Outcome, PCs, TypeOK
  <2>3. CASE Answer200(q)
    BY <1>0, <1>10, <1>a, <2>1, <2>3, EndType DEF Finalize, Outcome, Answer200, TypeOK
  <2> QED BY <1>10, <2>2, <2>3 DEF Finalize
<1>17. ASSUME NEW q \in Requests, FinalizeLost(q) PROVE TypeOK'
  BY <1>17, <1>a, EndType DEF FinalizeLost, TypeOK
<1>11. ASSUME NEW q \in Requests, Audit(q) PROVE TypeOK'
  <2>1. request[q].pc # "idle" /\ request[q].event \in Events
    BY <1>0, <1>11 DEF Audit, Busy
  <2> QED BY <1>11, <1>a, <2>1, EndType DEF Audit, Answer200, TypeOK
<1>12. ASSUME NEW q \in Requests, Fail(q) PROVE TypeOK'
  <2>0. request[q].node \in Nodes
    BY <1>0, <1>12 DEF Fail, Finalizing, Busy
  <2>1. leaked' \in [Nodes -> Nat]
    BY <1>0, <1>12, <2>0 DEF Fail, Leak
  <2>2. /\ failures' \in Nat /\ UNCHANGED <<budget, mode, usageVars, row, lock, answered, written, crashes>>
        /\ End(q)
    BY <1>0, <1>12 DEF Fail
  <2> QED BY <1>0, <1>u, <2>1, <2>2, EndType
<1>13. ASSUME NEW q \in Requests, FailFinalize(q) PROVE TypeOK'
  <2>1. row' \in [Events -> {"none", "pending", "applied", "ignored"}] /\ lock' \in [Events -> Nodes \cup {NoNode}]
    BY <1>0, <1>13 DEF FailFinalize, Outcome, Unlock
  <2>2. failures' \in Nat /\ UNCHANGED <<budget, mode, usageVars, leaked, answered, written, crashes>> /\ End(q)
    BY <1>0, <1>13 DEF FailFinalize
  <2> QED BY <1>0, <1>u, <2>1, <2>2, EndType
<1>16. ASSUME NEW q \in Requests, FailClaim(q) PROVE TypeOK'
  <2>1. LeftByClaim(q) \subseteq {"none", "pending", "applied", "ignored"}
    BY <1>0, <1>16 DEF FailClaim, LeftByClaim, Busy
  <2>2. row' \in [Events -> {"none", "pending", "applied", "ignored"}] /\ lock' \in [Events -> Nodes \cup {NoNode}]
    BY <1>0, <1>16, <2>1 DEF FailClaim, Unlock
  <2>3. failures' \in Nat /\ UNCHANGED <<budget, mode, usageVars, leaked, answered, written, crashes>> /\ End(q)
    BY <1>0, <1>16 DEF FailClaim
  <2> QED BY <1>0, <1>u, <2>2, <2>3, EndType
<1>14. ASSUME NEW n \in Nodes, Crash(n) PROVE TypeOK'
  <2>1. request' \in [Requests -> RequestType] /\ \A p \in Requests : Busy(request'[p])
    BY <1>0, <1>14, IdleType DEF Crash
  <2>2. /\ lock' \in [Events -> Nodes \cup {NoNode}] /\ leaked' \in [Nodes -> Nat]
        /\ crashes' \in Nat /\ UNCHANGED <<budget, mode, usageVars, row, answered, written, failures>>
    BY <1>0, <1>14 DEF Crash
  <2> QED BY <1>0, <1>u, <2>1, <2>2
<1>18. ASSUME NEW e \in Events, LoseSession(e) PROVE TypeOK'
  <2>1. request' \in [Requests -> RequestType] /\ \A p \in Requests : Busy(request'[p])
    <3>1. \A p \in Requests : request'[p] \in {request[p], [request[p] EXCEPT !.lost = TRUE]}
      BY <1>18 DEF LoseSession
    <3>2. \A p \in Requests : request'[p] \in RequestType /\ Busy(request'[p])
      BY <1>0, <3>1, LostType
    <3>3. request' = [p \in Requests |-> request'[p]]
      BY <1>18 DEF LoseSession
    <3> QED BY <3>2, <3>3
  <2>2. lock[e] \in Nodes
    BY <1>0, <1>18 DEF LoseSession
  <2>3. leaked' \in [Nodes -> Nat]
    BY <1>0, <1>18, <2>2 DEF LoseSession, Leak
  <2>4. /\ lock' \in [Events -> Nodes \cup {NoNode}]
        /\ crashes' \in Nat /\ UNCHANGED <<budget, mode, usageVars, row, answered, written, failures>>
    BY <1>0, <1>18 DEF LoseSession, Unlock
  <2> QED BY <1>0, <1>u, <2>1, <2>3, <2>4
<1>15. CASE Admit
  <2>1. PICK m \in Months : /\ entitlement' = [entitlement EXCEPT !.used = UsageIn(m) + 1, !.period = m]
                             /\ admitted' = [admitted EXCEPT ![m] = @ + 1]
    BY <1>15 DEF Admit
  <2>2. UsageIn(m) \in Nat /\ m \in 0 .. MaxMonths
    BY MonthType DEF UsageIn, TypeOK
  <2>3. raced' \in BOOLEAN
    BY <1>15 DEF Admit
  <2>4. /\ entitlement \in [last : Events \cup {NoEvent}, used : Nat, period : 0 .. MaxMonths]
        /\ admitted \in [0 .. MaxMonths -> Nat]
        /\ time \in 0 .. 2 * MaxMonths
    BY DEF TypeOK
  <2>5. entitlement' \in [last : Events \cup {NoEvent}, used : Nat, period : 0 .. MaxMonths]
    <3>1. entitlement' = [last |-> entitlement.last, used |-> UsageIn(m) + 1, period |-> m]
      BY <2>1, <2>4
    <3> QED BY <2>2, <2>4, <3>1
  <2>6. admitted' \in [0 .. MaxMonths -> Nat]
    BY <2>1, <2>2, <2>4
  <2>7. UNCHANGED <<claimVars, request, answered, written, time, failures, crashes>>
    BY <1>15 DEF Admit
  <2> QED BY <1>0, <1>a, <2>3, <2>4, <2>5, <2>6, <2>7
<1>19. CASE Tick
  <2>1. budget.months \in 0 .. MaxMonths
    BY DEF TypeOK
  <2>2. time' \in 0 .. 2 * MaxMonths
    BY <1>19, <2>1 DEF Tick, TypeOK
  <2> QED BY <1>19, <1>0, <1>a, <2>2 DEF Tick, TypeOK
<1> QED
  BY <1>1, <1>2, <1>3, <1>4, <1>5, <1>6, <1>7, <1>8, <1>9, <1>10, <1>11, <1>12, <1>13, <1>14, <1>15, <1>16, <1>17, <1>18, <1>19
  DEF Next, ClaimStep, HandlerStep

\* The initial states are well-typed.
LEMMA InitType == Init => TypeOK
<1> SUFFICES ASSUME Init PROVE TypeOK
  OBVIOUS
<1> USE WebhookAssumption
<1>1. request \in [Requests -> RequestType] /\ \A q \in Requests : Busy(request[q])
  BY IdleType DEF Init
<1>2. raced \in BOOLEAN
  BY DEF Init
<1>3. /\ mode \in {"ledger", "controlPlane"} /\ budget \in Budgets
      /\ row \in [Events -> {"none", "pending", "applied", "ignored"}]
      /\ lock \in [Events -> Nodes \cup {NoNode}] /\ leaked \in [Nodes -> Nat]
      /\ answered \subseteq Events /\ written \subseteq Events
  BY DEF Init
<1>4. /\ entitlement \in [last : Events \cup {NoEvent}, used : Nat, period : 0 .. MaxMonths]
      /\ admitted \in [0 .. MaxMonths -> Nat] /\ time \in 0 .. 2 * MaxMonths
      /\ failures \in Nat /\ crashes \in Nat
  BY DEF Init
<1> QED BY <1>1, <1>2, <1>3, <1>4 DEF TypeOK, RequestType, Busy

\* Rows, locks, requests and counters have their types.
THEOREM WebhookTypeCorrect == Spec => []TypeOK
<1>1. Init => TypeOK
  BY InitType
<1> QED BY <1>1, TypeOKStep, PTL DEF Spec

-----------------------------------------------------------------------------
\* Who has an event: a request that holds it is alone, in the control-plane mode it
\* has the event's lock, and while it is processed its row is pending.  A request that
\* has lost its session holds nothing.
ClaimInv ==
    /\ \A q \in Requests : request[q].pc \in {"lock", "examine"} \/ request[q].lost => mode = "controlPlane"
    /\ \A q \in Requests : request[q].lost => Processing(q)
    /\ \A e \in Events : lock[e] # NoNode => mode = "controlPlane"
    /\ \A q \in Requests : Processing(q) /\ ~ request[q].lost => row[request[q].event] = "pending"
    /\ \A q \in Requests :
          Holding(q) /\ mode = "controlPlane" => lock[request[q].event] = request[q].node
    /\ \A q, p \in Requests :
          Holding(q) /\ Holding(p) /\ request[q].event = request[p].event => q = p

\* What a claim's row says is true: the handler writes before it finalizes, finalizes
\* before it answers, and nothing reopens an outcome.
OutcomeInv ==
    /\ \A q \in Requests : request[q].pc = "apply" => request[q].event \in written
    /\ \A q \in Requests : request[q].pc = "audit" => Settled(request[q].event)
    /\ AppliedWasWritten
    /\ AnsweredIsSettled

\* Every step keeps the claim invariant.
LEMMA ClaimInvStep ==
    ASSUME TypeOK, ClaimInv, [Next]_vars
    PROVE  ClaimInv'
<1> USE WebhookAssumption DEF ClaimInv, Processing, Holding, claimVars
<1>0. /\ row \in [Events -> {"none", "pending", "applied", "ignored"}]
      /\ lock \in [Events -> Nodes \cup {NoNode}]
      /\ request \in [Requests -> RequestType]
      /\ \A p \in Requests : Busy(request[p])
      /\ mode \in {"ledger", "controlPlane"}
  BY DEF TypeOK, RequestType, Busy
\* A step of one request that neither takes nor gives back a claim.
<1>a. ASSUME NEW q \in Requests, UNCHANGED <<mode, row, lock>>,
             \A p \in Requests \ {q} : request'[p] = request[p],
             \/ request'[q].pc \in {"idle", "claim", "lock", "audit"} /\ ~ request'[q].lost
                /\ (request'[q].pc = "lock" => mode = "controlPlane")
             \/ /\ Processing(q) /\ Processing(q)'
                /\ request'[q].event = request[q].event /\ request'[q].node = request[q].node
                /\ request'[q].lost = request[q].lost
      PROVE  ClaimInv'
  BY <1>a
<1>1. CASE UNCHANGED vars
  BY <1>1 DEF vars
<1>2. ASSUME NEW q \in Requests, NEW n \in Nodes, NEW e \in Events, Deliver(q, n, e) PROVE ClaimInv'
  <2>1. /\ request'[q].pc = "claim" /\ ~ request'[q].lost
        /\ \A p \in Requests \ {q} : request'[p] = request[p]
        /\ UNCHANGED <<row, lock, mode>>
    BY <1>0, <1>2 DEF Deliver, Idle
  <2> QED BY <2>1, <1>a
<1>3. ASSUME NEW q \in Requests, LedgerClaim(q) PROVE ClaimInv'
  <2>1. /\ request[q].pc = "claim" /\ request[q].event \in Events /\ mode = "ledger" /\ UNCHANGED <<mode, lock>>
        /\ ~ request[q].lost
    BY <1>0, <1>3 DEF LedgerClaim, Busy
  <2>2. CASE Goto(q, "match") /\ row[request[q].event] = "none"
                /\ row' = [row EXCEPT ![request[q].event] = "pending"]
    <3>1. /\ request'[q].pc = "match" /\ request'[q].event = request[q].event
          /\ request'[q].lost = request[q].lost
          /\ \A p \in Requests \ {q} : request'[p] = request[p]
      BY <2>1, <2>2, GotoType DEF PCs
    <3>2. \A p \in Requests : Holding(p) => request[p].event # request[q].event
      BY <2>1, <2>2
    <3>3. \A p \in Requests \ {q} : Holding(p) => row'[request[p].event] = row[request[p].event]
      BY <1>0, <2>2, <3>2 DEF Busy
    <3>4. row'[request[q].event] = "pending"
      BY <1>0, <2>1, <2>2
    <3> QED BY <2>1, <3>1, <3>2, <3>3, <3>4
  <2>3. CASE End(q) /\ row' = row
    BY <2>1, <2>3, <1>a, EndType, IdleType
  <2> QED BY <1>3, <2>2, <2>3 DEF LedgerClaim, Answer200
<1>4. ASSUME NEW q \in Requests, Connect(q) PROVE ClaimInv'
  <2>1. /\ request[q].pc = "claim" /\ request'[q].pc = "lock" /\ mode = "controlPlane"
        /\ request'[q].lost = request[q].lost
        /\ \A p \in Requests \ {q} : request'[p] = request[p]
        /\ UNCHANGED <<mode, row, lock>>
    BY <1>4, GotoType DEF Connect, PCs
  <2> QED BY <2>1, <1>a
<1>5. ASSUME NEW q \in Requests, Lock(q) PROVE ClaimInv'
  <2>1. /\ request[q].pc = "lock" /\ request[q].event \in Events /\ request[q].node \in Nodes
        /\ mode = "controlPlane" /\ ~ request[q].lost
        /\ lock[request[q].event] = NoNode
        /\ lock' = [lock EXCEPT ![request[q].event] = request[q].node]
        /\ UNCHANGED <<mode, row>>
    BY <1>0, <1>5 DEF Lock, LockFree, Busy
  <2>2. /\ request'[q].pc = "examine" /\ request'[q].event = request[q].event
        /\ request'[q].node = request[q].node /\ request'[q].lost = request[q].lost
        /\ \A p \in Requests \ {q} : request'[p] = request[p]
    BY <1>5, GotoType DEF Lock, PCs
  <2>3. \A p \in Requests : Holding(p) => request[p].event # request[q].event /\ request[p].event \in Events
    BY <1>0, <2>1 DEF Busy
  <2>4. /\ lock'[request[q].event] = request[q].node
        /\ \A p \in Requests : Holding(p) => lock'[request[p].event] = lock[request[p].event]
    BY <1>0, <2>1, <2>3
  <2> QED BY <2>1, <2>2, <2>3, <2>4
<1>6. ASSUME NEW q \in Requests, Examine(q) PROVE ClaimInv'
  <2>1. /\ request[q].pc = "examine" /\ request[q].event \in Events /\ mode = "controlPlane" /\ UNCHANGED mode
        /\ ~ request[q].lost
    BY <1>0, <1>6 DEF Examine, Busy
  <2>2. \A p \in Requests \ {q} : Holding(p) => request[p].event # request[q].event /\ request[p].event \in Events
    BY <1>0, <2>1 DEF Busy
  <2>3. CASE Goto(q, "match") /\ row' = [row EXCEPT ![request[q].event] = "pending"] /\ lock' = lock
    <3>1. /\ request'[q].pc = "match" /\ request'[q].event = request[q].event
          /\ request'[q].node = request[q].node /\ request'[q].lost = request[q].lost
          /\ \A p \in Requests \ {q} : request'[p] = request[p]
      BY <2>1, <2>3, GotoType DEF PCs
    <3>2. /\ row'[request[q].event] = "pending"
          /\ \A p \in Requests \ {q} : Holding(p) => row'[request[p].event] = row[request[p].event]
      BY <1>0, <2>1, <2>2, <2>3
    <3> QED BY <2>1, <2>2, <2>3, <3>1, <3>2
  <2>4. CASE End(q) /\ row' = row /\ lock' = [lock EXCEPT ![request[q].event] = NoNode]
    <3>1. \A p \in Requests \ {q} : Holding(p) => lock'[request[p].event] = lock[request[p].event]
      BY <1>0, <2>1, <2>2, <2>4
    <3> QED BY <2>1, <2>2, <2>4, <3>1, EndType, IdleType
  <2> QED BY <1>6, <2>3, <2>4 DEF Examine, Answer200, Unlock, KeepLease
<1>7. ASSUME NEW q \in Requests, Match(q) PROVE ClaimInv'
  <2>1. /\ request[q].pc = "match" /\ request'[q].pc \in {"read", "ignore"}
        /\ request'[q].event = request[q].event /\ request'[q].node = request[q].node
        /\ request'[q].lost = request[q].lost
        /\ \A p \in Requests \ {q} : request'[p] = request[p]
        /\ UNCHANGED <<mode, row, lock>>
    BY <1>7, GotoType DEF Match, AfterMatch, PCs
  <2> QED BY <2>1, <1>a
<1>8. ASSUME NEW q \in Requests, ReadEntitlement(q) PROVE ClaimInv'
  <2>1. /\ request[q].pc = "read" /\ request'[q].pc = "write"
        /\ request'[q].event = request[q].event /\ request'[q].node = request[q].node
        /\ request'[q].lost = request[q].lost
        /\ \A p \in Requests \ {q} : request'[p] = request[p]
        /\ UNCHANGED <<mode, row, lock>>
    BY <1>0, <1>8 DEF ReadEntitlement, RequestType
  <2> QED BY <2>1, <1>a
<1>9. ASSUME NEW q \in Requests, WriteEntitlement(q) PROVE ClaimInv'
  <2>1. /\ request[q].pc = "write" /\ request'[q].pc = "apply"
        /\ request'[q].event = request[q].event /\ request'[q].node = request[q].node
        /\ request'[q].lost = request[q].lost
        /\ \A p \in Requests \ {q} : request'[p] = request[p]
        /\ UNCHANGED <<mode, row, lock>>
    BY <1>9, GotoType DEF WriteEntitlement, PCs
  <2> QED BY <2>1, <1>a
<1>10. ASSUME NEW q \in Requests, Finalize(q) \/ FailFinalize(q) PROVE ClaimInv'
  <2>1. /\ request[q].pc \in {"apply", "ignore"} /\ request[q].event \in Events /\ UNCHANGED mode
        /\ ~ request[q].lost
    BY <1>0, <1>10 DEF Finalize, FailFinalize, Finalizing, Busy
  <2>2. \A p \in Requests \ {q} : Holding(p) => request[p].event # request[q].event /\ request[p].event \in Events
    BY <1>0, <2>1 DEF Busy
  <2>3. /\ request'[q].pc \in {"audit", "idle"} /\ ~ request'[q].lost
        /\ \A p \in Requests \ {q} : request'[p] = request[p]
    BY <1>10, <2>1, GotoType, EndType, IdleType DEF Finalize, FailFinalize, Answer200, PCs
  <2>4. lock' = [lock EXCEPT ![request[q].event] = NoNode]
        /\ \E o \in {"none", "pending", "applied", "ignored"} : row' = [row EXCEPT ![request[q].event] = o]
    BY <1>10 DEF Finalize, FailFinalize, Unlock, Outcome
  <2>5. \A p \in Requests \ {q} : Holding(p) => /\ lock'[request[p].event] = lock[request[p].event]
                                                 /\ row'[request[p].event] = row[request[p].event]
    BY <1>0, <2>2, <2>4
  <2>6. \A e \in Events : lock'[e] # NoNode => lock[e] # NoNode
    BY <1>0, <2>4
  <2> QED BY <2>1, <2>2, <2>3, <2>5, <2>6
<1>11. ASSUME NEW q \in Requests, Audit(q) \/ Fail(q) \/ FinalizeLost(q) PROVE ClaimInv'
  <2>1. /\ request'[q] = Idle
        /\ \A p \in Requests \ {q} : request'[p] = request[p]
        /\ UNCHANGED <<mode, row, lock>>
    BY <1>11, EndType DEF Audit, Fail, FinalizeLost, Answer200
  <2> QED BY <2>1, <1>a, IdleType
<1>14. ASSUME NEW q \in Requests, FailClaim(q) PROVE ClaimInv'
  <2>1. /\ request[q].pc \in {"claim", "lock", "examine"} /\ request[q].event \in Events /\ UNCHANGED mode
        /\ ~ request[q].lost
        /\ request'[q] = Idle
        /\ \A p \in Requests \ {q} : request'[p] = request[p]
    BY <1>0, <1>14, EndType DEF FailClaim, Busy
  <2>2. \A p \in Requests \ {q} : Holding(p) => request[p].event \in Events
    BY <1>0 DEF Busy
  <2>3. ASSUME NEW p \in Requests \ {q}, Holding(p)
        PROVE  mode = "controlPlane" => lock'[request[p].event] = lock[request[p].event]
    <3>1. CASE request[p].event = request[q].event
      <4>1. request[q].pc # "examine"
        BY <2>1, <2>3, <3>1
      <4> QED BY <1>14, <4>1 DEF FailClaim
    <3>2. CASE request[p].event # request[q].event
      BY <1>0, <1>14, <2>1, <2>2, <2>3, <3>2 DEF FailClaim, Unlock
    <3> QED BY <3>1, <3>2
  <2>4. ASSUME NEW p \in Requests \ {q}, Processing(p), ~ request[p].lost
        PROVE  row'[request[p].event] = row[request[p].event]
    <3>1. CASE request[p].event = request[q].event
      <4>1. request[q].pc # "examine" /\ row[request[q].event] = "pending"
        BY <2>1, <2>4, <3>1
      <4>2. LeftByClaim(q) = {row[request[q].event]}
        BY <4>1 DEF LeftByClaim
      <4> QED BY <1>0, <1>14, <2>1, <3>1, <4>2 DEF FailClaim
    <3>2. CASE request[p].event # request[q].event
      BY <1>0, <1>14, <2>1, <2>2, <2>4, <3>2 DEF FailClaim
    <3> QED BY <3>1, <3>2
  <2>5. \A e \in Events : lock'[e] # NoNode => lock[e] # NoNode
    BY <1>0, <1>14 DEF FailClaim, Unlock
  <2> QED BY <2>1, <2>3, <2>4, <2>5, IdleType
<1>12. ASSUME NEW n \in Nodes, Crash(n) PROVE ClaimInv'
  <2>1. /\ \A p \in Requests : request'[p] = IF request[p].node = n THEN Idle ELSE request[p]
        /\ \A e \in Events : lock'[e] = IF lock[e] = n THEN NoNode ELSE lock[e]
        /\ UNCHANGED <<mode, row>>
    BY <1>0, <1>12 DEF Crash
  <2>2. \A p \in Requests : Holding(p)' => request'[p] = request[p] /\ Holding(p) /\ request[p].node # n
                                           /\ request[p].event \in Events
    BY <1>0, <2>1, IdleType DEF Busy
  <2>3. \A p \in Requests : request'[p].pc \in {"lock", "examine"} \/ request'[p].lost => request'[p] = request[p]
    BY <2>1, IdleType
  <2> QED BY <2>1, <2>2, <2>3
<1>15. ASSUME NEW e \in Events, LoseSession(e) PROVE ClaimInv'
  <2> DEFINE holders == {q \in Requests : Holding(q) /\ request[q].event = e}
  <2>1. /\ lock[e] # NoNode /\ mode = "controlPlane"
        /\ \A q \in holders : Processing(q)
        /\ lock' = [lock EXCEPT ![e] = NoNode]
        /\ UNCHANGED <<mode, row>>
    BY <1>15 DEF LoseSession, Unlock
  <2>2. \A p \in Requests : request'[p] = IF p \in holders THEN [request[p] EXCEPT !.lost = TRUE] ELSE request[p]
    BY <1>15 DEF LoseSession
  <2>3. ASSUME NEW p \in Requests
        PROVE  /\ request'[p].pc = request[p].pc /\ request'[p].event = request[p].event
               /\ request'[p].node = request[p].node
               /\ p \in holders => request'[p].lost /\ Processing(p)
               /\ p \notin holders => request'[p] = request[p]
    <3>1. request[p] \in RequestType /\ Busy(request[p])
      BY <1>0
    <3>2. CASE p \in holders
      <4>1. request'[p] = [request[p] EXCEPT !.lost = TRUE]
        BY <2>2, <3>2
      <4>2. /\ request'[p].pc = request[p].pc /\ request'[p].event = request[p].event
            /\ request'[p].node = request[p].node /\ request'[p].lost = TRUE
        BY <3>1, <4>1, LostType
      <4> QED BY <2>1, <3>2, <4>2
    <3>3. CASE p \notin holders
      BY <2>2, <3>3
    <3> QED BY <3>2, <3>3
  <2> HIDE DEF holders
  <2>4. \A p \in Requests : Holding(p)' => p \notin holders /\ Holding(p)
    BY <2>3
  <2>5. \A p \in Requests : Holding(p)' => request[p].event # e /\ request[p].event \in Events
    BY <1>0, <2>3, <2>4 DEF holders, Busy
  <2>6. \A p \in Requests : Holding(p)' => lock'[request[p].event] = lock[request[p].event]
    BY <1>0, <2>1, <2>5
  <2>7. \A p \in Requests : request'[p].lost => Processing(p)'
    BY <2>3
  <2>8. \A p \in Requests : Processing(p)' /\ ~ request'[p].lost => Processing(p) /\ request'[p] = request[p]
    BY <2>3
  <2> QED BY <2>1, <2>3, <2>4, <2>6, <2>7, <2>8
<1>13. CASE Admit \/ Tick
  BY <1>13 DEF Admit, Tick
<1> QED
  BY <1>1, <1>2, <1>3, <1>4, <1>5, <1>6, <1>7, <1>8, <1>9, <1>10, <1>11, <1>12, <1>13, <1>14, <1>15
  DEF Next, ClaimStep, HandlerStep

\* A dedupe row never leaves its final outcome, and in the ledger mode no row is ever
\* taken away: the row a step changes is that of an event its request claims or
\* processes.
LEMMA RowStep ==
    ASSUME TypeOK, ClaimInv, [Next]_vars, NEW e \in Events
    PROVE  /\ Settled(e) => row'[e] = row[e]
           /\ mode = "ledger" /\ row[e] # "none" => row'[e] # "none"
           /\ mode' = mode
<1> USE WebhookAssumption DEF Settled, claimVars
<1>0. /\ row \in [Events -> {"none", "pending", "applied", "ignored"}]
      /\ \A p \in Requests : Busy(request[p])
  BY DEF TypeOK, Busy
<1> DEFINE Good == /\ Settled(e) => row'[e] = row[e]
                   /\ mode = "ledger" /\ row[e] # "none" => row'[e] # "none"
                   /\ mode' = mode
<1>1. CASE row' = row /\ mode' = mode
  BY <1>1
<1>2. ASSUME NEW q \in Requests, LedgerClaim(q) PROVE Good
  BY <1>0, <1>2 DEF LedgerClaim, Busy
<1>3. ASSUME NEW q \in Requests, Examine(q) PROVE Good
  <2>1. mode = "controlPlane"
    BY <1>3 DEF Examine, ClaimInv
  <2> QED BY <1>0, <1>3, <2>1 DEF Examine, KnownOutcomes, Busy
<1>4. ASSUME NEW q \in Requests, Finalize(q) PROVE Good
  <2>1. row[request[q].event] = "pending" /\ request[q].event \in Events
    BY <1>0, <1>4 DEF Finalize, Finalizing, ClaimInv, Processing, Busy
  <2> QED BY <1>0, <1>4, <2>1 DEF Finalize, Outcome
<1>5. ASSUME NEW q \in Requests, FailFinalize(q) PROVE Good
  <2>1. row[request[q].event] = "pending" /\ request[q].event \in Events /\ mode = "controlPlane"
    BY <1>0, <1>5 DEF FailFinalize, Finalizing, ClaimInv, Processing, Busy
  <2> QED BY <1>0, <1>5, <2>1 DEF FailFinalize, Outcome
<1>8. ASSUME NEW q \in Requests, FailClaim(q) PROVE Good
  <2>1. request[q].event \in Events /\ request[q].pc \in {"claim", "lock", "examine"}
    BY <1>0, <1>8 DEF FailClaim, Busy
  <2>2. request[q].pc = "examine" => mode = "controlPlane"
    BY DEF ClaimInv
  <2>3. ASSUME Settled(request[q].event) \/ (mode = "ledger" /\ row[request[q].event] # "none")
        PROVE  LeftByClaim(q) = {row[request[q].event]}
    BY <2>2, <2>3 DEF LeftByClaim
  <2> QED BY <1>0, <1>8, <2>1, <2>3 DEF FailClaim
<1>6. ASSUME NEW q \in Requests, (\E n \in Nodes, f \in Events : Deliver(q, n, f)) \/ Connect(q) \/ Lock(q)
             \/ Match(q) \/ ReadEntitlement(q) \/ WriteEntitlement(q) \/ FinalizeLost(q) \/ Audit(q) \/ Fail(q)
      PROVE  row' = row /\ mode' = mode
  BY <1>6 DEF Deliver, Connect, Lock, Match, ReadEntitlement, WriteEntitlement, FinalizeLost, Audit, Fail
<1>7. ASSUME \/ \E n \in Nodes : Crash(n)
             \/ \E f \in Events : LoseSession(f)
             \/ Admit \/ Tick \/ UNCHANGED vars
      PROVE  row' = row /\ mode' = mode
  BY <1>7 DEF Crash, LoseSession, Admit, Tick, vars
<1> QED
  BY <1>1, <1>2, <1>3, <1>4, <1>5, <1>6, <1>7, <1>8 DEF Next, ClaimStep, HandlerStep

\* Every step keeps the outcome invariant.
LEMMA OutcomeInvStep ==
    ASSUME TypeOK, TypeOK', ClaimInv, ClaimInv', OutcomeInv, [Next]_vars
    PROVE  OutcomeInv'
<1> USE WebhookAssumption DEF Settled, claimVars, usageVars, effectVars
<1>0. /\ row \in [Events -> {"none", "pending", "applied", "ignored"}]
      /\ row' \in [Events -> {"none", "pending", "applied", "ignored"}]
      /\ request \in [Requests -> RequestType]
      /\ \A p \in Requests : Busy(request[p]) /\ Busy(request'[p])
      /\ answered \subseteq Events
      /\ mode \in {"ledger", "controlPlane"}
  BY DEF TypeOK, RequestType, Busy
<1>r. \A e \in Events : /\ Settled(e) => row'[e] = row[e]
                        /\ mode = "ledger" /\ row[e] # "none" => row'[e] # "none"
                        /\ mode' = mode
  BY RowStep
<1> DEFINE FinalizeGood(q) == request'[q].pc = "apply" => request'[q].event \in written'
           AuditGood(q) == request'[q].pc = "audit" => row'[request'[q].event] \in {"applied", "ignored"}
           AppliedGood(e) == row'[e] = "applied" => row[e] = "applied" \/ e \in written'
           AnsweredGood(e) == e \in answered' => e \in answered \/ (row'[e] # "none" /\ (mode = "controlPlane" => row'[e] \in {"applied", "ignored"}))
\* It is enough that a changed request, a new outcome and a new answer are good.
<1>a. ASSUME written \subseteq written',
             \A q \in Requests : request'[q] # request[q] => FinalizeGood(q) /\ AuditGood(q),
             \A e \in Events : AppliedGood(e) /\ AnsweredGood(e)
      PROVE  OutcomeInv'
  <2>1. \A q \in Requests : FinalizeGood(q) /\ AuditGood(q)
    BY <1>0, <1>r, <1>a DEF OutcomeInv, Busy
  <2>2. AppliedWasWritten'
    BY <1>a DEF AppliedWasWritten, OutcomeInv
  <2>3. answered' \subseteq Events
    BY DEF TypeOK
  <2>4. AnsweredIsSettled'
    BY <1>0, <1>r, <1>a, <2>3 DEF AnsweredIsSettled, OutcomeInv
  <2> QED BY <2>1, <2>2, <2>4 DEF OutcomeInv
<1>1. CASE UNCHANGED vars
  BY <1>1, <1>a DEF vars
<1>2. ASSUME NEW q \in Requests, NEW n \in Nodes, NEW e \in Events, Deliver(q, n, e) PROVE OutcomeInv'
  <2>1. /\ request'[q].pc = "claim"
        /\ \A p \in Requests \ {q} : request'[p] = request[p]
        /\ UNCHANGED <<row, written, answered>>
    BY <1>0, <1>2 DEF Deliver
  <2> QED BY <2>1, <1>a
<1>3. ASSUME NEW q \in Requests, LedgerClaim(q) PROVE OutcomeInv'
  <2>1. /\ request[q].pc = "claim" /\ request[q].event \in Events /\ mode = "ledger"
        /\ UNCHANGED written
    BY <1>0, <1>3 DEF LedgerClaim, Busy
  <2>2. CASE Goto(q, "match") /\ row' = [row EXCEPT ![request[q].event] = "pending"] /\ answered' = answered
    <3>1. request'[q].pc = "match" /\ \A p \in Requests \ {q} : request'[p] = request[p]
      BY <2>1, <2>2, GotoType DEF PCs
    <3> QED BY <1>0, <2>1, <2>2, <3>1, <1>a
  <2>3. CASE Answer200(q) /\ row' = row /\ row[request[q].event] # "none"
    <3>1. request'[q].pc = "idle" /\ \A p \in Requests \ {q} : request'[p] = request[p]
      BY <2>1, <2>3, EndType, IdleType DEF Answer200
    <3>2. answered' = answered \cup {request[q].event}
      BY <2>3 DEF Answer200
    <3> QED BY <1>0, <2>1, <2>3, <3>1, <3>2, <1>a
  <2> QED BY <1>3, <2>2, <2>3 DEF LedgerClaim
<1>4. ASSUME NEW q \in Requests, Connect(q) PROVE OutcomeInv'
  <2>1. /\ request'[q].pc = "lock"
        /\ \A p \in Requests \ {q} : request'[p] = request[p]
        /\ UNCHANGED <<row, written, answered>>
    BY <1>4, GotoType DEF Connect, PCs
  <2> QED BY <2>1, <1>a
<1>5. ASSUME NEW q \in Requests, Lock(q) PROVE OutcomeInv'
  <2>1. /\ request'[q].pc = "examine"
        /\ \A p \in Requests \ {q} : request'[p] = request[p]
        /\ UNCHANGED <<row, written, answered>>
    BY <1>5, GotoType DEF Lock, PCs
  <2> QED BY <2>1, <1>a
<1>6. ASSUME NEW q \in Requests, Examine(q) PROVE OutcomeInv'
  <2>1. request[q].pc = "examine" /\ request[q].event \in Events /\ UNCHANGED written
    BY <1>0, <1>6 DEF Examine, Busy
  <2>2. CASE Goto(q, "match") /\ row' = [row EXCEPT ![request[q].event] = "pending"] /\ answered' = answered
    <3>1. request'[q].pc = "match" /\ \A p \in Requests \ {q} : request'[p] = request[p]
      BY <2>1, <2>2, GotoType DEF PCs
    <3> QED BY <1>0, <2>1, <2>2, <3>1, <1>a
  <2>3. CASE Answer200(q) /\ row' = row /\ row[request[q].event] \in KnownOutcomes
    <3>1. request'[q].pc = "idle" /\ \A p \in Requests \ {q} : request'[p] = request[p]
      BY <2>1, <2>3, EndType, IdleType DEF Answer200
    <3>2. answered' = answered \cup {request[q].event} /\ Settled(request[q].event)
      BY <2>3 DEF Answer200, KnownOutcomes
    <3> QED BY <1>0, <2>1, <2>3, <3>1, <3>2, <1>a
  <2> QED BY <1>6, <2>2, <2>3 DEF Examine
<1>7. ASSUME NEW q \in Requests, Match(q) PROVE OutcomeInv'
  <2>1. /\ request'[q].pc \in AfterMatch
        /\ \A p \in Requests \ {q} : request'[p] = request[p]
        /\ UNCHANGED <<row, written, answered>>
    BY <1>7, GotoType DEF Match, AfterMatch, PCs
  <2>2. FinalizeGood(q) /\ AuditGood(q)
    BY <2>1 DEF AfterMatch
  <2> QED BY <2>1, <2>2, <1>a
<1>8. ASSUME NEW q \in Requests, ReadEntitlement(q) PROVE OutcomeInv'
  <2>1. /\ request'[q].pc = "write"
        /\ \A p \in Requests \ {q} : request'[p] = request[p]
        /\ UNCHANGED <<row, written, answered>>
    BY <1>0, <1>8 DEF ReadEntitlement, RequestType
  <2> QED BY <2>1, <1>a
<1>9. ASSUME NEW q \in Requests, WriteEntitlement(q) PROVE OutcomeInv'
  <2>1. /\ request'[q].pc = "apply" /\ request'[q].event = request[q].event
        /\ \A p \in Requests \ {q} : request'[p] = request[p]
        /\ written' = written \cup {request[q].event}
        /\ UNCHANGED <<row, answered>>
    BY <1>9, GotoType DEF WriteEntitlement, PCs
  <2> QED BY <2>1, <1>a
<1>10. ASSUME NEW q \in Requests, Finalize(q) PROVE OutcomeInv'
  <2>1. /\ request[q].pc \in {"apply", "ignore"} /\ request[q].event \in Events
        /\ row' = [row EXCEPT ![request[q].event] = Outcome(q)]
        /\ UNCHANGED written
    BY <1>0, <1>10 DEF Finalize, Finalizing, Busy
  <2>2. \A e \in Events : row'[e] = "applied" => row[e] = "applied" \/ e \in written'
    BY <1>0, <2>1 DEF Outcome, OutcomeInv
  <2>3. row'[request[q].event] \in {"applied", "ignored"}
    BY <1>0, <2>1 DEF Outcome
  <2>4. CASE Goto(q, "audit") /\ answered' = answered
    <3>1. /\ request'[q].pc = "audit" /\ request'[q].event = request[q].event
          /\ \A p \in Requests \ {q} : request'[p] = request[p]
      BY <2>1, <2>4, GotoType DEF PCs
    <3>2. AuditGood(q)
      BY <2>3, <3>1
    <3> QED BY <2>1, <2>2, <2>4, <3>1, <3>2, <1>a
  <2>5. CASE Answer200(q)
    <3>1. /\ request'[q].pc = "idle" /\ \A p \in Requests \ {q} : request'[p] = request[p]
          /\ answered' = answered \cup {request[q].event}
      BY <2>1, <2>5, EndType, IdleType DEF Answer200
    <3>2. \A e \in Events : AnsweredGood(e)
      BY <2>3, <3>1
    <3> QED BY <2>1, <2>2, <3>1, <3>2, <1>a
  <2> QED BY <1>10, <2>4, <2>5 DEF Finalize
<1>11. ASSUME NEW q \in Requests, Audit(q) PROVE OutcomeInv'
  <2>1. request[q].pc = "audit" /\ UNCHANGED <<row, written>> /\ request[q].event \in Events
    BY <1>0, <1>11 DEF Audit, Busy
  <2>2. /\ request'[q].pc = "idle" /\ \A p \in Requests \ {q} : request'[p] = request[p]
        /\ answered' = answered \cup {request[q].event}
    BY <1>11, EndType, IdleType DEF Audit, Answer200
  <2>3. row'[request[q].event] \in {"applied", "ignored"} /\ row'[request[q].event] # "none"
    BY <2>1 DEF OutcomeInv
  <2>4. \A e \in Events : AnsweredGood(e)
    BY <2>2, <2>3
  <2> QED BY <2>1, <2>2, <2>4, <1>a
<1>12. ASSUME NEW q \in Requests, Fail(q) \/ FinalizeLost(q) PROVE OutcomeInv'
  <2>1. /\ request'[q].pc = "idle"
        /\ \A p \in Requests \ {q} : request'[p] = request[p]
        /\ UNCHANGED <<row, written, answered>>
    BY <1>12, EndType, IdleType DEF Fail, FinalizeLost
  <2> QED BY <2>1, <1>a
<1>13. ASSUME NEW q \in Requests, FailFinalize(q) PROVE OutcomeInv'
  <2>1. /\ request'[q].pc = "idle"
        /\ \A p \in Requests \ {q} : request'[p] = request[p]
        /\ UNCHANGED <<written, answered>>
    BY <1>13, EndType, IdleType DEF FailFinalize
  <2>2. Outcome(q) = "applied" => request[q].event \in written
    BY DEF Outcome, OutcomeInv
  <2>3. \A e \in Events : row'[e] = "applied" => row[e] = "applied" \/ e \in written
    BY <1>0, <1>13, <2>2 DEF FailFinalize
  <2> QED BY <2>1, <2>3, <1>a
<1>16. ASSUME NEW q \in Requests, FailClaim(q) PROVE OutcomeInv'
  <2>1. /\ request'[q].pc = "idle"
        /\ \A p \in Requests \ {q} : request'[p] = request[p]
        /\ UNCHANGED <<written, answered>>
    BY <1>16, EndType, IdleType DEF FailClaim
  <2>2. \A e \in Events : row'[e] = "applied" => row[e] = "applied"
    BY <1>0, <1>16 DEF FailClaim, LeftByClaim
  <2> QED BY <2>1, <2>2, <1>a
<1>14. ASSUME NEW n \in Nodes, Crash(n) PROVE OutcomeInv'
  <2>1. /\ \A p \in Requests : request'[p] # request[p] => request'[p].pc = "idle"
        /\ UNCHANGED <<row, written, answered>>
    BY <1>0, <1>14, IdleType DEF Crash
  <2> QED BY <2>1, <1>a
<1>17. ASSUME NEW e \in Events, LoseSession(e) PROVE OutcomeInv'
  <2>1. \A p \in Requests : request'[p].pc = request[p].pc /\ request'[p].event = request[p].event
    BY <1>0, <1>17 DEF LoseSession, RequestType
  <2>2. UNCHANGED <<row, written, answered>>
    BY <1>17 DEF LoseSession
  <2>3. \A p \in Requests : FinalizeGood(p) /\ AuditGood(p)
    BY <2>1, <2>2 DEF OutcomeInv
  <2> QED BY <2>2, <2>3, <1>a
<1>15. CASE Admit \/ Tick
  BY <1>15, <1>a DEF Admit, Tick
<1> QED
  BY <1>1, <1>2, <1>3, <1>4, <1>5, <1>6, <1>7, <1>8, <1>9, <1>10, <1>11, <1>12, <1>13, <1>14, <1>15, <1>16, <1>17
  DEF Next, ClaimStep, HandlerStep

-----------------------------------------------------------------------------
\* The claim and outcome invariants hold in every reachable state.
LEMMA WebhookInv == Spec => [](TypeOK /\ ClaimInv /\ OutcomeInv)
<1>1. Init => TypeOK /\ ClaimInv /\ OutcomeInv
  <2> SUFFICES ASSUME Init PROVE TypeOK /\ ClaimInv /\ OutcomeInv
    OBVIOUS
  <2>1. TypeOK
    BY InitType
  <2>2. \A q \in Requests : request[q].pc = "idle"
    BY IdleType DEF Init
  <2>3. ClaimInv
    BY <2>2, IdleType DEF Init, ClaimInv, Processing, Holding
  <2>4. OutcomeInv
    BY <2>2 DEF Init, OutcomeInv, AppliedWasWritten, AnsweredIsSettled
  <2> QED BY <2>1, <2>3, <2>4
<1>2. TypeOK /\ ClaimInv /\ OutcomeInv /\ [Next]_vars => (TypeOK /\ ClaimInv /\ OutcomeInv)'
  BY TypeOKStep, ClaimInvStep, OutcomeInvStep
<1> QED BY <1>1, <1>2, PTL DEF Spec

\* No two requests process the same event at the same time (the row of the ledger, the
\* advisory lock of the control plane), for any nodes, requests, failures and crashes,
\* those aside that have lost their session.
THEOREM WebhookClaimExclusive == Spec => []ClaimExclusive
<1>1. ClaimInv => ClaimExclusive
  BY DEF ClaimInv, ClaimExclusive, Holding
<1> QED BY <1>1, WebhookInv, PTL

\* An event recorded as applied has been applied.
THEOREM WebhookAppliedWasWritten == Spec => []AppliedWasWritten
<1>1. OutcomeInv => AppliedWasWritten
  BY DEF OutcomeInv
<1> QED BY <1>1, WebhookInv, PTL

\* An event answered 200 is finalized in the control-plane mode, and has its row in
\* the ledger mode.
THEOREM WebhookAnsweredIsSettled == Spec => []AnsweredIsSettled
<1>1. OutcomeInv => AnsweredIsSettled
  BY DEF OutcomeInv
<1> QED BY <1>1, WebhookInv, PTL

\* No step reopens a finalized event or changes its outcome.
THEOREM WebhookOutcomeFinal == Spec => OutcomeFinal
<1>1. TypeOK /\ ClaimInv /\ [Next]_vars => [\A e \in Events : Settled(e) => row'[e] = row[e]]_vars
  BY RowStep
<1> QED BY <1>1, WebhookInv, PTL DEF Spec, OutcomeFinal

-----------------------------------------------------------------------------
\* A webhook writes back a usage it has read, and usage only grows by admissions: what
\* a request at its write carries, and what the record says, is no more than was
\* admitted, and passes the hard-stop quota only after another tier.
Backed(used, period) ==
    /\ used <= admitted[period]
    /\ used > Quota => ~ (written \subseteq HardStop)

\* Usage of month m in a record of this month and this usage.
InMonth(used, period, m) == IF period = m THEN used ELSE 0

\* As long as no admission overlapped a webhook or the turn of a month, the record and
\* what every request at its write carries agree with the admissions of the month, and
\* no month is counted ahead of its time.
Exact ==
    /\ \A m \in 0 .. MaxMonths : m > Month => admitted[m] = 0
    /\ ~ Turning =>
          /\ InMonth(entitlement.used, entitlement.period, Month) = admitted[Month]
          /\ \A q \in Requests : request[q].pc = "write" =>
                InMonth(request[q].used, request[q].period, Month) = admitted[Month]

UsageInv ==
    /\ entitlement.last # NoEvent => entitlement.last \in written
    /\ Backed(entitlement.used, entitlement.period)
    /\ \A q \in Requests : request[q].pc = "write" => Backed(request[q].used, request[q].period)
    /\ ~ raced => Exact

\* Every step keeps the usage invariant.
LEMMA UsageInvStep ==
    ASSUME TypeOK, TypeOK', UsageInv, [Next]_vars
    PROVE  UsageInv'
<1> USE WebhookAssumption DEF claimVars, usageVars, effectVars
<1>0. /\ request \in [Requests -> RequestType]
      /\ entitlement \in [last : Events \cup {NoEvent}, used : Nat, period : 0 .. MaxMonths]
      /\ admitted \in [0 .. MaxMonths -> Nat]
  BY DEF TypeOK, RequestType
<1>c. Month \in Nat /\ Month <= MaxMonths
  BY MonthType
<1>b. raced \in BOOLEAN
  BY DEF TypeOK
\* A step that leaves the usage alone and brings no request to its write.
<1>a. ASSUME UNCHANGED <<usageVars, written>>,
             \A q \in Requests : request'[q].pc = "write" => request'[q] = request[q]
      PROVE  UsageInv'
  <2>1. Month' = Month /\ Turning' = Turning
    BY <1>a DEF Month, Turning
  <2>2. Exact => Exact'
    BY <1>a, <2>1 DEF Exact
  <2> QED BY <1>a, <2>2 DEF UsageInv, Backed
<1>1. ASSUME NEW q \in Requests, NEW n \in Nodes, NEW e \in Events, Deliver(q, n, e) PROVE UsageInv'
  <2>1. request'[q].pc = "claim" /\ \A p \in Requests \ {q} : request'[p] = request[p]
    BY <1>0, <1>c, <1>1 DEF Deliver
  <2> QED BY <1>1, <1>a, <2>1 DEF Deliver
<1>2. ASSUME NEW q \in Requests, NEW pc \in PCs \ {"write"}, Goto(q, pc), request[q].pc # "idle",
             UNCHANGED <<usageVars, written>>
      PROVE  UsageInv'
  BY <1>2, <1>a, GotoType
<1>3. ASSUME NEW q \in Requests, End(q), UNCHANGED <<usageVars, written>> PROVE UsageInv'
  BY <1>3, <1>a, EndType, IdleType
<1>4. ASSUME NEW q \in Requests, ClaimStep(q) PROVE UsageInv'
  <2>1. request[q].pc # "idle" /\ UNCHANGED <<usageVars, written>>
    BY <1>4 DEF ClaimStep, LedgerClaim, Connect, Lock, Examine
  <2>2. End(q) \/ \E pc \in PCs \ {"write"} : Goto(q, pc)
    BY <1>4 DEF ClaimStep, LedgerClaim, Connect, Lock, Examine, Answer200, PCs
  <2> QED BY <1>2, <1>3, <2>1, <2>2
<1>5. ASSUME NEW q \in Requests,
             \/ Match(q) \/ Finalize(q) \/ FinalizeLost(q) \/ Audit(q)
             \/ Fail(q) \/ FailFinalize(q) \/ FailClaim(q)
      PROVE  UsageInv'
  <2>1. request[q].pc # "idle" /\ UNCHANGED <<usageVars, written>>
    BY <1>5 DEF Match, Finalize, FinalizeLost, Finalizing, Audit, Fail, FailFinalize, FailClaim
  <2>2. End(q) \/ \E pc \in PCs \ {"write"} : Goto(q, pc)
    BY <1>5 DEF Match, Finalize, FinalizeLost, Audit, Fail, FailFinalize, FailClaim, AfterMatch, Answer200, PCs
  <2> QED BY <1>2, <1>3, <2>1, <2>2
<1>6. ASSUME NEW q \in Requests, ReadEntitlement(q) PROVE UsageInv'
  <2>1. PICK m \in Months :
           request' = [request EXCEPT ![q].pc = "write", ![q].used = UsageIn(m), ![q].period = m]
    BY <1>6 DEF ReadEntitlement
  <2>2. /\ request'[q].used = InMonth(entitlement.used, entitlement.period, m) /\ request'[q].period = m
        /\ \A p \in Requests \ {q} : request'[p] = request[p]
        /\ UNCHANGED <<usageVars, written>>
    BY <1>0, <1>c, <1>6, <2>1 DEF ReadEntitlement, RequestType, UsageIn, InMonth
  <2>3. m \in 0 .. MaxMonths /\ (~ Turning => m = Month)
    BY MonthType
  <2>4. Backed(request'[q].used, request'[q].period)
    BY <1>0, <1>c, <2>2, <2>3 DEF UsageInv, Backed, InMonth
  <2>5. \A p \in Requests : request'[p].pc = "write" => Backed(request'[p].used, request'[p].period)
    BY <2>2, <2>4 DEF UsageInv
  <2>6. Exact => Exact'
    <3>1. Month' = Month /\ Turning' = Turning
      BY <2>2 DEF Month, Turning
    <3> QED BY <1>0, <1>c, <2>2, <2>3, <3>1 DEF Exact, InMonth
  <2> QED BY <2>2, <2>5, <2>6 DEF UsageInv, Backed
<1>7. ASSUME NEW q \in Requests, WriteEntitlement(q) PROVE UsageInv'
  <2>1. /\ request[q].pc = "write"
        /\ entitlement' = [last |-> request[q].event, used |-> request[q].used, period |-> request[q].period]
        /\ written' = written \cup {request[q].event}
        /\ UNCHANGED <<admitted, time, raced>>
    BY <1>7 DEF WriteEntitlement
  <2>2. request'[q].pc = "apply" /\ \A p \in Requests \ {q} : request'[p] = request[p]
    BY <1>7, GotoType DEF WriteEntitlement, PCs
  <2>3. \A used, period : Backed(used, period) => Backed(used, period)'
    BY <2>1 DEF Backed
  <2>4. Exact => Exact'
    <3>1. Month' = Month /\ Turning' = Turning
      BY <2>1 DEF Month, Turning
    <3>2. entitlement'.used = request[q].used /\ entitlement'.period = request[q].period
      BY <2>1
    <3> QED BY <2>1, <2>2, <3>1, <3>2 DEF Exact
  <2> QED BY <2>1, <2>2, <2>3, <2>4 DEF UsageInv, Backed
<1>8. ASSUME NEW n \in Nodes, Crash(n) PROVE UsageInv'
  <2>1. \A p \in Requests : request'[p].pc = "write" => request'[p] = request[p]
    BY <1>0, <1>c, <1>8, IdleType DEF Crash
  <2> QED BY <1>8, <2>1, <1>a DEF Crash
<1>11. ASSUME NEW e \in Events, LoseSession(e) PROVE UsageInv'
  <2>1. \A p \in Requests : /\ request'[p].pc = request[p].pc
                            /\ request'[p].used = request[p].used
                            /\ request'[p].period = request[p].period
    BY <1>0, <1>c, <1>11 DEF LoseSession, RequestType
  <2>2. UNCHANGED <<usageVars, written>>
    BY <1>11 DEF LoseSession
  <2>3. Month' = Month /\ Turning' = Turning
    BY <2>2 DEF Month, Turning
  <2>4. Exact => Exact'
    BY <2>1, <2>2, <2>3 DEF Exact
  <2> QED BY <2>1, <2>2, <2>4 DEF UsageInv, Backed
<1>9. CASE Admit
  <2>1. PICK m \in Months : /\ WithinQuota(UsageIn(m))
                            /\ entitlement' = [entitlement EXCEPT !.used = UsageIn(m) + 1, !.period = m]
                            /\ admitted' = [admitted EXCEPT ![m] = @ + 1]
    BY <1>9 DEF Admit
  <2>2. /\ m \in 0 .. MaxMonths /\ (~ Turning => m = Month)
        /\ entitlement.last # NoEvent /\ UNCHANGED <<request, written, time>>
    BY <1>9, MonthType DEF Admit
  <2>3. /\ entitlement'.used = UsageIn(m) + 1 /\ entitlement'.period = m /\ entitlement'.last = entitlement.last
        /\ UsageIn(m) \in Nat /\ UsageIn(m) <= admitted[m]
        /\ admitted'[m] = admitted[m] + 1
        /\ \A k \in 0 .. MaxMonths \ {m} : admitted'[k] = admitted[k]
    BY <1>0, <1>c, <2>1, <2>2 DEF UsageIn, UsageInv, Backed
  <2>4. ~ raced' => ~ raced /\ ~ Turning /\ \A q \in Requests : request[q].pc # "write"
    BY <1>9, <1>b DEF Admit
  <2>5. UsageIn(m) + 1 > Quota => ~ (written \subseteq HardStop)
    <3>1. entitlement.last \in written
      BY <2>2 DEF UsageInv
    <3>2. UsageIn(m) + 1 > Quota => entitlement.last \notin HardStop
      BY <2>1, <2>3 DEF WithinQuota
    <3> QED BY <3>1, <3>2
  <2>6. Backed(entitlement.used, entitlement.period)'
    BY <2>2, <2>3, <2>5, <1>0 DEF Backed
  <2>7. ASSUME NEW q \in Requests, request'[q].pc = "write" PROVE Backed(request[q].used, request[q].period)'
    <3>1. request[q].period \in 0 .. MaxMonths /\ request[q].used \in Nat
      BY <1>0 DEF RequestType
    <3>2. admitted[request[q].period] <= admitted'[request[q].period]
      <4>1. CASE request[q].period = m
        BY <1>0, <2>2, <2>3, <4>1
      <4>2. CASE request[q].period # m
        BY <1>0, <2>3, <3>1, <4>2
      <4> QED BY <4>1, <4>2
    <3>3. Backed(request[q].used, request[q].period)
      BY <2>2, <2>7 DEF UsageInv
    <3>4. admitted[request[q].period] \in Nat /\ admitted'[request[q].period] \in Nat
      BY <1>0, <1>c, <3>1 DEF TypeOK
    <3> QED BY <2>2, <3>1, <3>2, <3>3, <3>4 DEF Backed
  <2>8. ~ raced' => Exact'
    <3> SUFFICES ASSUME ~ raced' PROVE Exact'
      OBVIOUS
    <3>1. /\ m = Month /\ \A q \in Requests : request'[q].pc # "write"
          /\ InMonth(entitlement.used, entitlement.period, m) = admitted[m]
          /\ \A k \in 0 .. MaxMonths : k > Month => admitted[k] = 0
      BY <2>2, <2>4 DEF UsageInv, Exact
    <3>2. InMonth(entitlement'.used, entitlement'.period, m) = admitted'[m]
      BY <2>3, <3>1 DEF InMonth, UsageIn
    <3>0. Month' = Month
      BY <2>2 DEF Month
    <3>3. \A k \in 0 .. MaxMonths : k > Month' => admitted'[k] = 0
      BY <1>0, <1>c, <2>2, <2>3, <3>0, <3>1
    <3> QED BY <2>2, <3>0, <3>1, <3>2, <3>3 DEF Exact
  <2>9. entitlement'.last # NoEvent => entitlement'.last \in written'
    BY <2>2, <2>3 DEF UsageInv
  <2> QED BY <2>2, <2>6, <2>7, <2>8, <2>9 DEF UsageInv
<1>12. CASE Tick
  <2>1. /\ time' = time + 1 /\ UNCHANGED <<request, entitlement, admitted, written>>
    BY <1>12 DEF Tick
  <2>2. UNCHANGED raced
    BY <1>12 DEF Tick
  <2>3. ~ raced => Exact'
    <3> SUFFICES ASSUME ~ raced PROVE Exact'
      OBVIOUS
    <3>1. Exact
      BY DEF UsageInv
    <3>3. CASE ~ Turning
      <4>1. Turning' /\ Month' = Month
        BY <1>12, <3>3, MonthStep
      <4> QED BY <2>1, <3>1, <4>1 DEF Exact
    <3>4. CASE Turning
      <4>1. Month' = Month + 1
        BY <1>12, <3>4, MonthStep
      <4>2. /\ admitted[Month'] = 0
            /\ \A k \in 0 .. MaxMonths : k > Month' => admitted[k] = 0
        <5>1. Month' \in 0 .. MaxMonths
          BY <1>c, <3>4, <4>1, MonthType
        <5> QED BY <1>c, <3>1, <4>1, <5>1 DEF Exact
      <4>3. ASSUME NEW used \in Nat, NEW period \in 0 .. MaxMonths, Backed(used, period)
            PROVE  InMonth(used, period, Month') = 0
        BY <4>2, <4>3 DEF Backed, InMonth
      <4>4. InMonth(entitlement.used, entitlement.period, Month') = 0
        BY <1>0, <1>c, <4>3 DEF UsageInv
      <4>5. \A q \in Requests : request[q].pc = "write" =>
               InMonth(request[q].used, request[q].period, Month') = 0
        BY <1>0, <1>c, <4>3 DEF UsageInv, RequestType
      <4> QED BY <2>1, <4>2, <4>4, <4>5 DEF Exact
    <3> QED BY <3>3, <3>4
  <2> QED BY <2>1, <2>2, <2>3 DEF UsageInv, Backed
<1>10. CASE UNCHANGED vars
  BY <1>10, <1>a DEF vars
<1> QED
  BY <1>1, <1>4, <1>5, <1>6, <1>7, <1>8, <1>9, <1>10, <1>11, <1>12 DEF Next, HandlerStep

\* The usage on record is never more than the admissions counted, is the month's count
\* as long as no admission overlapped a webhook or the turn of a month, and passes the
\* hard-stop quota only after an event with another tier, although webhooks change the
\* tier and write back usage that they read without a lock.
THEOREM WebhookUsageSound == Spec => []UsageSound
<1>1. Init => UsageInv
  <2> SUFFICES ASSUME Init PROVE UsageInv
    OBVIOUS
  <2>1. \A q \in Requests : request[q].pc = "idle"
    BY IdleType DEF Init
  <2>2. entitlement.used = 0 /\ entitlement.period = 0 /\ entitlement.last = NoEvent
    BY DEF Init
  <2>3. Month = 0 /\ \A m \in 0 .. MaxMonths : admitted[m] = 0
    BY DEF Init, Month
  <2> QED BY <2>1, <2>2, <2>3, WebhookAssumption DEF UsageInv, Backed, Exact, InMonth
<1>2. TypeOK /\ UsageInv => UsageSound
  <2>1. raced \/ ~ raced
    OBVIOUS
  <2> QED BY <2>1 DEF UsageInv, Backed, Exact, InMonth, UsageSound, UsageIn
<1>3. TypeOK /\ TypeOK' /\ UsageInv /\ [Next]_vars => UsageInv'
  BY UsageInvStep
<1> QED BY <1>1, <1>2, <1>3, WebhookTypeCorrect, PTL DEF Spec
=============================================================================
