--------------------------- MODULE StripeWebhooks ---------------------------
(***************************************************************************)
(* Stripe webhook ingestion: the claim on a provider event                 *)
(* (stripe-webhook-service.ts), the event's processing                     *)
(* (stripe-webhook-billing-processor.ts and the workflow processor), and   *)
(* the entitlement record it shares with admissions                        *)
(* (hosted-billing-state.ts).  Claims live either in the billing event     *)
(* ledger, as a `pending` row and nothing else, or in the control plane,   *)
(* as a `pending` row and a session-level advisory lock whose connection   *)
(* the claim keeps out of the node's pool; the lock goes with the session, *)
(* even when the handler does not notice.  Stripe, which is external,      *)
(* redelivers an event until it is answered 200, to any node.              *)
(*                                                                         *)
(* All events concern one workflow of one account, and an event id always  *)
(* comes with the same payload, so that the payload-conflict answer, which *)
(* changes nothing, is left out.  The entitlement is kept in the shared    *)
(* control plane under both kinds of claim; the tier on record is that of  *)
(* the last event written to it, and usage is counted by month.            *)
(***************************************************************************)
EXTENDS Integers, FiniteSets

CONSTANTS
    Nodes,          \* server processes
    Requests,       \* webhook requests in progress at a time
    Events,         \* provider events
    HardStop,       \* events that bring the hard-stop tier; the others bring a tier
                    \* with soft overage
    Modes,          \* where claims are kept: "ledger", "controlPlane"
    NoNode,         \* the event's advisory lock is free
    NoEvent,        \* no event, or no entitlement yet
    PoolSize,       \* connections of a node's control-plane pool
    Quota,          \* monthly admissions of the hard-stop tier
    MaxMonths,      \* bound on months that pass
    Budgets         \* bounds of a behaviour on months, on admissions in a month, on
                    \* processing failures and on node crashes and lost sessions

ASSUME WebhookAssumption ==
    /\ NoNode \notin Nodes
    /\ NoEvent \notin Events
    /\ HardStop \subseteq Events
    /\ Modes \subseteq {"ledger", "controlPlane"}
    /\ PoolSize \in Nat
    /\ Quota \in Nat
    /\ MaxMonths \in Nat
    /\ Budgets \subseteq [months : 0 .. MaxMonths, admissions : Nat, failures : Nat, crashes : Nat]

VARIABLES
    budget,         \* the bounds of this behaviour
    mode,           \* where claims are kept
    row,            \* row[e]: the dedupe row's outcome, "none" without a row
    lock,           \* lock[e]: the node whose session holds the advisory lock
    leaked,         \* leaked[n]: connections of n that no claim gives back any more
    request,        \* request[q]: a webhook request
    answered,       \* events Stripe got a 200 for
    entitlement,    \* the workflow's entitlement record
    written,        \* events whose effect was written at least once
    admitted,       \* admitted[m]: admissions counted in month m
    time,           \* half months: in the odd ones the month is turning
    raced,          \* history: an admission overlapped a webhook or the turn of a month
    failures,       \* processing failures so far
    crashes         \* node crashes and lost sessions so far

claimVars == <<budget, mode, row, lock, leaked>>
usageVars == <<entitlement, admitted, time, raced>>
effectVars == <<usageVars, written>>
vars == <<claimVars, request, answered, effectVars, failures, crashes>>

Idle == [pc |-> "idle", node |-> NoNode, event |-> NoEvent, used |-> 0, period |-> 0, lost |-> FALSE]

Init ==
    /\ budget \in Budgets
    /\ mode \in Modes
    /\ row = [e \in Events |-> "none"]
    /\ lock = [e \in Events |-> NoNode]
    /\ leaked = [n \in Nodes |-> 0]
    /\ request = [q \in Requests |-> Idle]
    /\ answered = {}
    /\ entitlement = [last |-> NoEvent, used |-> 0, period |-> 0]
    /\ written = {}
    /\ admitted = [m \in 0 .. MaxMonths |-> 0]
    /\ time = 0
    /\ raced = FALSE
    /\ failures = 0
    /\ crashes = 0

\* A request that has claimed its event and not yet finalized it.
Processing(q) == request[q].pc \in {"match", "read", "write", "apply", "ignore"}

\* It has the event's lock, or, in the ledger mode, the event's row.
Holding(q) == (Processing(q) \/ request[q].pc = "examine") /\ ~ request[q].lost

Settled(e) == row[e] \in {"applied", "ignored"}

-----------------------------------------------------------------------------
\* Requests and answers

Goto(q, pc) == request' = [request EXCEPT ![q].pc = pc]

End(q) == request' = [request EXCEPT ![q] = Idle]

Answer200(q) == End(q) /\ answered' = answered \cup {request[q].event}

\* External: Stripe delivers an event, again if it likes, to some node.
Deliver(q, n, e) ==
    /\ request[q] = Idle
    /\ request' = [request EXCEPT ![q] = [Idle EXCEPT !.pc = "claim", !.node = n, !.event = e]]
    /\ UNCHANGED <<claimVars, answered, effectVars, failures, crashes>>

\* Connections a node has lent for good: one per lock it holds, one per request
\* that waits for a lock or has lost its session, and those it leaked.
Lent(n) ==
    Cardinality({e \in Events : lock[e] = n})
    + Cardinality({q \in Requests : request[q].node = n /\ (request[q].pc = "lock" \/ request[q].lost)})
    + leaked[n]

\* pool.connect and pool.query wait, without a timeout, until a connection is free.
Connectable(q) == Lent(request[q].node) < PoolSize

-----------------------------------------------------------------------------
\* claimStripeBillingEvent: INSERT ... ON CONFLICT DO NOTHING decides; any row that is
\* already there, a pending one too, is a duplicate.  Ledger rows are never deleted
\* (see Fail), so reading it back always finds it.
LedgerClaim(q) ==
    LET e == request[q].event IN
    /\ mode = "ledger"
    /\ request[q].pc = "claim"
    /\ \/ /\ row[e] = "none"
          /\ row' = [row EXCEPT ![e] = "pending"]
          /\ Goto(q, "match")
          /\ UNCHANGED answered
       \/ /\ row[e] # "none"
          /\ Answer200(q)
          /\ UNCHANGED row
    /\ UNCHANGED <<budget, mode, lock, leaked, effectVars, failures, crashes>>

\* claimProcessedStripeWebhookState: take a connection out of the pool ...
Connect(q) ==
    /\ mode = "controlPlane"
    /\ request[q].pc = "claim"
    /\ Connectable(q)
    /\ Goto(q, "lock")
    /\ UNCHANGED <<claimVars, answered, effectVars, failures, crashes>>

LockFree(e) == lock[e] = NoNode

\* ... wait for the event's advisory lock ...
Lock(q) ==
    LET e == request[q].event IN
    /\ request[q].pc = "lock"
    /\ LockFree(e)
    /\ lock' = [lock EXCEPT ![e] = request[q].node]
    /\ Goto(q, "examine")
    /\ UNCHANGED <<budget, mode, row, leaked, answered, effectVars, failures, crashes>>

Unlock(e) == lock' = [lock EXCEPT ![e] = NoNode]

\* Mutant: a pending row is a duplicate, as it is in the ledger.
KnownOutcomes_Pending == {"applied", "ignored", "pending"}

\* Mutant: an applied event is processed again.
KnownOutcomes_IgnoredOnly == {"ignored"}

\* Outcomes that make a delivery a duplicate.
KnownOutcomes == {"applied", "ignored"}

\* Mutant: the connection goes back to the pool with every outcome of the claim.
KeepLease_Forgotten(e) == Unlock(e)

\* keepLease: a claim keeps its connection, and with it the lock.
KeepLease(e) == UNCHANGED lock

\* ... and look at the row: a finalized one is a duplicate, a pending one was left
\* behind by a holder that is gone and is replaced.
Examine(q) ==
    LET e == request[q].event IN
    /\ request[q].pc = "examine"
    /\ \/ /\ row[e] \in KnownOutcomes
          /\ Unlock(e)
          /\ Answer200(q)
          /\ UNCHANGED row
       \/ /\ row[e] \notin KnownOutcomes
          /\ row' = [row EXCEPT ![e] = "pending"]
          /\ Goto(q, "match")
          /\ KeepLease(e)
          /\ UNCHANGED answered
    /\ UNCHANGED <<budget, mode, leaked, effectVars, failures, crashes>>

\* What a claim that fails leaves of the row: the ledger's INSERT, or the control
\* plane's DELETE and INSERT under the lock, may or may not have taken effect.
LeftByClaim(q) ==
    LET e == request[q].event
        touched == \/ mode = "ledger" /\ row[e] = "none"
                   \/ request[q].pc = "examine" /\ ~ Settled(e)
    IN  {row[e]} \cup (IF touched THEN {"none", "pending"} ELSE {})

\* A call of the claim fails and the request is answered 500; a control-plane claim
\* gives back its connection and with it the lock.
FailClaim(q) ==
    LET e == request[q].event IN
    /\ request[q].pc \in {"claim", "lock", "examine"}
    /\ failures < budget.failures
    /\ failures' = failures + 1
    /\ \E o \in LeftByClaim(q) : row' = [row EXCEPT ![e] = o]
    /\ IF request[q].pc = "examine" THEN Unlock(e) ELSE UNCHANGED lock
    /\ End(q)
    /\ UNCHANGED <<budget, mode, leaked, answered, effectVars, crashes>>

-----------------------------------------------------------------------------
\* process: the event's handler

\* Mutant: the event is finalized before its effect is written.
AfterMatch_Apply == {"apply", "ignore"}

\* workflowAccountForMetadata finds the account, or, as it does not exist (yet), the
\* event is only finalized, as ignored.
AfterMatch == {"read", "ignore"}

Match(q) ==
    /\ request[q].pc = "match"
    /\ Connectable(q)
    /\ \E next \in AfterMatch : Goto(q, next)
    /\ UNCHANGED <<claimVars, answered, effectVars, failures, crashes>>

\* The current month; one half month on it may be the next one.
Month == time \div 2
Turning == time % 2 = 1

\* What the clocks of the nodes may take for the current month.
Months == {Month} \cup (IF Turning THEN {Month + 1} ELSE {})

\* The record's usage for month m; a record of another month has none.
UsageIn(m) == IF entitlement.period = m THEN entitlement.used ELSE 0

\* upsertWorkflowEntitlementFromStripeState reads the record and projects the new one,
\* which keeps this month's usage ...
ReadEntitlement(q) ==
    /\ request[q].pc = "read"
    /\ Connectable(q)
    /\ \E m \in Months :
          request' = [request EXCEPT ![q].pc = "write", ![q].used = UsageIn(m), ![q].period = m]
    /\ UNCHANGED <<claimVars, answered, effectVars, failures, crashes>>

\* ... and writes it: the event's tier and status, and the usage it read.
WriteEntitlement(q) ==
    LET e == request[q].event IN
    /\ request[q].pc = "write"
    /\ Connectable(q)
    /\ entitlement' = [last |-> e, used |-> request[q].used, period |-> request[q].period]
    /\ written' = written \cup {e}
    /\ Goto(q, "apply")
    /\ UNCHANGED <<claimVars, answered, admitted, time, raced, failures, crashes>>

\* A request that finalizes its event, and with which outcome.
Finalizing(q) == request[q].pc \in {"apply", "ignore"}
Outcome(q) == IF request[q].pc = "apply" THEN "applied" ELSE "ignored"

\* finalizeStripeBillingEvent, or finalizeProcessedStripeWebhookState on the claim's
\* own connection, which then lets go of the lock.
Finalize(q) ==
    LET e == request[q].event IN
    /\ Finalizing(q)
    /\ ~ request[q].lost
    /\ row' = [row EXCEPT ![e] = Outcome(q)]
    /\ lock' = [lock EXCEPT ![e] = NoNode]
    /\ IF request[q].pc = "apply" THEN Goto(q, "audit") /\ UNCHANGED answered ELSE Answer200(q)
    /\ UNCHANGED <<budget, mode, leaked, effectVars, failures, crashes>>

\* On a connection that is gone every call of finalize fails, the clean-up too: the
\* row and the lock, which may be another request's by now, stay as they are.
FinalizeLost(q) ==
    /\ Finalizing(q)
    /\ request[q].lost
    /\ End(q)
    /\ UNCHANGED <<claimVars, answered, effectVars, failures, crashes>>

\* appendAdminAuditRecordState, of which only the call counts here, and the answer.
Audit(q) ==
    /\ request[q].pc = "audit"
    /\ Connectable(q)
    /\ Answer200(q)
    /\ UNCHANGED <<claimVars, usageVars, written, failures, crashes>>

\* n has one connection more that nobody gives back.
Leak(n, ifLeaked) == leaked' = IF ifLeaked THEN [leaked EXCEPT ![n] = @ + 1] ELSE leaked

\* A store call of the handler fails and the request is answered 500.  `process`
\* returns the handler's promise from inside its try block without awaiting it, so
\* the catch block that releases the claim is not entered: the pending row stays and
\* so does the lock, or at least the connection.
Fail(q) ==
    /\ request[q].pc \in {"match", "read", "write", "audit"} \/ (Finalizing(q) /\ mode = "ledger")
    /\ failures < budget.failures
    /\ failures' = failures + 1
    /\ Leak(request[q].node, request[q].lost)
    /\ End(q)
    /\ UNCHANGED <<budget, mode, row, lock, answered, effectVars, crashes>>

\* The control plane's finalize fails: its finally block deletes the row if it is still
\* pending and that works, and lets go of the lock.  If only the answer to the UPDATE
\* or the unlock failed, the row is settled.
FailFinalize(q) ==
    LET e == request[q].event IN
    /\ mode = "controlPlane"
    /\ Finalizing(q)
    /\ ~ request[q].lost
    /\ failures < budget.failures
    /\ failures' = failures + 1
    /\ \E o \in {"none", "pending", Outcome(q)} : row' = [row EXCEPT ![e] = o]
    /\ Unlock(e)
    /\ End(q)
    /\ UNCHANGED <<budget, mode, leaked, answered, effectVars, crashes>>

\* A node crashes: its requests are gone, and PostgreSQL ends its sessions and with
\* them their locks.  Rows stay.  A node that notices the loss of a lent connection
\* crashes, too: its client has no error listener.
Crash(n) ==
    /\ crashes < budget.crashes
    /\ crashes' = crashes + 1
    /\ request' = [q \in Requests |->
          IF request[q].node = n THEN Idle ELSE request[q]]
    /\ lock' = [e \in Events |-> IF lock[e] = n THEN NoNode ELSE lock[e]]
    /\ leaked' = [leaked EXCEPT ![n] = 0]
    /\ UNCHANGED <<budget, mode, row, answered, effectVars, failures>>

\* PostgreSQL ends the session that holds the lock of e, its node does not notice and
\* the handler goes on.  (A claim that is still examining the row fails: FailClaim.)
LoseSession(e) ==
    LET holders == {q \in Requests : Holding(q) /\ request[q].event = e} IN
    /\ lock[e] # NoNode
    /\ \A q \in holders : Processing(q)
    /\ crashes < budget.crashes
    /\ crashes' = crashes + 1
    /\ Unlock(e)
    /\ request' = [q \in Requests |->
          IF q \in holders THEN [request[q] EXCEPT !.lost = TRUE] ELSE request[q]]
    /\ Leak(lock[e], holders = {})
    /\ UNCHANGED <<budget, mode, row, answered, effectVars, failures>>

-----------------------------------------------------------------------------
\* Mutant: the limit is passed before it is noticed.
WithinQuota_OffByOne(used) == entitlement.last \in HardStop => used <= Quota

\* The hard-stop tier stops at its quota, the others charge for what is above theirs.
WithinQuota(used) == entitlement.last \in HardStop => used < Quota

\* consumeWorkflowEntitlementAdmissionState: check and increment under FOR UPDATE.
Admit ==
    /\ entitlement.last # NoEvent
    /\ \E m \in Months :
          /\ WithinQuota(UsageIn(m))
          /\ admitted[m] < budget.admissions
          /\ entitlement' = [entitlement EXCEPT !.used = UsageIn(m) + 1, !.period = m]
          /\ admitted' = [admitted EXCEPT ![m] = @ + 1]
    /\ raced' = (raced \/ Turning \/ \E q \in Requests : request[q].pc = "write")
    /\ UNCHANGED <<claimVars, request, answered, written, time, failures, crashes>>

\* The turn of a month begins or ends on the nodes' clocks.
Tick ==
    /\ time < 2 * budget.months
    /\ time' = time + 1
    /\ UNCHANGED <<claimVars, request, answered, entitlement, admitted, raced, written, failures, crashes>>

-----------------------------------------------------------------------------
ClaimStep(q) == LedgerClaim(q) \/ Connect(q) \/ Lock(q) \/ Examine(q)

HandlerStep(q) ==
    \/ Match(q) \/ ReadEntitlement(q) \/ WriteEntitlement(q)
    \/ Finalize(q) \/ FinalizeLost(q) \/ Audit(q)

Next ==
    \/ \E q \in Requests :
          \/ \E n \in Nodes, e \in Events : Deliver(q, n, e)
          \/ ClaimStep(q)
          \/ HandlerStep(q)
          \/ FailClaim(q)
          \/ Fail(q)
          \/ FailFinalize(q)
    \/ \E n \in Nodes : Crash(n)
    \/ \E e \in Events : LoseSession(e)
    \/ Admit
    \/ Tick

Spec == Init /\ [][Next]_vars

\* Requests make progress, and Stripe redelivers what was not answered 200.
FairSpec ==
    /\ Spec
    /\ \A q \in Requests : WF_vars(ClaimStep(q)) /\ WF_vars(HandlerStep(q))
    /\ \A e \in Events : SF_vars(e \notin answered /\ \E q \in Requests, n \in Nodes : Deliver(q, n, e))

-----------------------------------------------------------------------------
PCs == {"claim", "lock", "examine", "match", "read", "write", "apply", "ignore", "audit"}

\* Rows, locks, requests and counters have their types.
TypeOK ==
    /\ budget \in Budgets
    /\ mode \in {"ledger", "controlPlane"}
    /\ row \in [Events -> {"none", "pending", "applied", "ignored"}]
    /\ lock \in [Events -> Nodes \cup {NoNode}]
    /\ leaked \in [Nodes -> Nat]
    /\ request \in [Requests -> [pc : PCs \cup {"idle"}, node : Nodes \cup {NoNode},
                                 event : Events \cup {NoEvent}, used : Nat, period : 0 .. MaxMonths,
                                 lost : BOOLEAN]]
    /\ \A q \in Requests : request[q].pc # "idle" => request[q].node \in Nodes /\ request[q].event \in Events
    /\ answered \subseteq Events
    /\ entitlement \in [last : Events \cup {NoEvent}, used : Nat, period : 0 .. MaxMonths]
    /\ written \subseteq Events
    /\ admitted \in [0 .. MaxMonths -> Nat]
    /\ time \in 0 .. 2 * MaxMonths
    /\ raced \in BOOLEAN
    /\ failures \in Nat /\ crashes \in Nat

\* No two requests process the same event at the same time, on any nodes, through
\* redeliveries, crashes and taken-over claims, except that one may have lost its
\* session, and with it its lock, without noticing.
ClaimExclusive ==
    \A q, p \in Requests :
        /\ Processing(q) /\ ~ request[q].lost
        /\ Processing(p) /\ ~ request[p].lost
        /\ request[q].event = request[p].event
        => q = p

\* An event recorded as applied has been applied, also when a node crashed between
\* the two writes.
AppliedWasWritten == \A e \in Events : row[e] = "applied" => e \in written

\* Stripe stops redelivering only what is safe: in the control-plane mode every event
\* answered 200 is finalized.  (In the ledger mode the answer only means that some
\* request claimed it.)
AnsweredIsSettled ==
    \A e \in answered : row[e] # "none" /\ (mode = "controlPlane" => Settled(e))

\* A finalized event stays as it was finalized: no redelivery, late request or request
\* whose claim was taken over reopens it or changes its outcome.
OutcomeFinal == [][\A e \in Events : Settled(e) => row'[e] = row[e]]_vars

\* The usage on record is never more than the admissions counted in its month: a
\* webhook that races with admissions may forget some, but never invents any.  It
\* forgets none of the current month unless an admission fell between a webhook's read
\* and its write, or into the turn of a month.  And it passes the hard-stop quota only
\* after an event that brought a tier with soft overage.
UsageSound ==
    /\ entitlement.used <= admitted[entitlement.period]
    /\ raced \/ Turning \/ UsageIn(Month) = admitted[Month]
    /\ entitlement.used > Quota => ~ (written \subseteq HardStop)

\* A claim nobody will finish or release.
Stranded(e) ==
    /\ ~ \E q \in Requests : Holding(q) /\ request[q].event = e
    /\ IF mode = "ledger" THEN row[e] = "pending" ELSE lock[e] # NoNode

\* Every event is settled in the end unless a claim is stranded: requests do not block
\* one another for good as long as the pool has connections to spare (with no more
\* connections than concurrent requests they do), and a claim left behind by a crash
\* in the control-plane mode is taken over.  A stranded ledger claim costs its own
\* event only; a stranded lock may cost every event, as redeliveries that wait for it
\* use up the connections.
EventSettles ==
    \A e \in Events : []<>(\/ Settled(e)
                           \/ Stranded(e)
                           \/ mode = "controlPlane" /\ \E f \in Events : Stranded(f))

\* "If downstream account or ledger mutation fails after claim acquisition, the claim
\* is released so the event can be retried instead of being stranded."
ClaimReleasedOnFailure == \A e \in Events : Stranded(e) ~> Settled(e)
=============================================================================
