# TLA+ verification of Attestor

Attestor stands between an AI-driven operation and its consequence: it admits,
narrows, holds for review or blocks a release, hands out *release tokens* as
bounded authority for what was admitted, and has enforcement points verify and
consume them. This directory models the part of the system on which that
authority rests: the token registry, the human review that leads to a token, the
verification that spends it, the shared PostgreSQL registry, the replay ledgers that
make a consequence single-use, and the file store below the single-node stores; and
the parts of the service in which nodes and workers meet: the shared history with its
outbox, Stripe webhook ingestion and asynchronous execution. TLC checks the modules on small instances and
TLAPS proves theorems for instances of any size. `PROJECT.json` lists the
components, runs, mutants, source lines, findings, hazards and theorems.

Paths below are relative to `src/src/`. The repository is large (about 320,000 lines,
most of them contracts, evaluations, renderings and rehearsal scripts that are pure or
sequential); the models cover the code with shared state and concurrency, which is a
small share of the lines.

## 1. Inventory

| Component | State | Operations | Hard behaviours | What makes it correct |
|---|---|---|---|---|
| Release token registry, `release-kernel/release-introspection*.ts` | token records (status, use count, expiry, decision), decision revocations | register, find, revoke a token, revoke a decision's tokens, apply expiry, record a use | clocks supplied by callers, registration replayed after use or revocation, the last use | use budget, no return from a final status, no live token of a revoked decision |
| Release review and authority closure, `service/http/routes/release-review-*.ts`, `release-kernel/reviewer-queue-*.ts`, evidence-pack store | the queue record, the decision log, the token, the evidence pack | approve, reject, override; each may also repair | four stores written one after the other without a transaction; stale reads before awaits; retries and repairs overlapping | token only under given authority; a closed record is backed by its stores; a failed closure is repaired |
| Shared token registry, `service/release/release-token-introspection-store.ts`, `release-authority-store.ts` | the same records as rows, row locks | the same operations, each a transaction of several statements | READ COMMITTED interleavings, locks in any order, lost COMMIT answers | same promises as the registry; no transaction waits for ever |
| Verification, `release-kernel/release-verification.ts`, `release-enforcement-plane/online-verifier.ts` | none of its own besides the registry | introspect, then consume | four awaits with other requests in between; timestamp taken at the start | verdicts stay within the budget; a revoked token is never verified again |
| File store, `platform/file-store.ts` | lock directory, temporary directories, the file | `withFileLock`, `writeTextFileAtomic` | crashes between system calls, recovery of stale locks, pids used again, timeouts | mutual exclusion, atomic mutations, the lock comes free again |
| Decision log, `release-kernel/release-decision-log.ts`, `service/release/release-decision-log-store.ts` | hash chain | append, verify | concurrent appends | one chain without gaps |
| Reviewer-queue claims, `service/release/release-reviewer-queue-store.ts` | claim token and lease per review | claim, release, commit | lease expiring while the holder works | a decision is committed once |
| Shared history and outbox, `service/consequence-shared-history-outbox-store.ts` | history rows, outbox messages with claims | append, claim, publish | leases on worker clocks, crashed workers, lost answers, duplicate delivery | one dense history; a lease protects its batch; delivery at least once |
| Replay and retry-attempt ledgers, `consequence-admission/presentation-replay-ledger.ts`, `service/consequence-shared-atomic-stores.ts` | consumed presentations, attempts | consume, record, prune | retention driven by a caller's clock, ledgers lost at a restart | a presentation is consumed once |
| Degraded-mode grants, `release-enforcement-plane/degraded-mode.ts`, `service/release/release-degraded-mode-grant-store.ts` | grants with a use budget | issue, consume, revoke | last use on two nodes | budget and scope |
| Asynchronous execution, `service/async/` | BullMQ jobs, dispatch permit and execution leases in Redis | submit, permit, acquire, heartbeat, release, report | stalled jobs, late calls, workers whose clocks differ, leases of crashed workers, event loop blocked by a run | execution limit of the plan; every accepted job ends |
| Billing webhooks, `service/application/stripe-webhook-*.ts`, `service/control-plane-store/stripe-webhook-state.ts`, `hosted-billing-state.ts` | claimed events, advisory locks on pooled connections, the entitlement record | claim, match, write, finalize, audit; admissions | handler failure and crash, lost sessions, redelivery, pool exhaustion, admissions and the turn of a month meanwhile | no two requests process an event; outcomes are true and final; usage is what was admitted; every event settles |
| Policy control plane, `release-policy-control-plane/` | bundles, approvals, activations | approve, activate, roll back, freeze | approvals by the author, concurrent activations | only approved bundles are active |
| Decision engine, consequence admission, crypto packages | none shared | pure evaluation | large case splits | fail closed |
| Signing, proof surface, filing, financial, connectors, identity | documents, keys | cryptography, formatting, input and output | none of the concurrent kind | outside the reach of this method |

Interactions. The *review* calls the reviewer queue, the decision log, the token
registry and the evidence-pack store, in this order, with an await before each.
The *verifiers* call the registry's expiry, lookup, revocation and use. The
registry is one of three implementations of one interface: in memory, in a file
under `withFileLock`, or in PostgreSQL. The file store carries all single-node
stores. An enforcement point consumes a presentation in its own *replay ledger* and
hands the entry to the shared table. *Delivery workers* poll the outbox that *appends*
fill in the transaction of the history row. A *webhook* and an *admission* share the
entitlement record; *async workers* share leases in Redis and jobs in BullMQ. Nodes
send no messages to each other; they meet in the database, in Redis or in the queue.

The hazards are listed with their lines in `PROJECT.json`; the ones of the
components above that are not modelled yet are listed with a note. Further ones seen in
the code and in no property yet: a token that outlives the replay window of
`freshness.ts:475`; subscription events applied in the order of their claims rather
than of their creation (`workflow-entitlement-store.ts:384`); an audit record lost when
its append fails after the finalization; the pending-job gate, whose reservations are
counted per process (`pipeline-async-routes.ts:189`); dead letters persisted and removed
by event handlers that do not await each other (`async-pipeline.ts:771`).

## 2. Modules

| Module | Models | Uses |
|---|---|---|
| `BoundedAuthority` | what a token promises: a budget, a life cycle that only goes forward, uses only while live | |
| `ReleaseTokenRegistry` | the registry, one action per store operation | implements `BoundedAuthority` |
| `SharedTokenRegistry` | the PostgreSQL registry, one action per statement | extends the registry's state; implements `BoundedAuthority` |
| `ReleaseVerification` | kernel and enforcement-plane verifiers, one action per await | extends the registry; its verdicts implement `BoundedAuthority` |
| `ReleaseReview` | approve, reject, override, closure and repair, one action per await | extends the registry |
| `AtomicStore` | what a file-backed store promises: mutations one at a time, answered only when applied | |
| `FileStore` | file lock and atomic write, one action per system call | implements `AtomicStore` |
| `DeliveryQueue` | what the outbox promises: messages accepted once, delivered at least once, published only when delivered and for good | |
| `SharedHistoryOutbox` | append, claim with a lease, deliver, publish, one action per statement group | implements `DeliveryQueue` |
| `StripeWebhooks` | claim in both modes, handler, finalization, audit, connection pool, admissions | |
| `AsyncPipeline` | gate, permit, lease, run, release, report, stalls | |
| `ReplayLedger` | the ledger of a point and the shared table of consumed keys | |
| `ReleaseVerificationProofs`, `SharedTokenRegistryProofs`, `ReleaseReviewProofs`, `FileStoreProofs`, `SharedHistoryOutboxProofs`, `StripeWebhooksProofs`, `AsyncPipelineProofs`, `ReplayLedgerProofs` | theorems | the module they are named after; the first also proves the theorems of `ReleaseTokenRegistry`, on which its own rest |
| `MC*` | instances for TLC | |

An operator named `X_Y` right before `X` is a mutant: the definition a plausible
bug would turn `X` into. No specification uses it; it documents which mistake the
property guards against, and replacing `X` by it makes TLC report a violation.

### ReleaseTokenRegistry

`issuance[t]` is the immutable content of the record (decision, budget, expiry),
`status`, `useCount` and `lastUsedAt` its mutable part, `decisionRevocations` the
remembered revocations. Every store operation is synchronous, or under the file
lock, hence one action. The caller's clock is any time: an operation may carry an
earlier time than its predecessor. `findToken` only reads and has no action.
The audience and the other claims of a record are compared, never changed; they
are part of the identity of the issuance.

### SharedTokenRegistry

The committed rows are the registry's variables. A transaction holds row locks,
buffers its writes and installs them at its commit. PostgreSQL (row locks, unique
keys, statement snapshots, deadlock detection) is external and modelled from how
the statements use it: a plain SELECT sees committed rows, SELECT ... FOR UPDATE
waits and then sees the latest version, INSERT ... ON CONFLICT DO NOTHING waits
for an uncommitted inserter of the key. Locks of a statement are taken in any
order, as no ORDER BY fixes one. `accepted` counts the callers that were told
`accepted: true`; the answer to a COMMIT may be lost.

### ReleaseVerification

A request goes through expiry, lookup, revocation lookup and use. The kernel
verifier consumes when it is told to, the plane only after an online check
(`AfterChecks`). The kernel hands the registry the time of each call; the plane hands the
time of the request's start to expiry, lookup and use alike (`At`,
`online-verifier.ts:393`), so a plane verification that straddles the expiry of its token
does not notice it: the verdict is about the moment the request began. Signature,
audience, binding and sender-constraint checks read the
request alone and are taken to have passed. `late` is a history flag: the token
was revoked already when the request began.

### ReleaseReview

`record` is the queue record, `log` the phases in the decision log of the
decision, `packs` the evidence-pack store, `handler[s]` the request in slot `s`
with the record it computed before its awaits. `Fail` ends a request at any
await. Token and pack ids are deterministic in the terminal state
(`releaseReviewClosureId`), hence that state serves as the id. The pack's content
is what its digest covers: the log entries read, the time of issue and the
requester whose key the token is bound to. The token of an approval lives as long as the
decision (`DecisionExpiry`, set when the decision was made), that of an override at most
`OverrideTtl`; for a decision that has expired the issuer refuses (`Issuable`) and the
closure ends there. The issuer's other refusals are met by none of the records and roles
a closure has.

### FileStore

`lock` is the lock directory with the owner it names and whether it is older than
`staleMs`; `temps` are the temporary directories, `content` the file as the sequence of
mutations in it. A waiter reads the owner, or stats the directory if there is none to read,
tests whether the pid it read is alive, and removes the lock, each in a step of its own
(`ReadOwner`, `StatLock`, `CheckAlive`, `Recover`). Recovery, release and the error path of
`writeLockOwner` remove the lock by path, whoever's it is, as the code does. A member of
`Procs` is a host and a pid: after a crash a process with another pid is another member,
and `Restart` brings the same pid back, as a restarted container does whose process 1 is
the server (`Dockerfile:25`). The history variables `changed` and `stolen` record that a
lock was made, owned or removed while somebody examined it, and that such a lock was then
removed by a recovery. The timing assumptions are in `Age`: no process spends `staleMs`
between two system calls that follow each other directly (its `mkdir` and its
`owner.json`; that write failing and the removal; a failed read of `owner.json` and the
stat).

### SharedHistoryOutbox

One tenant scope, as scopes share nothing. `history` and `outbox` are the committed
rows; a writer takes the advisory lock, examines the source and the highest sequence
number, and inserts both rows with its commit; a failed append leaves nothing. A worker
reads its own clock (`clock[w]`, within `MaxSkew` of the others), locks a batch of
claimable rows that no claim has locked, and commits the claim with a fresh token and a
lease from that clock. Delivery itself and the worker process are external: a worker
delivers a message and then publishes it by claim token, the answer may be lost
(`PublishUnanswered`), and it may crash with its batch in hand. `deliveries` counts what
reached the bus. The two rows of an append are inserted in one step, so nothing here
would notice a history row whose outbox row was inserted in a transaction of its own.

### StripeWebhooks

`row[e]` is the claim row of an event, `lock[e]` the node whose session has its advisory
lock, `request[q]` a request between its awaits with what it read of the entitlement,
`answered` the events Stripe got a 200 for. An event brings a tier, with a hard stop at
`Quota` (`HardStop`) or with soft overage; writing it keeps the usage it read, as
`projectStripeWorkflowEntitlement` does. Usage is counted by month: `time` is in half
months, and in the odd ones, the turn of the month, the nodes' clocks may differ on which
month it is. Both claim modes are modelled: the ledger
knows a row and nothing else, the control plane a row and a lock whose connection stays
out of the pool. A handler that fails leaves its claim behind, because the processor
returns the handler's promise without awaiting it (finding 2). A failed finalization
may have settled the row, or deleted it, or neither. A crash ends the
requests of a node and frees the locks of its sessions; `LoseSession` ends one session
while its handler goes on without its lock. Stripe redelivers what was not
answered 200. What a behaviour may meet (months, admissions, failures, crashes and lost
sessions) is its `budget`, one of `Budgets`.

Two limits of the properties: in the ledger mode a 200 only means that a row exists, so
`AnsweredIsSettled` says little there; and `EventSettles` leaves out stranded claims, and
is checked with enough connections for every request.

### AsyncPipeline

One tenant in the BullMQ mode. Every script gets the time from the worker that calls it
(`async-tenant-execution.ts:83`), so a worker whose clock is ahead purges entries that are
live by the clock of their holder. The times two scripts get at one moment differ by at most
`MaxSpread`, the skew of the clocks and the delay of the calls together (`Readings`). Time
is kept as what is left of it by the earliest such time: `lease[j]` in Redis, `permit` until
the dispatch window ends, `left` of the lease as the worker got it. BullMQ is
external: it hands out jobs, counts attempts and takes a job from a worker that stopped
renewing its lock, which happens to a crashed worker and to one whose event loop a run
is blocking. Redis scripts are atomic; a call that fails is `CallFails`, and an
acquisition of which only the answer is lost leaves an entry that nobody releases. The
PEXPIRE of the whole set is left out: it never comes before the fastest clock has purged
the last entry.

`ExecutionBounded` is about the runs that are further than `MaxSpread` from the end of
their lease, of jobs that never stalled. What it leaves out are a run that comes within the
spread of that end or outlives it, and every run of a job that stalled, so every run after
a crash as well: the first run of such a job may give back the lease of the second.

### ReplayLedger

`local[n]` is the in-memory ledger of a point, lost at its restart, `ledger` the shared
table; `log` are the committed consumptions and `horizon` the latest time the table was
pruned at. A point reads the time within `MaxSkew`, and its transaction ends within
`MaxDelay` of that reading. The entry a point's own ledger made is what the shared
function takes as its input, which is how the tests and the rehearsal of the shared
stores use the two. A presentation may be held for reasons the model does not tell apart
(contract, target, nonce, proofs); the local ledger is pruned all the same.

## 3. Runs

| Run | Instance | Shows |
|---|---|---|
| `token_registry` | 2 tokens, 2 decisions, budgets 1 and 2, clocks 0..3, a re-issue of one token id under another decision | budget, expiry, revocation, finality, `BoundedAuthority` |
| `review_safety` | 2 slots, 3 reviewers of whom 2 must approve, a break-glass actor, 1 failure, 2 ticks after which the decision has expired, break-glass tokens of 1 tick, an operator's revocation | `TokenNeedsAuthority`, `ClosedIsBacked`, `ReviewHistoryKept` |
| `review_repair` | 1 slot, 2 failures, 1 tick after which the decision has expired | `ApprovalCloses`: failed closures are repaired before the decision expires |
| `shared_registry` | 2 sessions, 2 tokens of one decision, one overdue | `AcceptedUsesCounted`, `RevocationCutsOff`, `BoundedAuthority`, `TransactionsEnd` |
| `token_verification` | 2 requests, one token id signed with 3 contents for 2 decisions, 1 tick | `RevokedNeverVerified`, `VerdictMatchesRecord`, `VerdictsImplementAuthority` |
| `file_store` | 2 processes, 2 mutations, 1 crash, 1 restart | `ExclusionUnlessStolen`, `OneTemporary`, `StoreIsAtomic`, `CallsEnd`, `LockFreedAgain` |
| `file_store_recovery` | 3 processes, 1 crash | violation, finding 1 |
| `shared_outbox` | 2 writers, 2 workers, 2 sources, lease 2, skew 1, clocks 0..2, batches of 1, 2 appends, 1 crash | `HistoryDense`, `ExaminedStillTrue`, `LeaseProtects`, `DeliveriesCounted`, `DeliveryQueue`, `EveryMessagePublished` |
| `stripe_webhooks` | 2 nodes, 2 requests, 2 events, one with the hard-stop tier of quota 1, 4 connections per node, both claim modes; 1 failure and 1 crash or lost session, or 2 admissions, or 1 admission a month and the turn of a month | `ClaimExclusive`, `AppliedWasWritten`, `AnsweredIsSettled`, `UsageSound`, `OutcomeFinal`, `EventSettles` |
| `stripe_claim_release` | the same in the control-plane mode, 1 failure, 2 admissions, no crash | violation, finding 2 |
| `async_pipeline` | 2 jobs, 2 workers, limit 1, lease 2, spread of the clocks 1, 2 attempts, 1 stall, 1 fault | `ExecutionBounded`, `JobsEnd` |
| `presentation_replay` | 2 points, 3 presentations with 2 replay keys, retention 4, skew 1, delay 1, time 0..6 | `SingleUseInWindow`, `PresentationOnce` |

Bounds. Two requests are enough for a race between two reads and two writes, and
a slot, session or request identity is reused, so behaviours of many requests in
sequence occur. Two tokens of one decision are needed for a revocation that takes
several rows and for lock cycles. A budget of two tells the last use from another.
The clock needs the values before, at and after an expiry. One crash or failure
shows what a partial operation leaves behind; the repair run allows two, so that a
repair may fail as well. In the outbox a lease of two and a skew of one give a claim
that is safe, one that is about to end and one that is over; in the webhooks the two
events tell a stranded event from its neighbours and a change of tier from none, a quota
of one with two admissions reaches the refusal and, in the other tier, the overage, and one
month turns into another; in the pipeline a limit of one with two jobs makes every grant the
last one, and a lease of two with a spread of one gives a live run and one too close to its
end (two jobs in all, so a job starved by a stream of later ones does not occur); in the
file store one restart brings the pid of the crashed process back, and the theorems speak
for more; in the replay ledger the retention is exactly the life of a presentation plus
the lag (with one unit less, and without the condition `RetentionCovers`, TLC finds a
presentation consumed twice: the lag is tight), and of the two presentations of one key
the second may be committed before a slow transaction of the first (in the other order the
bound is met by their times alone). Deadlock checking is off where the system
really may stop: processes have crashed, requests or jobs are over, or the bound on
mutations, appends or clocks is reached.

Fairness.
* Review: every started handler runs to its end (weak fairness of its steps: the
  event loop resumes a handler when its await settles, and a failing await is `Fail`),
  and operators keep retrying the route of the decision (strong fairness of the
  start actions). The second is an assumption on people: the repair exists only
  for them. Safety needs neither.
* Shared registry: strong fairness of a session's statements, because PostgreSQL
  queues waiters per lock, and weak fairness of its deadlock detector.
* File store: weak fairness of a running call; strong fairness of the timeout,
  since `withFileLock` gives up after `timeoutMs`; time passes; processes keep
  using the store.
* Outbox: weak fairness of each writer's transaction, of each worker's claims and
  deliveries (workers poll in a loop) and of the clocks. Crashes are not fair and
  bounded.
* Webhooks: weak fairness of a request's statements and strong fairness of Stripe's
  redelivery of an event that was not answered 200, which is what its documentation
  and the code's comments rely on.
* Pipeline: weak fairness of a worker's steps and of time; strong fairness of BullMQ
  handing out a waiting job, and weak fairness of its stalled-job check for a job
  whose worker is gone.

### Findings

1. *A recovery may remove a lock it did not examine.* Reading the owner, testing its pid
   and removing the directory are separate system calls. A waiter that has read an old lock
   finds its owner gone after that owner released it and ended, and removes the lock that a
   third process took meanwhile; or two waiters recover one stale lock, and the second
   removes the new lock of the first. Either way two processes enter
   (`file_store_recovery`).
2. *A failed webhook handler keeps its claim.* `process` returns the handler's promise
   from inside its `try` without `await`, so the `catch` that releases the claim never
   sees the rejection (`stripe_claim_release`).

`PROJECT.json` quotes the sentences these runs refute. The theorems on the file store show
that, under the assumptions of `Age`, removals of this kind (`stolen`) are the only way in
which the lock fails among the processes of one host.

Further behaviours that a reader of the code may not expect, each of which TLC shows
when the named constant or formula is changed:

* The repair of an overridden closure sits in the reject route; a retried override
  answers `already_finalized`, although the closure validation document
  (`docs/audit/release-review-authority-closure-validation-2026-06-01.md`, lines 77-79)
  names the override route. Under `MCReleaseReviewRepair.cfg`, with one reviewer, check
  `(record.authorityState = "overridden") ~> record.closed`.
* A review that is approved, or whose closure is repaired, after the decision expired is
  committed and never closed (the same cfg without the second disjunct of
  `ApprovalCloses`); default expiries are minutes after the decision is made. Two overlapping
  closures with a failure can make a
  review irreparable and log the terminal phase twice (two slots).
* A lock left behind by a crash is never recovered while its pid is in use, by whatever
  process: in a container whose server is process 1, every start has that pid and the host
  name stays, so every later call times out until the directory is removed by hand (drop
  `PidReused` from `LockFreedAgain`).
* With `PoolSize` 2, two claims on one node wait for each other's connections for good.
* Admissions between a webhook's read and write of the entitlement are forgotten, and an
  older event that is claimed later overwrites a newer one. `UsageSound` bounds the first:
  usage on record is never more than was admitted, and less only after such a race (drop
  `raced`) or one with the turn of a month.
* After a change from a tier with soft overage to the hard-stop tier the usage on record may
  be above the new quota (check `entitlement.last \in HardStop => entitlement.used <= Quota`).
* Runs within the spread of the clocks of the end of their lease, or whose job stalled, can
  exceed the tenant's limit (write `left > 0` in `Live`, or drop its last conjunct).
* A replay key is accepted again when the retention does not outlast a presentation by
  `MaxDelay + 2 * MaxSkew` (drop `RetentionCovers`, set `Retention` to 3).

## 4. Proofs

Proved by TLAPS for every value of the constants:

* The registry (first part of `ReleaseVerificationProofs`), from
  `IssuancesAssumption` (issuances name known tokens and decisions and have a positive
  budget and a time of expiry). The inductive invariant `RInv` is the conjunction of the type invariant, which ties a
  record's existence to its content, with `UseBudget`, `UsedBeforeExpiry` and
  `RevokedDecisionHasNoLiveToken`. None of the three needs the others, all need the
  types; `UseBudget` is inductive because it says that an issued token has a use
  *left*, not only that the budget is not exceeded.
  From it: `RegistryTypeCorrect`, `RegistryUseBudget`, `RegistryRevocation`,
  `RegistryExpiry`, `RegistryLifecycleFinality`, and, step by step,
  `RegistryImplementsBoundedAuthority`.
* The verifiers (its second part), from the same assumption, for any number of
  concurrent requests. Every step of the verifiers is, for the registry, one of its
  own operations (`RegistryPart`), so `RInv` and the finality of the life cycle carry
  over. `VInv` adds what a request knows between its awaits (`RequestInv`): it began
  before its token expired; if the token was revoked then, it still is; once expiry
  was applied, an issued record outlives the request's start, since later
  registrations expire in the future; what the lookup found stays true; and it adds
  that consuming verdicts equal recorded uses. From it: `VerificationTypeCorrect`,
  `RevocationRespected`, `VerdictsAreBacked` and the refinement
  `VerdictsAreBounded`.
* `ReleaseReviewProofs`, from `ReviewAssumption` and `IssuancesAssumption`, for any
  number of concurrent handlers, reviewers, failures and revocations. `TokenNeedsAuthority`
  is about the record as it is now, while a handler acts on the record it read several
  awaits ago, so the inductive invariant `ReviewInv` has to say what a handler in flight
  may rely on:
  * `RecordInv`: nobody decides twice, an approved record has enough approvals and no
    rejection, and only an accepted record is closed. This is what makes the number of
    approvals the number of distinct approvers.
  * `TokenInv` and `PackInv`: a registered token belongs to the present terminal state,
    a stored pack covers the closure phases, and a closed record has both.
  * `HandlerInv`, of every slot: before its commit a handler's compare succeeds only if
    its new record follows from the present one (`CommitInv`); a handler that closes the
    review holds the committed record, which since then was at most closed by another
    handler (`ClosingInv`); what it wrote is still there (`ProgressInv`).

  The proof shows that a step changes one handler, moves the record only forward
  and lets the log, the packs and the registered tokens only grow, and that such a step
  keeps `HandlerInv` of every other slot. From it `ReviewTypeCorrect`,
  `ReviewTokenNeedsAuthority`, `ReviewClosedIsBacked` and `ReviewHistoryIsKept`. TLC finds
  `ReviewInv` true on the instance of `review_safety`.
* `FileStoreProofs`, from `FileStoreAssumption`, for any number of processes of one host
  (`OneHost`: a lock of another host is judged by its age alone) that crash at any system
  call and whose pids are used again. `FileStoreTypeCorrect` needs not even one host. The
  inductive invariant `StoreInv` says that, until a lock is stolen, three things hold.
  `LockInv`: the lock names the process between its `mkdir` and its release, and what an
  examiner found out (no owner, an owner it read, nobody behind the lock) is so while the
  lock is still the one it examined. The second part is what `MutualExclusion` lacks to be
  inductive: it makes a removal harmless unless it is a theft. `TempInv`: a temporary
  directory is the writer's own or the one orphan that the next writer removes first.
  `ContentInv`: a holder between load and rename has loaded the current content, and
  answered mutations are in the file. Hence `FileLockExcludesUnlessStolen`,
  `FileStoreKeepsOneTemporary` and the refinement `FileStoreIsAtomic`. When no process ends
  (`MaxCrashes = 0`), nobody takes a lock for stale (`CalmInv`), so that none is stolen and
  `FileLockExcludesTheLiving` gives `MutualExclusion` itself, however old a lock gets.
* `SharedTokenRegistryProofs`, from `IssuancesAssumption` and `RowsAssumption` (a
  statement selects finitely many rows), for any number of sessions. `SharedInv` says of
  every transaction (`Good`) what its operation is about, which statement it is at, and
  what it is about to write: until its last statement it only ends rows; its commit
  inserts one row that is not there, or ends rows, or counts one use of a row that is
  issued and ends others. All of this is about rows it has locked, and locks exclude, so
  a commit of another transaction leaves it true (`CommitLeavesOthers`). The budget and
  `accepted <= useCount` follow, and every commit is a step of `BoundedAuthority`:
  `SharedTypeCorrect`, `SharedUsesCounted`, `SharedRevocationCutsOff`,
  `SharedImplementsAuthority`.
* `SharedHistoryOutboxProofs`, from `OutboxAssumption`. `AppendInv` ties the stage of a
  writer to the lock, which makes what it examined stay true and the history dense.
  `ClockInv`, `LockedInv` and `LeaseInv` say that clocks stay within the skew, that
  locked batches are disjoint and still claimable, and that a worker's claim is in the
  row or its lease is within the skew of its end. `DeliveryInv` counts: deliveries plus the
  workers that have yet to deliver a message are at most its attempts. From them
  `OutboxTypeCorrect`, `OutboxHistoryDense`, `OutboxExaminedStillTrue`,
  `OutboxLeaseProtects`, `OutboxDeliveriesCounted` and `OutboxImplementsDeliveryQueue`.
* `StripeWebhooksProofs`, from `WebhookAssumption`. `ClaimInv`: a processing request has a
  pending row, in the control-plane mode its node has the lock, and nobody else holds a
  claim on the event; of a request that lost its session none of this is said. `OutcomeInv`:
  a matched event is written before it is finalized and
  finalized before it is audited. `UsageInv`: the record, and what every request is about to
  write, is no more than was admitted and above the quota only after an event with the other
  tier (`Backed`), and it is all that was admitted this month as long as nothing raced
  (`Exact`). From them `WebhookTypeCorrect`, `WebhookClaimExclusive`,
  `WebhookAppliedWasWritten`, `WebhookAnsweredIsSettled`, `WebhookOutcomeFinal` and
  `WebhookUsageSound`.
* `AsyncPipelineProofs`, from `AsyncAssumption` (jobs are finite). `SoleInv`: a job that
  never stalled has one worker; `LeaseInv`: the entry of a live run lasts at least as long as
  its worker was told, so no script purges it while more than the spread is left, whichever
  clock it is called with; `BoundInv`: the entries respect the limit, those that failed calls
  left behind included. Live runs map injectively
  into entries, hence `AsyncExecutionBounded`; and `AsyncTypeCorrect`.
* `ReplayLedgerProofs`, from `LedgerAssumption`. `ReplayInv`: open requests are at most
  `MaxDelay` old and carry a reading of their start, the horizon is at most `MaxSkew`
  ahead of the time, and a consumption is in the table or its retention is behind the
  horizon. An insertion therefore finds every earlier consumption of its key whose
  retention reaches `Lag` past it: `ReplaySingleUseInWindow`; with the freshness of what
  is logged `ReplayPresentationOnce`; and `ReplayTypeCorrect`.

Only model-checked: all liveness (`ApprovalCloses`, `TransactionsEnd`, `CallsEnd`, `LockFreedAgain`,
`EveryMessagePublished`, `EventSettles`, `JobsEnd`), since fairness and ENABLED are out of
this prover's reach. Exclusion of the file lock after a theft is refuted (finding 1),
and nothing is claimed of it on several hosts. What `Cardinality` counts
is proved through the theorems on finite
sets; no proof uses induction over data.

## 5. Not modelled

* Cryptography (signatures, DPoP, mTLS, PKI), document formats and proof surfaces:
  a model checker says nothing about them.
* Adapters (HTTP, gateways, connectors, identity providers): input and output.
* The contracts and evaluations of consequence admission and the crypto packages:
  pure functions of a request.
* The list, inbox and page routes of the review, the summary of the outbox, and the
  listings of the ledgers: they only read.
* Of the pipeline: dead letters and operator retries; the in-process reservations of the
  route (gate and submission are one step); the in-memory fallback, which counts per
  process; other tenants that share the permit of a plan.
* Of the webhooks: the local file mode; the handlers of the other event types, which
  have the same shape around other records; payload conflicts, which change nothing.
* The retry-attempt table: its idempotency and attempt-number checks run under an
  advisory lock of their own and share no row with the replay table. It was left out as
  a product of two independent state spaces.

## 6. Plan

In the order of importance:

1. `DegradedModeGrants` as a further implementation of `BoundedAuthority`, with its audit
   chain, in the file-backed and the PostgreSQL store.
2. `DecisionLog`: hash chain and concurrent appends; then `ReleaseReview` can use it.
3. `ReviewerClaims`: the claims of the shared reviewer queue, with leases judged by the
   next claimant's clock.
4. The retry-attempt ledger, and dead letters in `AsyncPipeline`.
5. Policy activation and approvals; freshness as a pure evaluation against a reference
   definition; token exchange as a composition with `ReleaseVerification`.

Every invariant and action property of the present runs has a theorem; the theorems to
follow are those of the components above.
