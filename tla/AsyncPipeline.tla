--------------------------- MODULE AsyncPipeline ---------------------------
(***************************************************************************)
(* Asynchronous execution of the jobs of one tenant: submission behind the *)
(* pending-job gate (pipeline-async-routes.ts), and the worker with its    *)
(* weighted-dispatch permit and its execution lease in Redis               *)
(* (async-pipeline.ts, async-weighted-dispatch.ts,                         *)
(* async-tenant-execution.ts).  BullMQ is external: it hands a job to a    *)
(* worker, counts its attempts, and takes a job away from a worker that    *)
(* stopped renewing its lock (a stall).                                    *)
(*                                                                         *)
(* Every script gets the time from the worker that calls it, which read    *)
(* its own clock some time before; a late reading is like one of a slower  *)
(* clock.  Time is kept as the time that is left by the earliest time a    *)
(* script may get: `lease`, `permit` and `left` count down with Tick, so   *)
(* that time itself is not bounded.                                        *)
(***************************************************************************)
EXTENDS Integers, FiniteSets

CONSTANTS
    Jobs, Workers,
    NoWorker,       \* nobody holds the job's BullMQ lock
    Limit,          \* activeJobsPerTenant
    PendingLimit,   \* pendingJobsPerTenant
    Lease,          \* leaseMs
    Window,         \* dispatchWindowMs
    MaxSpread,      \* bound on the difference between the times that two scripts get: the
                    \* skew of the workers' clocks and the delays of the calls together
    MaxAttempts,    \* retry policy: attempts
    MaxStalls,      \* retry policy: maxStalledCount
    MaxFaults       \* bound on crashes and failed calls

ASSUME AsyncAssumption ==
    /\ NoWorker \notin Workers
    /\ IsFiniteSet(Jobs)
    /\ Limit \in Nat \ {0} /\ PendingLimit \in Nat \ {0} /\ Lease \in Nat \ {0} /\ MaxAttempts \in Nat \ {0}
    /\ Window \in Nat /\ MaxSpread \in Nat
    /\ MaxStalls \in Nat /\ MaxFaults \in Nat

VARIABLES
    job,            \* job[j]: the job in BullMQ
    run,            \* run[w]: what worker w is doing
    lease,          \* lease[j]: time left of j's entry in the tenant's sorted set
    permit,         \* time until the next dispatch is eligible
    faults          \* crashes and failed calls so far

vars == <<job, run, lease, permit, faults>>

Absent == -1   \* not in the sorted set

\* The times a script may get, relative to the earliest one.
Readings == 0 .. MaxSpread

Idle == [pc |-> "idle"]

Init ==
    /\ job = [j \in Jobs |-> [state |-> "none", owner |-> NoWorker, attempts |-> 0, stalls |-> 0]]
    /\ run = [w \in Workers |-> Idle]
    /\ lease = [j \in Jobs |-> Absent]
    /\ permit = 0
    /\ faults = 0

\* "queued" stands for waiting, prioritized and delayed: a delay ends at some time.
Unfinished == {"queued", "active"}

\* getTenantAsyncQueueSnapshot: waiting, active, delayed and prioritized jobs.
Pending == Cardinality({j \in Jobs : job[j].state \in Unfinished})

Fault == faults < MaxFaults /\ faults' = faults + 1

-----------------------------------------------------------------------------
\* Submission

\* canEnqueueTenantAsyncJob
GateOpen == Pending < PendingLimit

\* submitPipelineJob behind the gate, as one step: see the README for the race between
\* the two and for the per-process reservations that narrow it.
Submit(j) ==
    /\ job[j].state = "none"
    /\ GateOpen
    /\ job' = [job EXCEPT ![j].state = "queued"]
    /\ UNCHANGED <<run, lease, permit, faults>>

-----------------------------------------------------------------------------
\* The worker

\* External: BullMQ promotes a delayed job and hands a job to a free worker.
Take(w, j) ==
    /\ run[w] = Idle
    /\ job[j].state = "queued"
    /\ job' = [job EXCEPT ![j].state = "active", ![j].owner = w]
    /\ run' = [run EXCEPT ![w] = [pc |-> "permit", job |-> j]]
    /\ UNCHANGED <<lease, permit, faults>>

Owns(w) == job[run[w].job].owner = w

\* moveToDelayed and DelayedError; without the BullMQ lock it has no effect.
Postpone(w) ==
    /\ job' = IF Owns(w)
              THEN [job EXCEPT ![run[w].job].state = "queued", ![run[w].job].owner = NoWorker]
              ELSE job
    /\ run' = [run EXCEPT ![w] = Idle]

\* acquireTenantAsyncWeightedDispatchPermit: eligible at the caller's time t, and what
\* the script makes of the permit.
Eligible(t) == permit <= t
PermitScript(t) == IF Eligible(t) THEN t + Window ELSE permit

AcquirePermit(w) ==
    /\ run[w].pc = "permit"
    /\ \E t \in Readings :
          /\ permit' = PermitScript(t)
          /\ \/ ~ Eligible(t) /\ Postpone(w)
             \/ Eligible(t) /\ run' = [run EXCEPT ![w].pc = "acquire"] /\ UNCHANGED job
    /\ UNCHANGED <<lease, faults>>

\* Mutant: expired entries are never removed.
Purged_Never(t) == lease

\* ZREMRANGEBYSCORE up to the caller's time t.
\* (PEXPIRE removes the whole set no sooner than the fastest clock does its last entry.)
Purged(t) == [j \in Jobs |-> IF lease[j] <= t THEN Absent ELSE lease[j]]

Entries(z) == {j \in Jobs : z[j] # Absent}

\* Mutant: the limit is checked with <=.
Grantable_OffByOne(j, z) == j \in Entries(z) \/ Cardinality(Entries(z)) <= Limit

\* The job has an entry already, or there is room.
Grantable(j, z) == j \in Entries(z) \/ Cardinality(Entries(z)) < Limit

\* REDIS_ACQUIRE_SCRIPT: the sorted set after it.
AcquireScript(j, t) ==
    IF Grantable(j, Purged(t)) THEN [Purged(t) EXCEPT ![j] = t + Lease] ELSE Purged(t)

Running(j, left) == [pc |-> "run", job |-> j, left |-> left]

\* acquireTenantAsyncExecutionLease; the permit is spent either way.
AcquireLease(w) ==
    LET j == run[w].job IN
    /\ run[w].pc = "acquire"
    /\ \E t \in Readings :
          /\ lease' = AcquireScript(j, t)
          /\ \/ Grantable(j, Purged(t)) /\ run' = [run EXCEPT ![w] = Running(j, t + Lease)] /\ UNCHANGED job
             \/ ~ Grantable(j, Purged(t)) /\ Postpone(w)
    /\ UNCHANGED <<permit, faults>>

\* heartbeatTenantAsyncExecutionLease: renews an entry that is still there; the worker
\* ignores the answer.  A worker's calls reach Redis on one connection, in order.
Heartbeat(w) ==
    LET j == run[w].job IN
    /\ run[w].pc = "run"
    /\ \E t \in Readings :
          \/ /\ j \in Entries(Purged(t))
             /\ lease' = [Purged(t) EXCEPT ![j] = t + Lease]
             /\ run' = [run EXCEPT ![w] = Running(j, t + Lease)]
          \/ /\ j \notin Entries(Purged(t))
             /\ lease' = Purged(t)
             /\ UNCHANGED run
    /\ UNCHANGED <<job, permit, faults>>

Reporting(j, ok) == [pc |-> "report", job |-> j, ok |-> ok]

\* The pipeline returns or throws, and the finally block releases the lease
\* (releaseTenantAsyncExecutionLease): the job's entry goes, whichever run made it.
Finish(w) ==
    /\ run[w].pc = "run"
    /\ \E t \in Readings : lease' = [Purged(t) EXCEPT ![run[w].job] = Absent]
    /\ \E ok \in BOOLEAN : run' = [run EXCEPT ![w] = Reporting(run[w].job, ok)]
    /\ UNCHANGED <<job, permit, faults>>

\* A call to Redis fails.  Before the job runs that fails the attempt, and if only the
\* answer was lost the permit is spent, or the entry stays behind: the acquisition is
\* outside the try block.  In the finally block the failure is ignored, and the entry
\* is left to expire.
CallFails(w) ==
    /\ Fault
    /\ \/ /\ run[w].pc = "permit"
          /\ permit' \in {permit} \cup {PermitScript(t) : t \in Readings}
          /\ run' = [run EXCEPT ![w] = Reporting(run[w].job, FALSE)]
          /\ UNCHANGED lease
       \/ /\ run[w].pc = "acquire"
          /\ lease' \in {lease} \cup {AcquireScript(run[w].job, t) : t \in Readings}
          /\ run' = [run EXCEPT ![w] = Reporting(run[w].job, FALSE)]
          /\ UNCHANGED permit
       \/ /\ run[w].pc = "run"
          /\ \E ok \in BOOLEAN : run' = [run EXCEPT ![w] = Reporting(run[w].job, ok)]
          /\ UNCHANGED <<lease, permit>>
    /\ UNCHANGED job

\* External: BullMQ records the outcome, if the worker still has the job's lock.
Report(w) ==
    LET j == run[w].job
        attempts == job[j].attempts + 1
    IN  /\ run[w].pc = "report"
        /\ run' = [run EXCEPT ![w] = Idle]
        /\ \/ /\ ~ Owns(w)
              /\ UNCHANGED job
           \/ /\ Owns(w) /\ run[w].ok
              /\ job' = [job EXCEPT ![j].state = "completed", ![j].owner = NoWorker]
           \/ /\ Owns(w) /\ ~ run[w].ok
              /\ job' = [job EXCEPT ![j].state = IF attempts = MaxAttempts THEN "failed" ELSE "queued",
                                    ![j].owner = NoWorker, ![j].attempts = attempts]
        /\ UNCHANGED <<lease, permit, faults>>

WorksOn(w, j) == run[w] # Idle /\ run[w].job = j

\* BullMQ has the job as active, but nobody works on it any more.
Abandoned(j) == job[j].state = "active" /\ ~ WorksOn(job[j].owner, j)

\* External: the job's lock was not renewed, because its worker is gone or because the
\* pipeline, which is synchronous, keeps the worker's event loop busy.
\* BullMQ queues the job again, or fails it when that happened too often.
Stall(j) ==
    /\ job[j].state = "active"
    /\ ~ (WorksOn(job[j].owner, j) /\ run[job[j].owner].pc # "run")
    /\ \/ /\ job[j].stalls < MaxStalls
          /\ job' = [job EXCEPT ![j].state = "queued", ![j].owner = NoWorker, ![j].stalls = @ + 1]
       \/ /\ job[j].stalls >= MaxStalls
          /\ job' = [job EXCEPT ![j].state = "failed", ![j].owner = NoWorker]
    /\ UNCHANGED <<run, lease, permit, faults>>

CrashWorker(w) ==
    /\ run[w] # Idle
    /\ Fault
    /\ run' = [run EXCEPT ![w] = Idle]
    /\ UNCHANGED <<job, lease, permit>>

-----------------------------------------------------------------------------
CountDown(n, low) == IF n > low THEN n - 1 ELSE n

Tick ==
    /\ lease' = [j \in Jobs |-> CountDown(lease[j], IF lease[j] = Absent THEN Absent ELSE 0)]
    /\ permit' = CountDown(permit, 0)
    /\ run' = [w \in Workers |->
          IF run[w].pc = "run" THEN [run[w] EXCEPT !.left = CountDown(@, MaxSpread)] ELSE run[w]]
    /\ UNCHANGED <<job, faults>>

WorkerStep(w) == AcquirePermit(w) \/ AcquireLease(w) \/ Finish(w) \/ Report(w)

Next ==
    \/ \E w \in Workers :
          \/ \E j \in Jobs : Take(w, j)
          \/ WorkerStep(w)
          \/ Heartbeat(w)
          \/ CallFails(w)
          \/ CrashWorker(w)
    \/ \E j \in Jobs : Submit(j) \/ Stall(j)
    \/ Tick

Spec == Init /\ [][Next]_vars

\* Workers make progress, time passes, BullMQ hands out every
\* job that stays eligible and finds every job whose worker is gone.
FairSpec ==
    /\ Spec
    /\ \A w \in Workers : WF_vars(WorkerStep(w))
    /\ \A j \in Jobs :
          /\ SF_vars(\E w \in Workers : Take(w, j))
          /\ WF_vars(Abandoned(j) /\ Stall(j))
    /\ WF_vars(Tick)

-----------------------------------------------------------------------------
\* Every variable has its type.
TypeOK ==
    /\ job \in [Jobs -> [state : Unfinished \cup {"none", "completed", "failed"},
                         owner : Workers \cup {NoWorker}, attempts : Nat, stalls : Nat]]
    /\ run \in [Workers ->
            {Idle}
            \cup [pc : {"permit", "acquire"}, job : Jobs]
            \cup [pc : {"run"}, job : Jobs, left : 0 .. Lease + MaxSpread]
            \cup [pc : {"report"}, job : Jobs, ok : BOOLEAN]]
    /\ lease \in [Jobs -> Absent .. Lease + MaxSpread]
    /\ permit \in 0 .. Window + MaxSpread
    /\ faults \in Nat

\* A run within the lease it last got, on every clock, of a job BullMQ never took away.
Live(w) == run[w].pc = "run" /\ run[w].left > MaxSpread /\ job[run[w].job].stalls = 0

\* A tenant never has more than `activeJobsPerTenant` jobs running: leases bound the
\* runs that renew them in time, through crashes, delays and lost releases.  The
\* exceptions are what the lease cannot see: a run that comes within the
\* spread of the end of its lease, or outlives it, and every run of a job that stalled, as
\* its first run gives back the lease of the second; so all that run again after a
\* crash are left out.
ExecutionBounded == Cardinality({w \in Workers : Live(w)}) <= Limit

\* Every accepted job ends: neither crashed workers, nor leases they left behind, nor
\* the competition for permits and leases keeps it pending for ever.
JobsEnd == \A j \in Jobs : job[j].state \in Unfinished ~> job[j].state \in {"completed", "failed"}
=============================================================================
