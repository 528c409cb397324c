------------------------ MODULE AsyncPipelineProofs ------------------------
(***************************************************************************)
(* Proofs about asynchronous execution, for any number of workers and jobs *)
(* and any limit, lease and spread of the clocks: the leases in Redis      *)
(* bound the runs of a tenant.                                             *)
(***************************************************************************)
EXTENDS AsyncPipeline, FiniteSetTheorems, TLAPS

JobType == [state : Unfinished \cup {"none", "completed", "failed"},
            owner : Workers \cup {NoWorker}, attempts : Nat, stalls : Nat]

AskingType == [pc : {"permit", "acquire"}, job : Jobs]
RunningType == [pc : {"run"}, job : Jobs, left : 0 .. Lease + MaxSpread]
ReportType == [pc : {"report"}, job : Jobs, ok : BOOLEAN]
LeaseSpan == Absent .. Lease + MaxSpread
PermitSpan == 0 .. Window + MaxSpread
RunType == {Idle} \cup AskingType \cup RunningType \cup ReportType

-----------------------------------------------------------------------------
\* The types of the variables, one by one.
LEMMA Types ==
    ASSUME TypeOK
    PROVE  /\ job \in [Jobs -> JobType] /\ run \in [Workers -> RunType]
           /\ lease \in [Jobs -> LeaseSpan] /\ permit \in PermitSpan /\ faults \in Nat
  BY DEF TypeOK, JobType, RunType, AskingType, RunningType, ReportType, LeaseSpan, PermitSpan

\* The stage a worker is in says what its record holds.
LEMMA RunStages ==
    ASSUME NEW u \in RunType
    PROVE  /\ u.pc \in {"idle", "permit", "acquire", "run", "report"}
           /\ u.pc = "idle" <=> u = Idle
           /\ u.pc # "idle" => u.job \in Jobs
           /\ u.pc \in {"permit", "acquire"} => u \in AskingType
           /\ u.pc = "run" => u \in RunningType
           /\ u.pc = "report" => u \in ReportType
  BY DEF RunType, Idle, AskingType, RunningType, ReportType

\* The effects of the steps on a worker: it becomes u; on a job: it becomes k.
RunBecomes(w, u) == run' = [run EXCEPT ![w] = u]
JobBecomes(j, k) == job' = [job EXCEPT ![j] = k]

\* Postponing a job leaves its stall count and ends the run.
LEMMA PostponeEffect ==
    ASSUME TypeOK, NEW w \in Workers, run[w].pc # "idle", Postpone(w)
    PROVE  /\ RunBecomes(w, Idle)
           /\ job' = job \/ \E k \in JobType : /\ JobBecomes(run[w].job, k)
                                               /\ k.stalls = job[run[w].job].stalls
<1> DEFINE j == run[w].job
           k == [job[j] EXCEPT !.state = "queued", !.owner = NoWorker]
<1>1. j \in Jobs /\ job \in [Jobs -> JobType]
  BY Types, RunStages
<1>2. CASE Owns(w)
  <2>1. job' = [job EXCEPT ![j].state = "queued", ![j].owner = NoWorker]
    BY <1>2 DEF Postpone
  <2>2. JobBecomes(j, k)
    BY <1>1, <2>1 DEF JobBecomes
  <2>3. k \in JobType /\ k.stalls = job[j].stalls
    BY <1>1 DEF JobType, Unfinished
  <2> HIDE DEF k
  <2> QED BY <2>2, <2>3 DEF Postpone, RunBecomes
<1>3. CASE ~ Owns(w)
  BY <1>3 DEF Postpone, RunBecomes
<1> QED BY <1>2, <1>3

\* So does reporting its outcome.
LEMMA ReportEffect ==
    ASSUME TypeOK, NEW w \in Workers, Report(w)
    PROVE  /\ run[w].pc = "report" /\ RunBecomes(w, Idle) /\ UNCHANGED <<lease, permit, faults>>
           /\ job' = job \/ \E k \in JobType : /\ JobBecomes(run[w].job, k)
                                               /\ k.stalls = job[run[w].job].stalls
<1> DEFINE j == run[w].job
           k1 == [job[j] EXCEPT !.state = "completed", !.owner = NoWorker]
           st == IF job[j].attempts + 1 = MaxAttempts THEN "failed" ELSE "queued"
           k2 == [job[j] EXCEPT !.state = st, !.owner = NoWorker, !.attempts = job[j].attempts + 1]
<1>1. j \in Jobs /\ job \in [Jobs -> JobType] /\ run[w].pc = "report"
  BY Types, RunStages DEF Report
<1>2. /\ RunBecomes(w, Idle) /\ UNCHANGED <<lease, permit, faults>>
  BY DEF Report, RunBecomes
<1>3. CASE job' = job
  BY <1>1, <1>2, <1>3
<1>4. CASE job' = [job EXCEPT ![j].state = "completed", ![j].owner = NoWorker]
  <2>1. JobBecomes(j, k1)
    BY <1>1, <1>4 DEF JobBecomes
  <2>2. k1 \in JobType /\ k1.stalls = job[j].stalls
    BY <1>1 DEF JobType
  <2> HIDE DEF k1
  <2> QED BY <1>1, <1>2, <2>1, <2>2
<1>5. CASE job' = [job EXCEPT ![j].state = st, ![j].owner = NoWorker, ![j].attempts = job[j].attempts + 1]
  <2>1. JobBecomes(j, k2)
    BY <1>1, <1>5 DEF JobBecomes
  <2>2. st \in {"failed", "queued"} /\ job[j].attempts + 1 \in Nat
    BY <1>1 DEF JobType
  <2> HIDE DEF st
  <2>3. k2 \in JobType /\ k2.stalls = job[j].stalls
    <3>1. job[j] \in JobType
      BY <1>1
    <3>2. st \in Unfinished \cup {"none", "completed", "failed"}
      BY <2>2 DEF Unfinished
    <3> QED BY <2>2, <3>1, <3>2 DEF JobType
  <2> HIDE DEF k2
  <2> QED BY <1>1, <1>2, <2>1, <2>3
<1> QED BY <1>3, <1>4, <1>5 DEF Report

\* Submitting, taking and stalling a job.
LEMMA JobEffects ==
    ASSUME TypeOK, NEW j \in Jobs
    PROVE  /\ Submit(j) => \E k \in JobType : JobBecomes(j, k) /\ k.stalls = job[j].stalls
           /\ \A w \in Workers : Take(w, j) => \E k \in JobType :
                 JobBecomes(j, k) /\ k.stalls = job[j].stalls /\ k.state = "active"
           /\ Stall(j) => \E k \in JobType : JobBecomes(j, k) /\ (k.stalls # 0 \/ (k.stalls = job[j].stalls /\ k.state = "failed"))
<1>0. job \in [Jobs -> JobType] /\ job[j].stalls \in Nat
  BY Types DEF JobType
<1>1. ASSUME Submit(j) PROVE \E k \in JobType : JobBecomes(j, k) /\ k.stalls = job[j].stalls
  <2> DEFINE k == [job[j] EXCEPT !.state = "queued"]
  <2>1. JobBecomes(j, k)
    BY <1>0, <1>1 DEF Submit, JobBecomes
  <2>2. k \in JobType /\ k.stalls = job[j].stalls
    BY <1>0 DEF JobType, Unfinished
  <2> HIDE DEF k
  <2> QED BY <2>1, <2>2
<1>2. ASSUME NEW w \in Workers, Take(w, j)
      PROVE  \E k \in JobType : JobBecomes(j, k) /\ k.stalls = job[j].stalls /\ k.state = "active"
  <2> DEFINE k == [job[j] EXCEPT !.state = "active", !.owner = w]
  <2>1. JobBecomes(j, k)
    BY <1>0, <1>2 DEF Take, JobBecomes
  <2>2. k \in JobType /\ k.stalls = job[j].stalls /\ k.state = "active"
    BY <1>0 DEF JobType, Unfinished
  <2> HIDE DEF k
  <2> QED BY <2>1, <2>2
<1>3. ASSUME Stall(j)
      PROVE  \E k \in JobType : JobBecomes(j, k) /\ (k.stalls # 0 \/ (k.stalls = job[j].stalls /\ k.state = "failed"))
  <2> DEFINE k == [job[j] EXCEPT !.state = "queued", !.owner = NoWorker, !.stalls = job[j].stalls + 1]
             f == [job[j] EXCEPT !.state = "failed", !.owner = NoWorker]
  <2>1. CASE job' = [job EXCEPT ![j].state = "queued", ![j].owner = NoWorker, ![j].stalls = @ + 1]
    <3>1. JobBecomes(j, k)
      BY <1>0, <2>1 DEF JobBecomes
    <3>2. job[j].stalls + 1 \in Nat /\ job[j].stalls + 1 # 0
      BY <1>0
    <3>3. k \in JobType /\ k.stalls = job[j].stalls + 1
      BY <1>0, <3>2 DEF JobType, Unfinished
    <3> HIDE DEF k
    <3> QED BY <3>1, <3>2, <3>3
  <2>2. CASE job' = [job EXCEPT ![j].state = "failed", ![j].owner = NoWorker]
    <3>1. JobBecomes(j, f)
      BY <1>0, <2>2 DEF JobBecomes
    <3>2. f \in JobType /\ f.stalls = job[j].stalls /\ f.state = "failed"
      BY <1>0 DEF JobType
    <3> HIDE DEF f
    <3> QED BY <3>1, <3>2
  <2> QED BY <1>3, <2>1, <2>2 DEF Stall
<1> QED BY <1>1, <1>2, <1>3

\* Time: a worker's record counts on, and stays of its type and stage.
LEMMA TickEffect ==
    ASSUME TypeOK, Tick
    PROVE  /\ run' \in [Workers -> RunType]
           /\ \A w \in Workers : run'[w].pc = run[w].pc /\ (run[w].pc # "idle" => run'[w].job = run[w].job)
           /\ \A w \in Workers : run[w].pc = "run" => run'[w].left = CountDown(run[w].left, MaxSpread)
           /\ lease' \in [Jobs -> LeaseSpan]
           /\ \A j \in Jobs : lease'[j] = Absent <=> lease[j] = Absent
           /\ \A j \in Jobs : lease[j] > 0 => lease'[j] = lease[j] - 1
<1> USE AsyncAssumption
<1>0. run \in [Workers -> RunType] /\ lease \in [Jobs -> LeaseSpan]
  BY Types
<1>1. ASSUME NEW w \in Workers
      PROVE  /\ run'[w] \in RunType /\ run'[w].pc = run[w].pc
             /\ run[w].pc # "idle" => run'[w].job = run[w].job
             /\ run[w].pc = "run" => run'[w].left = CountDown(run[w].left, MaxSpread)
  <2>2. CASE run[w].pc = "run"
    <3>1. run[w] \in RunningType /\ run'[w] = [run[w] EXCEPT !.left = CountDown(@, MaxSpread)]
      BY <1>0, <2>2, RunStages DEF Tick
    <3>2. CountDown(run[w].left, MaxSpread) \in 0 .. Lease + MaxSpread
      BY <3>1 DEF RunningType, CountDown
    <3>3. /\ run'[w] \in RunningType /\ run'[w].pc = "run" /\ run'[w].job = run[w].job
          /\ run'[w].left = CountDown(run[w].left, MaxSpread)
      BY <3>1, <3>2 DEF RunningType
    <3> QED BY <2>2, <3>3 DEF RunType
  <2>3. CASE run[w].pc # "run"
    <3>1. run'[w] = run[w]
      BY <2>3 DEF Tick
    <3> QED BY <1>0, <2>3, <3>1
  <2> QED BY <2>2, <2>3
<1>2. run' \in [Workers -> RunType]
  <2>1. DOMAIN run' = Workers /\ run' = [w \in Workers |-> run'[w]]
    BY DEF Tick
  <2> QED BY <1>1, <2>1
<1>3. ASSUME NEW j \in Jobs
      PROVE  /\ lease'[j] \in LeaseSpan
             /\ lease'[j] = Absent <=> lease[j] = Absent
             /\ lease[j] > 0 => lease'[j] = lease[j] - 1
  <2>1. lease'[j] = CountDown(lease[j], IF lease[j] = Absent THEN Absent ELSE 0)
    BY DEF Tick
  <2>2. lease[j] \in LeaseSpan
    BY <1>0
  <2> QED BY <2>1, <2>2 DEF CountDown, Absent, LeaseSpan
<1>4. lease' \in [Jobs -> LeaseSpan]
  <2>1. DOMAIN lease' = Jobs /\ lease' = [j \in Jobs |-> lease'[j]]
    BY DEF Tick
  <2> QED BY <1>3, <2>1
<1> QED BY <1>1, <1>2, <1>3, <1>4

\* Removing expired entries keeps the leases that last longer than the spread.
LEMMA PurgeEffect ==
    ASSUME TypeOK, NEW t \in Readings
    PROVE  /\ Purged(t) \in [Jobs -> LeaseSpan]
           /\ Entries(Purged(t)) \subseteq Entries(lease)
           /\ \A j \in Jobs : lease[j] > MaxSpread => Purged(t)[j] = lease[j]
<1> USE AsyncAssumption
<1>0. lease \in [Jobs -> LeaseSpan] /\ t \in 0 .. MaxSpread
  BY Types DEF Readings
<1>1. Absent \in LeaseSpan
  BY DEF Absent, LeaseSpan
<1>2. \A j \in Jobs : Purged(t)[j] \in {Absent, lease[j]}
  BY DEF Purged
<1>3. \A j \in Jobs : lease[j] > MaxSpread => Purged(t)[j] = lease[j]
  BY <1>0 DEF Purged, Absent, LeaseSpan
<1>4. Purged(t) \in [Jobs -> LeaseSpan]
  BY <1>0, <1>1 DEF Purged
<1> QED BY <1>2, <1>3, <1>4 DEF Entries

\* So does a script that then writes or removes the entry of one job.
LEMMA WriteEffect ==
    ASSUME TypeOK, NEW t \in Readings, NEW j \in Jobs, NEW l \in LeaseSpan, NEW z, z = [Purged(t) EXCEPT ![j] = l]
    PROVE  /\ z \in [Jobs -> LeaseSpan] /\ z[j] = l
           /\ \A i \in Jobs : lease[i] > MaxSpread /\ i # j => z[i] = lease[i]
<1>1. Purged(t) \in [Jobs -> LeaseSpan] /\ \A i \in Jobs : lease[i] > MaxSpread => Purged(t)[i] = lease[i]
  BY PurgeEffect
<1> QED BY <1>1

\* A lease that a script gives lasts within the type.
LEMMA GivenLease ==
    ASSUME NEW t \in Readings
    PROVE  /\ t + Lease \in LeaseSpan /\ t + Lease \in Int
           /\ \A j \in Jobs : /\ Running(j, t + Lease) \in RunningType
                             /\ Running(j, t + Lease).job = j /\ Running(j, t + Lease).left = t + Lease
  BY AsyncAssumption DEF Readings, LeaseSpan, Absent, Running, RunningType

\* The acquire script touches no other lease that lasts longer than the spread.
LEMMA AcquireEffect ==
    ASSUME TypeOK, NEW t \in Readings, NEW j \in Jobs, NEW z, z = AcquireScript(j, t)
    PROVE  /\ z \in [Jobs -> LeaseSpan]
           /\ Grantable(j, Purged(t)) => z[j] = t + Lease
           /\ \A i \in Jobs : lease[i] > MaxSpread /\ i # j => z[i] = lease[i]
<1>1. CASE Grantable(j, Purged(t))
  <2>1. z = [Purged(t) EXCEPT ![j] = t + Lease]
    BY <1>1 DEF AcquireScript
  <2>2. t + Lease \in LeaseSpan
    BY GivenLease
  <2>3. Purged(t) \in [Jobs -> LeaseSpan] /\ \A i \in Jobs : lease[i] > MaxSpread => Purged(t)[i] = lease[i]
    BY PurgeEffect
  <2> QED BY <2>1, <2>2, <2>3
<1>2. CASE ~ Grantable(j, Purged(t))
  <2>1. z = Purged(t)
    BY <1>2 DEF AcquireScript
  <2> QED BY <1>2, <2>1, PurgeEffect
<1> QED BY <1>1, <1>2

\* Steps of the worker that only move its own record.
LEMMA WorkerEffects ==
    ASSUME TypeOK, NEW w \in Workers
    PROVE  /\ AcquirePermit(w) => /\ run[w].pc = "permit" /\ permit' \in PermitSpan /\ UNCHANGED <<lease, faults>>
                                  /\ \/ Postpone(w)
                                     \/ /\ job' = job
                                        /\ \E u \in AskingType : RunBecomes(w, u) /\ u.job = run[w].job
           /\ AcquireLease(w) => /\ run[w] \in AskingType /\ UNCHANGED <<permit, faults>>
                                 /\ \E t \in Readings :
                                       /\ lease' = AcquireScript(run[w].job, t)
                                       /\ \/ /\ Grantable(run[w].job, Purged(t)) /\ job' = job
                                             /\ RunBecomes(w, Running(run[w].job, t + Lease))
                                          \/ Postpone(w)
           /\ Heartbeat(w) => /\ run[w] \in RunningType /\ UNCHANGED <<job, permit, faults>>
                              /\ \E t \in Readings :
                                    \/ /\ lease' = [Purged(t) EXCEPT ![run[w].job] = t + Lease]
                                       /\ RunBecomes(w, Running(run[w].job, t + Lease))
                                       /\ run[w].job \in Entries(Purged(t))
                                    \/ lease' = Purged(t) /\ run' = run
           /\ Finish(w) => /\ run[w] \in RunningType /\ UNCHANGED <<job, permit, faults>>
                           /\ \E t \in Readings : lease' = [Purged(t) EXCEPT ![run[w].job] = Absent]
                           /\ \E u \in ReportType : RunBecomes(w, u) /\ u.job = run[w].job
           /\ CallFails(w) => /\ run[w].pc # "idle" /\ faults' \in Nat /\ job' = job /\ permit' \in PermitSpan
                              /\ lease' = lease \/ \E t \in Readings : lease' = AcquireScript(run[w].job, t)
                              /\ \E u \in ReportType : RunBecomes(w, u) /\ u.job = run[w].job
<1> USE AsyncAssumption DEF RunBecomes
<1>0. run \in [Workers -> RunType] /\ permit \in PermitSpan /\ faults \in Nat
  BY Types
<1>p. \A t \in Readings : PermitScript(t) \in PermitSpan
  BY <1>0 DEF PermitScript, PermitSpan, Readings
<1>1. ASSUME AcquirePermit(w)
      PROVE  /\ run[w].pc = "permit" /\ permit' \in PermitSpan /\ UNCHANGED <<lease, faults>>
             /\ \/ Postpone(w)
                \/ /\ job' = job
                   /\ \E u \in AskingType : RunBecomes(w, u) /\ u.job = run[w].job
  <2> DEFINE u == [run[w] EXCEPT !.pc = "acquire"]
  <2>0. run[w] \in AskingType
    BY <1>0, <1>1, RunStages DEF AcquirePermit
  <2>1. u \in AskingType /\ u.job = run[w].job
    BY <2>0 DEF AskingType
  <2>2. /\ run[w].pc = "permit" /\ permit' \in PermitSpan /\ UNCHANGED <<lease, faults>>
        /\ Postpone(w) \/ (job' = job /\ run' = [run EXCEPT ![w].pc = "acquire"])
    BY <1>1, <1>p DEF AcquirePermit
  <2>3. [run EXCEPT ![w].pc = "acquire"] = [run EXCEPT ![w] = u]
    BY <1>0
  <2> HIDE DEF u
  <2> QED BY <2>1, <2>2, <2>3
<1>2. ASSUME AcquireLease(w)
      PROVE  /\ run[w] \in AskingType /\ UNCHANGED <<permit, faults>>
             /\ \E t \in Readings :
                   /\ lease' = AcquireScript(run[w].job, t)
                   /\ \/ /\ Grantable(run[w].job, Purged(t)) /\ job' = job
                         /\ RunBecomes(w, Running(run[w].job, t + Lease))
                      \/ Postpone(w)
  <2>1. run[w] \in AskingType
    BY <1>0, <1>2, RunStages DEF AcquireLease
  <2> QED BY <1>2, <2>1 DEF AcquireLease
<1>3. ASSUME Heartbeat(w)
      PROVE  /\ run[w] \in RunningType /\ UNCHANGED <<job, permit, faults>>
             /\ \E t \in Readings :
                   \/ /\ lease' = [Purged(t) EXCEPT ![run[w].job] = t + Lease]
                      /\ RunBecomes(w, Running(run[w].job, t + Lease))
                      /\ run[w].job \in Entries(Purged(t))
                   \/ lease' = Purged(t) /\ run' = run
  <2>1. run[w] \in RunningType
    BY <1>0, <1>3, RunStages DEF Heartbeat
  <2> QED BY <1>3, <2>1 DEF Heartbeat
<1>4. \A ok \in BOOLEAN : run[w].pc # "idle" => Reporting(run[w].job, ok) \in ReportType
                                               /\ Reporting(run[w].job, ok).job = run[w].job
  BY <1>0, RunStages DEF Reporting, ReportType
<1>5. ASSUME Finish(w)
      PROVE  /\ run[w] \in RunningType /\ UNCHANGED <<job, permit, faults>>
             /\ \E t \in Readings : lease' = [Purged(t) EXCEPT ![run[w].job] = Absent]
             /\ \E u \in ReportType : RunBecomes(w, u) /\ u.job = run[w].job
  <2>1. PICK ok \in BOOLEAN : run' = [run EXCEPT ![w] = Reporting(run[w].job, ok)]
    BY <1>5 DEF Finish
  <2>2. run[w] \in RunningType
    BY <1>0, <1>5, RunStages DEF Finish
  <2> QED BY <1>4, <1>5, <2>1, <2>2 DEF Finish
<1>6. ASSUME CallFails(w)
      PROVE  /\ run[w].pc # "idle" /\ faults' \in Nat /\ job' = job /\ permit' \in PermitSpan
             /\ lease' = lease \/ \E t \in Readings : lease' = AcquireScript(run[w].job, t)
             /\ \E u \in ReportType : RunBecomes(w, u) /\ u.job = run[w].job
  <2>1. PICK ok \in BOOLEAN : run' = [run EXCEPT ![w] = Reporting(run[w].job, ok)]
    BY <1>6 DEF CallFails
  <2>2. run[w].pc # "idle" /\ faults' = faults + 1 /\ job' = job
    BY <1>6 DEF CallFails, Fault
  <2>3. permit' \in PermitSpan
    BY <1>0, <1>6, <1>p DEF CallFails
  <2>4. lease' = lease \/ \E t \in Readings : lease' = AcquireScript(run[w].job, t)
    BY <1>6 DEF CallFails
  <2>5. faults' \in Nat
    BY <1>0, <2>2
  <2>6. Reporting(run[w].job, ok) \in ReportType /\ Reporting(run[w].job, ok).job = run[w].job
    BY <1>4, <2>2
  <2> QED BY <2>1, <2>2, <2>3, <2>4, <2>5, <2>6
<1> QED BY <1>1, <1>2, <1>3, <1>5, <1>6

\* Every step keeps the types.
LEMMA TypeOKStep == TypeOK /\ [Next]_vars => TypeOK'
<1> SUFFICES ASSUME TypeOK, [Next]_vars PROVE TypeOK'
  OBVIOUS
<1> USE AsyncAssumption
<1>0. /\ job \in [Jobs -> JobType] /\ run \in [Workers -> RunType]
      /\ lease \in [Jobs -> LeaseSpan] /\ permit \in PermitSpan /\ faults \in Nat
  BY Types
<1>a. ASSUME /\ job' \in [Jobs -> JobType] /\ run' \in [Workers -> RunType]
             /\ lease' \in [Jobs -> LeaseSpan] /\ permit' \in PermitSpan /\ faults' \in Nat
      PROVE  TypeOK'
  BY <1>a DEF TypeOK, JobType, RunType, AskingType, RunningType, ReportType, LeaseSpan, PermitSpan
<1>b. ASSUME NEW j \in Jobs, NEW k \in JobType, JobBecomes(j, k) PROVE job' \in [Jobs -> JobType]
  BY <1>0, <1>b DEF JobBecomes
<1>c. ASSUME NEW w \in Workers, NEW u \in RunType, RunBecomes(w, u) PROVE run' \in [Workers -> RunType]
  BY <1>0, <1>c DEF RunBecomes
<1>d. Idle \in RunType /\ Absent \in LeaseSpan
  BY DEF RunType, Absent, LeaseSpan
<1>e. ASSUME NEW w \in Workers, run[w].pc # "idle", Postpone(w)
      PROVE  job' \in [Jobs -> JobType] /\ run' \in [Workers -> RunType]
  <2>1. run[w].job \in Jobs
    BY <1>0, <1>e, RunStages
  <2>2. RunBecomes(w, Idle) /\ (job' = job \/ \E k \in JobType : JobBecomes(run[w].job, k))
    BY <1>e, PostponeEffect
  <2> QED BY <1>0, <1>b, <1>c, <1>d, <2>1, <2>2
<1>1. ASSUME NEW j \in Jobs, Submit(j) \/ Stall(j) PROVE TypeOK'
  <2>1. job' \in [Jobs -> JobType]
    BY <1>1, <1>b, JobEffects
  <2> QED BY <1>0, <1>1, <1>a, <2>1 DEF Submit, Stall
<1>2. ASSUME NEW w \in Workers, NEW j \in Jobs, Take(w, j) PROVE TypeOK'
  <2>1. job' \in [Jobs -> JobType]
    BY <1>2, <1>b, JobEffects
  <2>2. [pc |-> "permit", job |-> j] \in RunType
    BY DEF RunType, AskingType
  <2>3. run' \in [Workers -> RunType]
    BY <1>0, <1>2, <2>2 DEF Take
  <2> QED BY <1>0, <1>2, <1>a, <2>1, <2>3 DEF Take
<1>3. ASSUME NEW w \in Workers, AcquirePermit(w) PROVE TypeOK'
  <2>1. job' \in [Jobs -> JobType] /\ run' \in [Workers -> RunType]
    BY <1>0, <1>3, <1>c, <1>e, WorkerEffects DEF RunType
  <2> QED BY <1>0, <1>3, <1>a, <2>1, WorkerEffects
<1>4. ASSUME NEW w \in Workers, AcquireLease(w) PROVE TypeOK'
  <2>1. run[w].pc # "idle" /\ run[w].job \in Jobs
    BY <1>4, WorkerEffects DEF AskingType
  <2>2. PICK t \in Readings :
           /\ lease' = AcquireScript(run[w].job, t)
           /\ \/ job' = job /\ RunBecomes(w, Running(run[w].job, t + Lease))
              \/ Postpone(w)
    BY <1>4, WorkerEffects
  <2>3. Running(run[w].job, t + Lease) \in RunType
    BY <2>1, GivenLease DEF RunType
  <2>4. job' \in [Jobs -> JobType] /\ run' \in [Workers -> RunType]
    BY <1>0, <1>c, <1>e, <2>1, <2>2, <2>3
  <2>5. lease' \in [Jobs -> LeaseSpan]
    BY <2>1, <2>2, AcquireEffect
  <2> QED BY <1>0, <1>4, <1>a, <2>4, <2>5, WorkerEffects
<1>5. ASSUME NEW w \in Workers, Heartbeat(w) PROVE TypeOK'
  <2>1. run[w].job \in Jobs
    BY <1>5, WorkerEffects DEF RunningType
  <2>2. PICK t \in Readings :
           \/ /\ lease' = [Purged(t) EXCEPT ![run[w].job] = t + Lease]
              /\ RunBecomes(w, Running(run[w].job, t + Lease))
           \/ lease' = Purged(t) /\ run' = run
    BY <1>5, WorkerEffects
  <2>3. Running(run[w].job, t + Lease) \in RunType
    BY <2>1, GivenLease DEF RunType
  <2>4. run' \in [Workers -> RunType]
    BY <1>0, <1>c, <2>2, <2>3
  <2>5. lease' \in [Jobs -> LeaseSpan]
    BY <2>1, <2>2, GivenLease, PurgeEffect, WriteEffect
  <2> QED BY <1>0, <1>5, <1>a, <2>4, <2>5, WorkerEffects
<1>6. ASSUME NEW w \in Workers, Finish(w) PROVE TypeOK'
  <2>1. run[w].job \in Jobs
    BY <1>6, WorkerEffects DEF RunningType
  <2>2. run' \in [Workers -> RunType]
    BY <1>0, <1>6, <1>c, WorkerEffects DEF RunType
  <2>3. lease' \in [Jobs -> LeaseSpan]
    BY <1>6, <1>d, <2>1, WorkerEffects, WriteEffect
  <2> QED BY <1>0, <1>6, <1>a, <2>2, <2>3, WorkerEffects
<1>7. ASSUME NEW w \in Workers, CallFails(w) PROVE TypeOK'
  <2>1. run' \in [Workers -> RunType]
    BY <1>0, <1>7, <1>c, WorkerEffects DEF RunType
  <2>2. run[w].job \in Jobs
    BY <1>0, <1>7, WorkerEffects, RunStages
  <2>3. lease' \in [Jobs -> LeaseSpan]
    BY <1>0, <1>7, <2>2, WorkerEffects, AcquireEffect
  <2> QED BY <1>0, <1>7, <1>a, <2>1, <2>3, WorkerEffects
<1>8. ASSUME NEW w \in Workers, Report(w) PROVE TypeOK'
  <2>1. run[w].job \in Jobs
    BY <1>0, <1>8, RunStages, ReportEffect
  <2>2. job' \in [Jobs -> JobType] /\ run' \in [Workers -> RunType]
    BY <1>0, <1>8, <1>b, <1>c, <1>d, <2>1, ReportEffect
  <2> QED BY <1>0, <1>8, <1>a, <2>2, ReportEffect
<1>9. ASSUME NEW w \in Workers, CrashWorker(w) PROVE TypeOK'
  BY <1>0, <1>9, <1>a, <1>d DEF CrashWorker, Fault
<1>10. CASE Tick
  <2>1. permit' \in PermitSpan /\ UNCHANGED <<job, faults>>
    BY <1>0, <1>10 DEF Tick, CountDown, PermitSpan
  <2> QED BY <1>0, <1>10, <1>a, <2>1, TickEffect
<1>11. CASE UNCHANGED vars
  BY <1>0, <1>11, <1>a DEF vars
<1> QED
  BY <1>1, <1>2, <1>3, <1>4, <1>5, <1>6, <1>7, <1>8, <1>9, <1>10, <1>11 DEF Next, WorkerStep

\* The initial state has its types.
LEMMA TypeOKInit == Init => TypeOK
  BY AsyncAssumption DEF Init, TypeOK, Absent

\* Jobs, workers, leases and permits have their types.
THEOREM AsyncTypeCorrect == Spec => []TypeOK
  BY TypeOKInit, TypeOKStep, PTL DEF Spec

-----------------------------------------------------------------------------
\* Worker w is busy with job j.
On(w, j) == run[w].pc # "idle" /\ run[w].job = j

\* As long as a job has not stalled, one worker at most is busy with it, and then the
\* job is not waiting to be handed out.
SoleInv ==
    \A j \in Jobs : job[j].stalls = 0 =>
        /\ \A w \in Workers : On(w, j) => job[j].state \notin {"none", "queued"}
        /\ \A v, w \in Workers : On(v, j) /\ On(w, j) => v = w

\* A live run's entry in Redis lasts at least as long as the worker believes.
LeaseInv == \A w \in Workers : Live(w) => lease[run[w].job] >= run[w].left

\* The entries in Redis respect the limit.
BoundInv == Cardinality(Entries(lease)) <= Limit

\* The stall count of a job never goes back to zero.
LEMMA StallsGrow ==
    ASSUME TypeOK, [Next]_vars, NEW j \in Jobs, job'[j].stalls = 0
    PROVE  job[j].stalls = 0
<1>0. job \in [Jobs -> JobType] /\ run \in [Workers -> RunType]
  BY Types
<1>a. ASSUME NEW i \in Jobs, NEW k \in JobType, JobBecomes(i, k), k.stalls # 0 \/ k.stalls = job[i].stalls
      PROVE  job[j].stalls = 0
  <2>1. job'[j] = IF j = i THEN k ELSE job[j]
    BY <1>0, <1>a DEF JobBecomes
  <2> QED BY <1>a, <2>1
<1>b. CASE job' = job
  BY <1>b
<1>c. ASSUME NEW w \in Workers, run[w].pc # "idle",
             job' = job \/ \E k \in JobType : JobBecomes(run[w].job, k) /\ k.stalls = job[run[w].job].stalls
      PROVE  job[j].stalls = 0
  <2>1. run[w].job \in Jobs
    BY <1>0, <1>c, RunStages
  <2> QED BY <1>a, <1>b, <1>c, <2>1
<1>1. CASE \E i \in Jobs : Submit(i) \/ Stall(i) \/ \E w \in Workers : Take(w, i)
  BY <1>1, <1>a, JobEffects
<1>2. ASSUME NEW w \in Workers, AcquirePermit(w) \/ AcquireLease(w) PROVE job[j].stalls = 0
  <2>1. run[w].pc # "idle" /\ (job' = job \/ Postpone(w))
    BY <1>2, WorkerEffects DEF AskingType
  <2> QED BY <1>b, <1>c, <2>1, PostponeEffect
<1>3. ASSUME NEW w \in Workers, Report(w) PROVE job[j].stalls = 0
  BY <1>3, <1>c, ReportEffect
<1>4. ASSUME NEW w \in Workers, Heartbeat(w) \/ Finish(w) \/ CallFails(w) \/ CrashWorker(w) PROVE job' = job
  BY <1>4, WorkerEffects DEF CrashWorker
<1>5. CASE Tick \/ UNCHANGED vars
  BY <1>5, <1>b DEF Tick, vars
<1> QED BY <1>1, <1>2, <1>3, <1>4, <1>5, <1>b DEF Next, WorkerStep

\* Every step keeps a job that has not stalled to one worker.
LEMMA SoleInvStep ==
    ASSUME TypeOK, SoleInv, [Next]_vars
    PROVE  SoleInv'
<1>0. job \in [Jobs -> JobType] /\ run \in [Workers -> RunType]
  BY Types
<1>d. Idle.pc = "idle"
  BY DEF Idle
<1>s. \A j \in Jobs : job'[j].stalls = 0 => job[j].stalls = 0
  BY StallsGrow
\* Runs only end, and a job goes back to the queue when its run ends.
<1>a. ASSUME \A w \in Workers, j \in Jobs : On(w, j)' => On(w, j),
             \A j \in Jobs : job'[j].stalls = 0 /\ job'[j] # job[j] =>
                 job'[j].state \notin {"none", "queued"} \/ \A w \in Workers : ~ On(w, j)'
      PROVE  SoleInv'
  BY <1>a, <1>s DEF SoleInv
<1>b. ASSUME NEW w \in Workers, run[w].pc # "idle", RunBecomes(w, Idle),
             job' = job \/ \E k \in JobType : JobBecomes(run[w].job, k)
      PROVE  SoleInv'
  <2>1. \A v \in Workers : run'[v] = IF v = w THEN Idle ELSE run[v]
    BY <1>0, <1>b DEF RunBecomes
  <2>2. \A v \in Workers, j \in Jobs : On(v, j)' => On(v, j) /\ v # w
    BY <1>d, <2>1 DEF On
  <2>3. run[w].job \in Jobs /\ On(w, run[w].job)
    BY <1>0, <1>b, RunStages DEF On
  <2>4. \A j \in Jobs : job'[j] # job[j] => j = run[w].job
    BY <1>0, <1>b DEF JobBecomes
  <2>5. \A j \in Jobs : job'[j].stalls = 0 /\ job'[j] # job[j] => \A v \in Workers : ~ On(v, j)'
    BY <1>s, <2>2, <2>3, <2>4 DEF SoleInv
  <2> QED BY <1>a, <2>2, <2>5
<1>c. ASSUME NEW w \in Workers, run[w].pc # "idle", NEW u \in RunType, RunBecomes(w, u), job' = job,
             u.job = run[w].job
      PROVE  SoleInv'
  <2>1. \A v \in Workers : run'[v] = IF v = w THEN u ELSE run[v]
    BY <1>0, <1>c DEF RunBecomes
  <2>2. \A v \in Workers, j \in Jobs : On(v, j)' => On(v, j)
    BY <1>c, <2>1 DEF On
  <2> QED BY <1>a, <1>c, <2>2
<1>1. ASSUME NEW j \in Jobs, Submit(j) \/ Stall(j) PROVE SoleInv'
  <2>1. run' = run
    BY <1>1 DEF Submit, Stall
  <2>2. PICK k \in JobType : JobBecomes(j, k) /\ (Stall(j) => k.stalls # 0 \/ k.state = "failed")
    <3>1. CASE Submit(j) /\ ~ Stall(j)
      BY <3>1, JobEffects
    <3>2. CASE Stall(j)
      BY <3>2, JobEffects
    <3> QED BY <1>1, <3>1, <3>2
  <2>3. \A i \in Jobs : job'[i] = IF i = j THEN k ELSE job[i]
    BY <1>0, <2>2 DEF JobBecomes
  <2>4. Submit(j) => job[j].state = "none"
    BY DEF Submit
  <2>5. \A w \in Workers, i \in Jobs : On(w, i)' = On(w, i)
    BY <2>1 DEF On
  <2>6. CASE Submit(j)
    <3>1. job[j].stalls = 0 => \A w \in Workers : ~ On(w, j)
      BY <2>4, <2>6 DEF SoleInv
    <3> QED BY <1>a, <1>s, <2>3, <2>5, <3>1
  <2>7. CASE Stall(j)
    BY <1>a, <2>2, <2>3, <2>5, <2>7
  <2> QED BY <1>1, <2>6, <2>7
<1>2. ASSUME NEW w \in Workers, NEW j \in Jobs, Take(w, j) PROVE SoleInv'
  <2>1. PICK k \in JobType : JobBecomes(j, k) /\ k.state = "active"
    BY <1>2, JobEffects
  <2>2. \A i \in Jobs : job'[i] = IF i = j THEN k ELSE job[i]
    BY <1>0, <2>1 DEF JobBecomes
  <2>3. \A v \in Workers : run'[v] = IF v = w THEN [pc |-> "permit", job |-> j] ELSE run[v]
    BY <1>0, <1>2 DEF Take
  <2>4. job[j].stalls = 0 => \A v \in Workers : ~ On(v, j)
    BY <1>2 DEF SoleInv, Take
  <2>5. \A v \in Workers, i \in Jobs : On(v, i)' => (v = w /\ i = j) \/ (On(v, i) /\ v # w)
    BY <2>3 DEF On
  <2> QED BY <1>s, <2>1, <2>2, <2>4, <2>5 DEF SoleInv
<1>3. ASSUME NEW w \in Workers, run[w].pc # "idle", Postpone(w) PROVE SoleInv'
  BY <1>3, <1>b, PostponeEffect
<1>4. ASSUME NEW w \in Workers, AcquirePermit(w) PROVE SoleInv'
  <2>1. CASE Postpone(w)
    BY <1>3, <1>4, <2>1, WorkerEffects
  <2>2. CASE job' = job /\ \E u \in AskingType : RunBecomes(w, u) /\ u.job = run[w].job
    BY <1>4, <1>c, <2>2, WorkerEffects DEF RunType
  <2> QED BY <1>4, <2>1, <2>2, WorkerEffects
<1>5. ASSUME NEW w \in Workers, AcquireLease(w) PROVE SoleInv'
  <2>0. run[w].pc # "idle" /\ run[w].job \in Jobs
    BY <1>5, WorkerEffects DEF AskingType
  <2>1. CASE Postpone(w)
    BY <1>3, <2>0, <2>1
  <2>2. ASSUME NEW t \in Readings, job' = job, RunBecomes(w, Running(run[w].job, t + Lease)) PROVE SoleInv'
    BY <1>c, <2>0, <2>2, GivenLease DEF RunType
  <2> QED BY <1>5, <2>1, <2>2, WorkerEffects
<1>6. ASSUME NEW w \in Workers, Heartbeat(w) PROVE SoleInv'
  <2>0. run[w].pc # "idle" /\ run[w].job \in Jobs /\ job' = job
    BY <1>6, WorkerEffects DEF RunningType
  <2>1. CASE run' = run
    BY <1>a, <2>0, <2>1 DEF On
  <2>2. ASSUME NEW t \in Readings, RunBecomes(w, Running(run[w].job, t + Lease)) PROVE SoleInv'
    BY <1>c, <2>0, <2>2, GivenLease DEF RunType
  <2> QED BY <1>6, <2>1, <2>2, WorkerEffects
<1>7. ASSUME NEW w \in Workers, Finish(w) \/ CallFails(w) PROVE SoleInv'
  <2>0. run[w].pc # "idle" /\ job' = job
    BY <1>7, WorkerEffects DEF RunningType
  <2> QED BY <1>7, <1>c, <2>0, WorkerEffects DEF RunType
<1>8. ASSUME NEW w \in Workers, Report(w) PROVE SoleInv'
  <2>0. run[w].pc # "idle" /\ RunBecomes(w, Idle) /\ (job' = job \/ \E k \in JobType : JobBecomes(run[w].job, k))
    BY <1>8, ReportEffect
  <2> QED BY <1>b, <2>0
<1>9. ASSUME NEW w \in Workers, CrashWorker(w) PROVE SoleInv'
  <2>1. run[w].pc # "idle" /\ RunBecomes(w, Idle) /\ job' = job
    BY <1>0, <1>9, RunStages DEF CrashWorker, RunBecomes
  <2> QED BY <1>b, <2>1
<1>10. CASE Tick
  <2>1. job' = job /\ \A w \in Workers, j \in Jobs : On(w, j)' => On(w, j)
    BY <1>10, TickEffect DEF On, Tick
  <2> QED BY <1>a, <2>1
<1>11. CASE UNCHANGED vars
  BY <1>a, <1>11 DEF vars, On
<1> QED
  BY <1>1, <1>2, <1>4, <1>5, <1>6, <1>7, <1>8, <1>9, <1>10, <1>11 DEF Next, WorkerStep

\* Every step keeps a live run's lease: purging spares what is left, and only the run
\* itself renews or gives back the entry of its job.
LEMMA LeaseInvStep ==
    ASSUME TypeOK, SoleInv, LeaseInv, [Next]_vars
    PROVE  LeaseInv'
<1> USE AsyncAssumption
<1>0. /\ job \in [Jobs -> JobType] /\ run \in [Workers -> RunType]
      /\ lease \in [Jobs -> LeaseSpan]
  BY Types
<1>d. Idle.pc = "idle"
  BY DEF Idle
<1>s. \A j \in Jobs : job'[j].stalls = 0 => job[j].stalls = 0
  BY StallsGrow
<1>l. ASSUME NEW w \in Workers, Live(w)
      PROVE  /\ run[w] \in RunningType /\ run[w].job \in Jobs /\ run[w].left \in Int /\ run[w].left > MaxSpread
             /\ lease[run[w].job] \in Int /\ lease[run[w].job] >= run[w].left /\ lease[run[w].job] > MaxSpread
  <2>1. run[w] \in RunningType
    BY <1>0, <1>l, RunStages DEF Live
  <2>2. run[w].job \in Jobs /\ run[w].left \in Int
    BY <2>1 DEF RunningType
  <2>3. lease[run[w].job] \in Int
    BY <1>0, <2>2 DEF Absent, LeaseSpan
  <2>4. run[w].left > MaxSpread /\ lease[run[w].job] >= run[w].left
    BY <1>l DEF Live, LeaseInv
  <2> QED BY <2>1, <2>2, <2>3, <2>4
\* A step of worker v that touches the lease of its own job only, but for what expired.
<1>a. ASSUME NEW v \in Workers, NEW u \in RunType, RunBecomes(v, u),
             \/ lease' = lease
             \/ /\ run[v].pc # "idle"
                /\ \A j \in Jobs : lease[j] > MaxSpread /\ j # run[v].job => lease'[j] = lease[j],
             Live(v)' => lease'[u.job] >= u.left
      PROVE  LeaseInv'
  <2>1. \A w \in Workers : run'[w] = IF w = v THEN u ELSE run[w]
    BY <1>0, <1>a DEF RunBecomes
  <2>2. ASSUME NEW w \in Workers, w # v, Live(w)' PROVE lease'[run'[w].job] >= run'[w].left
    <3>1. run'[w] = run[w]
      BY <2>1, <2>2
    <3>2. run[w].job \in Jobs
      BY <1>0, <2>2, <3>1, RunStages DEF Live
    <3>3. Live(w)
      BY <1>s, <2>2, <3>1, <3>2 DEF Live
    <3>4. lease[run[w].job] >= run[w].left /\ lease[run[w].job] > MaxSpread
      BY <1>l, <3>3
    <3>5. CASE lease' = lease
      BY <3>1, <3>4, <3>5
    <3>6. CASE run[v].pc # "idle" /\ \A j \in Jobs : lease[j] > MaxSpread /\ j # run[v].job => lease'[j] = lease[j]
      <4>1. On(w, run[w].job) /\ job[run[w].job].stalls = 0
        BY <3>3 DEF On, Live
      <4>2. run[v].job # run[w].job
        BY <2>2, <3>2, <3>6, <4>1 DEF SoleInv, On
      <4>3. lease'[run[w].job] = lease[run[w].job]
        BY <3>2, <3>4, <3>6, <4>2
      <4> QED BY <3>1, <3>4, <4>3
    <3> QED BY <1>a, <3>5, <3>6
  <2> QED BY <1>a, <2>1, <2>2 DEF LeaseInv
<1>b. Idle \in RunType /\ \A u \in AskingType \cup RunningType \cup ReportType : u \in RunType
  BY DEF RunType
\* The worker's new stage is not a run.
<1>c. ASSUME NEW v \in Workers, NEW u \in RunType, RunBecomes(v, u), u.pc # "run" PROVE ~ Live(v)'
  BY <1>0, <1>c DEF RunBecomes, Live
<1>1. ASSUME NEW j \in Jobs, Submit(j) \/ Stall(j) PROVE LeaseInv'
  <2>1. run' = run /\ lease' = lease
    BY <1>1 DEF Submit, Stall
  <2>2. \A w \in Workers : Live(w)' => Live(w)
    BY <1>0, <1>s, <2>1, RunStages DEF Live
  <2> QED BY <2>1, <2>2 DEF LeaseInv
<1>2. ASSUME NEW w \in Workers, NEW j \in Jobs, Take(w, j) PROVE LeaseInv'
  <2> DEFINE u == [pc |-> "permit", job |-> j]
  <2>1. u \in RunType /\ RunBecomes(w, u) /\ u.pc # "run" /\ lease' = lease
    BY <1>2 DEF Take, RunBecomes, RunType, AskingType
  <2> HIDE DEF u
  <2> QED BY <1>a, <1>c, <2>1
<1>3. ASSUME NEW w \in Workers, run[w].pc # "idle", NEW u \in RunType, RunBecomes(w, u), u.pc # "run",
             \/ lease' = lease
             \/ \A j \in Jobs : lease[j] > MaxSpread /\ j # run[w].job => lease'[j] = lease[j]
      PROVE  LeaseInv'
  BY <1>3, <1>a, <1>c
<1>4. ASSUME NEW w \in Workers, AcquirePermit(w) PROVE LeaseInv'
  <2>0. run[w].pc # "idle" /\ lease' = lease
    BY <1>4, WorkerEffects
  <2>1. CASE Postpone(w)
    BY <1>3, <1>b, <1>d, <2>0, <2>1, PostponeEffect
  <2>2. ASSUME NEW u \in AskingType, RunBecomes(w, u) PROVE LeaseInv'
    <3>1. u \in RunType /\ u.pc # "run"
      BY <1>b DEF AskingType
    <3> QED BY <1>3, <2>0, <2>2, <3>1
  <2> QED BY <1>4, <2>1, <2>2, WorkerEffects
<1>5. ASSUME NEW w \in Workers, AcquireLease(w) PROVE LeaseInv'
  <2>0. run[w].pc # "idle" /\ run[w].job \in Jobs
    BY <1>5, WorkerEffects DEF AskingType
  <2>1. PICK t \in Readings :
           /\ lease' = AcquireScript(run[w].job, t)
           /\ \/ Grantable(run[w].job, Purged(t)) /\ RunBecomes(w, Running(run[w].job, t + Lease))
              \/ Postpone(w)
    BY <1>5, WorkerEffects
  <2>2. \A j \in Jobs : lease[j] > MaxSpread /\ j # run[w].job => lease'[j] = lease[j]
    BY <2>0, <2>1, AcquireEffect
  <2>3. CASE Postpone(w)
    BY <1>3, <1>b, <1>d, <2>0, <2>2, <2>3, PostponeEffect
  <2>4. CASE Grantable(run[w].job, Purged(t)) /\ RunBecomes(w, Running(run[w].job, t + Lease))
    <3>1. lease'[run[w].job] = t + Lease
      BY <2>0, <2>1, <2>4, AcquireEffect
    <3> QED BY <1>a, <1>b, <2>0, <2>2, <2>4, <3>1, GivenLease
  <2> QED BY <2>1, <2>3, <2>4
<1>6. ASSUME NEW w \in Workers, Heartbeat(w) PROVE LeaseInv'
  <2>0. run[w].pc # "idle" /\ run[w].job \in Jobs
    BY <1>6, WorkerEffects DEF RunningType
  <2>1. ASSUME NEW t \in Readings, lease' = Purged(t), run' = run PROVE LeaseInv'
    <3>1. \A v \in Workers : Live(v)' => Live(v)
      BY <1>0, <1>s, <2>1, RunStages DEF Live
    <3>2. \A v \in Workers : Live(v) => lease'[run[v].job] = lease[run[v].job]
      BY <1>l, <2>1, PurgeEffect
    <3> QED BY <2>1, <3>1, <3>2 DEF LeaseInv
  <2>2. ASSUME NEW t \in Readings, lease' = [Purged(t) EXCEPT ![run[w].job] = t + Lease],
               RunBecomes(w, Running(run[w].job, t + Lease))
        PROVE  LeaseInv'
    <3>1. /\ lease'[run[w].job] = t + Lease
          /\ \A j \in Jobs : lease[j] > MaxSpread /\ j # run[w].job => lease'[j] = lease[j]
      BY <2>0, <2>2, GivenLease, WriteEffect
    <3> QED BY <1>a, <1>b, <2>0, <2>2, <3>1, GivenLease
  <2> QED BY <1>6, <2>1, <2>2, WorkerEffects
<1>7. ASSUME NEW w \in Workers, Finish(w) PROVE LeaseInv'
  <2>0. run[w].pc # "idle" /\ run[w].job \in Jobs /\ Absent \in LeaseSpan
    BY <1>7, WorkerEffects DEF RunningType, Absent, LeaseSpan
  <2>1. PICK u \in ReportType : RunBecomes(w, u)
    BY <1>7, WorkerEffects
  <2>2. u.pc # "run" /\ u \in RunType
    BY <1>b DEF ReportType
  <2>3. \A j \in Jobs : lease[j] > MaxSpread /\ j # run[w].job => lease'[j] = lease[j]
    BY <1>7, <2>0, WorkerEffects, WriteEffect
  <2> QED BY <1>3, <2>0, <2>1, <2>2, <2>3
<1>8. ASSUME NEW w \in Workers, CallFails(w) PROVE LeaseInv'
  <2>0. run[w].pc # "idle" /\ run[w].job \in Jobs
    BY <1>0, <1>8, WorkerEffects, RunStages
  <2>1. PICK u \in ReportType : RunBecomes(w, u)
    BY <1>8, WorkerEffects
  <2>2. u.pc # "run" /\ u \in RunType
    BY <1>b DEF ReportType
  <2>3. lease' = lease \/ \A j \in Jobs : lease[j] > MaxSpread /\ j # run[w].job => lease'[j] = lease[j]
    BY <1>8, <2>0, WorkerEffects, AcquireEffect
  <2> QED BY <1>3, <2>0, <2>1, <2>2, <2>3
<1>9. ASSUME NEW w \in Workers, Report(w) PROVE LeaseInv'
  BY <1>9, <1>3, <1>b, <1>d, ReportEffect
<1>10. ASSUME NEW w \in Workers, CrashWorker(w) PROVE LeaseInv'
  <2>1. run[w].pc # "idle" /\ RunBecomes(w, Idle) /\ lease' = lease
    BY <1>0, <1>10, RunStages DEF CrashWorker, RunBecomes
  <2> QED BY <1>3, <1>b, <1>d, <2>1
<1>11. CASE Tick
  <2> SUFFICES ASSUME NEW w \in Workers, Live(w)' PROVE lease'[run'[w].job] >= run'[w].left
    BY DEF LeaseInv
  <2>1. /\ run[w].pc = "run" /\ run'[w].job = run[w].job /\ run'[w].left = CountDown(run[w].left, MaxSpread)
        /\ job' = job /\ run'[w].left > MaxSpread
    BY <1>11, TickEffect DEF Live, Tick
  <2>2. run[w] \in RunningType
    BY <1>0, <2>1, RunStages
  <2>3. run[w].left \in Int /\ run[w].left > MaxSpread /\ run'[w].left = run[w].left - 1
    BY <2>1, <2>2 DEF RunningType, CountDown
  <2>4. Live(w)
    BY <2>1, <2>3 DEF Live
  <2>5. lease'[run[w].job] = lease[run[w].job] - 1
    BY <1>11, <1>l, <2>4, TickEffect
  <2> QED BY <1>l, <2>1, <2>3, <2>4, <2>5
<1>12. CASE UNCHANGED vars
  BY <1>12 DEF vars, LeaseInv, Live
<1> QED
  BY <1>1, <1>2, <1>4, <1>5, <1>6, <1>7, <1>8, <1>9, <1>10, <1>11, <1>12 DEF Next, WorkerStep

\* Every step keeps the entries within the limit.
LEMMA BoundInvStep ==
    ASSUME TypeOK, BoundInv, [Next]_vars
    PROVE  BoundInv'
<1> USE AsyncAssumption
<1>0. lease \in [Jobs -> LeaseSpan] /\ run \in [Workers -> RunType]
  BY Types
<1>f. \A z : IsFiniteSet(Entries(z)) /\ Cardinality(Entries(z)) \in Nat
  <2>1. \A z : Entries(z) \in SUBSET Jobs
    BY DEF Entries
  <2> QED BY <2>1, FS_Subset, FS_CardinalityType
<1>a. ASSUME NEW z, Entries(z) \subseteq Entries(lease) PROVE Cardinality(Entries(z)) <= Limit
  <2>1. Cardinality(Entries(z)) <= Cardinality(Entries(lease))
    BY <1>f, <1>a, FS_Subset
  <2> QED BY <1>f, <2>1 DEF BoundInv
<1>b. ASSUME lease' = lease PROVE BoundInv'
  BY <1>b DEF BoundInv, Entries
<1>e. Entries(lease)' = Entries(lease')
  BY DEF Entries
<1>1. ASSUME NEW j \in Jobs, NEW t \in Readings, lease' = AcquireScript(j, t) PROVE BoundInv'
  <2> DEFINE z == Purged(t)
  <2>1. Entries(z) \subseteq Entries(lease) /\ z \in [Jobs -> LeaseSpan]
    BY PurgeEffect
  <2>2. \/ lease' = z
        \/ Grantable(j, z) /\ lease' = [z EXCEPT ![j] = t + Lease]
    BY <1>1 DEF AcquireScript
  <2> HIDE DEF z
  <2>3. CASE lease' = z
    BY <1>a, <1>e, <2>1, <2>3 DEF BoundInv
  <2>4. ASSUME Grantable(j, z), lease' = [z EXCEPT ![j] = t + Lease] PROVE BoundInv'
    <3>1. Entries(lease') \in SUBSET (Entries(z) \cup {j})
      BY <2>1, <2>4 DEF Entries
    <3>2. /\ IsFiniteSet(Entries(z) \cup {j})
          /\ Cardinality(Entries(z) \cup {j}) = IF j \in Entries(z) THEN Cardinality(Entries(z))
                                                 ELSE Cardinality(Entries(z)) + 1
      BY <1>f, FS_AddElement
    <3>3. Cardinality(Entries(lease')) <= Cardinality(Entries(z) \cup {j})
      BY <3>1, <3>2, FS_Subset
    <3>4. Cardinality(Entries(z)) <= Limit
      BY <1>a, <2>1
    <3>5. Cardinality(Entries(z) \cup {j}) <= Limit
      BY <1>f, <2>4, <3>2, <3>4 DEF Grantable
    <3>6. Cardinality(Entries(z) \cup {j}) \in Nat
      BY <1>f, <3>2
    <3> QED BY <1>e, <1>f, <3>3, <3>5, <3>6 DEF BoundInv
  <2> QED BY <2>2, <2>3, <2>4
<1>2. ASSUME NEW w \in Workers, Heartbeat(w) \/ Finish(w) PROVE BoundInv'
  <2> DEFINE j == run[w].job
  <2>1. PICK t \in Readings :
           \/ lease' = Purged(t)
           \/ lease' = [Purged(t) EXCEPT ![j] = Absent]
           \/ lease' = [Purged(t) EXCEPT ![j] = t + Lease] /\ j \in Entries(Purged(t))
    BY <1>2, WorkerEffects
  <2>2. Entries(Purged(t)) \subseteq Entries(lease) /\ Purged(t) \in [Jobs -> LeaseSpan]
    BY PurgeEffect
  <2>3. Entries(lease') \subseteq Entries(Purged(t))
    BY <2>1, <2>2 DEF Entries
  <2> QED BY <1>a, <1>e, <2>2, <2>3 DEF BoundInv
<1>3. CASE Tick
  <2>1. Entries(lease') = Entries(lease)
    BY <1>3, TickEffect DEF Entries
  <2> QED BY <1>e, <2>1 DEF BoundInv
<1>4. ASSUME NEW w \in Workers, AcquireLease(w) \/ CallFails(w) PROVE BoundInv'
  <2>1. run[w].job \in Jobs
    BY <1>0, <1>4, RunStages DEF AcquireLease, CallFails
  <2> QED BY <1>1, <1>4, <1>b, <2>1, WorkerEffects
<1>7. ASSUME NEW w \in Workers, AcquirePermit(w) \/ CrashWorker(w) \/ Report(w) PROVE lease' = lease
  BY <1>7 DEF AcquirePermit, CrashWorker, Report
<1>5. ASSUME NEW j \in Jobs, Submit(j) \/ Stall(j) \/ \E w \in Workers : Take(w, j) PROVE lease' = lease
  BY <1>5 DEF Submit, Stall, Take
<1>6. CASE UNCHANGED vars
  BY <1>b, <1>6 DEF vars
<1> QED
  BY <1>2, <1>3, <1>4, <1>5, <1>6, <1>7, <1>b DEF Next, WorkerStep

-----------------------------------------------------------------------------
\* A tenant never has more than Limit live runs, for any number of workers and jobs:
\* each live run has an entry of its own in Redis, and the script counts entries.
THEOREM AsyncExecutionBounded == Spec => []ExecutionBounded
<1> DEFINE Inv == TypeOK /\ SoleInv /\ LeaseInv /\ BoundInv
<1>1. Init => Inv
  <2> SUFFICES ASSUME Init PROVE SoleInv /\ LeaseInv /\ BoundInv
    BY TypeOKInit
  <2>1. \A w \in Workers : run[w].pc = "idle"
    BY DEF Init, Idle
  <2>2. Entries(lease) = {}
    BY DEF Init, Entries
  <2> QED BY <2>1, <2>2, FS_EmptySet, AsyncAssumption DEF SoleInv, LeaseInv, BoundInv, Live, On
<1>2. Inv /\ [Next]_vars => Inv'
  BY TypeOKStep, SoleInvStep, LeaseInvStep, BoundInvStep
<1>3. Inv => ExecutionBounded
  <2> SUFFICES ASSUME Inv PROVE ExecutionBounded
    OBVIOUS
  <2> DEFINE L == {w \in Workers : Live(w)}
             f == [w \in L |-> run[w].job]
  <2>0. lease \in [Jobs -> LeaseSpan] /\ run \in [Workers -> RunType]
    BY Types
  <2>1. ASSUME NEW w \in L PROVE run[w].job \in Entries(lease)
    <3>1. run[w] \in RunningType
      BY <2>0, RunStages DEF Live
    <3>2. run[w].job \in Jobs /\ run[w].left > MaxSpread /\ run[w].left \in Int
      BY <3>1 DEF RunningType, Live
    <3>3. lease[run[w].job] >= run[w].left
      BY DEF LeaseInv
    <3>4. lease[run[w].job] # Absent
      BY <2>0, <3>2, <3>3, AsyncAssumption DEF Absent, LeaseSpan
    <3> QED BY <3>2, <3>4 DEF Entries
  <2>2. ASSUME NEW v \in L, NEW w \in L, run[v].job = run[w].job PROVE v = w
    <3>1. run[w].job \in Jobs
      BY <2>1 DEF Entries
    <3> QED BY <2>2, <3>1 DEF SoleInv, On, Live
  <2>3. f \in Injection(L, Entries(lease))
    BY <2>1, <2>2 DEF Injection, IsInjective
  <2>4. IsFiniteSet(Entries(lease)) /\ Cardinality(Entries(lease)) \in Nat
    <3>1. Entries(lease) \in SUBSET Jobs
      BY DEF Entries
    <3> QED BY <3>1, AsyncAssumption, FS_Subset, FS_CardinalityType
  <2>5. Cardinality(L) <= Cardinality(Entries(lease)) /\ Cardinality(L) \in Nat
    BY <2>3, <2>4, FS_Injection, FS_CardinalityType
  <2> QED BY <2>4, <2>5, AsyncAssumption DEF BoundInv, ExecutionBounded
<1> QED BY <1>1, <1>2, <1>3, PTL DEF Spec
=============================================================================
