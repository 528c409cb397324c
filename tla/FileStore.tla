----------------------------- MODULE FileStore -----------------------------
(***************************************************************************)
(* The file-backed stores' common ground (platform/file-store.ts):         *)
(* withFileLock, a lock directory next to the file with an owner.json in   *)
(* it, and writeTextFileAtomic, a temporary directory renamed over the     *)
(* file.  The registry, the reviewer queue, the decision log, the evidence *)
(* packs and the policy stores all run `load, act, save` under this lock.  *)
(* Every system call on shared files is a step of its own; the processes   *)
(* of a host, or of several hosts with a common volume, interleave between *)
(* them and may crash anywhere.  Removing a directory is one step: it has  *)
(* no effect on others before its last system call.                        *)
(***************************************************************************)
EXTENDS Naturals, Sequences, FiniteSets

CONSTANTS
    Procs,          \* processes, by host and pid, each running one call at a time
    Host,           \* Host[p]: where p runs
    Nobody,         \* the lock directory has no (readable) owner.json
    MaxMutations,   \* bound on the length of the content
    MaxCrashes,     \* bound on processes that end
    MaxRestarts     \* bound on pids that are used again

ASSUME FileStoreAssumption ==
    /\ Nobody \notin Procs
    /\ MaxMutations \in Nat
    /\ MaxCrashes \in Nat
    /\ MaxRestarts \in Nat

VARIABLES
    lock,       \* the lock directory
    temps,      \* processes whose temporary directory exists
    content,    \* the file: the mutations it contains, in order, by process
    pc,         \* pc[p]: the next system call of p
    seen,       \* seen[p]: the owner p read in tryRecoverStaleLock
    loaded,     \* loaded[p]: the content p loaded
    saved,      \* saved[p]: p's rename succeeded
    answered,   \* answered[p]: mutations of p that returned
    crashes,    \* how many processes have ended
    restarts,   \* how many pids were used again
    changed,    \* history: examiners of a lock that was made, owned or removed since
    stolen      \* history: a recovery removed such a lock

fileVars == <<lock, temps, content>>
dataVars == <<loaded, saved, answered>>
historyVars == <<changed, stolen>>
vars == <<fileVars, pc, seen, dataVars, crashes, restarts, historyVars>>

NoLock == [held |-> FALSE, owner |-> Nobody, old |-> FALSE]

\* A new lock directory; `old` will say that it is older than staleMs.
LockOf(o) == [held |-> TRUE, owner |-> o, old |-> FALSE]

Init ==
    /\ lock = NoLock
    /\ temps = {}
    /\ content = <<>>
    /\ pc = [p \in Procs |-> "idle"]
    /\ seen = [p \in Procs |-> Nobody]
    /\ loaded = [p \in Procs |-> <<>>]
    /\ saved = [p \in Procs |-> FALSE]
    /\ answered = [p \in Procs |-> 0]
    /\ crashes = 0
    /\ restarts = 0
    /\ changed = {}
    /\ stolen = FALSE

Goto(p, l) == pc' = [pc EXCEPT ![p] = l]

\* Between the first read and the removal of tryRecoverStaleLock.
Examining == {"stat", "alive", "recover"}

\* p changes the lock behind the back of whoever examines it.
Touch(p) == changed' = {q \in Procs \ {p} : pc[q] \in Examining}

-----------------------------------------------------------------------------
\* withFileLock

Start(p) ==
    /\ pc[p] = "idle"
    /\ Goto(p, "mkdir")
    /\ UNCHANGED <<fileVars, seen, dataVars, crashes, restarts, historyVars>>

Mkdir(p) ==
    /\ pc[p] = "mkdir"
    /\ IF lock.held
         THEN Goto(p, "check") /\ UNCHANGED <<lock, changed>>
         ELSE Goto(p, "owner") /\ lock' = LockOf(Nobody) /\ Touch(p)
    /\ UNCHANGED <<temps, content, seen, dataVars, crashes, restarts, stolen>>

\* writeLockOwner writes by path, whoever made the directory.  It fails when the
\* directory is gone, and may fail in any case.
WriteOwner(p) ==
    /\ pc[p] = "owner"
    /\ \/ lock.held /\ Goto(p, "load") /\ lock' = LockOf(p) /\ Touch(p)
       \/ Goto(p, "unlock") /\ UNCHANGED <<lock, changed>>
    /\ UNCHANGED <<temps, content, seen, dataVars, crashes, restarts, stolen>>

\* The error path removes the lock by path, and the call throws.
Unlock(p) ==
    /\ pc[p] = "unlock"
    /\ lock' = NoLock
    /\ Touch(p)
    /\ Goto(p, "idle")
    /\ UNCHANGED <<temps, content, seen, dataVars, crashes, restarts, stolen>>

\* Where the owner of an old lock leads: only a process of this host can be asked
\* whether it is alive.
Suspect(p) == IF Host[lock.owner] = Host[p] THEN "alive" ELSE "recover"

\* readLockOwner, and the age by the time in owner.json.
ReadOwner(p) ==
    /\ pc[p] = "check"
    /\ IF lock.owner = Nobody
         THEN Goto(p, "stat") /\ UNCHANGED seen
         ELSE /\ Goto(p, IF lock.old THEN Suspect(p) ELSE "retry")
              /\ seen' = [seen EXCEPT ![p] = lock.owner]
    /\ UNCHANGED <<fileVars, dataVars, crashes, restarts, historyVars>>

\* No owner was read: the age by the directory's mtime, which a new owner.json renews.
StatLock(p) ==
    /\ pc[p] = "stat"
    /\ IF lock.held /\ lock.old
         THEN Goto(p, "recover") /\ UNCHANGED changed
         ELSE Goto(p, "retry") /\ changed' = changed \ {p}
    /\ UNCHANGED <<fileVars, seen, dataVars, crashes, restarts, stolen>>

\* Mutant: an old lock is stale even if its owner lives.
Alive_Ignored(p) == FALSE

\* processAppearsAlive: some process has the pid that was read.
Alive(p) == pc[seen[p]] # "crashed"

CheckAlive(p) ==
    /\ pc[p] = "alive"
    /\ IF Alive(p)
         THEN Goto(p, "retry") /\ changed' = changed \ {p}
         ELSE Goto(p, "recover") /\ UNCHANGED changed
    /\ UNCHANGED <<fileVars, seen, dataVars, crashes, restarts, stolen>>

\* Mutant: a stale lock is reported but left alone.
Recover_Skipped(p) ==
    /\ pc[p] = "recover"
    /\ Goto(p, "retry")
    /\ changed' = changed \ {p}
    /\ UNCHANGED <<fileVars, seen, dataVars, crashes, restarts, stolen>>

\* tryRecoverStaleLock's removal: by path, whatever lock is there now.
Recover(p) ==
    /\ pc[p] = "recover"
    /\ lock' = NoLock
    /\ stolen' = (stolen \/ (lock.held /\ p \in changed))
    /\ Touch(p)
    /\ Goto(p, "mkdir")
    /\ UNCHANGED <<temps, content, seen, dataVars, crashes, restarts>>

Retry(p) ==
    /\ pc[p] = "retry"
    /\ Goto(p, "mkdir")
    /\ UNCHANGED <<fileVars, seen, dataVars, crashes, restarts, historyVars>>

\* Mutant: the wait has no deadline.
Timeout_Never(p) ==
    /\ pc[p] = "retry" /\ Len(content) > MaxMutations
    /\ Goto(p, "idle")
    /\ UNCHANGED <<fileVars, seen, dataVars, crashes, restarts, historyVars>>

\* timeoutMs has passed: the call throws.
Timeout(p) ==
    /\ pc[p] = "retry"
    /\ Goto(p, "idle")
    /\ UNCHANGED <<fileVars, seen, dataVars, crashes, restarts, historyVars>>

\* `finally`: the lock is released after an error, too.
AfterAction == "release"

\* Mutant: a process keeps the content of its last load.
Load_Cached(p) ==
    /\ pc[p] = "load"
    /\ \/ Len(content) < MaxMutations /\ Goto(p, "clean")
       \/ Goto(p, AfterAction)
    /\ UNCHANGED <<fileVars, seen, dataVars, crashes, restarts, historyVars>>

\* The action loads the file; it saves, or it throws or only reads.
Load(p) ==
    /\ pc[p] = "load"
    /\ loaded' = [loaded EXCEPT ![p] = content]
    /\ \/ Len(content) < MaxMutations /\ Goto(p, "clean")
       \/ Goto(p, AfterAction)
    /\ UNCHANGED <<fileVars, seen, saved, answered, crashes, restarts, historyVars>>

\* The lock is removed by path, whoever holds it; a mutation that was saved returns.
Release(p) ==
    /\ pc[p] = "release"
    /\ lock' = NoLock
    /\ Touch(p)
    /\ answered' = IF saved[p] THEN [answered EXCEPT ![p] = @ + 1] ELSE answered
    /\ saved' = [saved EXCEPT ![p] = FALSE]
    /\ Goto(p, "idle")
    /\ UNCHANGED <<temps, content, seen, loaded, crashes, restarts, stolen>>

-----------------------------------------------------------------------------
\* writeTextFileAtomic

\* Mutant: orphaned temporary directories are left where they are.
TempsAfterClean_Kept == temps

\* cleanupAtomicWriteTempFiles removes every temporary directory of the file.
TempsAfterClean == {}

CleanOrphans(p) ==
    /\ pc[p] = "clean"
    /\ temps' = TempsAfterClean
    /\ Goto(p, "temp")
    /\ UNCHANGED <<lock, content, seen, dataVars, crashes, restarts, historyVars>>

WriteTemp(p) ==
    /\ pc[p] = "temp"
    /\ temps' = temps \cup {p}
    /\ Goto(p, "rename")
    /\ UNCHANGED <<lock, content, seen, dataVars, crashes, restarts, historyVars>>

\* rename fails when the temporary file was cleaned up by another writer.
Rename(p) ==
    /\ pc[p] = "rename"
    /\ IF p \in temps
         THEN /\ content' = Append(loaded[p], p)
              /\ saved' = [saved EXCEPT ![p] = TRUE]
         ELSE UNCHANGED <<content, saved>>
    /\ Goto(p, "removeTemp")
    /\ UNCHANGED <<lock, temps, seen, loaded, answered, crashes, restarts, historyVars>>

RemoveTemp(p) ==
    /\ pc[p] = "removeTemp"
    /\ temps' = temps \ {p}
    /\ Goto(p, AfterAction)
    /\ UNCHANGED <<lock, content, seen, dataVars, crashes, restarts, historyVars>>

-----------------------------------------------------------------------------
\* The environment.

\* staleMs pass while the lock is held.  No process spends that long between two
\* system calls that follow each other directly: from its mkdir to owner.json or to
\* the removal after its error, and from an owner.json it could not read to the stat,
\* if the lock was made or owned in between.
Age ==
    /\ lock.held /\ ~ lock.old
    /\ \A p \in Procs : pc[p] \notin {"owner", "unlock"} /\ (pc[p] = "stat" => p \notin changed)
    /\ lock' = [lock EXCEPT !.old = TRUE]
    /\ UNCHANGED <<temps, content, pc, seen, dataVars, crashes, restarts, historyVars>>

\* A process ends: it dies at any system call, or exits between two calls.
Crash(p) ==
    /\ pc[p] # "crashed"
    /\ crashes < MaxCrashes
    /\ crashes' = crashes + 1
    /\ Goto(p, "crashed")
    /\ changed' = changed \ {p}
    /\ saved' = [saved EXCEPT ![p] = FALSE]
    /\ UNCHANGED <<fileVars, seen, loaded, answered, restarts, stolen>>

\* A process with the same pid runs on the same host again: always when a container
\* whose process 1 is the server restarts, by chance elsewhere.
Restart(p) ==
    /\ pc[p] = "crashed"
    /\ restarts < MaxRestarts
    /\ restarts' = restarts + 1
    /\ Goto(p, "idle")
    /\ UNCHANGED <<fileVars, seen, dataVars, crashes, historyVars>>

Step(p) ==
    \/ Mkdir(p) \/ WriteOwner(p) \/ Unlock(p)
    \/ ReadOwner(p) \/ StatLock(p) \/ CheckAlive(p) \/ Recover(p) \/ Retry(p) \/ Timeout(p)
    \/ Load(p) \/ CleanOrphans(p) \/ WriteTemp(p) \/ Rename(p) \/ RemoveTemp(p)
    \/ Release(p)

Next ==
    \/ \E p \in Procs : Start(p) \/ Step(p) \/ Crash(p) \/ Restart(p)
    \/ Age

Spec == Init /\ [][Next]_vars

\* A running call keeps running, time passes, a call that keeps waiting times
\* out, and every process keeps using the store.
FairSpec ==
    /\ Spec
    /\ \A p \in Procs : WF_vars(Step(p)) /\ SF_vars(Timeout(p)) /\ WF_vars(Start(p))
    /\ WF_vars(Age)

-----------------------------------------------------------------------------
\* The calls that own the lock's name: between mkdir and owner.json, and after it.
Unnamed == {"owner", "unlock"}
Named   == {"load", "clean", "temp", "rename", "removeTemp", "release"}
Holding == Unnamed \cup Named

Labels == Holding \cup Examining \cup {"idle", "mkdir", "check", "retry", "crashed"}

\* Every variable has its type, and `saved` is set only on the way to the release.
TypeOK ==
    /\ lock \in [held : BOOLEAN, owner : Procs \cup {Nobody}, old : BOOLEAN]
    /\ temps \subseteq Procs
    /\ content \in Seq(Procs)
    /\ pc \in [Procs -> Labels]
    /\ seen \in [Procs -> Procs \cup {Nobody}]
    /\ loaded \in [Procs -> Seq(Procs)]
    /\ saved \in [Procs -> BOOLEAN]
    /\ answered \in [Procs -> Nat]
    /\ crashes \in 0 .. MaxCrashes
    /\ restarts \in 0 .. MaxRestarts
    /\ changed \subseteq Procs
    /\ stolen \in BOOLEAN
    /\ \A p \in Procs : saved[p] => pc[p] \in {"removeTemp", "release"}

\* At most one process is between its mkdir and its release, although waiters
\* remove locks they take for stale.
MutualExclusion ==
    \A p, q \in Procs : pc[p] \in Holding /\ pc[q] \in Holding => p = q

\* The lock excludes, whatever crashed or came back with an old pid, as long as
\* every recovery removed the lock it had examined: that the removal is by path and
\* may hit a later lock is its only weakness among the processes of a host.
ExclusionUnlessStolen == stolen \/ MutualExclusion

\* Temporary directories do not pile up: until then there is at most one, whatever
\* crashed.
OneTemporary == stolen \/ \A p, q \in temps : p = q

\* How many mutations of c are in s.
Count(s, c) == Cardinality({i \in DOMAIN s : s[i] = c})

Store == INSTANCE AtomicStore WITH
    Callers <- Procs,
    applied <- [p \in Procs |-> Count(content, p)]

\* Load, act and save under the lock are one atomic step for the callers until a
\* lock is stolen: no mutation is lost, overwritten or applied to a content that is
\* no longer there, and none is answered that is not in the file, crashes included.
StoreIsAtomic == Store!SInit /\ [][stolen \/ Store!SNext]_(Store!svars)

\* Every call ends: it returns, throws or its process crashes.
CallsEnd == \A p \in Procs : pc[p] = "mkdir" ~> pc[p] \in {"idle", "crashed"}

\* The pid in owner.json belongs to a process that does not hold the lock: its owner
\* crashed with it and was restarted under the same pid.
PidReused == lock.owner # Nobody /\ pc[lock.owner] \notin Holding \cup {"crashed"}

\* The lock never stays behind: whatever crashed while holding it, before or after
\* it wrote owner.json, the lock is free again later on, or else its owner's pid is
\* in use again.  Then nobody ever recovers it (file-store.ts:102).
LockFreedAgain == []<>(~ lock.held \/ PidReused)
=============================================================================
