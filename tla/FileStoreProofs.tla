-------------------------- MODULE FileStoreProofs --------------------------
(***************************************************************************)
(* Proofs about the file lock and the atomic file write, for any number of *)
(* processes of one host, crashes and restarts included.                   *)
(* tryRecoverStaleLock reads a lock, tests its owner and removes whatever  *)
(* lock is there by then, each in a system call of its own, so a waiter    *)
(* can remove a lock made after the one it examined (the recovery run).    *)
(* The proofs show that nothing else can go wrong on one host: until such  *)
(* a removal the lock excludes, temporary directories do not pile up and   *)
(* `load, act, save` is atomic.  While no process ends there is no         *)
(* recovery at all, so exclusion then holds without a condition.           *)
(***************************************************************************)
EXTENDS FileStore, FiniteSetTheorems, TLAPS

OneHost == \A p, q \in Procs : Host[p] = Host[q]

\* Who holds the lock is what the lock directory says.  What an examiner found out
\* about the lock is so while the lock is still the one it examined; in particular
\* nobody holds a lock that is about to be removed.
LockInv ==
    /\ \A p \in Procs :
          /\ pc[p] \in Unnamed => lock.held /\ lock.owner = Nobody /\ ~ lock.old
          /\ pc[p] \in Named => lock.held /\ lock.owner = p
          /\ p \notin changed =>
                /\ pc[p] = "stat" => lock.owner = Nobody
                /\ pc[p] = "alive" => lock.held /\ lock.owner = seen[p]
                /\ pc[p] = "recover" => lock.held /\ \A q \in Procs : pc[q] \notin Holding
    /\ MutualExclusion

\* The temporary directory is the writer's, or the orphan of a crashed one, which
\* the next writer removes before it makes its own.
TempInv ==
    /\ \A p, q \in temps : p = q
    /\ \A p \in Procs :
          /\ pc[p] = "temp" => temps = {}
          /\ pc[p] \in {"rename", "removeTemp"} => temps = {p}

\* What the holder loaded is still the content, and every mutation that was
\* saved, returned or not, is in the file.
ContentInv ==
    \A p \in Procs :
        /\ pc[p] \in {"clean", "temp", "rename"} => loaded[p] = content
        /\ answered[p] + (IF saved[p] THEN 1 ELSE 0) <= Count(content, p)

\* An owner.json is in a lock directory, and an examiner that tests an owner read one.
OwnerInv ==
    /\ lock.owner # Nobody => lock.held
    /\ \A p \in Procs : pc[p] = "alive" => seen[p] \in Procs

\* The inductive invariant.
StoreInv == TypeOK /\ OwnerInv /\ (stolen \/ (LockInv /\ TempInv /\ ContentInv))

-----------------------------------------------------------------------------
LockType == [held : BOOLEAN, owner : Procs \cup {Nobody}, old : BOOLEAN]

\* A new lock directory has the type of a lock.
LEMMA LockOfType == ASSUME NEW o \in Procs \cup {Nobody} PROVE LockOf(o) \in LockType
  BY DEF LockOf, LockType

\* Every step keeps the type invariant.
LEMMA TypeOKStep == TypeOK /\ [Next]_vars => TypeOK'
<1> SUFFICES ASSUME TypeOK, [Next]_vars PROVE TypeOK'
  OBVIOUS
<1> USE FileStoreAssumption
    DEF TypeOK, Labels, Holding, Unnamed, Named, Examining, Goto, Touch, fileVars, dataVars,
        historyVars
<1>1. CASE UNCHANGED vars
  BY <1>1 DEF vars
<1>2. ASSUME NEW p \in Procs, Start(p) PROVE TypeOK'
  BY <1>2 DEF Start
<1>3. ASSUME NEW p \in Procs, Mkdir(p) PROVE TypeOK'
  <2>1. CASE lock.held
    BY <1>3, <2>1 DEF Mkdir
  <2>2. CASE ~ lock.held
    <3>1. Goto(p, "owner") /\ lock' = LockOf(Nobody) /\ Touch(p)
      BY <1>3, <2>2 DEF Mkdir
    <3> QED BY <1>3, <3>1, LockOfType DEF Mkdir, LockType
  <2> QED BY <2>1, <2>2
<1>4. ASSUME NEW p \in Procs, WriteOwner(p) PROVE TypeOK'
  <2>1. CASE Goto(p, "load") /\ lock' = LockOf(p) /\ Touch(p)
    BY <1>4, <2>1, LockOfType DEF WriteOwner, LockType
  <2>2. CASE Goto(p, "unlock") /\ UNCHANGED <<lock, changed>>
    BY <1>4, <2>2 DEF WriteOwner
  <2> QED BY <1>4, <2>1, <2>2 DEF WriteOwner
<1>5. ASSUME NEW p \in Procs, Unlock(p) \/ Recover(p) PROVE TypeOK'
  <2>1. CASE Unlock(p)
    BY <2>1 DEF Unlock, NoLock
  <2>2. CASE Recover(p)
    <3>1. stolen' \in BOOLEAN
      BY <2>2 DEF Recover
    <3> QED BY <2>2, <3>1 DEF Recover, NoLock
  <2> QED BY <1>5, <2>1, <2>2
<1>6. ASSUME NEW p \in Procs, ReadOwner(p) PROVE TypeOK'
  <2>1. \E l \in {"stat", "alive", "recover", "retry"} : Goto(p, l)
    BY <1>6 DEF ReadOwner, Suspect
  <2>2. seen' \in [Procs -> Procs \cup {Nobody}]
    BY <1>6 DEF ReadOwner
  <2>3. pc[p] = "check" /\ UNCHANGED <<fileVars, dataVars, crashes, restarts, historyVars>>
    BY <1>6 DEF ReadOwner
  <2>4. pc' \in [Procs -> Labels]
    BY <2>1
  <2>5. \A q \in Procs : saved'[q] => pc'[q] \in {"removeTemp", "release"}
    BY <2>1, <2>3
  <2> QED BY <2>2, <2>3, <2>4, <2>5
<1>7. ASSUME NEW p \in Procs, StatLock(p) \/ CheckAlive(p) PROVE TypeOK'
  BY <1>7 DEF StatLock, CheckAlive
<1>8. ASSUME NEW p \in Procs, Retry(p) \/ Timeout(p) PROVE TypeOK'
  BY <1>8 DEF Retry, Timeout
<1>9. ASSUME NEW p \in Procs, Load(p) PROVE TypeOK'
  BY <1>9 DEF Load, AfterAction
<1>10. ASSUME NEW p \in Procs, CleanOrphans(p) \/ WriteTemp(p) PROVE TypeOK'
  <2>1. CASE CleanOrphans(p)
    BY <2>1 DEF CleanOrphans, TempsAfterClean
  <2>2. CASE WriteTemp(p)
    BY <2>2 DEF WriteTemp
  <2> QED BY <1>10, <2>1, <2>2
<1>11. ASSUME NEW p \in Procs, Rename(p) PROVE TypeOK'
  <2>1. CASE p \in temps
    <3>1. content' = Append(loaded[p], p) /\ saved' = [saved EXCEPT ![p] = TRUE]
      BY <1>11, <2>1 DEF Rename
    <3>2. content' \in Seq(Procs)
      BY <3>1
    <3> QED BY <1>11, <3>1, <3>2 DEF Rename
  <2>2. CASE p \notin temps
    BY <1>11, <2>2 DEF Rename
  <2> QED BY <2>1, <2>2
<1>12. ASSUME NEW p \in Procs, RemoveTemp(p) PROVE TypeOK'
  BY <1>12 DEF RemoveTemp, AfterAction
<1>13. ASSUME NEW p \in Procs, Release(p) PROVE TypeOK'
  BY <1>13 DEF Release, NoLock
<1>14. ASSUME NEW p \in Procs, Crash(p) \/ Restart(p) PROVE TypeOK'
  <2>1. CASE Crash(p)
    BY <2>1 DEF Crash
  <2>2. CASE Restart(p)
    BY <2>2 DEF Restart
  <2> QED BY <1>14, <2>1, <2>2
<1>15. CASE Age
  BY <1>15 DEF Age
<1> QED
  BY <1>1, <1>2, <1>3, <1>4, <1>5, <1>6, <1>7, <1>8, <1>9, <1>10, <1>11, <1>12, <1>13,
     <1>14, <1>15 DEF Next, Step

\* The initial state has the types.
LEMMA TypeOKInit == Init => TypeOK
<1> SUFFICES ASSUME Init PROVE TypeOK
  OBVIOUS
<1>1. pc \in [Procs -> Labels]
  BY DEF Init, Labels
<1>2. lock \in LockType
  BY DEF Init, NoLock, LockType
<1>3. content \in Seq(Procs) /\ loaded \in [Procs -> Seq(Procs)]
  BY DEF Init
<1>4. \A p \in Procs : saved[p] => pc[p] \in {"removeTemp", "release"}
  BY DEF Init
<1>5. /\ temps \subseteq Procs
      /\ seen \in [Procs -> Procs \cup {Nobody}]
      /\ saved \in [Procs -> BOOLEAN]
      /\ answered \in [Procs -> Nat]
  BY DEF Init
<1>6. /\ crashes \in 0 .. MaxCrashes
      /\ restarts \in 0 .. MaxRestarts
      /\ changed \subseteq Procs
  BY FileStoreAssumption DEF Init
<1>7. stolen \in BOOLEAN
  BY DEF Init
<1> QED BY <1>1, <1>2, <1>3, <1>4, <1>5, <1>6, <1>7 DEF TypeOK, LockType

\* Every variable keeps its type, and a mutation is marked as saved only until
\* its call releases the lock (withFileLock, writeTextFileAtomic).
THEOREM FileStoreTypeCorrect == Spec => []TypeOK
  BY TypeOKInit, TypeOKStep, PTL DEF Spec

-----------------------------------------------------------------------------
\* The fields of a new and of an absent lock directory.
LEMMA LockFields ==
    ASSUME NEW o
    PROVE  /\ LockOf(o).held /\ LockOf(o).owner = o /\ ~ LockOf(o).old
           /\ ~ NoLock.held /\ NoLock.owner = Nobody /\ ~ NoLock.old
  BY DEF LockOf, NoLock

\* The calls that neither examine nor hold the lock.
Outside == {"idle", "mkdir", "check", "retry", "crashed"}

\* The steps that leave the lock and its examiners alone, and where they lead: a
\* call that waits stays outside, a call that acts stays inside.
LEMMA QuietSteps ==
    ASSUME NEW p \in Procs,
           \/ Start(p) \/ Retry(p) \/ Timeout(p) \/ Load(p) \/ CleanOrphans(p)
           \/ WriteTemp(p) \/ Rename(p) \/ RemoveTemp(p) \/ Restart(p)
    PROVE  /\ UNCHANGED <<lock, seen, changed, stolen>>
           /\ \E l \in Labels :
                 /\ pc' = [pc EXCEPT ![p] = l]
                 /\ \/ pc[p] \in Named /\ l \in Named
                    \/ pc[p] \in Outside /\ l \in Outside \ {"crashed"}
<1> DEFINE Moves(l) ==
      /\ pc' = [pc EXCEPT ![p] = l]
      /\ \/ pc[p] \in Named /\ l \in Named
         \/ pc[p] \in Outside /\ l \in Outside \ {"crashed"}
<1>1. {"idle", "mkdir", "clean", "temp", "rename", "removeTemp", "release"} \subseteq Labels
  BY DEF Labels, Holding, Named
<1>2. UNCHANGED <<lock, seen, changed, stolen>>
  BY DEF Start, Retry, Timeout, Load, CleanOrphans, WriteTemp, Rename, RemoveTemp, Restart,
         fileVars, historyVars
<1>3. CASE Start(p) \/ Retry(p)
  <2>1. Moves("mkdir")
    BY <1>3 DEF Start, Retry, Goto, Outside
  <2> QED BY <1>1, <1>2, <2>1
<1>4. CASE Timeout(p) \/ Restart(p)
  <2>1. Moves("idle")
    BY <1>4 DEF Timeout, Restart, Goto, Outside
  <2> QED BY <1>1, <1>2, <2>1
<1>5. CASE Load(p)
  <2>1. Moves("clean") \/ Moves("release")
    BY <1>5 DEF Load, AfterAction, Goto, Named
  <2> QED BY <1>1, <1>2, <2>1
<1>6. CASE CleanOrphans(p)
  <2>1. Moves("temp")
    BY <1>6 DEF CleanOrphans, Goto, Named
  <2> QED BY <1>1, <1>2, <2>1
<1>7. CASE WriteTemp(p)
  <2>1. Moves("rename")
    BY <1>7 DEF WriteTemp, Goto, Named
  <2> QED BY <1>1, <1>2, <2>1
<1>8. CASE Rename(p)
  <2>1. Moves("removeTemp")
    BY <1>8 DEF Rename, Goto, Named
  <2> QED BY <1>1, <1>2, <2>1
<1>9. CASE RemoveTemp(p)
  <2>1. Moves("release")
    BY <1>9 DEF RemoveTemp, AfterAction, Goto, Named
  <2> QED BY <1>1, <1>2, <2>1
<1> QED BY <1>3, <1>4, <1>5, <1>6, <1>7, <1>8, <1>9

\* Every step keeps the owner invariant.
LEMMA OwnerInvStep ==
    ASSUME TypeOK, OwnerInv, [Next]_vars
    PROVE  OwnerInv'
<1> USE DEF OwnerInv
<1>0. pc \in [Procs -> Labels] /\ seen \in [Procs -> Procs \cup {Nobody}] /\ lock \in LockType
  BY DEF TypeOK, LockType
<1>1. CASE UNCHANGED vars
  BY <1>1 DEF vars, fileVars
<1>2. ASSUME NEW p \in Procs,
             \/ Start(p) \/ Retry(p) \/ Timeout(p) \/ Load(p) \/ CleanOrphans(p)
             \/ WriteTemp(p) \/ Rename(p) \/ RemoveTemp(p) \/ Restart(p)
      PROVE  OwnerInv'
  <2>1. PICK l \in Labels : pc' = [pc EXCEPT ![p] = l] /\ l \in Named \cup Outside
    BY <1>2, QuietSteps
  <2>2. UNCHANGED <<lock, seen>>
    BY <1>2, QuietSteps
  <2> QED BY <1>0, <2>1, <2>2 DEF Named, Outside
<1>3. ASSUME NEW p \in Procs, NEW l \in Labels \ {"alive"}, pc' = [pc EXCEPT ![p] = l],
             UNCHANGED seen, lock' = lock \/ lock' = NoLock \/ \E o : lock' = LockOf(o)
      PROVE  OwnerInv'
  BY <1>0, <1>3, LockFields
<1>4. ASSUME NEW p \in Procs,
             \/ Mkdir(p) \/ WriteOwner(p) \/ Unlock(p) \/ StatLock(p) \/ CheckAlive(p)
             \/ Recover(p) \/ Release(p) \/ Crash(p)
      PROVE  OwnerInv'
  <2>1. UNCHANGED seen /\ (lock' = lock \/ lock' = NoLock \/ \E o : lock' = LockOf(o))
    BY <1>4 DEF Mkdir, WriteOwner, Unlock, StatLock, CheckAlive, Recover, Release, Crash,
                fileVars
  <2>2. \E l \in Labels \ {"alive"} : pc' = [pc EXCEPT ![p] = l]
    BY <1>4 DEF Mkdir, WriteOwner, Unlock, StatLock, CheckAlive, Recover, Release, Crash, Goto,
                Labels, Holding, Unnamed, Named, Examining
  <2> QED BY <1>3, <2>1, <2>2
<1>5. ASSUME NEW p \in Procs, ReadOwner(p) PROVE OwnerInv'
  <2>1. UNCHANGED lock
    BY <1>5 DEF ReadOwner, fileVars
  <2>2. CASE lock.owner = Nobody
    <3>1. pc' = [pc EXCEPT ![p] = "stat"] /\ UNCHANGED seen
      BY <1>5, <2>2 DEF ReadOwner, Goto
    <3> QED BY <1>0, <2>1, <3>1
  <2>3. CASE lock.owner # Nobody
    <3>1. seen' = [seen EXCEPT ![p] = lock.owner]
      BY <1>5, <2>3 DEF ReadOwner
    <3>2. \E l \in Labels : pc' = [pc EXCEPT ![p] = l]
      BY <1>5, <2>3 DEF ReadOwner, Suspect, Goto, Labels, Examining
    <3>3. lock.owner \in Procs
      BY <1>0, <2>3 DEF LockType
    <3> QED BY <1>0, <2>1, <3>1, <3>2, <3>3
  <2> QED BY <2>2, <2>3
<1>6. CASE Age
  <2>1. lock' = [lock EXCEPT !.old = TRUE] /\ UNCHANGED <<pc, seen>>
    BY <1>6 DEF Age
  <2>2. lock'.owner = lock.owner /\ lock'.held = lock.held
    BY <1>0, <2>1 DEF LockType
  <2> QED BY <2>1, <2>2
<1> QED
  BY <1>1, <1>2, <1>4, <1>5, <1>6 DEF Next, Step

\* A stolen lock stays stolen.
LEMMA StolenStays == ASSUME TypeOK, [Next]_vars, stolen PROVE stolen'
  BY DEF TypeOK, Next, Step, vars, Start, Mkdir, WriteOwner, Unlock, ReadOwner, StatLock,
         CheckAlive, Recover, Retry, Timeout, Load, CleanOrphans, WriteTemp, Rename, RemoveTemp,
         Release, Crash, Restart, Age, historyVars

\* Until a lock is stolen every step keeps the lock invariant: a waiter that removes
\* the lock it examined removes one that nobody holds.
LEMMA LockInvStep ==
    ASSUME OneHost, TypeOK, OwnerInv, LockInv, [Next]_vars, ~ stolen'
    PROVE  LockInv'
<1> USE FileStoreAssumption DEF LockInv, MutualExclusion, Holding, Unnamed, Named
<1>0. /\ pc \in [Procs -> Labels]
      /\ seen \in [Procs -> Procs \cup {Nobody}]
      /\ lock \in LockType
  BY DEF TypeOK, LockType
<1>1. CASE UNCHANGED vars
  BY <1>1 DEF vars, fileVars, historyVars
<1>2. ASSUME NEW p \in Procs,
             \/ Start(p) \/ Retry(p) \/ Timeout(p) \/ Load(p) \/ CleanOrphans(p)
             \/ WriteTemp(p) \/ Rename(p) \/ RemoveTemp(p) \/ Restart(p)
      PROVE  LockInv'
  <2>1. PICK l \in Labels :
             /\ pc' = [pc EXCEPT ![p] = l]
             /\ \/ pc[p] \in Named /\ l \in Named
                \/ pc[p] \in Outside /\ l \in Outside \ {"crashed"}
    BY <1>2, QuietSteps
  <2>2. UNCHANGED <<lock, seen, changed>>
    BY <1>2, QuietSteps
  <2>3. CASE pc[p] \in Named /\ l \in Named
    BY <1>0, <2>1, <2>2, <2>3
  <2>4. CASE pc[p] \in Outside /\ l \in Outside
    BY <1>0, <2>1, <2>2, <2>4 DEF Outside
  <2> QED BY <2>1, <2>3, <2>4
<1>3. ASSUME NEW p \in Procs, Touch(p), pc'[p] \notin Examining,
             \A q \in Procs : q # p => pc'[q] = pc[q]
      PROVE  \A q \in Procs : q \notin changed' => pc'[q] \notin Examining
  BY <1>3 DEF Touch
<1>4. ASSUME NEW p \in Procs, Mkdir(p) PROVE LockInv'
  <2>1. CASE lock.held
    BY <1>0, <1>4, <2>1 DEF Mkdir, Goto
  <2>2. CASE ~ lock.held
    <3>1. pc' = [pc EXCEPT ![p] = "owner"] /\ lock' = LockOf(Nobody) /\ Touch(p)
      BY <1>4, <2>2 DEF Mkdir, Goto
    <3>2. \A q \in Procs : pc[q] \notin Holding
      BY <2>2
    <3>3. \A q \in Procs : q \notin changed' => pc'[q] \notin Examining
      BY <1>0, <1>3, <3>1 DEF Examining
    <3> QED BY <1>0, <3>1, <3>2, <3>3, LockFields DEF Examining
  <2> QED BY <2>1, <2>2
<1>5. ASSUME NEW p \in Procs, WriteOwner(p) PROVE LockInv'
  <2>0. \A q \in Procs : q # p => pc[q] \notin Holding
    BY <1>5 DEF WriteOwner
  <2>1. CASE Goto(p, "load") /\ lock' = LockOf(p) /\ Touch(p)
    <3>1. \A q \in Procs : q \notin changed' => pc'[q] \notin Examining
      BY <1>0, <1>3, <2>1 DEF Examining, Goto
    <3> QED BY <1>0, <2>0, <2>1, <3>1, LockFields DEF Examining, Goto
  <2>2. CASE Goto(p, "unlock") /\ UNCHANGED <<lock, changed>>
    <3>1. UNCHANGED seen /\ pc[p] = "owner"
      BY <1>5 DEF WriteOwner
    <3> QED BY <1>0, <2>0, <2>2, <3>1 DEF Goto
  <2> QED BY <1>5, <2>1, <2>2 DEF WriteOwner
<1>6. ASSUME NEW p \in Procs, Unlock(p) \/ Release(p) \/ Recover(p) PROVE LockInv'
  <2>1. lock' = NoLock /\ Touch(p)
    BY <1>6 DEF Unlock, Release, Recover
  <2>2. \E l \in {"idle", "mkdir"} : pc' = [pc EXCEPT ![p] = l]
    BY <1>6 DEF Unlock, Release, Recover, Goto
  <2>3. \A q \in Procs : q # p => pc[q] \notin Holding
    <3>1. CASE pc[p] \in Holding
      BY <3>1
    <3>2. CASE Recover(p)
      <4>1. pc[p] = "recover" /\ ~ (lock.held /\ p \in changed)
        BY <3>2 DEF Recover
      <4> QED BY <4>1
    <3> QED BY <1>6, <3>1, <3>2 DEF Unlock, Release
  <2>4. \A q \in Procs : q \notin changed' => pc'[q] \notin Examining
    BY <1>0, <1>3, <2>1, <2>2 DEF Examining
  <2> QED BY <1>0, <2>1, <2>2, <2>3, <2>4, LockFields DEF Examining
<1>7. ASSUME NEW p \in Procs, ReadOwner(p) PROVE LockInv'
  <2>1. UNCHANGED <<lock, changed>> /\ pc[p] = "check"
    BY <1>7 DEF ReadOwner, fileVars, historyVars
  <2>2. CASE lock.owner = Nobody
    <3>1. pc' = [pc EXCEPT ![p] = "stat"] /\ UNCHANGED seen
      BY <1>7, <2>2 DEF ReadOwner, Goto
    <3> QED BY <1>0, <2>1, <2>2, <3>1
  <2>3. CASE lock.owner # Nobody
    <3>1. lock.owner \in Procs /\ lock.held
      BY <1>0, <2>3 DEF LockType, OwnerInv
    <3>2. Host[lock.owner] = Host[p]
      BY <3>1 DEF OneHost
    <3>3. \E l \in {"alive", "retry"} : pc' = [pc EXCEPT ![p] = l]
      BY <1>7, <2>3, <3>2 DEF ReadOwner, Suspect, Goto
    <3>4. seen' = [seen EXCEPT ![p] = lock.owner]
      BY <1>7, <2>3 DEF ReadOwner
    <3>5. seen'[p] = lock.owner /\ \A q \in Procs : q # p => seen'[q] = seen[q]
      BY <1>0, <3>1, <3>4
    <3> QED BY <1>0, <2>1, <3>1, <3>3, <3>5
  <2> QED BY <2>2, <2>3
<1>8. ASSUME NEW p \in Procs, pc[p] \in Examining, UNCHANGED <<lock, seen>>,
             pc' = [pc EXCEPT ![p] = "retry"], changed' = changed \ {p}
      PROVE  LockInv'
  BY <1>0, <1>8 DEF Examining
<1>9. ASSUME NEW p \in Procs, pc[p] \in Examining, UNCHANGED <<lock, seen, changed>>,
             pc' = [pc EXCEPT ![p] = "recover"],
             p \notin changed => lock.held /\ \A q \in Procs : pc[q] \notin Holding
      PROVE  LockInv'
  BY <1>0, <1>9 DEF Examining
<1>10. ASSUME NEW p \in Procs, StatLock(p) PROVE LockInv'
  <2>1. UNCHANGED <<lock, seen>> /\ pc[p] = "stat"
    BY <1>10 DEF StatLock, fileVars
  <2>2. CASE lock.held /\ lock.old
    <3>1. pc' = [pc EXCEPT ![p] = "recover"] /\ UNCHANGED changed
      BY <1>10, <2>2 DEF StatLock, Goto
    <3>2. p \notin changed => \A q \in Procs : pc[q] \notin Holding
      BY <2>1, <2>2
    <3> QED BY <1>9, <2>1, <2>2, <3>1, <3>2 DEF Examining
  <2>3. CASE ~ (lock.held /\ lock.old)
    <3>1. pc' = [pc EXCEPT ![p] = "retry"] /\ changed' = changed \ {p}
      BY <1>10, <2>3 DEF StatLock, Goto
    <3> QED BY <1>8, <2>1, <3>1 DEF Examining
  <2> QED BY <2>2, <2>3
<1>11. ASSUME NEW p \in Procs, CheckAlive(p) PROVE LockInv'
  <2>1. UNCHANGED <<lock, seen>> /\ pc[p] = "alive"
    BY <1>11 DEF CheckAlive, fileVars
  <2>2. CASE ~ Alive(p)
    <3>1. pc' = [pc EXCEPT ![p] = "recover"] /\ UNCHANGED changed
      BY <1>11, <2>2 DEF CheckAlive, Goto
    <3>2. seen[p] \in Procs /\ pc[seen[p]] = "crashed"
      BY <2>1, <2>2 DEF Alive, OwnerInv
    <3>3. p \notin changed => lock.held /\ \A q \in Procs : pc[q] \notin Holding
      BY <2>1, <3>2
    <3> QED BY <1>9, <2>1, <3>1, <3>3 DEF Examining
  <2>3. CASE Alive(p)
    <3>1. pc' = [pc EXCEPT ![p] = "retry"] /\ changed' = changed \ {p}
      BY <1>11, <2>3 DEF CheckAlive, Goto
    <3> QED BY <1>8, <2>1, <3>1 DEF Examining
  <2> QED BY <2>2, <2>3
<1>12. ASSUME NEW p \in Procs, Crash(p) PROVE LockInv'
  <2>1. /\ pc' = [pc EXCEPT ![p] = "crashed"]
        /\ changed' = changed \ {p}
        /\ UNCHANGED <<lock, seen>>
    BY <1>12 DEF Crash, Goto, fileVars
  <2> QED BY <1>0, <2>1
<1>13. CASE Age
  <2>1. /\ lock' = [lock EXCEPT !.old = TRUE]
        /\ UNCHANGED <<pc, seen, changed>>
        /\ \A q \in Procs : pc[q] \notin Unnamed
    BY <1>13 DEF Age, historyVars
  <2>2. lock'.owner = lock.owner /\ lock'.held = lock.held
    BY <1>0, <2>1 DEF LockType
  <2> QED BY <2>1, <2>2
<1> QED
  BY <1>1, <1>2, <1>4, <1>5, <1>6, <1>7, <1>10, <1>11, <1>12, <1>13 DEF Next, Step

\* The calls between their save and their release.
Writing == {"clean", "temp", "rename", "removeTemp"}

\* The steps of withFileLock itself do not touch the file, its temporaries or what
\* the action did.
LEMMA LockSteps ==
    ASSUME NEW p \in Procs,
           \/ Start(p) \/ Mkdir(p) \/ WriteOwner(p) \/ Unlock(p) \/ ReadOwner(p) \/ StatLock(p)
           \/ CheckAlive(p) \/ Recover(p) \/ Retry(p) \/ Timeout(p) \/ Restart(p)
    PROVE  /\ UNCHANGED <<temps, content, loaded, saved, answered>>
           /\ \E l \in Labels \ (Writing \cup {"crashed"}) : pc' = [pc EXCEPT ![p] = l]
<1>1. UNCHANGED <<temps, content, loaded, saved, answered>>
  BY DEF Start, Mkdir, WriteOwner, Unlock, ReadOwner, StatLock, CheckAlive, Recover, Retry,
         Timeout, Restart, fileVars, dataVars
<1>2. \E l \in {"idle", "mkdir", "owner", "unlock", "load", "check", "stat", "alive", "recover",
               "retry"} : pc' = [pc EXCEPT ![p] = l]
  BY DEF Start, Mkdir, WriteOwner, Unlock, ReadOwner, Suspect, StatLock, CheckAlive, Recover,
         Retry, Timeout, Restart, Goto
<1> QED BY <1>1, <1>2 DEF Labels, Holding, Unnamed, Named, Examining, Writing

\* While the lock excludes, a writer finds no temporary directory but its own: it
\* removes a crashed writer's before it makes one.
LEMMA TempInvStep ==
    ASSUME TypeOK, LockInv, TempInv, [Next]_vars
    PROVE  TempInv'
<1> USE DEF TempInv, Unnamed, Named
<1>0. pc \in [Procs -> Labels] /\ temps \subseteq Procs
  BY DEF TypeOK
<1>1. CASE UNCHANGED vars \/ Age
  BY <1>1 DEF vars, fileVars, dataVars, historyVars, Age
<1>2. ASSUME NEW p \in Procs, NEW l \in Labels \ {"temp", "rename", "removeTemp"},
             pc' = [pc EXCEPT ![p] = l], UNCHANGED temps
      PROVE  TempInv'
  BY <1>0, <1>2
<1>3. ASSUME NEW p \in Procs, Load(p) \/ Release(p) \/ Crash(p) PROVE TempInv'
  <2>1. UNCHANGED temps
    BY <1>3 DEF Load, Release, Crash, fileVars
  <2>2. \E l \in Labels \ {"temp", "rename", "removeTemp"} : pc' = [pc EXCEPT ![p] = l]
    BY <1>3 DEF Load, Release, Crash, AfterAction, Goto, Labels, Holding
  <2> QED BY <1>2, <2>1, <2>2
<1>5. ASSUME NEW p \in Procs,
             \/ Start(p) \/ Mkdir(p) \/ WriteOwner(p) \/ Unlock(p) \/ ReadOwner(p) \/ StatLock(p)
             \/ CheckAlive(p) \/ Recover(p) \/ Retry(p) \/ Timeout(p) \/ Restart(p)
      PROVE  TempInv'
  BY <1>2, <1>5, LockSteps DEF Writing
<1>4. ASSUME NEW p \in Procs,
             CleanOrphans(p) \/ WriteTemp(p) \/ Rename(p) \/ RemoveTemp(p)
      PROVE  TempInv'
  <2>1. \A q \in Procs : q # p => pc[q] \notin Holding
    BY <1>4 DEF CleanOrphans, WriteTemp, Rename, RemoveTemp, LockInv, MutualExclusion, Holding
  <2>2. CASE CleanOrphans(p)
    BY <1>0, <2>1, <2>2 DEF CleanOrphans, TempsAfterClean, Goto, Holding
  <2>3. CASE WriteTemp(p)
    BY <1>0, <2>1, <2>3 DEF WriteTemp, Goto, Holding
  <2>4. CASE Rename(p)
    BY <1>0, <2>1, <2>4 DEF Rename, Goto, Holding
  <2>5. CASE RemoveTemp(p)
    BY <1>0, <2>1, <2>5 DEF RemoveTemp, AfterAction, Goto, Holding
  <2> QED BY <1>4, <2>2, <2>3, <2>4, <2>5
<1> QED
  BY <1>1, <1>3, <1>4, <1>5 DEF Next, Step

-----------------------------------------------------------------------------
\* Appending a mutation counts it for its process and for no other.
LEMMA CountAppend ==
    ASSUME NEW s \in Seq(Procs), NEW p \in Procs, NEW c \in Procs
    PROVE  /\ Count(s, c) \in Nat
           /\ Count(Append(s, p), c) = Count(s, c) + (IF c = p THEN 1 ELSE 0)
<1> DEFINE S == {i \in DOMAIN s : s[i] = c}
           T == {i \in DOMAIN Append(s, p) : Append(s, p)[i] = c}
<1>1. DOMAIN s = 1 .. Len(s) /\ Len(s) \in Nat
  OBVIOUS
<1>2. IsFiniteSet(S)
  <2>1. IsFiniteSet(1 .. Len(s))
    BY <1>1, FS_Interval
  <2>2. S \in SUBSET (1 .. Len(s))
    BY <1>1
  <2> QED BY <2>1, <2>2, FS_Subset
<1>3. Cardinality(S) \in Nat
  BY <1>2, FS_CardinalityType
<1>6. Count(s, c) = Cardinality(S) /\ Count(Append(s, p), c) = Cardinality(T)
  BY DEF Count
<1>4. CASE c = p
  <2>1. T = S \cup {Len(s) + 1} /\ Len(s) + 1 \notin S
    BY <1>1, <1>4
  <2> HIDE DEF S, T
  <2>2. Cardinality(S \cup {Len(s) + 1}) = Cardinality(S) + 1
    BY <1>2, <2>1, FS_AddElement, Zenon
  <2> QED BY <1>3, <1>4, <1>6, <2>1, <2>2
<1>5. CASE c # p
  <2>1. T = S
    BY <1>1, <1>5
  <2> HIDE DEF S, T
  <2> QED BY <1>3, <1>5, <1>6, <2>1
<1> QED BY <1>4, <1>5

\* While the lock excludes, every step keeps the content invariant.
LEMMA ContentInvStep ==
    ASSUME TypeOK, LockInv, ContentInv, [Next]_vars
    PROVE  ContentInv'
<1> DEFINE CInv(p) ==
      /\ pc[p] \in {"clean", "temp", "rename"} => loaded[p] = content
      /\ answered[p] + (IF saved[p] THEN 1 ELSE 0) <= Count(content, p)
<1>0. ContentInv <=> \A p \in Procs : CInv(p)
  BY DEF ContentInv
<1>00. ContentInv' <=> \A p \in Procs : CInv(p)'
  BY DEF ContentInv
<1>T. /\ pc \in [Procs -> Labels]
      /\ loaded \in [Procs -> Seq(Procs)]
      /\ saved \in [Procs -> BOOLEAN]
      /\ answered \in [Procs -> Nat]
      /\ content \in Seq(Procs)
  BY DEF TypeOK
<1> USE DEF Goto, fileVars, dataVars, historyVars
<1>1. ASSUME NEW p \in Procs, NEW l \in Labels \ {"clean", "temp", "rename"}, Goto(p, l),
             UNCHANGED <<content, loaded, saved, answered>>
      PROVE  ContentInv'
  BY <1>0, <1>00, <1>T, <1>1
<1>2. ASSUME NEW p \in Procs,
             \/ Start(p) \/ Mkdir(p) \/ WriteOwner(p) \/ Unlock(p) \/ ReadOwner(p) \/ StatLock(p)
             \/ CheckAlive(p) \/ Recover(p) \/ Retry(p) \/ Timeout(p) \/ Restart(p)
      PROVE  ContentInv'
  BY <1>1, <1>2, LockSteps DEF Writing
<1>9. ASSUME NEW p \in Procs, RemoveTemp(p) PROVE ContentInv'
  BY <1>1, <1>9 DEF RemoveTemp, AfterAction, Labels, Holding, Named
<1>3. ASSUME NEW p \in Procs, Load(p) PROVE ContentInv'
  BY <1>0, <1>00, <1>T, <1>3 DEF Load, AfterAction
<1>4. ASSUME NEW p \in Procs, CleanOrphans(p) \/ WriteTemp(p) PROVE ContentInv'
  BY <1>0, <1>00, <1>T, <1>4 DEF CleanOrphans, WriteTemp
<1>5. ASSUME NEW p \in Procs, Rename(p) PROVE ContentInv'
  <2>1. CASE p \notin temps
    BY <1>0, <1>00, <1>T, <1>5, <2>1 DEF Rename
  <2>2. CASE p \in temps
    <3>1. /\ content' = Append(content, p)
          /\ saved' = [saved EXCEPT ![p] = TRUE]
          /\ UNCHANGED <<loaded, answered>>
          /\ pc' = [pc EXCEPT ![p] = "removeTemp"]
      BY <1>0, <1>5, <2>2 DEF Rename
    <3>2. ~ saved[p]
      BY <1>5 DEF Rename, TypeOK
    <3>3. \A q \in Procs : q # p => pc[q] \notin Holding
      BY <1>5 DEF Rename, LockInv, MutualExclusion, Holding, Unnamed, Named
    <3>4. ASSUME NEW q \in Procs PROVE CInv(q)'
      <4>1. /\ Count(content, q) \in Nat
            /\ Count(content', q) = Count(content, q) + (IF q = p THEN 1 ELSE 0)
        BY <1>T, <3>1, CountAppend
      <4>2. pc'[q] \notin {"clean", "temp", "rename"}
        BY <1>T, <3>1, <3>3 DEF Holding, Named
      <4>3. CInv(q)
        BY <1>0
      <4>4. CASE q = p
        BY <1>T, <3>1, <3>2, <4>1, <4>2, <4>3, <4>4
      <4>5. CASE q # p
        BY <1>T, <3>1, <4>1, <4>2, <4>3, <4>5
      <4> QED BY <4>4, <4>5
    <3> QED BY <1>00, <3>4
  <2> QED BY <2>1, <2>2
<1>6. ASSUME NEW p \in Procs, Release(p) PROVE ContentInv'
  <2>1. CASE saved[p]
    BY <1>0, <1>00, <1>T, <1>6, <2>1 DEF Release
  <2>2. CASE ~ saved[p]
    BY <1>0, <1>00, <1>T, <1>6, <2>2 DEF Release
  <2> QED BY <2>1, <2>2
<1>7. ASSUME NEW p \in Procs, Crash(p) PROVE ContentInv'
  <2>1. pc' = [pc EXCEPT ![p] = "crashed"] /\ saved' = [saved EXCEPT ![p] = FALSE]
    BY <1>7 DEF Crash
  <2>2. UNCHANGED <<content, loaded, answered>>
    BY <1>7 DEF Crash
  <2>3. \A q \in Procs : Count(content, q) \in Nat
    BY <1>T, CountAppend
  <2> QED BY <1>0, <1>00, <1>T, <2>1, <2>2, <2>3
<1>8. CASE Age \/ UNCHANGED vars
  BY <1>0, <1>00, <1>8 DEF Age, vars
<1> QED
  BY <1>2, <1>3, <1>4, <1>5, <1>6, <1>7, <1>8, <1>9 DEF Next, Step

\* An empty file contains no mutation.
LEMMA CountEmpty == \A c : Count(<<>>, c) = 0
<1>1. ASSUME NEW c PROVE {i \in DOMAIN <<>> : <<>>[i] = c} = {}
  OBVIOUS
<1> QED BY <1>1, FS_EmptySet DEF Count

\* Every step of the file store is a step of the atomic store: the rename mutates,
\* the release answers, and everything else is invisible to the callers.
LEMMA StoreStep ==
    ASSUME TypeOK, ContentInv, [Next]_vars
    PROVE  [Store!SNext]_(Store!svars)
<1> DEFINE applied == [p \in Procs |-> Count(content, p)]
<1>T. /\ content \in Seq(Procs)
      /\ answered \in [Procs -> Nat]
  BY DEF TypeOK
<1>0. ASSUME UNCHANGED <<content, answered>> PROVE [Store!SNext]_(Store!svars)
  BY <1>0 DEF Store!svars
<1>1. ASSUME NEW p \in Procs, Rename(p) PROVE [Store!SNext]_(Store!svars)
  <2>1. CASE p \notin temps
    BY <1>0, <1>1, <2>1 DEF Rename
  <2>2. CASE p \in temps
    <3>1. content' = Append(content, p) /\ UNCHANGED answered
      BY <1>1, <2>2 DEF Rename, ContentInv
    <3>2. ASSUME NEW c \in Procs
          PROVE  /\ Count(content, c) \in Nat
                 /\ Count(content', c) = Count(content, c) + (IF c = p THEN 1 ELSE 0)
      BY <1>T, <3>1, CountAppend
    <3>3. applied' = [applied EXCEPT ![p] = @ + 1]
      <4> DEFINE f(c) == Count(content, c)
                 g(c) == Count(content', c)
      <4>1. \A c \in Procs : g(c) = IF c = p THEN f(c) + 1 ELSE f(c)
        BY <3>2
      <4> HIDE DEF f, g
      <4>2. [c \in Procs |-> g(c)] = [[c \in Procs |-> f(c)] EXCEPT ![p] = @ + 1]
        BY <4>1
      <4> QED BY <4>2 DEF f, g
    <3> QED BY <3>1, <3>3 DEF Store!SNext, Store!Mutate
  <2> QED BY <2>1, <2>2
<1>2. ASSUME NEW p \in Procs, Release(p) PROVE [Store!SNext]_(Store!svars)
  <2>1. CASE ~ saved[p]
    BY <1>0, <1>2, <2>1 DEF Release
  <2>2. CASE saved[p]
    <3>1. answered' = [answered EXCEPT ![p] = @ + 1] /\ UNCHANGED content
      BY <1>2, <2>2 DEF Release
    <3>2. answered[p] < applied[p]
      <4>1. answered[p] + 1 <= Count(content, p)
        BY <2>2 DEF ContentInv
      <4>2. Count(content, p) \in Nat
        BY <1>T, CountAppend
      <4> QED BY <1>T, <4>1, <4>2
    <3> QED BY <3>1, <3>2 DEF Store!SNext, Store!Return
  <2> QED BY <2>1, <2>2
<1>3. ASSUME NEW p \in Procs,
             \/ Start(p) \/ Crash(p) \/ Restart(p)
             \/ Step(p) /\ ~ Rename(p) /\ ~ Release(p)
      PROVE  UNCHANGED <<content, answered>>
  <2>1. ASSUME Crash(p) \/ Load(p) \/ CleanOrphans(p) \/ WriteTemp(p) \/ RemoveTemp(p)
        PROVE  UNCHANGED <<content, answered>>
    BY <2>1 DEF Crash, Load, CleanOrphans, WriteTemp, RemoveTemp, fileVars, dataVars
  <2> QED BY <1>3, <2>1, LockSteps DEF Step
<1>4. CASE Age \/ UNCHANGED vars
  BY <1>0, <1>4 DEF Age, vars, fileVars, dataVars, historyVars
<1> QED BY <1>0, <1>1, <1>2, <1>3, <1>4 DEF Next

-----------------------------------------------------------------------------
\* The initial state satisfies every part of the invariant.
LEMMA StoreInvInit == Init => StoreInv
<1> SUFFICES ASSUME Init PROVE StoreInv
  OBVIOUS
<1>1. TypeOK
  BY TypeOKInit
<1>2. OwnerInv /\ LockInv
  BY DEF Init, OwnerInv, LockInv, MutualExclusion, NoLock, Holding, Unnamed, Named
<1>3. TempInv
  BY DEF Init, TempInv
<1>4. ContentInv
  BY CountEmpty DEF Init, ContentInv
<1> QED BY <1>1, <1>2, <1>3, <1>4 DEF StoreInv

\* Every step keeps it.
LEMMA StoreInvStep ==
    ASSUME OneHost
    PROVE  StoreInv /\ [Next]_vars => StoreInv'
<1> SUFFICES ASSUME StoreInv, [Next]_vars PROVE StoreInv'
  OBVIOUS
<1>1. TypeOK /\ OwnerInv /\ TypeOK' /\ OwnerInv'
  BY TypeOKStep, OwnerInvStep DEF StoreInv
<1>2. CASE stolen'
  BY <1>1, <1>2 DEF StoreInv
<1>3. CASE ~ stolen'
  <2>1. LockInv /\ TempInv /\ ContentInv
    BY <1>1, <1>3, StolenStays DEF StoreInv
  <2>2. LockInv' /\ TempInv' /\ ContentInv'
    BY <1>1, <1>3, <2>1, LockInvStep, TempInvStep, ContentInvStep
  <2> QED BY <1>1, <2>2 DEF StoreInv
<1> QED BY <1>2, <1>3

\* However many processes of a host compete for the file, however long one of them
\* keeps it, wherever they crash and whatever pids are used again, withFileLock
\* excludes until tryRecoverStaleLock removes a lock that is not the one it examined:
\* that is the lock's only weakness on one host.
THEOREM FileLockExcludesUnlessStolen ==
    ASSUME OneHost
    PROVE  Spec => []ExclusionUnlessStolen
<1>1. StoreInv => ExclusionUnlessStolen
  BY DEF StoreInv, LockInv, ExclusionUnlessStolen
<1> QED BY <1>1, StoreInvInit, StoreInvStep, PTL DEF Spec

\* Until then writeTextFileAtomic never leaves more than one temporary directory,
\* whichever writers crashed before their clean-up.
THEOREM FileStoreKeepsOneTemporary ==
    ASSUME OneHost
    PROVE  Spec => []OneTemporary
<1>1. StoreInv => OneTemporary
  BY DEF StoreInv, TempInv, OneTemporary
<1> QED BY <1>1, StoreInvInit, StoreInvStep, PTL DEF Spec

\* Until then load, act and save are one atomic step for the callers, crashes at any
\* system call included: the file store implements AtomicStore.
THEOREM FileStoreIsAtomic ==
    ASSUME OneHost
    PROVE  Spec => StoreIsAtomic
<1>1. Init => Store!SInit
  BY CountEmpty DEF Init, Store!SInit
<1>2. StoreInv /\ [Next]_vars => [stolen \/ Store!SNext]_(Store!svars)
  <2> SUFFICES ASSUME StoreInv, [Next]_vars, ~ stolen PROVE [Store!SNext]_(Store!svars)
    OBVIOUS
  <2> QED BY StoreStep DEF StoreInv
<1> QED
  BY <1>1, <1>2, StoreInvInit, StoreInvStep, PTL DEF Spec, StoreIsAtomic

-----------------------------------------------------------------------------
\* While no process has ended, nobody takes a lock for stale, so none is stolen: a
\* lock without an owner.json is being given one by its maker, and is not old yet.
CalmInv ==
    /\ \A p \in Procs : pc[p] \notin {"crashed", "recover"}
    /\ lock.held /\ lock.owner = Nobody => \E p \in Procs : pc[p] \in Unnamed
    /\ \A p \in Procs : pc[p] = "stat" => ~ (lock.held /\ lock.old)
    /\ ~ stolen

\* Without crashes every step keeps it.
LEMMA CalmInvStep ==
    ASSUME OneHost, MaxCrashes = 0
    PROVE  StoreInv /\ CalmInv /\ [Next]_vars => CalmInv'
<1> SUFFICES ASSUME StoreInv, CalmInv, [Next]_vars PROVE CalmInv'
  OBVIOUS
<1>0. /\ pc \in [Procs -> Labels]
      /\ lock \in LockType
      /\ crashes = 0
      /\ LockInv /\ OwnerInv
  BY DEF StoreInv, TypeOK, LockType, CalmInv
<1> USE DEF CalmInv, Unnamed
<1>1. CASE UNCHANGED vars
  BY <1>1 DEF vars, fileVars, historyVars
<1>2. ASSUME NEW p \in Procs, NEW l \in Labels \ {"crashed", "recover"},
             pc' = [pc EXCEPT ![p] = l], UNCHANGED <<lock, stolen>>,
             pc[p] \in Unnamed => l \in Unnamed, l = "stat" => ~ (lock.held /\ lock.old)
      PROVE  CalmInv'
  BY <1>0, <1>2
<1>3. ASSUME NEW p \in Procs,
             \/ Start(p) \/ Retry(p) \/ Timeout(p) \/ Load(p) \/ CleanOrphans(p)
             \/ WriteTemp(p) \/ Rename(p) \/ RemoveTemp(p) \/ Restart(p)
      PROVE  CalmInv'
  BY <1>2, <1>3, QuietSteps DEF Named, Outside
<1>4. ASSUME NEW p \in Procs, Mkdir(p) PROVE CalmInv'
  <2>1. CASE lock.held
    BY <1>2, <1>4, <2>1 DEF Mkdir, Goto, Labels
  <2>2. CASE ~ lock.held
    <3>1. pc' = [pc EXCEPT ![p] = "owner"] /\ lock' = LockOf(Nobody) /\ UNCHANGED stolen
      BY <1>4, <2>2 DEF Mkdir, Goto
    <3> QED BY <1>0, <3>1, LockFields
  <2> QED BY <2>1, <2>2
<1>5. ASSUME NEW p \in Procs, WriteOwner(p) PROVE CalmInv'
  <2>1. CASE Goto(p, "load") /\ lock' = LockOf(p)
    <3>1. lock'.owner # Nobody /\ ~ lock'.old
      BY <2>1, LockFields, FileStoreAssumption
    <3>2. UNCHANGED stolen
      BY <1>5 DEF WriteOwner
    <3> QED BY <1>0, <2>1, <3>1, <3>2 DEF Goto
  <2>2. CASE Goto(p, "unlock") /\ UNCHANGED lock
    BY <1>2, <1>5, <2>2 DEF WriteOwner, Goto, Labels, Holding
  <2> QED BY <1>5, <2>1, <2>2 DEF WriteOwner
<1>6. ASSUME NEW p \in Procs, Unlock(p) \/ Release(p) PROVE CalmInv'
  <2>1. lock' = NoLock /\ pc' = [pc EXCEPT ![p] = "idle"] /\ UNCHANGED stolen
    BY <1>6 DEF Unlock, Release, Goto
  <2> QED BY <1>0, <2>1, LockFields
<1>7. ASSUME NEW p \in Procs, ReadOwner(p) PROVE CalmInv'
  <2>1. UNCHANGED <<lock, stolen>> /\ pc[p] = "check"
    BY <1>7 DEF ReadOwner, fileVars, historyVars
  <2>2. CASE lock.owner = Nobody
    <3>1. pc' = [pc EXCEPT ![p] = "stat"]
      BY <1>7, <2>2 DEF ReadOwner, Goto
    <3>2. ~ (lock.held /\ lock.old)
      BY <1>0, <2>2 DEF LockInv
    <3> QED BY <1>2, <2>1, <3>1, <3>2 DEF Labels, Examining
  <2>3. CASE lock.owner # Nobody
    <3>1. Host[lock.owner] = Host[p]
      BY <1>0, <2>3 DEF OneHost, LockType
    <3>2. \E l \in {"alive", "retry"} : pc' = [pc EXCEPT ![p] = l]
      BY <1>7, <2>3, <3>1 DEF ReadOwner, Suspect, Goto
    <3> QED BY <1>2, <2>1, <3>2 DEF Labels, Examining
  <2> QED BY <2>2, <2>3
<1>8. ASSUME NEW p \in Procs, StatLock(p) PROVE CalmInv'
  <2>1. UNCHANGED <<lock, stolen>> /\ pc[p] = "stat"
    BY <1>8 DEF StatLock, fileVars
  <2>2. pc' = [pc EXCEPT ![p] = "retry"]
    BY <1>8, <2>1 DEF StatLock, Goto
  <2> QED BY <1>2, <2>1, <2>2 DEF Labels
<1>9. ASSUME NEW p \in Procs, CheckAlive(p) PROVE CalmInv'
  <2>1. UNCHANGED <<lock, stolen>> /\ pc[p] = "alive"
    BY <1>9 DEF CheckAlive, fileVars
  <2>2. seen[p] \in Procs
    BY <1>0, <2>1 DEF OwnerInv
  <2>3. pc' = [pc EXCEPT ![p] = "retry"]
    BY <1>9, <2>2 DEF CheckAlive, Alive, Goto
  <2> QED BY <1>2, <2>1, <2>3 DEF Labels
<1>10. ASSUME NEW p \in Procs PROVE ~ Recover(p) /\ ~ Crash(p)
  BY <1>0 DEF Recover, Crash
<1>11. CASE Age
  <2>1. /\ lock' = [lock EXCEPT !.old = TRUE]
        /\ lock.held
        /\ UNCHANGED <<pc, stolen>>
        /\ \A q \in Procs : pc[q] \notin Unnamed /\ (pc[q] = "stat" => q \notin changed)
    BY <1>11 DEF Age, historyVars
  <2>2. lock.owner # Nobody
    BY <2>1
  <2>3. \A q \in Procs : pc[q] # "stat"
    BY <1>0, <2>1, <2>2 DEF LockInv
  <2>4. lock'.owner # Nobody
    BY <1>0, <2>1, <2>2 DEF LockType
  <2> QED BY <2>1, <2>3, <2>4
<1> QED
  BY <1>1, <1>3, <1>4, <1>5, <1>6, <1>7, <1>8, <1>9, <1>10, <1>11 DEF Next, Step

\* Any number of processes of a host that do not end exclude each other with
\* withFileLock, however long one of them keeps the lock: a lock older than staleMs
\* is never taken from a live owner.
THEOREM FileLockExcludesTheLiving ==
    ASSUME OneHost, MaxCrashes = 0
    PROVE  Spec => []MutualExclusion
<1>1. Init => CalmInv
  BY DEF Init, CalmInv, NoLock
<1>2. StoreInv /\ CalmInv => MutualExclusion
  BY DEF StoreInv, CalmInv, LockInv
<1> QED BY <1>1, <1>2, StoreInvInit, StoreInvStep, CalmInvStep, PTL DEF Spec
=============================================================================
