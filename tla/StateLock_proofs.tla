-------------------------- MODULE StateLock_proofs --------------------------
(***************************************************************************)
(* Mutual exclusion, no lost update and atomicity of StateLock, for every  *)
(* set of processes and threads and every nesting depth.                   *)
(***************************************************************************)
EXTENDS StateLock, TLAPS

Active(t) == pc[t] \in {"acquire", "in", "replace"}

\* Whoever is past _local_lock owns it.
OwnerInv ==
    \A t \in Threads : Active(t) => owner[ProcOf[t]] = t

\* The flock is held by exactly the process whose _handle is set.
FlockInv ==
    \A p \in Procs : handle[p] <=> flock = p

\* Depth 0 is "not inside"; inside, the flock is held or was unobtainable.
DepthInv ==
    /\ \A p \in Procs : owner[p] = NoThread => depth[p] = 0 /\ ~ handle[p]
    /\ \A t \in Threads :
          /\ pc[t] = "acquire" => depth[ProcOf[t]] = 0 /\ ~ handle[ProcOf[t]]
          /\ Inside(t) => /\ depth[ProcOf[t]] > 0
                          /\ intact => handle[ProcOf[t]]

\* A write in progress has work left, and the scratch file holds the loaded
\* copy plus this update.
WriteInv ==
    \A t \in Threads :
        pc[t] = "replace" =>
            /\ work[t] > 0
            /\ copy[t] # <<>>
            /\ tmp[ProcOf[t]] = <<copy[t][1] \cup {<<t, work[t]>>}>>

LockInv == TypeOK /\ OwnerInv /\ FlockInv /\ DepthInv /\ WriteInv

\* What a thread inside the lock knows about the file, as long as everybody
\* could open the lock file.
DataInv ==
    /\ intact => done \subseteq file
    /\ \A t \in Threads :
          copy[t] # <<>> => Inside(t) /\ (intact => copy[t][1] = file)

-----------------------------------------------------------------------------

LEMMA InitLockInv == Init => LockInv
  BY StateLockAssumption
     DEF Init, LockInv, TypeOK, OwnerInv, FlockInv, DepthInv, WriteInv,
         Active, Inside

LEMMA StepTypeOK == LockInv /\ [Next]_vars => TypeOK'
<1> SUFFICES ASSUME LockInv, [Next]_vars PROVE TypeOK'
  OBVIOUS
<1> USE StateLockAssumption
    DEF LockInv, TypeOK, OwnerInv, DepthInv, WriteInv, Active, Inside
<1>1. ASSUME NEW t \in Threads, EnterLocal(t) PROVE TypeOK'
  BY <1>1 DEF EnterLocal
<1>2. ASSUME NEW t \in Threads, TakeFlock(t) PROVE TypeOK'
  BY <1>2 DEF TakeFlock
<1>3. ASSUME NEW t \in Threads, ProceedUnlocked(t) PROVE TypeOK'
  <2>1. depth' \in [Procs -> 0..MaxDepth]
    BY <1>3 DEF ProceedUnlocked
  <2> QED
    BY <1>3, <2>1 DEF ProceedUnlocked
<1>4. ASSUME NEW t \in Threads, EnterNested(t) PROVE TypeOK'
  <2>1. depth' \in [Procs -> 0..MaxDepth] /\ work' \in [Threads -> 0..MaxWork]
    BY <1>4 DEF EnterNested
  <2>2. copy' \in [Threads -> Seq(SUBSET Updates)]
    BY <1>4 DEF EnterNested
  <2> QED
    BY <1>4, <2>1, <2>2 DEF EnterNested
<1>5. ASSUME NEW t \in Threads, Load(t) PROVE TypeOK'
  BY <1>5 DEF Load
<1>6. ASSUME NEW t \in Threads, WriteTmp(t) PROVE TypeOK'
  BY <1>6 DEF WriteTmp, Updates
<1>7. ASSUME NEW t \in Threads, Replace(t) PROVE TypeOK'
  <2>1. work[t] \in 1..MaxWork /\ <<t, work[t]>> \in Updates
    BY <1>7 DEF Replace, Updates
  <2>2. tmp[ProcOf[t]][1] \in SUBSET Updates
    BY <1>7, <2>1 DEF Replace
  <2>3. file' \in SUBSET Updates /\ done' \in SUBSET Updates
    BY <1>7, <2>1, <2>2 DEF Replace
  <2>4. work' \in [Threads -> 0..MaxWork]
    BY <1>7, <2>1 DEF Replace
  <2>5. /\ tmp' \in [Procs -> Seq(SUBSET Updates)]
        /\ copy' \in [Threads -> Seq(SUBSET Updates)]
    BY <1>7 DEF Replace
  <2> QED
    BY <1>7, <2>3, <2>4, <2>5 DEF Replace
<1>8. ASSUME NEW t \in Threads, WriteFails(t) PROVE TypeOK'
  <2>1. work' \in [Threads -> 0..MaxWork]
    BY <1>8 DEF WriteFails
  <2>2. /\ tmp' \in [Procs -> Seq(SUBSET Updates)]
        /\ copy' \in [Threads -> Seq(SUBSET Updates)]
    BY <1>8 DEF WriteFails
  <2> QED
    BY <1>8, <2>1, <2>2 DEF WriteFails
<1>9. ASSUME NEW t \in Threads, ExitNested(t) PROVE TypeOK'
  BY <1>9 DEF ExitNested
<1>10. ASSUME NEW t \in Threads, ExitOutermost(t) PROVE TypeOK'
  BY <1>10 DEF ExitOutermost
<1>11. ASSUME NEW p \in Procs, Die(p) PROVE TypeOK'
  BY <1>11 DEF Die
<1>12. CASE UNCHANGED vars
  BY <1>12 DEF vars
<1> QED
  BY <1>1, <1>2, <1>3, <1>4, <1>5, <1>6, <1>7, <1>8, <1>9, <1>10, <1>11, <1>12
     DEF Next, Progress

LEMMA StepOwner == LockInv /\ [Next]_vars => OwnerInv'
<1> SUFFICES ASSUME LockInv, [Next]_vars PROVE OwnerInv'
  OBVIOUS
<1> USE StateLockAssumption
    DEF LockInv, TypeOK, OwnerInv, Active
<1>1. ASSUME NEW t \in Threads, EnterLocal(t) PROVE OwnerInv'
  BY <1>1 DEF EnterLocal
<1>2. ASSUME NEW t \in Threads, TakeFlock(t) PROVE OwnerInv'
  BY <1>2 DEF TakeFlock
<1>3. ASSUME NEW t \in Threads, ProceedUnlocked(t) PROVE OwnerInv'
  BY <1>3 DEF ProceedUnlocked
<1>4. ASSUME NEW t \in Threads, EnterNested(t) PROVE OwnerInv'
  BY <1>4 DEF EnterNested
<1>5. ASSUME NEW t \in Threads, Load(t) PROVE OwnerInv'
  BY <1>5 DEF Load
<1>6. ASSUME NEW t \in Threads, WriteTmp(t) PROVE OwnerInv'
  BY <1>6 DEF WriteTmp
<1>7. ASSUME NEW t \in Threads, Replace(t) PROVE OwnerInv'
  BY <1>7 DEF Replace
<1>8. ASSUME NEW t \in Threads, WriteFails(t) PROVE OwnerInv'
  BY <1>8 DEF WriteFails
<1>9. ASSUME NEW t \in Threads, ExitNested(t) PROVE OwnerInv'
  BY <1>9 DEF ExitNested
<1>10. ASSUME NEW t \in Threads, ExitOutermost(t) PROVE OwnerInv'
  BY <1>10 DEF ExitOutermost
<1>11. ASSUME NEW p \in Procs, Die(p) PROVE OwnerInv'
  BY <1>11 DEF Die
<1>12. CASE UNCHANGED vars
  BY <1>12 DEF vars
<1> QED
  BY <1>1, <1>2, <1>3, <1>4, <1>5, <1>6, <1>7, <1>8, <1>9, <1>10, <1>11, <1>12
     DEF Next, Progress

LEMMA StepFlock == LockInv /\ [Next]_vars => FlockInv'
<1> SUFFICES ASSUME LockInv, [Next]_vars PROVE FlockInv'
  OBVIOUS
<1> USE StateLockAssumption
    DEF LockInv, TypeOK, OwnerInv, FlockInv, DepthInv, Active, Inside
<1>1. ASSUME NEW t \in Threads, EnterLocal(t) PROVE FlockInv'
  BY <1>1 DEF EnterLocal
<1>2. ASSUME NEW t \in Threads, TakeFlock(t) PROVE FlockInv'
  BY <1>2 DEF TakeFlock
<1>3. ASSUME NEW t \in Threads, ProceedUnlocked(t) PROVE FlockInv'
  BY <1>3 DEF ProceedUnlocked
<1>4. ASSUME NEW t \in Threads, EnterNested(t) PROVE FlockInv'
  BY <1>4 DEF EnterNested
<1>5. ASSUME NEW t \in Threads, Load(t) PROVE FlockInv'
  BY <1>5 DEF Load
<1>6. ASSUME NEW t \in Threads, WriteTmp(t) PROVE FlockInv'
  BY <1>6 DEF WriteTmp
<1>7. ASSUME NEW t \in Threads, Replace(t) PROVE FlockInv'
  BY <1>7 DEF Replace
<1>8. ASSUME NEW t \in Threads, WriteFails(t) PROVE FlockInv'
  BY <1>8 DEF WriteFails
<1>9. ASSUME NEW t \in Threads, ExitNested(t) PROVE FlockInv'
  BY <1>9 DEF ExitNested
<1>10. ASSUME NEW t \in Threads, ExitOutermost(t) PROVE FlockInv'
  BY <1>10 DEF ExitOutermost
<1>11. ASSUME NEW p \in Procs, Die(p) PROVE FlockInv'
  BY <1>11 DEF Die
<1>12. CASE UNCHANGED vars
  BY <1>12 DEF vars
<1> QED
  BY <1>1, <1>2, <1>3, <1>4, <1>5, <1>6, <1>7, <1>8, <1>9, <1>10, <1>11, <1>12
     DEF Next, Progress

LEMMA StepDepth == LockInv /\ [Next]_vars => DepthInv'
<1> SUFFICES ASSUME LockInv, [Next]_vars PROVE DepthInv'
  OBVIOUS
<1> USE StateLockAssumption
    DEF LockInv, TypeOK, OwnerInv, DepthInv, Active, Inside
<1>1. ASSUME NEW t \in Threads, EnterLocal(t) PROVE DepthInv'
  BY <1>1 DEF EnterLocal
<1>2. ASSUME NEW t \in Threads, TakeFlock(t) PROVE DepthInv'
  BY <1>2 DEF TakeFlock
<1>3. ASSUME NEW t \in Threads, ProceedUnlocked(t) PROVE DepthInv'
  BY <1>3 DEF ProceedUnlocked
<1>4. ASSUME NEW t \in Threads, EnterNested(t) PROVE DepthInv'
  BY <1>4 DEF EnterNested
<1>5. ASSUME NEW t \in Threads, Load(t) PROVE DepthInv'
  BY <1>5 DEF Load
<1>6. ASSUME NEW t \in Threads, WriteTmp(t) PROVE DepthInv'
  BY <1>6 DEF WriteTmp
<1>7. ASSUME NEW t \in Threads, Replace(t) PROVE DepthInv'
  BY <1>7 DEF Replace
<1>8. ASSUME NEW t \in Threads, WriteFails(t) PROVE DepthInv'
  BY <1>8 DEF WriteFails
<1>9. ASSUME NEW t \in Threads, ExitNested(t) PROVE DepthInv'
  BY <1>9 DEF ExitNested
<1>10. ASSUME NEW t \in Threads, ExitOutermost(t) PROVE DepthInv'
  BY <1>10 DEF ExitOutermost
<1>11. ASSUME NEW p \in Procs, Die(p) PROVE DepthInv'
  BY <1>11 DEF Die
<1>12. CASE UNCHANGED vars
  BY <1>12 DEF vars
<1> QED
  BY <1>1, <1>2, <1>3, <1>4, <1>5, <1>6, <1>7, <1>8, <1>9, <1>10, <1>11, <1>12
     DEF Next, Progress

LEMMA StepWrite == LockInv /\ [Next]_vars => WriteInv'
<1> SUFFICES ASSUME LockInv, [Next]_vars PROVE WriteInv'
  OBVIOUS
<1> USE StateLockAssumption
    DEF LockInv, TypeOK, OwnerInv, WriteInv, Active
<1>1. ASSUME NEW t \in Threads, EnterLocal(t) PROVE WriteInv'
  BY <1>1 DEF EnterLocal
<1>2. ASSUME NEW t \in Threads, TakeFlock(t) PROVE WriteInv'
  BY <1>2 DEF TakeFlock
<1>3. ASSUME NEW t \in Threads, ProceedUnlocked(t) PROVE WriteInv'
  BY <1>3 DEF ProceedUnlocked
<1>4. ASSUME NEW t \in Threads, EnterNested(t) PROVE WriteInv'
  BY <1>4 DEF EnterNested
<1>5. ASSUME NEW t \in Threads, Load(t) PROVE WriteInv'
  BY <1>5 DEF Load
<1>6. ASSUME NEW t \in Threads, WriteTmp(t) PROVE WriteInv'
  BY <1>6 DEF WriteTmp
<1>7. ASSUME NEW t \in Threads, Replace(t) PROVE WriteInv'
  BY <1>7 DEF Replace
<1>8. ASSUME NEW t \in Threads, WriteFails(t) PROVE WriteInv'
  BY <1>8 DEF WriteFails
<1>9. ASSUME NEW t \in Threads, ExitNested(t) PROVE WriteInv'
  BY <1>9 DEF ExitNested
<1>10. ASSUME NEW t \in Threads, ExitOutermost(t) PROVE WriteInv'
  BY <1>10 DEF ExitOutermost
<1>11. ASSUME NEW p \in Procs, Die(p) PROVE WriteInv'
  BY <1>11 DEF Die
<1>12. CASE UNCHANGED vars
  BY <1>12 DEF vars
<1> QED
  BY <1>1, <1>2, <1>3, <1>4, <1>5, <1>6, <1>7, <1>8, <1>9, <1>10, <1>11, <1>12
     DEF Next, Progress

LEMMA LockInvariant == Spec => []LockInv
<1>1. LockInv /\ [Next]_vars => LockInv'
  BY StepTypeOK, StepOwner, StepFlock, StepDepth, StepWrite DEF LockInv
<1> QED
  BY <1>1, InitLockInv, PTL DEF Spec

\* Types of every variable (the RLock, depth and handle of each process, the
\* file and its scratch copies) hold in every reachable state.
THEOREM TypeCorrect == Spec => []TypeOK
<1>1. LockInv => TypeOK
  BY DEF LockInv
<1> QED
  BY <1>1, LockInvariant, PTL

\* Mutual exclusion of state_lock() (shared/state_lock.py): inside a process
\* always, and between processes that could open the lock file.
THEOREM Exclusion == Spec => []MutualExclusion
<1>1. LockInv => MutualExclusion
  BY StateLockAssumption
     DEF LockInv, TypeOK, OwnerInv, FlockInv, MutualExclusion, Active, Inside
<1> QED
  BY <1>1, LockInvariant, PTL

-----------------------------------------------------------------------------

LEMMA StepData == LockInv /\ DataInv /\ [Next]_vars => DataInv'
<1> SUFFICES ASSUME LockInv, DataInv, [Next]_vars PROVE DataInv'
  OBVIOUS
<1> USE StateLockAssumption
    DEF LockInv, TypeOK, OwnerInv, FlockInv, DepthInv, WriteInv,
        DataInv, Active, Inside
<1>1. ASSUME NEW t \in Threads, EnterLocal(t) PROVE DataInv'
  BY <1>1 DEF EnterLocal
<1>2. ASSUME NEW t \in Threads, TakeFlock(t) PROVE DataInv'
  BY <1>2 DEF TakeFlock
<1>3. ASSUME NEW t \in Threads, ProceedUnlocked(t) PROVE DataInv'
  BY <1>3 DEF ProceedUnlocked
<1>4. ASSUME NEW t \in Threads, EnterNested(t) PROVE DataInv'
  BY <1>4 DEF EnterNested
<1>5. ASSUME NEW t \in Threads, Load(t) PROVE DataInv'
  BY <1>5 DEF Load
<1>6. ASSUME NEW t \in Threads, WriteTmp(t) PROVE DataInv'
  BY <1>6 DEF WriteTmp
<1>7. ASSUME NEW t \in Threads, Replace(t) PROVE DataInv'
  <2>1. ASSUME intact, NEW v \in Threads, v # t PROVE copy[v] = <<>>
    <3>1. SUFFICES ASSUME Inside(v) PROVE FALSE
      OBVIOUS
    <3>2. flock = ProcOf[t] /\ flock = ProcOf[v]
      BY <1>7, <2>1, <3>1 DEF Replace
    <3> QED
      BY <1>7, <2>1, <3>1, <3>2 DEF Replace
  <2>2. intact => file' = file \cup {<<t, work[t]>>}
    BY <1>7 DEF Replace
  <2>3. intact => \A v \in Threads : copy'[v] = <<>>
    BY <1>7, <2>1 DEF Replace
  <2>4. \A v \in Threads : copy'[v] # <<>> => Inside(v)'
    BY <1>7 DEF Replace
  <2>5. done' = done \cup {<<t, work[t]>>} /\ intact' = intact
    BY <1>7 DEF Replace
  <2> QED
    BY <2>2, <2>3, <2>4, <2>5
<1>8. ASSUME NEW t \in Threads, WriteFails(t) PROVE DataInv'
  BY <1>8 DEF WriteFails
<1>9. ASSUME NEW t \in Threads, ExitNested(t) PROVE DataInv'
  BY <1>9 DEF ExitNested
<1>10. ASSUME NEW t \in Threads, ExitOutermost(t) PROVE DataInv'
  BY <1>10 DEF ExitOutermost
<1>11. ASSUME NEW p \in Procs, Die(p) PROVE DataInv'
  BY <1>11 DEF Die
<1>12. CASE UNCHANGED vars
  BY <1>12 DEF vars
<1> QED
  BY <1>1, <1>2, <1>3, <1>4, <1>5, <1>6, <1>7, <1>8, <1>9, <1>10, <1>11, <1>12
     DEF Next, Progress

LEMMA DataInvariant == Spec => []DataInv
<1>1. Init => DataInv
  BY DEF Init, DataInv
<1>2. LockInv /\ DataInv /\ [Next]_vars => DataInv'
  BY StepData
<1> QED
  BY <1>1, <1>2, LockInvariant, PTL DEF Spec

\* No update whose save returned is ever missing from the file, as long as
\* everybody could open the lock file: the lost update described in the
\* module docstring of shared/state_lock.py cannot happen.
THEOREM NothingLost == Spec => []NoLostUpdate
<1>1. DataInv => NoLostUpdate
  BY DEF DataInv, NoLostUpdate
<1> QED
  BY <1>1, DataInvariant, PTL

\* What is loaded inside the lock stays what the file holds until it is
\* saved or dropped.
THEOREM Fresh == Spec => []CopyIsFresh
<1>1. DataInv => CopyIsFresh
  BY DEF DataInv, CopyIsFresh
<1> QED
  BY <1>1, DataInvariant, PTL

\* While everybody can open the lock file, a step changes the file only by
\* adding one fresh update to the latest contents.
LEMMA StepAtomic ==
    LockInv /\ DataInv /\ [Next]_vars => (intact => [Atomic!Next]_file)
<1> SUFFICES ASSUME LockInv, DataInv, [Next]_vars, intact, file' # file
             PROVE Atomic!Next
  OBVIOUS
<1>1. PICK t \in Threads : Replace(t)
  BY DEF Next, Progress, vars, EnterLocal, TakeFlock, ProceedUnlocked,
         EnterNested, Load, WriteTmp, WriteFails, ExitNested,
         ExitOutermost, Die
<1> DEFINE u == <<t, work[t]>>
<1>2. u \in Updates
  BY <1>1 DEF LockInv, TypeOK, WriteInv, Replace, Updates
<1>3. file' = file \cup {u}
  <2>1. tmp[ProcOf[t]] = <<copy[t][1] \cup {u}>> /\ copy[t][1] = file
    BY <1>1 DEF LockInv, WriteInv, DataInv, Replace
  <2> QED
    BY <1>1, <2>1 DEF Replace
<1>4. u \notin file
  BY <1>3
<1> QED
  BY <1>2, <1>3, <1>4 DEF Atomic!Next, Atomic!Apply

\* Locked read-modify-writes are atomic updates of the file, for as long as
\* the kernel lock is available to everybody.
THEOREM UpdatesAreAtomic == Spec => AtomicUpdates
<1>1. LockInv /\ DataInv /\ [Next]_vars => [intact => [Atomic!Next]_file]_vars
  BY StepAtomic
<1> QED
  BY <1>1, LockInvariant, DataInvariant, PTL DEF Spec, AtomicUpdates

\* When every process can open the lock file, the protocol implements the
\* abstract store of AtomicStore: each mutation takes effect at one instant.
THEOREM LockImplementsStore == Degraded = {} => (Spec => Atomic!Spec)
<1> SUFFICES ASSUME Degraded = {} PROVE Spec => Atomic!Spec
  OBVIOUS
<1>1. Init => intact /\ Atomic!Init
  BY DEF Init, Atomic!Init
<1>2. intact /\ [Next]_vars => intact'
  BY DEF Next, Progress, vars, EnterLocal, TakeFlock, ProceedUnlocked,
         EnterNested, Load, WriteTmp, Replace, WriteFails, ExitNested,
         ExitOutermost, Die
<1>3. LockInv /\ DataInv /\ intact /\ [Next]_vars => [Atomic!Next]_file
  BY StepAtomic
<1> QED
  BY <1>1, <1>2, <1>3, LockInvariant, DataInvariant, PTL DEF Spec, Atomic!Spec
=============================================================================
