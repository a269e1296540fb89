----------------------------- MODULE WaitProofs -----------------------------
(***************************************************************************)
(* Proofs about the scheduler's clients, Mutex and ExEvent, for any number *)
(* of CPUs and threads, any recursion depth and any number of waits and    *)
(* signals, threads terminated by force included.                          *)
(***************************************************************************)
EXTENDS Mutex, ExEvent, SchedulerProofs

(***************************************************************************)
(* The mutex.                                                              *)
(***************************************************************************)
(* The types of the mutex's own variables.                                 *)
MutexTypes ==
    /\ mutexLock \in Cpus \cup {None}
    /\ holder \in Threads \cup {None}
    /\ depth \in 0 .. MaxRecursivityDepth
    /\ waitList \in Seq(Threads)
    /\ mpc \in [Threads -> MutexLocations]
    /\ inMutex \in [Threads -> 0 .. MaxRecursivityDepth]

(* A thread inside the critical section of MutexLock stays on the CPU that *)
(* owns the lock, and no other is inside.                                  *)
SectionInv ==
    /\ \A c \in Cpus : mutexLock = c => mpc[current[c]] \in {"wait", "unlock"}
    /\ \A t \in Threads :
          /\ mpc[t] \in {"wait", "unlock"} => \E c \in Cpus : mutexLock = c /\ current[c] = t
          /\ mpc[t] = "wait" => pc[t] = "run"
          /\ mpc[t] = "unlock" => \/ pc[t] = "run"
                                  \/ pc[t] \in {"unblock", "unblockready"} /\ ret[t] = "run"

(* Where a thread in mutex.c stands towards the holder.                    *)
HolderInv ==
    \A t \in Threads :
        /\ mpc[t] # "out" => inMutex[t] = 0
        /\ mpc[t] = "wait" => holder \notin {None, t}
        /\ mpc[t] = "release" => holder = t
        /\ holder = t /\ inMutex[t] = 0 => depth = 1 /\ mpc[t] \in {"acquire", "release"}

(* The waiters are in MutexAcquire, behind another thread.                 *)
QueueInv ==
    /\ Range(waitList) = waiters
    /\ IsInjective(waitList)
    /\ \A t \in waiters : mpc[t] = "acquire" /\ holder \notin {None, t}

(* No idle thread uses a mutex.                                            *)
ClientInv == \A t \in IdleThreads : mpc[t] = "out" /\ inMutex[t] = 0

(* The inductive invariant of the mutex, over the one of the scheduler.    *)
MutexInv ==
    /\ MutexTypes
    /\ SectionInv
    /\ HolderInv
    /\ QueueInv
    /\ ClientInv
    /\ MutualExclusion

-----------------------------------------------------------------------------
LEMMA MutexInitInv == MutexInit => MutexInv
<1> SUFFICES ASSUME MutexInit PROVE MutexInv
  OBVIOUS
<1> USE SchedulerAssumption, MutexAssumption DEF MutexInit
<1>1. MutexTypes
  BY DEF MutexTypes, MutexLocations
<1>2. SectionInv /\ HolderInv /\ MutualExclusion
  BY DEF SectionInv, HolderInv, MutualExclusion
<1>3. QueueInv
  BY DEF QueueInv, Init, Range, IsInjective
<1>4. ClientInv
  BY DEF ClientInv, IdleThreads, Range
<1> QED BY <1>1, <1>2, <1>3, <1>4 DEF MutexInv

(* A step of the scheduler, as the mutex restricts it, is one of Scheduler *)
(* and moves no thread that is in the critical section of MutexLock.       *)
LEMMA SchedulerStepInv ==
    ASSUME IInv, MutexInv, NEW c \in Cpus, SchedulerStep(c)
    PROVE  MutexInv' /\ CpuStep(c)
<1> USE SchedulerAssumption
<1> DEFINE t == current[c]
<1>1. CpuStep(c)
  BY DEF SchedulerStep, CpuStep
<1>2. UNCHANGED mutexVars /\ waiters' = waiters
  BY DEF SchedulerStep, ThreadTick, ThreadYield, ThreadYieldSwitch, IdleThread, ThreadBlock,
     ThreadBlockSwitch, ThreadUnblock, ThreadUnblockReady, ThreadExit, ThreadExitSwitch,
     ThreadCleanupPostSchedule, CleanupPrevious, ThreadCreateEx, ThreadCloseHandle, ThreadTerminate
<1>3. MutexTypes' /\ HolderInv' /\ QueueInv' /\ ClientInv' /\ MutualExclusion'
  BY <1>2 DEF MutexInv, MutexTypes, HolderInv, QueueInv, ClientInv, MutualExclusion, mutexVars
<1>4. SectionInv'
  <2>1. t \in Threads /\ OnCpu(t) /\ mpc[t] \in MutexLocations
    BY DEF IInv, TypeOK, OnCpu, MutexInv, MutexTypes
  <2>2. CASE mpc[t] \notin {"wait", "unlock"}
    <3>1. mutexLock # c
      BY <2>2 DEF MutexInv, SectionInv
    <3>2. \A x \in Threads : mpc[x] \in {"wait", "unlock"} =>
             x # t /\ pc'[x] = pc[x] /\ ret'[x] = ret[x]
      BY <1>1, <2>2, StepFrame DEF MutexInv, SectionInv, IInv, OffCpuInv
    <3>3. \A d \in Cpus : mutexLock = d => current'[d] = current[d]
      BY <1>1, <3>1, StepFrame
    <3> QED BY <1>2, <3>2, <3>3 DEF MutexInv, SectionInv, mutexVars
  <2>3. CASE mpc[t] \in {"wait", "unlock"}
    <3>1. mutexLock = c /\ \A x \in Threads : mpc[x] \in {"wait", "unlock"} => x = t
      BY <2>1, <2>3 DEF MutexInv, SectionInv, IInv, OneCpuPerThread
    <3>2. ThreadUnblock(c) \/ ThreadUnblockReady(c)
      BY <2>1, <2>3 DEF SchedulerStep, MutexInv, SectionInv, ThreadYield, ThreadYieldSwitch,
         IdleThread, ThreadBlock, ThreadBlockSwitch, ThreadTick, ThreadExit, ThreadExitSwitch,
         ThreadCleanupPostSchedule, CleanupPrevious, ThreadCreateEx, ThreadCloseHandle,
         ThreadTerminate, At
    <3>3. /\ current' = current /\ ret' = ret /\ mpc[t] = "unlock" /\ ret[t] = "run"
          /\ pc'[t] \in {"unblockready", "run"}
      BY <2>1, <2>3, <3>2 DEF ThreadUnblock, ThreadUnblockReady, At, Goto, localVars,
         MutexInv, SectionInv, IInv, TypeOK
    <3> QED BY <1>2, <2>1, <3>1, <3>3 DEF MutexInv, SectionInv, mutexVars
  <2> QED BY <2>2, <2>3
<1> QED BY <1>1, <1>3, <1>4 DEF MutexInv

(* A count of acquisitions is zero or positive.                            *)
LEMMA CountFacts ==
    ASSUME MutexInv, NEW x \in Threads
    PROVE  inMutex[x] \in Nat /\ (inMutex[x] > 0 \/ inMutex[x] = 0)
<1>1. inMutex[x] \in 0 .. MaxRecursivityDepth
  BY DEF MutexInv, MutexTypes
<1> QED BY <1>1, MutexAssumption

(* The ASSERT of MutexAcquire holds: a holder that calls it has acquired   *)
(* the mutex as often as the depth says.                                   *)
LEMMA MutexAcquireInv ==
    ASSUME IInv, MutexInv, NEW c \in Cpus, MutexAcquire(c)
    PROVE  MutexInv' /\ UNCHANGED vars
<1> USE SchedulerAssumption, MutexAssumption
<1> DEFINE t == current[c]
<1>1. t \in Threads \ IdleThreads /\ mpc[t] = "out" /\ ~panic /\ inMutex[t] < MaxRecursivityDepth
  BY RunFacts DEF MutexAcquire, In, At
<1>2. holder = t => depth = inMutex[t]
  BY <1>1, CountFacts DEF MutexInv, HolderInv, MutualExclusion
<1>3. UNCHANGED vars /\ UNCHANGED <<mutexLock, holder, waitList>>
  BY <1>1, <1>2 DEF MutexAcquire, vars, localVars, threadVars, MutexInv, MutexTypes, IInv, TypeOK
<1>4. CASE holder = t
  <2>1. /\ depth' = depth + 1 /\ inMutex' = [inMutex EXCEPT ![t] = @ + 1]
        /\ mpc' = mpc
    BY <1>4 DEF MutexAcquire
  <2>2. MutexTypes'
    BY <1>1, <1>2, <1>3, <1>4, <2>1 DEF MutexInv, MutexTypes
  <2>3. HolderInv' /\ MutualExclusion'
    BY <1>1, <1>2, <1>3, <1>4, <2>1 DEF MutexInv, MutexTypes, HolderInv, MutualExclusion
  <2>4. SectionInv' /\ QueueInv' /\ ClientInv'
    BY <1>1, <1>3, <2>1 DEF MutexInv, MutexTypes, SectionInv, QueueInv, ClientInv, vars
  <2> QED BY <1>3, <2>2, <2>3, <2>4 DEF MutexInv
<1>5. CASE holder # t
  <2>1. mpc' = [mpc EXCEPT ![t] = "acquire"] /\ UNCHANGED <<depth, inMutex>>
    BY <1>5 DEF MutexAcquire, MGoto
  <2>2. MutexTypes'
    BY <1>1, <1>3, <2>1 DEF MutexInv, MutexTypes, MutexLocations
  <2>3. HolderInv' /\ MutualExclusion'
    BY <1>1, <1>3, <1>5, <2>1 DEF MutexInv, MutexTypes, HolderInv, MutualExclusion
  <2>4. SectionInv' /\ QueueInv' /\ ClientInv'
    BY <1>1, <1>3, <2>1 DEF MutexInv, MutexTypes, SectionInv, QueueInv, ClientInv, vars
  <2> QED BY <1>3, <2>2, <2>3, <2>4 DEF MutexInv
<1> QED BY <1>4, <1>5

(* MutexAcquire with MutexLock: nobody is inside when a thread goes in.    *)
LEMMA MutexAcquireLockInv ==
    ASSUME IInv, MutexInv, NEW c \in Cpus, MutexAcquireLock(c)
    PROVE  MutexInv' /\ UNCHANGED vars
<1> USE SchedulerAssumption, MutexAssumption
<1> DEFINE t == current[c]
<1>1. /\ t \in Threads \ IdleThreads /\ mpc[t] = "acquire" /\ mutexLock = None
      /\ t \notin waiters /\ inMutex[t] = 0 /\ pc[t] = "run"
  BY RunFacts DEF MutexAcquireLock, In, At, Pending, MutexInv, HolderInv
<1>2. UNCHANGED vars /\ UNCHANGED waitList
  BY DEF MutexAcquireLock
<1>3. \A x \in Threads : mpc[x] \notin {"wait", "unlock"}
  BY <1>1 DEF MutexInv, SectionInv
<1>4. CASE holder \in {None, t}
  <2>1. /\ holder' = t /\ depth' = 1 /\ inMutex' = [inMutex EXCEPT ![t] = 1]
        /\ mpc' = [mpc EXCEPT ![t] = "out"] /\ mutexLock' = mutexLock
    BY <1>1, <1>4 DEF MutexAcquireLock, MGoto, MutexInv, HolderInv
  <2>2. \A x \in Threads : x # t => inMutex[x] = 0 /\ mpc[x] # "release"
    BY <1>1, <1>4, CountFacts DEF MutexInv, MutualExclusion, HolderInv
  <2>3. MutexTypes'
    BY <1>1, <1>2, <2>1 DEF MutexInv, MutexTypes, MutexLocations
  <2>4. HolderInv' /\ MutualExclusion'
    BY <1>1, <1>3, <2>1, <2>2 DEF MutexInv, MutexTypes, HolderInv, MutualExclusion
  <2>5. SectionInv' /\ ClientInv'
    BY <1>1, <1>2, <1>3, <2>1 DEF MutexInv, MutexTypes, SectionInv, ClientInv, vars
  <2>6. QueueInv'
    BY <1>1, <1>2, <2>1 DEF MutexInv, MutexTypes, QueueInv, vars, IInv, TypeOK
  <2> QED BY <1>2, <2>3, <2>4, <2>5, <2>6 DEF MutexInv
<1>5. CASE holder \notin {None, t}
  <2>1. /\ mutexLock' = c /\ mpc' = [mpc EXCEPT ![t] = "wait"]
        /\ UNCHANGED <<holder, depth, inMutex>>
    BY <1>5 DEF MutexAcquireLock, MGoto
  <2>2. MutexTypes'
    BY <1>1, <1>2, <2>1 DEF MutexInv, MutexTypes, MutexLocations
  <2>3. HolderInv' /\ MutualExclusion' /\ ClientInv'
    BY <1>1, <1>5, <2>1 DEF MutexInv, MutexTypes, HolderInv, MutualExclusion, ClientInv
  <2>4. SectionInv'
    BY <1>1, <1>2, <1>3, <2>1 DEF MutexInv, MutexTypes, SectionInv, vars, IInv, OneCpuPerThread
  <2>5. QueueInv'
    BY <1>1, <1>2, <2>1 DEF MutexInv, MutexTypes, QueueInv, vars, IInv, TypeOK
  <2> QED BY <1>2, <2>2, <2>3, <2>4, <2>5 DEF MutexInv
<1> QED BY <1>4, <1>5

(* The thread that goes to wait is linked in behind the others, once, and  *)
(* has left the critical section when MutexLock is free.                   *)
LEMMA MutexWaitInv ==
    ASSUME IInv, MutexInv, NEW c \in Cpus, MutexWait(c)
    PROVE  MutexInv' /\ CpuStep(c)
<1> USE SchedulerAssumption, MutexAssumption
<1> DEFINE t == current[c]
<1>1. /\ t \in Threads \ IdleThreads /\ mpc[t] = "wait"
      /\ t \notin waiters /\ inMutex[t] = 0 /\ holder \notin {None, t}
  BY RunFacts DEF MutexWait, In, At, Pending, MutexInv, HolderInv
<1>2. /\ waitList' = Append(waitList, t) /\ waiters' = waiters \cup {t}
      /\ mutexLock' = None /\ mpc' = [mpc EXCEPT ![t] = "acquire"]
      /\ UNCHANGED <<holder, depth, inMutex>>
  BY DEF MutexWait, ClientWait, MGoto
<1>3. \A x \in Threads : mpc[x] \in {"wait", "unlock"} => x = t
  BY <1>1 DEF MutexInv, SectionInv, IInv, OneCpuPerThread
<1>4. MutexTypes'
  BY <1>1, <1>2, AppendFacts DEF MutexInv, MutexTypes, MutexLocations
<1>5. HolderInv' /\ MutualExclusion' /\ ClientInv'
  BY <1>1, <1>2 DEF MutexInv, MutexTypes, HolderInv, MutualExclusion, ClientInv
<1>6. SectionInv'
  BY <1>1, <1>2, <1>3 DEF MutexInv, MutexTypes, SectionInv
<1>7. QueueInv'
  <2>1. Range(waitList') = waiters' /\ IsInjective(waitList')
    BY <1>1, <1>2, AppendFacts DEF MutexInv, MutexTypes, QueueInv
  <2>2. \A x \in waiters' : x \in Threads /\ mpc'[x] = "acquire" /\ holder \notin {None, x}
    BY <1>1, <1>2 DEF MutexInv, MutexTypes, QueueInv, IInv, TypeOK
  <2> QED BY <1>2, <2>1, <2>2 DEF QueueInv
<1>8. CpuStep(c)
  BY DEF MutexWait, CpuStep
<1> QED BY <1>4, <1>5, <1>6, <1>7, <1>8 DEF MutexInv

(* The ASSERT of MutexRelease holds, and the mutex is given up with the    *)
(* outermost of the nested calls.                                          *)
LEMMA MutexReleaseInv ==
    ASSUME IInv, MutexInv, NEW c \in Cpus, MutexRelease(c)
    PROVE  MutexInv' /\ UNCHANGED vars
<1> USE SchedulerAssumption, MutexAssumption
<1> DEFINE t == current[c]
<1>1. t \in Threads \ IdleThreads /\ mpc[t] = "out" /\ ~panic /\ inMutex[t] > 0
  BY RunFacts DEF MutexRelease, In, At
<1>2. holder = t /\ depth = inMutex[t]
  BY <1>1 DEF MutexInv, MutualExclusion
<1>3. /\ UNCHANGED vars /\ UNCHANGED <<mutexLock, holder, waitList>>
      /\ inMutex' = [inMutex EXCEPT ![t] = @ - 1]
  BY <1>1, <1>2 DEF MutexRelease, vars, localVars, threadVars, IInv, TypeOK
<1>4. inMutex[t] \in 1 .. MaxRecursivityDepth /\ inMutex'[t] = inMutex[t] - 1
  BY <1>1, <1>3 DEF MutexInv, MutexTypes
<1>5. CASE depth > 1
  <2>1. depth' = depth - 1 /\ mpc' = mpc
    BY <1>5 DEF MutexRelease, MutexInv, MutexTypes
  <2>2. MutexTypes'
    BY <1>1, <1>2, <1>3, <1>4, <1>5, <2>1 DEF MutexInv, MutexTypes
  <2>3. HolderInv' /\ MutualExclusion'
    BY <1>1, <1>2, <1>3, <1>4, <1>5, <2>1 DEF MutexInv, MutexTypes, HolderInv, MutualExclusion
  <2>4. SectionInv' /\ QueueInv' /\ ClientInv'
    BY <1>1, <1>3, <2>1 DEF MutexInv, MutexTypes, SectionInv, QueueInv, ClientInv, vars
  <2> QED BY <1>3, <2>2, <2>3, <2>4 DEF MutexInv
<1>6. CASE ~(depth > 1)
  <2>1. /\ depth' = depth /\ depth = 1 /\ inMutex[t] = 1
        /\ mpc' = [mpc EXCEPT ![t] = "release"]
    BY <1>2, <1>4, <1>6 DEF MutexRelease, MGoto, MutexInv, MutexTypes
  <2>2. MutexTypes'
    BY <1>1, <1>3, <1>4, <2>1 DEF MutexInv, MutexTypes, MutexLocations
  <2>3. HolderInv' /\ MutualExclusion'
    BY <1>1, <1>2, <1>3, <1>4, <2>1 DEF MutexInv, MutexTypes, HolderInv, MutualExclusion
  <2>4. SectionInv' /\ QueueInv' /\ ClientInv'
    BY <1>1, <1>3, <2>1 DEF MutexInv, MutexTypes, SectionInv, QueueInv, ClientInv, vars
  <2> QED BY <1>3, <2>2, <2>3, <2>4 DEF MutexInv
<1> QED BY <1>5, <1>6

(* The mutex becomes free, or belongs to the first waiter from here on.    *)
LEMMA MutexReleaseLockInv ==
    ASSUME IInv, MutexInv, NEW c \in Cpus, MutexReleaseLock(c)
    PROVE  MutexInv' /\ (CpuStep(c) \/ UNCHANGED vars)
<1> USE SchedulerAssumption, MutexAssumption
<1> DEFINE t == current[c]
<1>1. /\ t \in Threads \ IdleThreads /\ mpc[t] = "release" /\ mutexLock = None
      /\ t \notin waiters /\ inMutex[t] = 0 /\ pc[t] = "run" /\ holder = t
  BY RunFacts DEF MutexReleaseLock, In, At, Pending, MutexInv, HolderInv
<1>2. \A x \in Threads : /\ mpc[x] \notin {"wait", "unlock"}
                         /\ inMutex[x] = 0
                         /\ x # t => mpc[x] # "release"
  BY <1>1, CountFacts DEF MutexInv, SectionInv, HolderInv, MutualExclusion
<1>3. inMutex' = inMutex
  BY DEF MutexReleaseLock
<1>4. CASE waitList = <<>>
  <2>1. /\ holder' = None /\ mpc' = [mpc EXCEPT ![t] = "out"]
        /\ UNCHANGED vars /\ UNCHANGED <<mutexLock, depth, waitList>>
    BY <1>4 DEF MutexReleaseLock, MGoto
  <2>2. MutexTypes'
    BY <1>1, <1>3, <2>1 DEF MutexInv, MutexTypes, MutexLocations
  <2>3. HolderInv' /\ MutualExclusion'
    BY <1>1, <1>2, <1>3, <2>1 DEF MutexInv, MutexTypes, HolderInv, MutualExclusion
  <2>4. SectionInv' /\ ClientInv'
    BY <1>1, <1>2, <1>3, <2>1 DEF MutexInv, MutexTypes, SectionInv, ClientInv, vars
  <2>5. waiters = {} /\ QueueInv'
    BY <1>4, <2>1 DEF MutexInv, QueueInv, vars, Range
  <2> QED BY <2>1, <2>2, <2>3, <2>4, <2>5 DEF MutexInv
<1>5. CASE waitList # <<>>
  <2> DEFINE w == Head(waitList)
  <2>1. /\ holder' = w /\ depth' = 1 /\ waitList' = Tail(waitList)
        /\ ClientWake(c, w) /\ mutexLock' = c /\ mpc' = [mpc EXCEPT ![t] = "unlock"]
    BY <1>5 DEF MutexReleaseLock, MGoto
  <2>2. /\ w \in Threads /\ waitList' \in Seq(Threads) /\ IsInjective(waitList')
        /\ w \notin Range(waitList') /\ waiters = Range(waitList') \cup {w}
    BY <1>5, <2>1, TailFacts DEF MutexInv, MutexTypes, QueueInv
  <2> HIDE DEF w
  <2>3. /\ waiters' = waiters \ {w} /\ current' = current
        /\ pc'[t] = "unblock" /\ ret'[t] = "run"
    BY <1>1, <2>1 DEF ClientWake, Goto, IInv, TypeOK
  <2>4. w # t /\ mpc[w] = "acquire" /\ inMutex[w] = 0
    BY <1>1, <1>2, <2>2 DEF MutexInv, QueueInv
  <2>5. MutexTypes'
    BY <1>1, <1>3, <2>1, <2>2 DEF MutexInv, MutexTypes, MutexLocations
  <2>6. HolderInv' /\ MutualExclusion'
    BY <1>1, <1>2, <1>3, <2>1, <2>2, <2>4 DEF MutexInv, MutexTypes, HolderInv, MutualExclusion
  <2>7. SectionInv' /\ ClientInv'
    BY <1>1, <1>2, <1>3, <2>1, <2>3 DEF MutexInv, MutexTypes, SectionInv, ClientInv, IInv,
       OneCpuPerThread
  <2>8. QueueInv'
    <3>1. \A x \in waiters' : /\ x \in Threads /\ x \notin {t, w} /\ mpc'[x] = "acquire"
                               /\ holder' \notin {None, x}
      BY <1>1, <2>1, <2>2, <2>3 DEF MutexInv, MutexTypes, QueueInv, IInv, TypeOK
    <3> QED BY <2>2, <2>3, <3>1 DEF QueueInv
  <2>9. CpuStep(c)
    BY <2>1, <2>2 DEF CpuStep
  <2> QED BY <2>5, <2>6, <2>7, <2>8, <2>9 DEF MutexInv
<1> QED BY <1>4, <1>5

(* MutexLock is released by the CPU that owns it.                          *)
LEMMA MutexUnlockInv ==
    ASSUME IInv, MutexInv, NEW c \in Cpus, MutexUnlock(c)
    PROVE  MutexInv' /\ UNCHANGED vars
<1> USE SchedulerAssumption, MutexAssumption
<1> DEFINE t == current[c]
<1>1. t \in Threads \ IdleThreads /\ mpc[t] = "unlock" /\ t \notin waiters /\ inMutex[t] = 0
  BY RunFacts DEF MutexUnlock, In, At, Pending, MutexInv, HolderInv
<1>2. /\ mutexLock' = None /\ mpc' = [mpc EXCEPT ![t] = "out"]
      /\ UNCHANGED vars /\ UNCHANGED <<holder, depth, waitList, inMutex>>
  BY DEF MutexUnlock, MGoto
<1>3. holder # t /\ \A x \in Threads : mpc[x] \in {"wait", "unlock"} => x = t
  BY <1>1 DEF MutexInv, SectionInv, HolderInv, IInv, OneCpuPerThread
<1>4. MutexTypes'
  BY <1>1, <1>2 DEF MutexInv, MutexTypes, MutexLocations
<1>5. HolderInv' /\ MutualExclusion' /\ ClientInv'
  BY <1>1, <1>2, <1>3 DEF MutexInv, MutexTypes, HolderInv, MutualExclusion, ClientInv
<1>6. SectionInv'
  BY <1>1, <1>2, <1>3 DEF MutexInv, MutexTypes, SectionInv, vars
<1>7. QueueInv'
  BY <1>1, <1>2 DEF MutexInv, MutexTypes, QueueInv, vars, IInv, TypeOK
<1> QED BY <1>2, <1>4, <1>5, <1>6, <1>7 DEF MutexInv

(* Every step preserves the invariant, and is a step of the scheduler or   *)
(* one it does not see.                                                    *)
LEMMA MutexNextInv ==
    ASSUME IInv, MutexInv, [MutexNext]_<<vars, mutexVars>>
    PROVE  MutexInv' /\ [Next]_vars
<1>1. CASE UNCHANGED <<vars, mutexVars>>
  BY <1>1 DEF vars, mutexVars, MutexInv, MutexTypes, SectionInv, HolderInv, QueueInv, ClientInv,
     MutualExclusion
<1>2. ASSUME NEW c \in Cpus, SchedulerStep(c) \/ MutexStep(c)
      PROVE  MutexInv' /\ [Next]_vars
  <2>1. CASE SchedulerStep(c) \/ MutexWait(c) \/ MutexReleaseLock(c)
    BY <2>1, SchedulerStepInv, MutexWaitInv, MutexReleaseLockInv DEF Next
  <2>2. CASE MutexAcquire(c) \/ MutexAcquireLock(c) \/ MutexRelease(c) \/ MutexUnlock(c)
    BY <2>2, MutexAcquireInv, MutexAcquireLockInv, MutexReleaseInv, MutexUnlockInv
  <2> QED BY <1>2, <2>1, <2>2 DEF MutexStep
<1> QED BY <1>1, <1>2 DEF MutexNext

(* The inductive invariants of the mutex and of the scheduler below it.    *)
THEOREM MutexInvariance == MutexSpec => [](IInv /\ MutexInv)
<1>1. MutexInit => IInv /\ MutexInv
  BY InitInv, MutexInitInv DEF MutexInit
<1>2. IInv /\ MutexInv /\ [MutexNext]_<<vars, mutexVars>> => IInv' /\ MutexInv'
  BY MutexNextInv, NextInv
<1> QED BY <1>1, <1>2, PTL DEF MutexSpec

(* mutex.c uses the scheduler as Scheduler allows its clients to: it       *)
(* blocks a thread only with the BlockLock taken and wakes only threads    *)
(* it has taken off its list.  What is proved of Scheduler holds with it.  *)
THEOREM MutexRefinesScheduler == MutexSpec => RefinesScheduler
<1>1. MutexInit => Init
  BY DEF MutexInit
<1>2. IInv /\ MutexInv /\ [MutexNext]_<<vars, mutexVars>> => [Next]_vars
  BY MutexNextInv
<1> QED BY <1>1, <1>2, MutexInvariance, PTL DEF MutexSpec, RefinesScheduler, Spec

(* Whoever has returned from MutexAcquire is the holder, alone; a thread   *)
(* the mutex was handed to is woken; the waiters are on one list, once.    *)
THEOREM MutexCorrect == MutexSpec => []MutexSound
<1>1. ASSUME IInv, MutexInv PROVE MutexTypeOK
  BY <1>1, SchedulerAssumption DEF IInv, MutexInv, MutexTypes, SectionInv, MutexTypeOK
<1>2. ASSUME IInv, MutexInv PROVE OneList
  BY <1>2 DEF IInv, TypeOK, WaitListInv, Pending, MutexInv, QueueInv, OneList
<1>3. ASSUME IInv, MutexInv PROVE HolderWakes
  <2> SUFFICES ASSUME holder # None, state[holder] = "Blocked"
               PROVE  \E c \in Cpus : target[current[c]] = holder
    BY DEF HolderWakes
  <2> USE SchedulerAssumption
  <2>1. holder \in Threads \ IdleThreads /\ holder \notin waiters
    BY <1>3 DEF MutexInv, MutexTypes, HolderInv, QueueInv, ClientInv
  <2>2. Pending(holder)
    BY <1>3, <2>1, ReadyFacts DEF IInv, KnownInv, BlockingInv, StateInv
  <2>3. PICK u \in Threads : target[u] = holder
    BY <2>1, <2>2 DEF Pending
  <2>4. OnCpu(u)
    BY <1>3, <2>1, <2>3 DEF IInv, TypeOK, TargetInv, OffCpuInv
  <2> QED BY <2>3, <2>4 DEF OnCpu
<1>4. MutexInv => MutualExclusion
  BY DEF MutexInv
<1>5. IInv /\ MutexInv => MutexSound
  BY <1>1, <1>2, <1>3, <1>4 DEF MutexSound
<1> QED BY <1>5, MutexInvariance, PTL

(* No ASSERT of thread.c or mutex.c fails where no thread is terminated by *)
(* force: nested acquisitions stay within the depth, only the holder       *)
(* releases, and a thread that is woken is Blocked.                        *)
THEOREM MutexNeverPanics == UserThreads = {} /\ MutexSpec => []NoPanic
  BY NeverPanics, MutexRefinesScheduler, PTL DEF RefinesScheduler

(* Blocking in a mutex and being woken by its holder loses no reference to *)
(* a thread and drops none twice, on one CPU (mutex.c over thread.c).      *)
THEOREM MutexReferences ==
    ASSUME \A c, d \in Cpus : c = d
    PROVE  MutexSpec => []ReferencesSound
<1>1. Spec => []ReferencesSound
  BY ReferencesCorrect
<1> QED BY <1>1, MutexRefinesScheduler, PTL DEF RefinesScheduler

-----------------------------------------------------------------------------
(* Every step of mutex.c is a step of FairLock, or changes nothing of what *)
(* FairLock speaks about.                                                  *)
LEMMA FairLockStep ==
    ASSUME IInv, MutexInv, [MutexNext]_<<vars, mutexVars>>
    PROVE  [Lock!LockNext]_(Lock!lockVars)
<1> USE SchedulerAssumption, MutexAssumption
<1> DEFINE Inside == {t \in Threads : inMutex[t] > 0}
           Leaving == \E t \in Threads : mpc[t] = "release"
<1>1. CASE UNCHANGED mutexVars
  BY <1>1 DEF mutexVars, Lock!lockVars
<1>2. ASSUME NEW c \in Cpus, MutexStep(c)
      PROVE  [Lock!LockNext]_(Lock!lockVars)
  <2> DEFINE t == current[c]
  <2>1. t \in Threads /\ ~Pending(t)
    BY <1>2, RunFacts DEF MutexStep, MutexAcquire, MutexAcquireLock, MutexWait, MutexRelease,
       MutexReleaseLock, MutexUnlock, In, At
  <2>2. CASE MutexAcquire(c)
    <3>1. mpc[t] = "out" /\ UNCHANGED <<holder, waitList>>
      BY <2>2 DEF MutexAcquire, In
    <3>2. Inside' = Inside
      <4>1. CASE holder = t
        <5>1. inMutex[t] > 0 /\ inMutex[t] + 1 > 0 /\ inMutex' = [inMutex EXCEPT ![t] = @ + 1]
          BY <2>1, <2>2, <3>1, <4>1, CountFacts DEF MutexAcquire, MutexInv, HolderInv
        <5>2. \A x \in Threads : inMutex'[x] > 0 <=> inMutex[x] > 0
          BY <2>1, <5>1 DEF MutexInv, MutexTypes
        <5> QED BY <5>2
      <4>2. CASE holder # t
        BY <2>2, <4>2 DEF MutexAcquire
      <4> QED BY <4>1, <4>2
    <3>3. Leaving' = Leaving
      BY <2>1, <2>2, <3>1 DEF MutexAcquire, MGoto, MutexInv, MutexTypes
    <3> QED BY <3>1, <3>2, <3>3 DEF Lock!lockVars
  <2>3. CASE MutexUnlock(c)
    <3>1. mpc[t] = "unlock" /\ UNCHANGED <<holder, waitList, inMutex>>
      BY <2>3 DEF MutexUnlock, In
    <3>2. Leaving' = Leaving
      BY <2>1, <2>3, <3>1 DEF MutexUnlock, MGoto, MutexInv, MutexTypes
    <3> QED BY <3>1, <3>2 DEF Lock!lockVars
  <2>4. CASE MutexAcquireLock(c)
    <3>1. mpc[t] = "acquire" /\ waitList' = waitList
      BY <2>4 DEF MutexAcquireLock, In
    <3>2. Leaving' = Leaving
      BY <2>1, <2>4, <3>1 DEF MutexAcquireLock, MGoto, MutexInv, MutexTypes
    <3>3. CASE holder = None
      <4>1. Inside = {} /\ waitList = <<>>
        <5>1. Inside = {}
          BY <3>3 DEF MutexInv, MutualExclusion
        <5>2. Range(waitList) = {}
          BY <3>3 DEF MutexInv, QueueInv
        <5>3. ASSUME waitList # <<>> PROVE FALSE
          <6>1. 1 \in DOMAIN waitList
            BY <5>3 DEF MutexInv, MutexTypes
          <6> QED BY <5>2, <6>1 DEF Range
        <5> QED BY <5>1, <5>3
      <4>2. holder' = t /\ inMutex' = [inMutex EXCEPT ![t] = 1]
        BY <2>1, <2>4, <3>3 DEF MutexAcquireLock
      <4>3. Inside' = {t}
        BY <2>1, <4>1, <4>2 DEF MutexInv, MutexTypes
      <4>4. Lock!Enter(t)
        BY <3>1, <3>2, <3>3, <4>1, <4>2, <4>3 DEF Lock!Enter
      <4>5. \E x \in Threads : Lock!Enter(x)
        BY <2>1, <4>4 DEF Lock!Enter, Lock!Granted, Lock!Leave
      <4> QED BY <4>5 DEF Lock!LockNext
    <3>4. CASE holder = t
      <4>1. Inside = {} /\ ~Leaving
        BY <3>1, <3>4, <2>1, CountFacts DEF MutexInv, MutualExclusion, HolderInv
      <4>2. holder' = t /\ inMutex' = [inMutex EXCEPT ![t] = 1]
        BY <2>1, <2>4, <3>4 DEF MutexAcquireLock
      <4>3. Inside' = {t}
        BY <2>1, <4>1, <4>2 DEF MutexInv, MutexTypes
      <4>4. Lock!Granted(t)
        BY <3>1, <3>2, <3>4, <4>1, <4>2, <4>3 DEF Lock!Granted
      <4>5. \E x \in Threads : Lock!Granted(x)
        BY <2>1, <4>4 DEF Lock!Enter, Lock!Granted, Lock!Leave
      <4> QED BY <4>5 DEF Lock!LockNext
    <3>5. CASE holder \notin {None, t}
      <4>1. UNCHANGED <<holder, inMutex>>
        BY <2>4, <3>5 DEF MutexAcquireLock
      <4> QED BY <3>1, <3>2, <4>1 DEF Lock!lockVars
    <3> QED BY <3>3, <3>4, <3>5
  <2>5. CASE MutexWait(c)
    <3>1. /\ mpc[t] = "wait" /\ waitList' = Append(waitList, t)
          /\ UNCHANGED <<holder, inMutex>>
      BY <2>5 DEF MutexWait, In
    <3>2. Leaving' = Leaving
      BY <2>1, <2>5, <3>1 DEF MutexWait, MGoto, MutexInv, MutexTypes
    <3>3. holder \notin {None, t} /\ t \notin Range(waitList)
      BY <2>1, <3>1 DEF MutexInv, HolderInv, QueueInv
    <3>4. t \notin Lock!Range(waitList)
      BY <3>3 DEF Range, Lock!Range
    <3>5. Lock!Enqueue(t)
      BY <3>1, <3>2, <3>3, <3>4 DEF Lock!Enqueue
    <3> QED BY <2>1, <3>5 DEF Lock!LockNext
  <2>6. CASE MutexRelease(c)
    <3>1. /\ mpc[t] = "out" /\ inMutex[t] > 0 /\ UNCHANGED <<holder, waitList>>
          /\ inMutex' = [inMutex EXCEPT ![t] = @ - 1]
      BY <2>6 DEF MutexRelease, In
    <3>2. holder = t /\ depth = inMutex[t] /\ Inside = {t} /\ depth \in Nat
      BY <2>1, <3>1, MutexAssumption DEF MutexInv, MutexTypes, MutualExclusion
    <3>3. CASE depth > 1
      <4>1. Leaving' = Leaving
        BY <2>6, <3>2, <3>3 DEF MutexRelease
      <4>2. \A x \in Threads : inMutex'[x] > 0 <=> inMutex[x] > 0
        BY <2>1, <3>1, <3>2, <3>3 DEF MutexInv, MutexTypes
      <4> QED BY <3>1, <4>1, <4>2 DEF Lock!lockVars
    <3>4. CASE depth <= 1
      <4>1. Leaving'
        BY <2>1, <2>6, <3>2, <3>4 DEF MutexRelease, MGoto, MutexInv, MutexTypes
      <4>2. inMutex'[t] = 0
        BY <2>1, <3>1, <3>2, <3>4 DEF MutexInv, MutexTypes
      <4>3. Inside' = {}
        BY <2>1, <3>1, <3>2, <4>2 DEF MutexInv, MutexTypes
      <4>4. Lock!Leave(t)
        BY <3>1, <3>2, <4>1, <4>3 DEF Lock!Leave
      <4>5. \E x \in Threads : Lock!Leave(x)
        BY <2>1, <4>4 DEF Lock!Enter, Lock!Granted, Lock!Leave
      <4> QED BY <4>5 DEF Lock!LockNext
    <3> QED BY <3>2, <3>3, <3>4
  <2>7. CASE MutexReleaseLock(c)
    <3>1. mpc[t] = "release" /\ inMutex' = inMutex
      BY <2>7 DEF MutexReleaseLock, In
    <3>2. Leaving /\ \A x \in Threads : mpc[x] = "release" => x = t
      BY <2>1, <3>1 DEF MutexInv, HolderInv
    <3>3. mpc' = [mpc EXCEPT ![t] = "out"] \/ mpc' = [mpc EXCEPT ![t] = "unlock"]
      BY <2>7 DEF MutexReleaseLock, MGoto
    <3>4. ~Leaving'
      BY <2>1, <3>2, <3>3 DEF MutexInv, MutexTypes
    <3>5. \/ waitList = <<>> /\ holder' = None /\ waitList' = waitList
          \/ waitList # <<>> /\ holder' = Head(waitList) /\ waitList' = Tail(waitList)
      BY <2>7 DEF MutexReleaseLock
    <3>6. Lock!HandOver
      BY <3>1, <3>2, <3>4, <3>5 DEF Lock!HandOver
    <3> QED BY <3>6 DEF Lock!LockNext
  <2> QED BY <1>2, <2>2, <2>3, <2>4, <2>5, <2>6, <2>7 DEF MutexStep
<1> QED BY <1>1, <1>2 DEF MutexNext, SchedulerStep

(* A mutex is handed over in order of arrival: what MutexAcquire and       *)
(* MutexRelease do, on any number of CPUs, is what FairLock allows.        *)
THEOREM MutexRefinesFairLock == MutexSpec => RefinesFairLock
<1>1. MutexInit => Lock!LockInit
  BY DEF MutexInit, Lock!LockInit
<1>2. IInv /\ MutexInv /\ [MutexNext]_<<vars, mutexVars>> => [Lock!LockNext]_(Lock!lockVars)
  BY FairLockStep
<1> QED BY <1>1, <1>2, MutexInvariance, PTL DEF MutexSpec, RefinesFairLock, Lock!LockSpec

-----------------------------------------------------------------------------
(***************************************************************************)
(* The executive event.                                                    *)
(***************************************************************************)
(* The types of the event's own variables.                                 *)
EventVarTypes ==
    /\ eventType \in EventTypes
    /\ signaled \in BOOLEAN
    /\ eventLock \in Cpus \cup {None}
    /\ eventList \in Seq(Threads)
    /\ epc \in [Threads -> EventLocations]
    /\ signals \in 0 .. MaxSignals
    /\ returns \in Nat
    /\ seen \in SUBSET Threads

(* A thread inside the critical section of ExEventSignal stays on the CPU  *)
(* that owns EventLock, and no other is inside.                            *)
SignalSectionInv ==
    /\ \A c \in Cpus : eventLock = c => epc[current[c]] \in {"wake", "unlock"}
    /\ \A t \in Threads : epc[t] \in {"wake", "unlock"} =>
          /\ \E c \in Cpus : eventLock = c /\ current[c] = t
          /\ pc[t] = "run" \/ (pc[t] \in {"unblock", "unblockready"} /\ ret[t] = "run")

(* The list holds each waiter once; a waiter is in ThreadBlock of a wait;  *)
(* no idle thread waits for an event or signals one.                       *)
EventQueueInv ==
    /\ Range(eventList) = waiters
    /\ IsInjective(eventList)
    /\ \A t \in waiters : epc[t] = "woken"
    /\ \A t \in IdleThreads : epc[t] = "out"

(* A signal that is still set was not consumed by any wait.                *)
ConsumedInv ==
    eventType = "Synchronization" =>
        /\ returns <= signals
        /\ signaled => returns < signals

(* Waits overlap the signal that ends them: the one that is set now, the   *)
(* one that is emptying the list, the one that took them off the list.     *)
SeenInv ==
    /\ signaled => Waiting \subseteq seen
    /\ eventLock # None => waiters \subseteq seen
    /\ \A t \in Threads : epc[t] = "woken" /\ t \notin waiters => t \in seen

(* The inductive invariant of the event, over the one of the scheduler.    *)
EventInv ==
    /\ EventVarTypes
    /\ SignalSectionInv
    /\ EventQueueInv
    /\ ConsumedInv
    /\ SeenInv
-----------------------------------------------------------------------------
LEMMA EventInitInv == ExEventInit => EventInv
<1> SUFFICES ASSUME ExEventInit PROVE EventInv
  OBVIOUS
<1> USE SchedulerAssumption, EventAssumption DEF ExEventInit
<1>1. EventVarTypes
  <2>1. signaled \in BOOLEAN /\ seen \in SUBSET Threads
    OBVIOUS
  <2>2. epc \in [Threads -> EventLocations] /\ eventList \in Seq(Threads)
    BY DEF EventLocations
  <2>3. signals \in 0 .. MaxSignals /\ returns \in Nat /\ eventLock \in Cpus \cup {None}
    OBVIOUS
  <2> QED BY <2>1, <2>2, <2>3 DEF EventVarTypes
<1>2. SignalSectionInv /\ ConsumedInv /\ SeenInv
  BY DEF SignalSectionInv, ConsumedInv, SeenInv, Waiting, Init
<1>3. EventQueueInv
  BY DEF EventQueueInv, Init, Range, IsInjective, IdleThreads
<1> QED BY <1>1, <1>2, <1>3 DEF EventInv

(* A step of the scheduler, as the event restricts it, is one of Scheduler *)
(* and moves no thread that is in the critical section of EventLock.       *)
LEMMA EventSchedulerStepInv ==
    ASSUME IInv, EventInv, NEW c \in Cpus, EventSchedulerStep(c)
    PROVE  EventInv' /\ CpuStep(c) /\ UNCHANGED eventVars
<1> USE SchedulerAssumption
<1> DEFINE t == current[c]
<1>1. CpuStep(c)
  BY DEF EventSchedulerStep, CpuStep
<1>2. UNCHANGED eventVars /\ waiters' = waiters
  BY DEF EventSchedulerStep, ThreadTick, ThreadYield, ThreadYieldSwitch, IdleThread, ThreadBlock,
     ThreadBlockSwitch, ThreadUnblock, ThreadUnblockReady, ThreadExit, ThreadExitSwitch,
     ThreadCleanupPostSchedule, CleanupPrevious, ThreadCreateEx
<1>3. EventVarTypes' /\ EventQueueInv' /\ ConsumedInv' /\ SeenInv'
  BY <1>2 DEF EventInv, EventVarTypes, EventQueueInv, ConsumedInv, SeenInv, Waiting, eventVars
<1>4. SignalSectionInv'
  <2>1. t \in Threads /\ OnCpu(t)
    BY DEF IInv, TypeOK, OnCpu
  <2>2. CASE epc[t] \notin {"wake", "unlock"}
    <3>1. eventLock # c
      BY <2>2 DEF EventInv, SignalSectionInv
    <3>2. \A x \in Threads : epc[x] \in {"wake", "unlock"} =>
             x # t /\ pc'[x] = pc[x] /\ ret'[x] = ret[x]
      BY <1>1, <2>2, StepFrame DEF EventInv, SignalSectionInv, IInv, OffCpuInv
    <3>3. \A d \in Cpus : eventLock = d => current'[d] = current[d]
      BY <1>1, <3>1, StepFrame
    <3> QED BY <1>2, <3>2, <3>3 DEF EventInv, SignalSectionInv, eventVars
  <2>3. CASE epc[t] \in {"wake", "unlock"}
    <3>1. eventLock = c /\ \A x \in Threads : epc[x] \in {"wake", "unlock"} => x = t
      BY <2>1, <2>3 DEF EventInv, SignalSectionInv, IInv, OneCpuPerThread
    <3>2. ThreadUnblock(c) \/ ThreadUnblockReady(c)
      BY <2>1, <2>3 DEF EventSchedulerStep, EventInv, SignalSectionInv, ThreadYield, ThreadYieldSwitch,
         IdleThread, ThreadBlock, ThreadBlockSwitch, ThreadExitSwitch,
         ThreadCleanupPostSchedule, CleanupPrevious, At
    <3>3. current' = current /\ ret' = ret /\ ret[t] = "run" /\ pc'[t] \in {"unblockready", "run"}
      BY <2>1, <2>3, <3>2 DEF ThreadUnblock, ThreadUnblockReady, At, Goto, localVars,
         EventInv, SignalSectionInv, IInv, TypeOK
    <3> QED BY <1>2, <2>1, <3>1, <3>3 DEF EventInv, SignalSectionInv, eventVars
  <2> QED BY <2>2, <2>3
<1> QED BY <1>1, <1>2, <1>3, <1>4 DEF EventInv

(* The beginning of a wait: it overlaps the signal that is set, if any.    *)
LEMMA WaitForSignalInv ==
    ASSUME IInv, EventInv, NEW c \in Cpus, ExEventWaitForSignal(c), eventType' = eventType
    PROVE  EventInv' /\ UNCHANGED vars
<1> USE SchedulerAssumption
<1> DEFINE t == current[c]
<1>1. t \in Threads \ IdleThreads /\ epc[t] = "out" /\ t \notin waiters
  BY RunFacts DEF ExEventWaitForSignal, EIn, At, Pending
<1>2. /\ epc' = [epc EXCEPT ![t] = "test"]
      /\ seen' = IF signaled THEN seen \cup {t} ELSE seen \ {t}
      /\ UNCHANGED vars /\ UNCHANGED <<signaled, eventLock, eventList, signals, returns>>
  BY DEF ExEventWaitForSignal, EGoto
<1>3. waiters' = waiters /\ current' = current /\ pc' = pc /\ ret' = ret /\ waiters \subseteq Threads
  BY <1>2 DEF vars, IInv, TypeOK
<1>4. EventVarTypes'
  BY <1>1, <1>2 DEF EventInv, EventVarTypes, EventLocations
<1>5. SignalSectionInv' /\ ConsumedInv'
  BY <1>1, <1>2, <1>3 DEF EventInv, EventVarTypes, SignalSectionInv, ConsumedInv
<1>6. EventQueueInv'
  BY <1>1, <1>2, <1>3 DEF EventInv, EventVarTypes, EventQueueInv
<1>7. SeenInv'
  BY <1>1, <1>2, <1>3 DEF EventInv, EventVarTypes, SeenInv, Waiting
<1> QED BY <1>2, <1>4, <1>5, <1>6, <1>7 DEF EventInv

(* The compare-exchange: a signal lets one wait through.                   *)
LEMMA WaitTestInv ==
    ASSUME IInv, EventInv, NEW c \in Cpus, WaitTest(c), eventType' = eventType
    PROVE  /\ EventInv' /\ UNCHANGED vars
           /\ \A x \in Waiting : x \in Waiting' \/ x \in seen
<1> USE SchedulerAssumption
<1> DEFINE t == current[c]
<1>1. t \in Threads \ IdleThreads /\ epc[t] = "test" /\ t \notin waiters
  BY RunFacts DEF WaitTest, EIn, At, Pending
<1>2. UNCHANGED vars /\ UNCHANGED <<eventLock, eventList, signals, seen>>
  BY DEF WaitTest
<1>3. waiters' = waiters /\ current' = current /\ pc' = pc /\ ret' = ret /\ waiters \subseteq Threads
  BY <1>2 DEF vars, IInv, TypeOK
<1>4. CASE signaled
  <2>1. /\ signaled' = (eventType = "Notification") /\ returns' = returns + 1
        /\ epc' = [epc EXCEPT ![t] = "out"]
    BY <1>4 DEF WaitTest, EGoto
  <2>2. EventVarTypes'
    BY <1>1, <1>2, <2>1 DEF EventInv, EventVarTypes, EventLocations
  <2>3. SignalSectionInv' /\ EventQueueInv'
    BY <1>1, <1>2, <1>3, <2>1 DEF EventInv, EventVarTypes, SignalSectionInv, EventQueueInv
  <2>4. ConsumedInv'
    <3> SUFFICES ASSUME eventType = "Synchronization" PROVE returns' <= signals /\ ~signaled'
      BY <1>2 DEF ConsumedInv
    <3>1. ~signaled' /\ returns < signals
      BY <1>4, <2>1 DEF EventInv, ConsumedInv
    <3>2. returns \in Nat /\ signals \in Nat
      BY EventAssumption DEF EventInv, EventVarTypes
    <3> QED BY <2>1, <3>1, <3>2
  <2>5. SeenInv'
    BY <1>1, <1>2, <1>3, <1>4, <2>1 DEF EventInv, EventVarTypes, SeenInv, Waiting
  <2>6. \A x \in Waiting : x \in seen
    BY <1>4 DEF EventInv, SeenInv
  <2> QED BY <1>2, <2>2, <2>3, <2>4, <2>5, <2>6 DEF EventInv
<1>5. CASE ~signaled
  <2>1. UNCHANGED <<signaled, returns>> /\ epc' = [epc EXCEPT ![t] = "insert"]
    BY <1>5 DEF WaitTest, EGoto
  <2>2. EventVarTypes'
    BY <1>1, <1>2, <2>1 DEF EventInv, EventVarTypes, EventLocations
  <2>3. SignalSectionInv' /\ EventQueueInv' /\ ConsumedInv'
    BY <1>1, <1>2, <1>3, <2>1 DEF EventInv, EventVarTypes, SignalSectionInv, EventQueueInv,
       ConsumedInv
  <2>4. SeenInv' /\ Waiting' = Waiting
    BY <1>1, <1>2, <1>3, <1>5, <2>1 DEF EventInv, EventVarTypes, SeenInv, Waiting
  <2> QED BY <1>2, <2>2, <2>3, <2>4 DEF EventInv
<1> QED BY <1>4, <1>5

(* The thread is linked in behind the others, once, and not while          *)
(* ExEventSignal is emptying the list.                                     *)
LEMMA WaitInsertInv ==
    ASSUME IInv, EventInv, NEW c \in Cpus, WaitInsert(c), eventType' = eventType
    PROVE  EventInv' /\ CpuStep(c) /\ Waiting' = Waiting
<1> USE SchedulerAssumption
<1> DEFINE t == current[c]
<1>1. /\ t \in Threads \ IdleThreads /\ epc[t] = "insert" /\ t \notin waiters
      /\ eventLock = None
  BY RunFacts DEF WaitInsert, EIn, At, Pending
<1>2. /\ eventList' = Append(eventList, t) /\ waiters' = waiters \cup {t}
      /\ epc' = [epc EXCEPT ![t] = "woken"]
      /\ UNCHANGED <<signaled, eventLock, signals, returns, seen>>
  BY DEF WaitInsert, ClientWait, EGoto
<1>3. EventVarTypes'
  BY <1>1, <1>2, AppendFacts DEF EventInv, EventVarTypes, EventLocations
<1>4. SignalSectionInv' /\ ConsumedInv'
  BY <1>1, <1>2 DEF EventInv, EventVarTypes, SignalSectionInv, ConsumedInv
<1>5. EventQueueInv'
  <2>1. Range(eventList') = waiters' /\ IsInjective(eventList')
    BY <1>1, <1>2, AppendFacts DEF EventInv, EventVarTypes, EventQueueInv
  <2>2. \A x \in waiters' : x \in Threads /\ epc'[x] = "woken"
    BY <1>1, <1>2 DEF EventInv, EventVarTypes, EventQueueInv, IInv, TypeOK
  <2>3. \A x \in IdleThreads : epc'[x] = "out"
    BY <1>1, <1>2 DEF EventInv, EventVarTypes, EventQueueInv
  <2> QED BY <2>1, <2>2, <2>3 DEF EventQueueInv
<1>6. SeenInv' /\ Waiting' = Waiting
  BY <1>1, <1>2 DEF EventInv, EventVarTypes, SeenInv, Waiting
<1>7. CpuStep(c)
  BY DEF WaitInsert, CpuStep
<1> QED BY <1>3, <1>4, <1>5, <1>6, <1>7 DEF EventInv

(* ThreadBlock has returned: the thread was taken off the list by a signal *)
(* during its wait.                                                        *)
LEMMA WaitWokenInv ==
    ASSUME IInv, EventInv, NEW c \in Cpus, WaitWoken(c), eventType' = eventType
    PROVE  /\ EventInv' /\ UNCHANGED vars
           /\ \A x \in Waiting : x \in Waiting' \/ x \in seen
<1> USE SchedulerAssumption
<1> DEFINE t == current[c]
<1>1. t \in Threads \ IdleThreads /\ epc[t] = "woken" /\ t \notin waiters
  BY RunFacts DEF WaitWoken, EIn, At, Pending
<1>2. t \in seen
  BY <1>1 DEF EventInv, SeenInv
<1>3. UNCHANGED vars /\ UNCHANGED <<signaled, eventLock, eventList, signals, seen>>
  BY DEF WaitWoken
<1>4. waiters' = waiters /\ current' = current /\ pc' = pc /\ ret' = ret /\ waiters \subseteq Threads
  BY <1>3 DEF vars, IInv, TypeOK
<1>5. /\ epc' = [epc EXCEPT ![t] = "out"] \/ epc' = [epc EXCEPT ![t] = "test"]
      /\ returns' \in {returns, returns + 1}
      /\ eventType = "Synchronization" => returns' = returns
  BY DEF WaitWoken, EGoto
<1>6. EventVarTypes'
  BY <1>1, <1>3, <1>5 DEF EventInv, EventVarTypes, EventLocations
<1>7. SignalSectionInv' /\ EventQueueInv'
  <2>1. epc'[t] \in {"out", "test"} /\ \A x \in Threads \ {t} : epc'[x] = epc[x]
    BY <1>1, <1>5 DEF EventInv, EventVarTypes
  <2>2. SignalSectionInv'
    BY <1>1, <1>3, <1>4, <2>1 DEF EventInv, SignalSectionInv, IInv, TypeOK
  <2>3. IdleThreads \subseteq Threads
    BY DEF IdleThreads, Range
  <2>4. EventQueueInv'
    BY <1>1, <1>3, <1>4, <2>1, <2>3 DEF EventInv, EventQueueInv
  <2> QED BY <2>2, <2>4
<1>8. ConsumedInv'
  BY <1>3, <1>5 DEF EventInv, ConsumedInv
<1>9. SeenInv' /\ \A x \in Waiting : x \in Waiting' \/ x \in seen
  BY <1>1, <1>2, <1>3, <1>4, <1>5 DEF EventInv, EventVarTypes, SeenInv, Waiting
<1> QED BY <1>3, <1>6, <1>7, <1>8, <1>9 DEF EventInv
(* A signal is set and counted; every wait in progress overlaps it.        *)
LEMMA SignalInv ==
    ASSUME IInv, EventInv, NEW c \in Cpus, ExEventSignal(c), eventType' = eventType
    PROVE  EventInv' /\ UNCHANGED vars /\ Waiting' = Waiting
<1> USE SchedulerAssumption
<1> DEFINE t == current[c]
<1>1. /\ t \in Threads \ IdleThreads /\ epc[t] = "out" /\ t \notin waiters
      /\ eventLock = None /\ pc[t] = "run" /\ signals < MaxSignals
  BY RunFacts DEF ExEventSignal, EIn, At, Pending
<1>2. /\ epc' = [epc EXCEPT ![t] = "wake"] /\ eventLock' = c
      /\ signaled' = TRUE /\ signals' = signals + 1 /\ seen' = seen \cup Waiting
      /\ UNCHANGED vars /\ UNCHANGED <<eventList, returns>>
  BY DEF ExEventSignal, EGoto
<1>3. waiters' = waiters /\ current' = current /\ pc' = pc /\ ret' = ret /\ waiters \subseteq Threads
  BY <1>2 DEF vars, IInv, TypeOK
<1>4. \A x \in Threads : epc[x] \notin {"wake", "unlock"}
  BY <1>1 DEF EventInv, SignalSectionInv
<1>5. Waiting' = Waiting /\ Waiting \subseteq Threads
  BY <1>1, <1>2 DEF EventInv, EventVarTypes, Waiting
<1>6. EventVarTypes'
  <2>1. signals' \in 0 .. MaxSignals
    BY <1>1, <1>2, EventAssumption DEF EventInv, EventVarTypes
  <2>2. signaled' \in BOOLEAN
    BY <1>2
  <2>3. epc' \in [Threads -> EventLocations]
    BY <1>1, <1>2 DEF EventInv, EventVarTypes, EventLocations
  <2> QED BY <1>2, <1>5, <2>1, <2>2, <2>3 DEF EventInv, EventVarTypes
<1>7. SignalSectionInv'
  BY <1>1, <1>2, <1>3, <1>4 DEF EventInv, EventVarTypes, SignalSectionInv, IInv, OneCpuPerThread
<1>8. EventQueueInv'
  BY <1>1, <1>2, <1>3 DEF EventInv, EventVarTypes, EventQueueInv
<1>9. ConsumedInv'
  <2>1. returns \in Nat /\ signals \in Nat /\ (eventType = "Synchronization" => returns <= signals)
    BY EventAssumption DEF EventInv, EventVarTypes, ConsumedInv
  <2>2. eventType = "Synchronization" => returns < signals + 1 /\ returns <= signals + 1
    BY <2>1
  <2> QED BY <1>2, <2>2 DEF ConsumedInv
<1>10. SeenInv'
  <2>1. \A x \in Threads : epc'[x] = "woken" => x \in Waiting
    BY <1>1, <1>2 DEF EventInv, EventVarTypes, Waiting
  <2>2. waiters \subseteq Waiting
    BY <1>3 DEF EventInv, EventQueueInv, Waiting
  <2> QED BY <1>2, <1>3, <1>5, <2>1, <2>2 DEF SeenInv
<1> QED BY <1>2, <1>5, <1>6, <1>7, <1>8, <1>9, <1>10 DEF EventInv

(* One turn of the loop of ExEventSignal: the first waiter leaves the list *)
(* and is the one ThreadUnblock is called for.                             *)
LEMMA SignalWakeInv ==
    ASSUME IInv, EventInv, NEW c \in Cpus, SignalWake(c), eventType' = eventType
    PROVE  EventInv' /\ CpuStep(c) /\ Waiting' = Waiting
<1> USE SchedulerAssumption
<1> DEFINE t == current[c]
           w == Head(eventList)
<1>1. t \in Threads \ IdleThreads /\ epc[t] = "wake" /\ t \notin waiters /\ pc[t] = "run"
  BY RunFacts DEF SignalWake, EIn, At, Pending
<1>2. /\ eventList' = Tail(eventList) /\ ClientWake(c, w) /\ eventList # <<>>
      /\ UNCHANGED <<signaled, eventLock, signals, returns, seen>>
  BY DEF SignalWake
<1>3. epc' = [epc EXCEPT ![t] = "unlock"] \/ epc' = [epc EXCEPT ![t] = "wake"]
  BY DEF SignalWake, EGoto
<1>4. epc'[t] \in {"unlock", "wake"} /\ \A x \in Threads \ {t} : epc'[x] = epc[x]
  BY <1>1, <1>3 DEF EventInv, EventVarTypes
<1>5. /\ w \in Threads /\ eventList' \in Seq(Threads) /\ IsInjective(eventList')
      /\ w \notin Range(eventList') /\ waiters = Range(eventList') \cup {w}
  BY <1>2, TailFacts DEF EventInv, EventVarTypes, EventQueueInv
<1> HIDE DEF w
<1>6. /\ waiters' = waiters \ {w} /\ current' = current
      /\ pc'[t] = "unblock" /\ ret'[t] = "run"
  BY <1>1, <1>2 DEF ClientWake, Goto, IInv, TypeOK
<1>7. eventLock = c /\ \A x \in Threads : epc[x] \in {"wake", "unlock"} => x = t
  BY <1>1 DEF EventInv, SignalSectionInv, IInv, OneCpuPerThread
<1>8. w # t /\ w \in seen /\ epc[w] = "woken"
  BY <1>1, <1>5, <1>7 DEF EventInv, SeenInv, EventQueueInv
<1>9. EventVarTypes'
  <2>1. epc' \in [Threads -> EventLocations]
    BY <1>1, <1>3 DEF EventInv, EventVarTypes, EventLocations
  <2> QED BY <1>2, <1>5, <2>1 DEF EventInv, EventVarTypes
<1>10. SignalSectionInv'
  BY <1>1, <1>2, <1>4, <1>6, <1>7 DEF EventInv, SignalSectionInv
<1>11. EventQueueInv'
  <2>1. IdleThreads \subseteq Threads /\ waiters \subseteq Threads
    BY DEF IdleThreads, Range, IInv, TypeOK
  <2> QED BY <1>1, <1>4, <1>5, <1>6, <2>1 DEF EventInv, EventQueueInv
<1>12. Waiting' = Waiting
  BY <1>1, <1>4 DEF Waiting
<1>13. ConsumedInv' /\ SeenInv'
  <2>1. ConsumedInv'
    BY <1>2 DEF EventInv, ConsumedInv
  <2>2. signaled' => Waiting' \subseteq seen'
    BY <1>2, <1>12 DEF EventInv, SeenInv
  <2>3. waiters' \subseteq seen'
    BY <1>2, <1>6, <1>7 DEF EventInv, SeenInv
  <2>4. \A x \in Threads : epc'[x] = "woken" /\ x \notin waiters' => x \in seen'
    BY <1>1, <1>2, <1>4, <1>6, <1>8 DEF EventInv, SeenInv
  <2> QED BY <2>1, <2>2, <2>3, <2>4 DEF SeenInv
<1>14. CpuStep(c)
  BY <1>2, <1>5 DEF CpuStep
<1> QED BY <1>9, <1>10, <1>11, <1>12, <1>13, <1>14 DEF EventInv

(* EventLock is released by the CPU that owns it.                          *)
LEMMA SignalUnlockInv ==
    ASSUME IInv, EventInv, NEW c \in Cpus, SignalUnlock(c), eventType' = eventType
    PROVE  EventInv' /\ UNCHANGED vars /\ Waiting' = Waiting
<1> USE SchedulerAssumption
<1> DEFINE t == current[c]
<1>1. t \in Threads \ IdleThreads /\ epc[t] \in {"wake", "unlock"} /\ t \notin waiters
  BY RunFacts DEF SignalUnlock, EIn, At, Pending
<1>2. /\ epc' = [epc EXCEPT ![t] = "out"] /\ eventLock' = None
      /\ UNCHANGED vars /\ UNCHANGED <<signaled, eventList, signals, returns, seen>>
  BY DEF SignalUnlock, EGoto
<1>3. waiters' = waiters /\ current' = current /\ pc' = pc /\ ret' = ret /\ waiters \subseteq Threads
  BY <1>2 DEF vars, IInv, TypeOK
<1>4. \A x \in Threads : epc[x] \in {"wake", "unlock"} => x = t
  BY <1>1 DEF EventInv, SignalSectionInv, IInv, OneCpuPerThread
<1>5. EventVarTypes'
  BY <1>1, <1>2 DEF EventInv, EventVarTypes, EventLocations
<1>6. SignalSectionInv' /\ EventQueueInv' /\ ConsumedInv'
  BY <1>1, <1>2, <1>3, <1>4 DEF EventInv, EventVarTypes, SignalSectionInv, EventQueueInv,
     ConsumedInv
<1>7. SeenInv' /\ Waiting' = Waiting
  BY <1>1, <1>2, <1>3 DEF EventInv, EventVarTypes, SeenInv, Waiting
<1> QED BY <1>2, <1>5, <1>6, <1>7 DEF EventInv

(* ExEventClearSignal takes a signal away from waits that have not used it.*)
LEMMA ClearSignalInv ==
    ASSUME IInv, EventInv, NEW c \in Cpus, ExEventClearSignal(c), eventType' = eventType
    PROVE  EventInv' /\ UNCHANGED vars /\ Waiting' = Waiting
<1>1. /\ signaled' = FALSE /\ UNCHANGED vars
      /\ UNCHANGED <<eventLock, eventList, epc, signals, returns, seen>>
  BY DEF ExEventClearSignal
<1>2. waiters' = waiters /\ current' = current /\ pc' = pc /\ ret' = ret
  BY <1>1 DEF vars
<1>3. EventVarTypes' /\ Waiting' = Waiting
  BY <1>1 DEF EventInv, EventVarTypes, Waiting
<1>4. SignalSectionInv' /\ EventQueueInv' /\ ConsumedInv' /\ SeenInv'
  BY <1>1, <1>2 DEF EventInv, SignalSectionInv, EventQueueInv, ConsumedInv, SeenInv
<1> QED BY <1>1, <1>3, <1>4 DEF EventInv

(* Every step preserves the invariant, is a step of the scheduler or one   *)
(* it does not see, and ends no wait that has not overlapped a signal.     *)
LEMMA EventNextInv ==
    ASSUME IInv, EventInv, [EventNext]_<<vars, eventVars>>
    PROVE  /\ EventInv'
           /\ [Next]_vars
           /\ [\A t \in Waiting : t \in Waiting' \/ t \in seen]_<<vars, eventVars>>
<1>1. CASE UNCHANGED <<vars, eventVars>>
  BY <1>1 DEF vars, eventVars, EventInv, EventVarTypes, SignalSectionInv, EventQueueInv,
     ConsumedInv, SeenInv, Waiting
<1>2. ASSUME NEW c \in Cpus, EventSchedulerStep(c) \/ EventStep(c)
      PROVE  /\ EventInv' /\ [Next]_vars
             /\ \A t \in Waiting : t \in Waiting' \/ t \in seen
  <2>1. CASE EventSchedulerStep(c)
    <3>1. EventInv' /\ CpuStep(c) /\ Waiting' = Waiting
      BY <2>1, EventSchedulerStepInv DEF eventVars, Waiting
    <3> QED BY <3>1 DEF Next
  <2>2. CASE EventStep(c) /\ (WaitInsert(c) \/ SignalWake(c))
    BY <2>2, WaitInsertInv, SignalWakeInv DEF EventStep, Next
  <2>3. CASE EventStep(c) /\ ExEventWaitForSignal(c)
    <3>1. EventInv' /\ UNCHANGED vars
      BY <2>3, WaitForSignalInv DEF EventStep
    <3>2. \A t \in Waiting : t \in Waiting'
      BY <2>3 DEF ExEventWaitForSignal, EGoto, Waiting, EventInv, EventVarTypes
    <3> QED BY <3>1, <3>2
  <2>4. CASE EventStep(c) /\ (WaitTest(c) \/ WaitWoken(c))
    BY <2>4, WaitTestInv, WaitWokenInv DEF EventStep
  <2>5. CASE EventStep(c) /\ (ExEventSignal(c) \/ SignalUnlock(c) \/ ExEventClearSignal(c))
    BY <2>5, SignalInv, SignalUnlockInv, ClearSignalInv DEF EventStep
  <2> QED BY <1>2, <2>1, <2>2, <2>3, <2>4, <2>5 DEF EventStep
<1> QED BY <1>1, <1>2 DEF EventNext

-----------------------------------------------------------------------------
(* The inductive invariants of the event and of the scheduler below it.    *)
THEOREM EventInvariance == EventSpec => [](IInv /\ EventInv)
<1>1. ExEventInit => IInv /\ EventInv
  BY InitInv, EventInitInv DEF ExEventInit
<1>2. IInv /\ EventInv /\ [EventNext]_<<vars, eventVars>> => IInv' /\ EventInv'
  BY EventNextInv, NextInv
<1> QED BY <1>1, <1>2, PTL DEF EventSpec

(* ex_event.c uses the scheduler as Scheduler allows its clients to: what  *)
(* is proved of Scheduler holds with it.                                   *)
THEOREM EventRefinesScheduler == EventSpec => RefinesScheduler
<1>1. ExEventInit => Init
  BY DEF ExEventInit
<1>2. IInv /\ EventInv /\ [EventNext]_<<vars, eventVars>> => [Next]_vars
  BY EventNextInv
<1> QED BY <1>1, <1>2, EventInvariance, PTL DEF EventSpec, RefinesScheduler, Spec

(* The list of an event holds each waiter once and no ready thread, and a  *)
(* synchronization event lets one wait through per signal, however the     *)
(* unlocked compare-exchanges and the wake-ups interleave.                 *)
THEOREM EventCorrect == EventSpec => []EventSound
<1>1. ASSUME IInv, EventInv PROVE EventTypeOK
  BY <1>1, SchedulerAssumption DEF EventInv, EventVarTypes, SignalSectionInv, EventTypeOK
<1>2. ASSUME IInv, EventInv PROVE OneEventList
  BY <1>2 DEF IInv, TypeOK, WaitListInv, Pending, EventInv, EventQueueInv, OneEventList
<1>3. EventInv => ConsumedOnce
  BY DEF EventInv, ConsumedInv, ConsumedOnce
<1>4. IInv /\ EventInv => EventSound
  BY <1>1, <1>2, <1>3 DEF EventSound
<1> QED BY <1>4, EventInvariance, PTL

(* No wait returns that has not overlapped a signal, although a wait for a *)
(* notification event does not look at Signaled after ThreadBlock and the  *)
(* event may have been cleared again by then.                              *)
THEOREM ReturnsNotEarly == EventSpec => NoEarlyReturn
<1>1. IInv /\ EventInv /\ [EventNext]_<<vars, eventVars>> =>
        [\A t \in Waiting : t \in Waiting' \/ t \in seen]_<<vars, eventVars>>
  BY EventNextInv
<1> QED BY <1>1, EventInvariance, PTL DEF EventSpec, NoEarlyReturn

(* No ASSERT of thread.c fails under the calls of ex_event.c where no      *)
(* thread is terminated by force.                                          *)
THEOREM EventNeverPanics == UserThreads = {} /\ EventSpec => []NoPanic
  BY NeverPanics, EventRefinesScheduler, PTL DEF RefinesScheduler
=============================================================================
