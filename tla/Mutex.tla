-------------------------------- MODULE Mutex --------------------------------
(***************************************************************************)
(* The mutex of HAL9000 (src/HAL9000/src/mutex.c), on top of the scheduler *)
(* it blocks and unblocks threads with.                                    *)
(*                                                                         *)
(* MutexLock is a spin lock, owned by a CPU.  mpc says where a thread is   *)
(* in mutex.c while the scheduler sees it as running client code.  inMutex *)
(* counts, for each thread, the MutexAcquire calls that have returned and  *)
(* are not yet undone.                                                     *)
(***************************************************************************)
EXTENDS Scheduler

CONSTANT MaxRecursivityDepth   \* MUTEX.MaxRecursivityDepth: 1, or MAX_BYTE

ASSUME MutexAssumption == MaxRecursivityDepth \in Nat \ {0}

VARIABLES
    mutexLock,  \* CPU that owns MUTEX.MutexLock
    holder,     \* MUTEX.Holder
    depth,      \* MUTEX.CurrentRecursivityDepth
    waitList,   \* MUTEX.WaitingList
    mpc,        \* control point of each thread in mutex.c
    inMutex     \* acquisitions of each thread it has not released

mutexVars == <<mutexLock, holder, depth, waitList, mpc, inMutex>>

MutexLocations ==
    {"out",      \* not in mutex.c
     "acquire",  \* MutexAcquire, acquiring MutexLock, interrupts disabled
     "wait",     \* MutexAcquire, about to wait, MutexLock held
     "release",  \* MutexRelease, acquiring MutexLock, interrupts enabled
     "unlock"}   \* MutexRelease, ThreadUnblock has returned, MutexLock held

(* MutexInit *)
MutexInit ==
    /\ Init
    /\ mutexLock = None
    /\ holder = None
    /\ depth = 0
    /\ waitList = <<>>
    /\ mpc = [t \in Threads |-> "out"]
    /\ inMutex = [t \in Threads |-> 0]

In(c, l) == At(c, "run") /\ mpc[current[c]] = l
MGoto(c, l) == mpc' = [mpc EXCEPT ![current[c]] = l]

-----------------------------------------------------------------------------
(* Mutant: the ASSERT leaves no room for the last recursive acquisition.   *)
MutexAcquireDepthOff(c) ==
    LET t == current[c]
    IN  /\ In(c, "out")
        /\ inMutex[t] < MaxRecursivityDepth
        /\ panic' = (holder = t /\ depth + 1 >= MaxRecursivityDepth)
        /\ \/ /\ holder = t
              /\ depth' = depth + 1
              /\ inMutex' = [inMutex EXCEPT ![t] = @ + 1]
              /\ UNCHANGED mpc
           \/ /\ holder # t
              /\ MGoto(c, "acquire")
              /\ UNCHANGED <<depth, inMutex>>
        /\ UNCHANGED <<state, flags, blockLock, threadVars, readyList, readyLock,
                       current, previous, waiters, localVars, pc,
                       mutexLock, holder, waitList>>

(* MutexAcquire up to CpuIntrDisable: the holder only counts.  No client   *)
(* goes beyond the recursion depth the mutex was initialised with; the     *)
(* ASSERT checks that against the depth the mutex keeps.                   *)
MutexAcquire(c) ==
    LET t == current[c]
    IN  /\ In(c, "out")
        /\ inMutex[t] < MaxRecursivityDepth
        /\ panic' = (holder = t /\ depth >= MaxRecursivityDepth)
        /\ \/ /\ holder = t
              /\ depth' = depth + 1
              /\ inMutex' = [inMutex EXCEPT ![t] = @ + 1]
              /\ UNCHANGED mpc
           \/ /\ holder # t
              /\ MGoto(c, "acquire")
              /\ UNCHANGED <<depth, inMutex>>
        /\ UNCHANGED <<state, flags, blockLock, threadVars, readyList, readyLock,
                       current, previous, waiters, localVars, pc,
                       mutexLock, holder, waitList>>

(* Mutant: a mutex nobody waits for is taken to be free.                   *)
MutexAcquireLockIfNoWaiter(c) ==
    LET t == current[c]
    IN  /\ In(c, "acquire")
        /\ mutexLock = None
        /\ \/ /\ waitList = <<>> \/ holder = t
              /\ holder' = t
              /\ depth' = 1
              /\ inMutex' = [inMutex EXCEPT ![t] = 1]
              /\ MGoto(c, "out")
              /\ UNCHANGED mutexLock
           \/ /\ waitList # <<>> /\ holder # t
              /\ mutexLock' = c
              /\ MGoto(c, "wait")
              /\ UNCHANGED <<holder, depth, inMutex>>
        /\ UNCHANGED <<vars, waitList>>

(* MutexAcquire with MutexLock: the thread takes a free mutex, finds that  *)
(* it was made the holder, or keeps MutexLock and goes to wait.            *)
MutexAcquireLock(c) ==
    LET t == current[c]
    IN  /\ In(c, "acquire")
        /\ mutexLock = None
        /\ \/ /\ holder = None
              /\ holder' = t
              /\ depth' = 1
              /\ inMutex' = [inMutex EXCEPT ![t] = 1]
              /\ MGoto(c, "out")
              /\ UNCHANGED mutexLock
           \/ /\ holder = t
              /\ inMutex' = [inMutex EXCEPT ![t] = 1]
              /\ MGoto(c, "out")
              /\ UNCHANGED <<mutexLock, holder, depth>>
           \/ /\ holder \notin {None, t}
              /\ mutexLock' = c
              /\ MGoto(c, "wait")
              /\ UNCHANGED <<holder, depth, inMutex>>
        /\ UNCHANGED <<vars, waitList>>

(* Mutant: ThreadTakeBlockLock is forgotten.                               *)
MutexWaitNoBlockLock(c) ==
    /\ In(c, "wait")
    /\ ClientWaitNoBlockLock(c)
    /\ waitList' = Append(waitList, current[c])
    /\ mutexLock' = None
    /\ MGoto(c, "acquire")
    /\ UNCHANGED <<holder, depth, inMutex>>

(* InsertTailList, ThreadTakeBlockLock, LockRelease, then ThreadBlock: the *)
(* thread comes back to "acquire" when it is unblocked.                    *)
MutexWait(c) ==
    /\ In(c, "wait")
    /\ ClientWait(c)
    /\ waitList' = Append(waitList, current[c])
    /\ mutexLock' = None
    /\ MGoto(c, "acquire")
    /\ UNCHANGED <<holder, depth, inMutex>>

(* Mutant: a depth of one is taken for a recursive acquisition.            *)
MutexReleaseDepthOff(c) ==
    LET t == current[c]
    IN  /\ In(c, "out")
        /\ inMutex[t] > 0
        /\ inMutex' = [inMutex EXCEPT ![t] = @ - 1]
        /\ panic' = (holder # t)
        /\ \/ /\ depth >= 1
              /\ depth' = depth - 1
              /\ UNCHANGED mpc
           \/ /\ depth < 1
              /\ MGoto(c, "release")
              /\ UNCHANGED depth
        /\ UNCHANGED <<state, flags, blockLock, threadVars, readyList, readyLock,
                       current, previous, waiters, localVars, pc,
                       mutexLock, holder, waitList>>

(* MutexRelease up to LockAcquire.  A thread releases what it has acquired *)
(* (REQUIRES_EXCL_LOCK); the ASSERT checks that against Holder.            *)
MutexRelease(c) ==
    LET t == current[c]
    IN  /\ In(c, "out")
        /\ inMutex[t] > 0
        /\ inMutex' = [inMutex EXCEPT ![t] = @ - 1]
        /\ panic' = (holder # t)
        /\ \/ /\ depth > 1
              /\ depth' = depth - 1
              /\ UNCHANGED mpc
           \/ /\ depth <= 1
              /\ MGoto(c, "release")
              /\ UNCHANGED depth
        /\ UNCHANGED <<state, flags, blockLock, threadVars, readyList, readyLock,
                       current, previous, waiters, localVars, pc,
                       mutexLock, holder, waitList>>

(* Mutant: the last waiter is served first.                                *)
MutexReleaseLockLifo(c) ==
    /\ In(c, "release")
    /\ mutexLock = None
    /\ \/ /\ waitList = <<>>
          /\ holder' = None
          /\ MGoto(c, "out")
          /\ UNCHANGED <<vars, mutexLock, depth, waitList>>
       \/ /\ waitList # <<>>
          /\ holder' = waitList[Len(waitList)]
          /\ depth' = 1
          /\ waitList' = SubSeq(waitList, 1, Len(waitList) - 1)
          /\ ClientWake(c, waitList[Len(waitList)])
          /\ mutexLock' = c
          /\ MGoto(c, "unlock")
    /\ UNCHANGED inMutex

(* MutexRelease with MutexLock, up to ThreadUnblock of the first waiter,   *)
(* which is the holder from here on.                                       *)
MutexReleaseLock(c) ==
    /\ In(c, "release")
    /\ mutexLock = None
    /\ \/ /\ waitList = <<>>
          /\ holder' = None
          /\ MGoto(c, "out")
          /\ UNCHANGED <<vars, mutexLock, depth, waitList>>
       \/ /\ waitList # <<>>
          /\ holder' = Head(waitList)
          /\ depth' = 1
          /\ waitList' = Tail(waitList)
          /\ ClientWake(c, Head(waitList))
          /\ mutexLock' = c
          /\ MGoto(c, "unlock")
    /\ UNCHANGED inMutex

(* MutexRelease after ThreadUnblock: the release of MutexLock.             *)
MutexUnlock(c) ==
    /\ In(c, "unlock")
    /\ mutexLock' = None
    /\ MGoto(c, "out")
    /\ UNCHANGED <<vars, holder, depth, waitList, inMutex>>

(* The steps of the scheduler.  The timer interrupts a thread only where   *)
(* interrupts are enabled; a thread exits by itself only outside mutex.c   *)
(* and holding nothing, a thread terminated by force wherever it blocks.   *)
SchedulerStep(c) ==
    /\ \/ mpc[current[c]] \in {"out", "release"} /\ ThreadTick(c)
       \/ ThreadYield(c)
       \/ ThreadYieldSwitch(c)
       \/ IdleThread(c)
       \/ ThreadBlock(c)
       \/ ThreadBlockSwitch(c)
       \/ ThreadUnblock(c)
       \/ ThreadUnblockReady(c)
       \/ /\ At(c, "run") => mpc[current[c]] = "out" /\ inMutex[current[c]] = 0
          /\ ThreadExit(c)
       \/ ThreadExitSwitch(c)
       \/ ThreadCleanupPostSchedule(c)
       \/ CleanupPrevious(c)
       \/ /\ mpc[current[c]] = "out"
          /\ \E w \in Threads :
                ThreadCreateEx(c, w) \/ ThreadCloseHandle(c, w) \/ ThreadTerminate(c, w)
    /\ UNCHANGED mutexVars

MutexStep(c) ==
    \/ MutexAcquire(c)
    \/ MutexAcquireLock(c)
    \/ MutexWait(c)
    \/ MutexRelease(c)
    \/ MutexReleaseLock(c)
    \/ MutexUnlock(c)

MutexNext == \E c \in Cpus : SchedulerStep(c) \/ MutexStep(c)

MutexSpec == MutexInit /\ [][MutexNext]_<<vars, mutexVars>>

(* Every CPU keeps executing instructions; a tick of its timer stays       *)
(* pending in the local APIC until interrupts are enabled; and a thread    *)
(* that holds the mutex calls MutexRelease and gets through it, if it      *)
(* keeps being scheduled: a time slice is long enough for some progress.   *)
FairMutexSpec ==
    /\ MutexSpec
    /\ \A c \in Cpus : /\ WF_<<vars, mutexVars>>(SchedulerStep(c) \/ MutexStep(c))
                       /\ SF_<<vars, mutexVars>>(ThreadTick(c) /\ SchedulerStep(c))
    /\ \A t \in Threads :
          SF_<<vars, mutexVars>>(\E c \in Cpus :
              current[c] = t /\ (MutexRelease(c) \/ MutexReleaseLock(c)))
-----------------------------------------------------------------------------
(* Every variable of the mutex stays in its type, and the CPU that owns    *)
(* MutexLock is executing a thread inside the critical section.            *)
MutexTypeOK ==
    /\ TypeOK
    /\ mutexLock \in Cpus \cup {None}
    /\ holder \in Threads \cup {None}
    /\ depth \in 0 .. MaxRecursivityDepth
    /\ waitList \in Seq(Threads)
    /\ mpc \in [Threads -> MutexLocations]
    /\ inMutex \in [Threads -> 0 .. MaxRecursivityDepth]
    /\ mutexLock # None => mpc[current[mutexLock]] \in {"wait", "unlock"}

(* Mutual exclusion: whoever has returned from MutexAcquire is the holder, *)
(* alone, and the mutex knows how often it must still be released.         *)
MutualExclusion ==
    \A t \in Threads : inMutex[t] > 0 => holder = t /\ depth = inMutex[t]

(* The ready list and every wait list are linked through one field,        *)
(* THREAD.ReadyList: a thread is never on two of them, nor on one twice.   *)
OneList ==
    /\ Range(waitList) \cap Range(readyList) = {}
    /\ IsInjective(waitList)
    /\ Range(waitList) = waiters

(* The hand-over is not lost: a thread that was made the holder while it   *)
(* waited is Blocked only as long as the CPU that released the mutex is    *)
(* still in the ThreadUnblock that makes it ready.                         *)
HolderWakes ==
    holder # None /\ state[holder] = "Blocked" =>
        \E c \in Cpus : target[current[c]] = holder

(* A mutex is a lock that is handed over in order of arrival (FairLock):   *)
(* what MutexAcquire and MutexRelease promise together.                    *)
Lock == INSTANCE FairLock WITH owner   <- holder,
                               inside  <- {t \in Threads : inMutex[t] > 0},
                               leaving <- \E t \in Threads : mpc[t] = "release",
                               queue   <- waitList
RefinesFairLock == Lock!LockSpec

(* A thread that calls MutexAcquire gets the mutex, if holders release it  *)
(* and no thread is terminated by force: one that dies in the mutex, or    *)
(* waiting for it, never releases it.                                      *)
AcquireReturns ==
    \A t \in Threads :
        mpc[t] = "acquire" ~> (inMutex[t] > 0 \/ \E u \in Threads : flags[u] # {})

(* What a mutex guarantees at any time: whoever is in it is its holder,    *)
(* alone; a thread it was handed to is woken; and its waiters are on one   *)
(* list, once.                                                             *)
MutexSound ==
    /\ MutexTypeOK
    /\ OneList
    /\ MutualExclusion
    /\ HolderWakes
=============================================================================
