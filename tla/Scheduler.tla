------------------------------ MODULE Scheduler ------------------------------
(***************************************************************************)
(* The SMP thread scheduler of HAL9000 (src/HAL9000/src/thread.c).         *)
(*                                                                         *)
(* Every CPU executes one thread; every thread has a control point pc.     *)
(* One step is one spin-lock critical section, or one unlocked access to a *)
(* field another CPU may touch.  ReadyThreadsLock and the BlockLock of     *)
(* each thread are owned by CPUs, as LockIsOwner tests them, and           *)
(* ReadyThreadsLock stays held across ThreadSwitch: the thread switched to *)
(* releases it in ThreadCleanupPostSchedule.                               *)
(*                                                                         *)
(* The code that calls the scheduler (mutexes, events, devices) is a       *)
(* general client: a thread puts itself on some wait list, takes its       *)
(* BlockLock and blocks; any running thread takes a waiter off its list    *)
(* and calls ThreadUnblock.  Mutex and ExEvent refine this client.         *)
(*                                                                         *)
(* A failed ASSERT halts all CPUs (Hal9000Assert): panic.  The memory of a *)
(* destroyed thread keeps its last contents.                               *)
(***************************************************************************)
EXTENDS Integers, Sequences, Functions

CONSTANTS Cpus,      \* the processors
          Threads,   \* all THREAD structures that can ever be allocated
          Idle,      \* Idle[c]: PCPU.ThreadData.IdleThread of CPU c
          Main,      \* Main[c]: the thread CPU c booted with
          UserThreads, \* threads of user processes
          None       \* NULL, and the owner of a free lock

IdleThreads == Range(Idle)
MainThreads == Range(Main)

ASSUME SchedulerAssumption ==
    /\ Idle \in [Cpus -> Threads]
    /\ Main \in [Cpus -> Threads]
    /\ \A c, d \in Cpus : c # d => Idle[c] # Idle[d] /\ Main[c] # Main[d]
    /\ \A c, d \in Cpus : Idle[c] # Main[d]
    /\ UserThreads \subseteq Threads \ (IdleThreads \cup MainThreads)
    /\ None \notin Cpus
    /\ None \notin Threads

VARIABLES
    state,      \* THREAD.State; "None" before the structure is allocated
    flags,      \* THREAD.Flags
    blockLock,  \* CPU that owns THREAD.BlockLock
    refCnt,     \* THREAD.RefCnt
    destroyed,  \* threads _ThreadDestroy has freed
    handle,     \* thread that owns the handle ThreadCreateEx returned
    readyList,  \* m_threadSystemData.ReadyThreadsList
    readyLock,  \* CPU that owns m_threadSystemData.ReadyThreadsLock
    current,    \* PCPU.ThreadData.CurrentThread
    previous,   \* PCPU.ThreadData.PreviousThread
    waiters,    \* threads on the wait list of some mutex, event...
    target,     \* the thread a ThreadUnblock in progress is unblocking
    pc,         \* control point of each thread
    ret,        \* where a thread continues once the scheduler returns
    panic       \* an ASSERT has failed

threadVars == <<refCnt, destroyed, handle>>
localVars  == <<target, ret>>
vars == <<state, flags, blockLock, refCnt, destroyed, handle, readyList,
          readyLock, current, previous, waiters, target, pc, ret, panic>>

PENDING    == "PENDING"      \* THREAD_FLAG_FORCE_TERMINATE_PENDING
TERMINATED == "TERMINATED"   \* THREAD_FLAG_FORCE_TERMINATED

\* THREAD_STATE
ThreadState == {"None", "Running", "Ready", "Blocked", "Dying"}

(* Control points.  "run" and "hlt" have interrupts enabled, every other  *)
(* one is inside the scheduler with interrupts disabled.                  *)
Locations ==
    {"none",          \* not created
     "run",           \* executing client code
     "idle",          \* top of the loop of _IdleThread
     "hlt",           \* _IdleThread halted in __sti_and_hlt
     "yield",         \* ThreadYield, before the flag test
     "yieldlock",     \* ThreadYield, acquiring ReadyThreadsLock
     "block",         \* ThreadBlock, before the flag test
     "blocklock",     \* ThreadBlock, acquiring ReadyThreadsLock
     "unblock",       \* ThreadUnblock, acquiring the BlockLock of target
     "unblockready",  \* ThreadUnblock, acquiring ReadyThreadsLock
     "exit",          \* _ThreadForcedExit, about to call ThreadExit
     "dying",         \* ThreadExit, after State = ThreadStateDying
     "cleanup",       \* ThreadCleanupPostSchedule, ReadyThreadsLock held
     "release"}       \* ThreadCleanupPostSchedule, ReadyThreadsLock released

OnCpu(t) == \E c \in Cpus : current[c] = t
At(c, l) == ~panic /\ pc[current[c]] = l
Goto(c, l) == pc' = [pc EXCEPT ![current[c]] = l]

-----------------------------------------------------------------------------
(* The state ThreadSystemInitMainForCurrentCPU and                         *)
(* ThreadSystemInitIdleForCurrentCPU leave: each CPU runs its main thread  *)
(* and has an idle thread that was never scheduled.                        *)
Init ==
    /\ state = [t \in Threads |-> CASE t \in MainThreads -> "Running"
                                    [] t \in IdleThreads -> "Ready"
                                    [] OTHER -> "None"]
    /\ flags = [t \in Threads |-> {}]
    /\ blockLock = [t \in Threads |-> None]
    /\ refCnt = [t \in Threads |->
                   IF t \in MainThreads \cup IdleThreads THEN 1 ELSE 0]
    /\ destroyed = {}
    /\ handle = [t \in Threads |-> None]
    /\ readyList = <<>>
    /\ readyLock = None
    /\ current = Main
    /\ previous = [c \in Cpus |-> None]
    /\ waiters = {}
    /\ target = [t \in Threads |-> None]
    /\ pc = [t \in Threads |-> CASE t \in MainThreads -> "run"
                                 [] t \in IdleThreads -> "cleanup"
                                 [] OTHER -> "none"]
    /\ ret = [t \in Threads |-> IF t \in IdleThreads THEN "idle" ELSE "run"]
    /\ panic = FALSE

-----------------------------------------------------------------------------
(* _ThreadDereference, with _ThreadDestroy when the count reaches zero.    *)
ThreadDereference(t) ==
    /\ refCnt' = [refCnt EXCEPT ![t] = @ - 1]
    /\ destroyed' = IF refCnt[t] = 1 THEN destroyed \cup {t} ELSE destroyed

(* _ThreadGetReadyThread with ready list rl.                               *)
ThreadGetReadyThread(c, rl) ==
    /\ readyList' = IF rl = <<>> THEN rl ELSE Tail(rl)
    /\ current' = [current EXCEPT ![c] = IF rl = <<>> THEN Idle[c] ELSE Head(rl)]

(* _ThreadSchedule with ready list rl, up to the ThreadSwitch: the thread  *)
(* switched from resumes in cleanup when it is scheduled again, the thread *)
(* switched to is at cleanup already.                                      *)
ThreadSchedule(c, rl) ==
    /\ readyLock = None
    /\ readyLock' = c
    /\ ThreadGetReadyThread(c, rl)
    /\ previous' = [previous EXCEPT ![c] = current[c]]
    /\ Goto(c, "cleanup")

(* The APIC timer: ThreadTick sets YieldOnInterruptReturn on every tick    *)
(* (THREAD_TIME_SLICE is 1) and the interrupt handler ends in ThreadYield. *)
(* A ThreadYield() called by the thread itself is this step from "run".    *)
ThreadTick(c) ==
    LET t == current[c]
    IN  /\ At(c, "run") \/ At(c, "hlt")
        /\ ret' = [ret EXCEPT ![t] = IF pc[t] = "hlt" THEN "idle" ELSE "run"]
        /\ Goto(c, "yield")
        /\ UNCHANGED <<state, flags, blockLock, threadVars, readyList,
                       readyLock, current, previous, waiters, target, panic>>

(* The test of Flags in ThreadYield, with _ThreadForcedExit.               *)
ThreadYield(c) ==
    LET t == current[c]
    IN  /\ At(c, "yield")
        /\ \/ /\ flags[t] = {PENDING}
              /\ flags' = [flags EXCEPT ![t] = @ \cup {TERMINATED}]
              /\ Goto(c, "exit")
           \/ /\ flags[t] # {PENDING}
              /\ Goto(c, "yieldlock")
              /\ UNCHANGED flags
        /\ UNCHANGED <<state, blockLock, threadVars, readyList, readyLock,
                       current, previous, waiters, localVars, panic>>

(* Mutant: the idle thread is put on the ready list like any other.        *)
ThreadYieldSwitchIdleToo(c) ==
    /\ At(c, "yieldlock")
    /\ state' = [state EXCEPT ![current[c]] = "Ready"]
    /\ ThreadSchedule(c, Append(readyList, current[c]))
    /\ UNCHANGED <<flags, blockLock, threadVars, waiters, localVars, panic>>

(* Mutant: the thread that yields goes to the head of the ready list.      *)
ThreadYieldSwitchHead(c) ==
    LET t == current[c]
    IN  /\ At(c, "yieldlock")
        /\ state' = [state EXCEPT ![t] = "Ready"]
        /\ ThreadSchedule(c, IF t = Idle[c] THEN readyList
                                            ELSE <<t>> \o readyList)
        /\ UNCHANGED <<flags, blockLock, threadVars, waiters, localVars, panic>>

(* The rest of ThreadYield: a thread that is not this CPU's idle thread    *)
(* goes to the tail of the ready list, then another one is scheduled.      *)
ThreadYieldSwitch(c) ==
    LET t == current[c]
    IN  /\ At(c, "yieldlock")
        /\ state' = [state EXCEPT ![t] = "Ready"]
        /\ ThreadSchedule(c, IF t = Idle[c] THEN readyList
                                            ELSE Append(readyList, t))
        /\ UNCHANGED <<flags, blockLock, threadVars, waiters, localVars,
                       panic>>

(* Mutant: ThreadTakeBlockLock is forgotten.                               *)
ClientWaitNoBlockLock(c) ==
    LET t == current[c]
    IN  /\ At(c, "run")
        /\ waiters' = waiters \cup {t}
        /\ ret' = [ret EXCEPT ![t] = "run"]
        /\ Goto(c, "block")
        /\ UNCHANGED <<state, flags, blockLock, threadVars, readyList, readyLock,
                       current, previous, target, panic>>

(* A client puts the current thread on a wait list and calls               *)
(* ThreadTakeBlockLock, both under the lock of the list, then ThreadBlock. *)
ClientWait(c) ==
    LET t == current[c]
    IN  /\ At(c, "run")
        /\ blockLock[t] = None
        /\ blockLock' = [blockLock EXCEPT ![t] = c]
        /\ waiters' = waiters \cup {t}
        /\ ret' = [ret EXCEPT ![t] = "run"]
        /\ Goto(c, "block")
        /\ UNCHANGED <<state, flags, threadVars, readyList, readyLock,
                       current, previous, target, panic>>

(* _IdleThread: disable interrupts, ThreadTakeBlockLock, ThreadBlock, then *)
(* halt; any interrupt ends the halt and the loop starts again.            *)
IdleThread(c) ==
    LET t == current[c]
    IN  /\ At(c, "idle") \/ At(c, "hlt")
        /\ blockLock[t] = None
        /\ blockLock' = [blockLock EXCEPT ![t] = c]
        /\ ret' = [ret EXCEPT ![t] = "hlt"]
        /\ Goto(c, "block")
        /\ UNCHANGED <<state, flags, threadVars, readyList, readyLock,
                       current, previous, waiters, target, panic>>

(* Mutant: BlockLock is released before the switch, not after it.          *)
ThreadBlockUnlocks(c) ==
    LET t == current[c]
    IN  /\ At(c, "block")
        /\ state' = [state EXCEPT ![t] = "Blocked"]
        /\ blockLock' = [blockLock EXCEPT ![t] = None]
        /\ Goto(c, "blocklock")
        /\ UNCHANGED <<flags, threadVars, readyList, readyLock, current,
                       previous, waiters, localVars, panic>>

(* ThreadBlock up to State = ThreadStateBlocked, with _ThreadForcedExit.   *)
ThreadBlock(c) ==
    LET t == current[c]
    IN  /\ At(c, "block")
        /\ \/ /\ flags[t] = {PENDING}
              /\ flags' = [flags EXCEPT ![t] = @ \cup {TERMINATED}]
              /\ Goto(c, "exit")
              /\ UNCHANGED state
           \/ /\ flags[t] # {PENDING}
              /\ state' = [state EXCEPT ![t] = "Blocked"]
              /\ Goto(c, "blocklock")
              /\ UNCHANGED flags
        /\ UNCHANGED <<blockLock, threadVars, readyList, readyLock, current,
                       previous, waiters, localVars, panic>>

ThreadBlockSwitch(c) ==
    /\ At(c, "blocklock")
    /\ ThreadSchedule(c, readyList)
    /\ UNCHANGED <<state, flags, blockLock, threadVars, waiters, localVars,
                   panic>>

(* A client takes w off its wait list and calls ThreadUnblock; a thread    *)
(* that exits does so too, when it signals its TerminationEvt.             *)
ClientWake(c, w) ==
    LET t == current[c]
    IN  /\ At(c, "run") \/ At(c, "dying")
        /\ w \in waiters \ {t}
        /\ waiters' = waiters \ {w}
        /\ target' = [target EXCEPT ![t] = w]
        /\ ret' = [ret EXCEPT ![t] = pc[t]]
        /\ Goto(c, "unblock")
        /\ UNCHANGED <<state, flags, blockLock, threadVars, readyList,
                       readyLock, current, previous, panic>>

(* ThreadUnblock up to ASSERT(ThreadStateBlocked == Thread->State).        *)
ThreadUnblock(c) ==
    LET w == target[current[c]]
    IN  /\ At(c, "unblock")
        /\ blockLock[w] = None
        /\ blockLock' = [blockLock EXCEPT ![w] = c]
        /\ panic' = (state[w] # "Blocked")
        /\ Goto(c, "unblockready")
        /\ UNCHANGED <<state, flags, threadVars, readyList, readyLock,
                       current, previous, waiters, localVars>>

(* Mutant: the thread is marked Ready and never inserted in the list.      *)
ThreadUnblockReadyNoInsert(c) ==
    LET t == current[c]
        w == target[t]
    IN  /\ At(c, "unblockready")
        /\ readyLock = None
        /\ state' = [state EXCEPT ![w] = "Ready"]
        /\ blockLock' = [blockLock EXCEPT ![w] = None]
        /\ target' = [target EXCEPT ![t] = None]
        /\ Goto(c, ret[t])
        /\ UNCHANGED <<flags, threadVars, readyList, readyLock, current, previous,
                       waiters, ret, panic>>

(* The rest of ThreadUnblock: w goes to the tail of the ready list under   *)
(* ReadyThreadsLock, then both locks are released.                         *)
ThreadUnblockReady(c) ==
    LET t == current[c]
        w == target[t]
    IN  /\ At(c, "unblockready")
        /\ readyLock = None
        /\ readyList' = Append(readyList, w)
        /\ state' = [state EXCEPT ![w] = "Ready"]
        /\ blockLock' = [blockLock EXCEPT ![w] = None]
        /\ target' = [target EXCEPT ![t] = None]
        /\ Goto(c, ret[t])
        /\ UNCHANGED <<flags, threadVars, readyLock, current, previous,
                       waiters, ret, panic>>

(* ThreadExit up to State = ThreadStateDying: called when the thread       *)
(* function returns, or by _ThreadForcedExit.                              *)
ThreadExit(c) ==
    LET t == current[c]
    IN  /\ At(c, "run") \/ At(c, "exit")
        /\ blockLock' = IF blockLock[t] = c
                        THEN [blockLock EXCEPT ![t] = None] ELSE blockLock
        /\ state' = [state EXCEPT ![t] = "Dying"]
        /\ Goto(c, "dying")
        /\ UNCHANGED <<flags, threadVars, readyList, readyLock, current,
                       previous, waiters, localVars, panic>>

ThreadExitSwitch(c) ==
    /\ At(c, "dying")
    /\ ThreadSchedule(c, readyList)
    /\ UNCHANGED <<state, flags, blockLock, threadVars, waiters, localVars,
                   panic>>

(* ThreadCleanupPostSchedule up to the release of ReadyThreadsLock; a new  *)
(* thread comes here from ThreadStart.                                     *)
ThreadCleanupPostSchedule(c) ==
    /\ At(c, "cleanup")
    /\ readyLock = c
    /\ readyLock' = None
    /\ Goto(c, "release")
    /\ UNCHANGED <<state, flags, blockLock, threadVars, readyList, current,
                   previous, waiters, localVars, panic>>

(* Mutant: the reference of a dying thread is never dropped, only the      *)
(* pointer to it is.                                                       *)
CleanupPreviousNoDereference(c) ==
    LET p == previous[c]
    IN  /\ At(c, "release")
        /\ Goto(c, ret[current[c]])
        /\ \/ /\ p # None /\ blockLock[p] = c
              /\ blockLock' = [blockLock EXCEPT ![p] = None]
              /\ UNCHANGED previous
           \/ /\ p = None \/ blockLock[p] # c
              /\ previous' = [previous EXCEPT ![c] = None]
              /\ UNCHANGED blockLock
        /\ UNCHANGED <<state, flags, refCnt, destroyed, handle, readyList,
                       readyLock, current, waiters, localVars, panic>>

(* The rest of ThreadCleanupPostSchedule, with no lock held: release the   *)
(* BlockLock of the previous thread, or drop the reference of a dying one. *)
CleanupPrevious(c) ==
    LET p == previous[c]
    IN  /\ At(c, "release")
        /\ Goto(c, ret[current[c]])
        /\ \/ /\ p # None
              /\ blockLock[p] = c
              /\ panic' = ~(state[p] = "Blocked" \/ p = Idle[c])
              /\ blockLock' = [blockLock EXCEPT ![p] = None]
              /\ UNCHANGED <<refCnt, destroyed, previous>>
           \/ /\ p # None
              /\ blockLock[p] # c
              /\ state[p] = "Dying"
              /\ ThreadDereference(p)
              /\ previous' = [previous EXCEPT ![c] = None]
              /\ UNCHANGED <<blockLock, panic>>
           \/ /\ p = None \/ (blockLock[p] # c /\ state[p] # "Dying")
              /\ UNCHANGED <<blockLock, refCnt, destroyed, previous, panic>>
        /\ UNCHANGED <<state, flags, handle, readyList, readyLock, current,
                       waiters, localVars>>

(* ThreadCreateEx: _ThreadInit leaves the thread Blocked with one          *)
(* reference, a second one is taken for the handle, then ThreadUnblock.    *)
ThreadCreateEx(c, w) ==
    LET t == current[c]
    IN  /\ At(c, "run")
        /\ state[w] = "None"
        /\ state' = [state EXCEPT ![w] = "Blocked"]
        /\ refCnt' = [refCnt EXCEPT ![w] = 2]
        /\ handle' = [handle EXCEPT ![w] = t]
        /\ target' = [target EXCEPT ![t] = w]
        /\ ret' = [ret EXCEPT ![t] = "run", ![w] = "run"]
        /\ pc' = [pc EXCEPT ![t] = "unblock", ![w] = "cleanup"]
        /\ UNCHANGED <<flags, blockLock, destroyed, readyList, readyLock,
                       current, previous, waiters, panic>>

ThreadCloseHandle(c, w) ==
    /\ At(c, "run")
    /\ handle[w] = current[c]
    /\ handle' = [handle EXCEPT ![w] = None]
    /\ ThreadDereference(w)
    /\ UNCHANGED <<state, flags, blockLock, readyList, readyLock, current,
                   previous, waiters, localVars, pc, panic>>

(* ThreadTerminate, as ProcessTerminate calls it for the threads on the    *)
(* list of a user process: a thread leaves that list when it is destroyed. *)
ThreadTerminate(c, w) ==
    /\ At(c, "run")
    /\ w \in UserThreads
    /\ w # current[c]
    /\ state[w] # "None"
    /\ w \notin destroyed
    /\ flags' = [flags EXCEPT ![w] = @ \cup {PENDING}]
    /\ UNCHANGED <<state, blockLock, threadVars, readyList, readyLock,
                   current, previous, waiters, localVars, pc, panic>>

-----------------------------------------------------------------------------
CpuStep(c) ==
    \/ ThreadTick(c)
    \/ ThreadYield(c)
    \/ ThreadYieldSwitch(c)
    \/ ClientWait(c)
    \/ IdleThread(c)
    \/ ThreadBlock(c)
    \/ ThreadBlockSwitch(c)
    \/ ThreadUnblock(c)
    \/ ThreadUnblockReady(c)
    \/ ThreadExit(c)
    \/ ThreadExitSwitch(c)
    \/ ThreadCleanupPostSchedule(c)
    \/ CleanupPrevious(c)
    \/ \E w \in Threads : \/ ClientWake(c, w)
                          \/ ThreadCreateEx(c, w)
                          \/ ThreadCloseHandle(c, w)
                          \/ ThreadTerminate(c, w)

Next == \E c \in Cpus : CpuStep(c)

Spec == Init /\ [][Next]_vars

(* Each CPU keeps executing instructions, and its timer keeps ticking.     *)
FairSpec == Spec /\ \A c \in Cpus : WF_vars(CpuStep(c)) /\ WF_vars(ThreadTick(c))
-----------------------------------------------------------------------------
(* Every variable stays in its type.                                       *)
TypeOK ==
    /\ state \in [Threads -> ThreadState]
    /\ flags \in [Threads -> SUBSET {PENDING, TERMINATED}]
    /\ blockLock \in [Threads -> Cpus \cup {None}]
    /\ refCnt \in [Threads -> Int]
    /\ destroyed \in SUBSET Threads
    /\ handle \in [Threads -> Threads \cup {None}]
    /\ readyList \in Seq(Threads)
    /\ readyLock \in Cpus \cup {None}
    /\ current \in [Cpus -> Threads]
    /\ previous \in [Cpus -> Threads \cup {None}]
    /\ waiters \in SUBSET Threads
    /\ target \in [Threads -> Threads \cup {None}]
    /\ pc \in [Threads -> Locations]
    /\ ret \in [Threads -> {"run", "idle", "hlt", "dying"}]
    /\ panic \in BOOLEAN

(* No thread executes on two CPUs at once: ThreadSwitch never resumes a    *)
(* stack another CPU is still using.  This is what BlockLock is for: a     *)
(* thread can be unblocked on another CPU while it is still blocking.      *)
OneCpuPerThread ==
    \A c, d \in Cpus : current[c] = current[d] => c = d

(* What _ThreadGetReadyThread takes off the ready list is a thread it may  *)
(* switch to: listed once, Ready, its context saved, running nowhere, and  *)
(* never an idle thread, which a CPU takes without asking the list.        *)
ReadyListSound ==
    /\ \A i, j \in DOMAIN readyList : readyList[i] = readyList[j] => i = j
    /\ \A i \in DOMAIN readyList :
          LET t == readyList[i]
          IN  /\ state[t] = "Ready"
              /\ pc[t] = "cleanup"
              /\ ~OnCpu(t)
              /\ t \notin IdleThreads

(* No thread is lost: one that is neither running, ready, dead nor an idle *)
(* thread is Blocked, and some wait list or some ThreadUnblock in progress *)
(* still knows it.                                                         *)
NoThreadLost ==
    \A t \in Threads :
        \/ OnCpu(t) \/ t \in IdleThreads \/ t \in Range(readyList)
        \/ state[t] \in {"None", "Dying"}
        \/ /\ state[t] = "Blocked"
           /\ \/ t \in waiters
              \/ \E u \in Threads : OnCpu(u) /\ target[u] = t

(* No ASSERT of thread.c fails: ThreadUnblock finds its thread Blocked,    *)
(* ThreadCleanupPostSchedule finds the thread whose BlockLock it owns      *)
(* Blocked or idle.                                                        *)
NoPanic == ~panic

(* A reference count is exactly what still refers to the thread: its open  *)
(* handle, and the reference its last CPU drops after it has switched away.*)
RefCountExact ==
    \A t \in Threads :
        (state[t] # "None" /\ t \notin destroyed) =>
            refCnt[t] = (IF handle[t] = None THEN 0 ELSE 1)
                      + (IF \/ state[t] # "Dying"
                            \/ OnCpu(t)
                            \/ \E c \in Cpus : /\ previous[c] = t
                                             /\ pc[current[c]] \in {"cleanup", "release"}
                         THEN 1 ELSE 0)

(* _ThreadDestroy never frees the stack of a thread a CPU is executing,    *)
(* nor a thread whose handle is still open.                                *)
NoUseAfterDestroy ==
    \A t \in destroyed : ~OnCpu(t) /\ handle[t] = None

(* ThreadExit is final: a dying thread never becomes Ready or Blocked      *)
(* again, it runs with interrupts disabled until it is switched away from. *)
DyingIsFinal ==
    [][\A t \in Threads : state[t] = "Dying" => state'[t] = "Dying"]_vars

(* The ready list is served round robin: a ready thread eventually runs.   *)
ReadyEventuallyRuns ==
    \A t \in Threads : t \in Range(readyList) ~> (OnCpu(t) \/ panic)

(* The reference counts of threads do what they are for: they are exact,   *)
(* and nothing in use is destroyed.  Holds on one CPU only: on two,        *)
(* CleanupPrevious can drop a reference twice.                             *)
ReferencesSound ==
    /\ RefCountExact
    /\ NoUseAfterDestroy

(* The mutex and the executive event are clients the scheduler allows:     *)
(* they block a thread only with the BlockLock taken and unblock only      *)
(* threads off their lists.                                                *)
RefinesScheduler == Spec
=============================================================================
