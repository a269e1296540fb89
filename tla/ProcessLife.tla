----------------------------- MODULE ProcessLife -----------------------------
(***************************************************************************)
(* The life of a user process of HAL9000: src/HAL9000/src/process.c, with  *)
(* what um_application.c, thread.c and mmu.c do to it.                     *)
(*                                                                         *)
(* A process has one thread, the one UmApplicationRun starts: no other     *)
(* code creates a thread in a user process.  The thread of process p is    *)
(* named p, the idle thread of CPU c is named c, and some system threads   *)
(* create processes.  The scheduler is reduced to what it does to CR3:     *)
(* ready is the set of its ready threads.  One step is one access to state *)
(* that another CPU or a thread that preempts may touch.                   *)
(*                                                                         *)
(* work[t] is the stack of destructions thread t is in: _ProcessDestroy    *)
(* runs on whichever thread drops the last reference, with interrupts off  *)
(* if that is in ThreadCleanupPostSchedule, and another destruction may    *)
(* then run on top of one that was preempted.  Where a reference is taken  *)
(* to a process whose count has already reached zero the behaviour ends    *)
(* (panic): what freed memory holds is anybody's guess.                    *)
(***************************************************************************)
EXTENDS Integers, Sequences, FiniteSets, FiniteSetsExt

CONSTANTS Cpus,        \* the processors, and their idle threads
          SysThreads,  \* threads of the system process
          Creators,    \* those of them that create processes
          Processes,   \* PROCESS structures that can be allocated, and their threads
          Pids,        \* the PIDs that are left for user processes
          System,      \* the system process
          None

ASSUME ProcessAssumption ==
    /\ Pids \subseteq Nat \ {0}
    /\ Creators \subseteq SysThreads
    /\ Cpus \cap SysThreads = {} /\ Processes \cap (Cpus \cup SysThreads) = {}
    /\ System \notin Processes
    /\ None \notin Cpus \cup SysThreads \cup Processes

ThreadIds == Cpus \cup SysThreads \cup Processes

VARIABLES
    run,       \* the thread each CPU executes
    prev,      \* a dying thread the CPU has switched from and not yet dereferenced
    ready,     \* the ready threads
    cr3,       \* the process whose page tables each CPU uses
    tlb,       \* the processes whose translations each CPU caches, tagged with their PIDs
    stage,     \* how far the creator of each process is
    creator,   \* the thread that called ProcessCreate
    refCnt,    \* PROCESS.RefCnt
    nThreads,  \* PROCESS.NumberOfThreads
    active,    \* PROCESS.ActiveThreads
    signaled,  \* PROCESS.TerminationEvt
    pid,       \* PROCESS.Id, zero before it has one
    pidBitmap, \* m_processData.PidBitmap
    list,      \* m_processData.ProcessList
    tables,    \* the processes that have a VaSpace and PagingData
    freed,     \* the PROCESS structures _ProcessDestroy has freed
    tRef,      \* THREAD.RefCnt of the thread of each process
    tState,    \* what that thread is doing
    work,      \* the destructions each thread is in, innermost first
    flushedOn, \* history: the CPU _ProcessDestroy invalidated translations on
    panic      \* an ASSERT has failed, the kernel has faulted or a reference came too late

cpuVars  == <<run, prev, ready, cr3, tlb>>
pidVars  == <<pid, pidBitmap, list>>
tVars    == <<tRef, tState>>
evtVars  == <<active, signaled>>
vars == <<cpuVars, stage, creator, refCnt, nThreads, evtVars, pidVars, tables,
          freed, tVars, work, flushedOn, panic>>

(* How far ProcessCreate has come, and what became of the handle.          *)
Creating == {"new", "header", "space", "loaded", "inserted", "started", "unnamed",
             "failing"}
Stages == Creating \cup
    {"none",    \* not allocated
     "open",    \* ProcessCreate has returned a handle
     "waited",  \* ProcessWaitForTermination has returned
     "closed",  \* the handle has been closed
     "failed"}  \* ProcessCreate has failed

(* "made": inserted in the process, not started; "run": ready or running;  *)
(* "exit": in ThreadExit; "dead": switched away from; "gone": destroyed.   *)
ThreadStates == {"none", "made", "run", "exit", "dead", "gone"}

(* Where a destruction is: "last" is ProcessRemoveThreadFromList before    *)
(* its second dereference, the others are steps of _ProcessDestroy.        *)
Steps == {"last", "unlist", "activate", "restore", "unmap", "free"}

Init ==
    /\ run \in {f \in [Cpus -> SysThreads \cup Cpus] :
                  \A c, d \in Cpus : (f[c] \in Cpus => f[c] = c) /\ (f[c] = f[d] => c = d)}
    /\ prev = [c \in Cpus |-> None]
    /\ ready = SysThreads \ {run[c] : c \in Cpus}
    /\ cr3 = [c \in Cpus |-> System]
    /\ tlb = [c \in Cpus |-> {}]
    /\ stage = [p \in Processes |-> "none"]
    /\ creator = [p \in Processes |-> None]
    /\ refCnt = [p \in Processes |-> 0]
    /\ nThreads = [p \in Processes |-> 0]
    /\ active = [p \in Processes |-> 0]
    /\ signaled = [p \in Processes |-> FALSE]
    /\ pid = [p \in Processes |-> 0]
    /\ pidBitmap = {}
    /\ list = {}
    /\ tables = {}
    /\ freed = {}
    /\ tRef = [p \in Processes |-> 0]
    /\ tState = [p \in Processes |-> "none"]
    /\ work = [t \in ThreadIds |-> <<>>]
    /\ flushedOn = [p \in Processes |-> None]
    /\ panic = FALSE

-----------------------------------------------------------------------------
ProcessOf(t) == IF t \in Processes THEN t ELSE System

(* Interrupts are off while the CPU has a dying thread to clean up after,  *)
(* and in a destruction that was started there.                            *)
Masked(c) == prev[c] # None \/ (work[run[c]] # <<>> /\ Head(work[run[c]]).masked)

(* Thread t, on CPU c, executes its own code, no destruction.              *)
Executing(c, t) == ~panic /\ run[c] = t /\ prev[c] = None /\ work[t] = <<>>

(* _ThreadSchedule on CPU c from thread t to u: CR3 changes only if the    *)
(* process does, and a change of CR3 invalidates nothing.                  *)
ThreadSchedule(c, t, u) ==
    /\ run' = [run EXCEPT ![c] = u]
    /\ cr3' = [cr3 EXCEPT ![c] = IF ProcessOf(t) = ProcessOf(u) THEN @ ELSE ProcessOf(u)]

(* A thread is preempted, or the idle thread finds a ready one.            *)
ThreadYield(c, u) ==
    /\ ~panic
    /\ ~Masked(c)
    /\ u \in ready
    /\ ~(run[c] \in Processes /\ tState[run[c]] = "exit")
    /\ ThreadSchedule(c, run[c], u)
    /\ ready' = (ready \ {u}) \cup ({run[c]} \ Cpus)
    /\ UNCHANGED <<prev, tlb, stage, creator, refCnt, nThreads, evtVars, pidVars,
                   tables, freed, tVars, work, flushedOn, panic>>

(* The thread of a process uses its memory.                                *)
Touch(c) ==
    /\ Executing(c, run[c])
    /\ run[c] \in Processes
    /\ tState[run[c]] = "run"
    /\ tlb' = [tlb EXCEPT ![c] = @ \cup {run[c]}]
    /\ UNCHANGED <<run, prev, ready, cr3, stage, creator, refCnt, nThreads, evtVars,
                   pidVars, tables, freed, tVars, work, flushedOn, panic>>

-----------------------------------------------------------------------------
(* _ProcessDereference by thread t, whose other destructions are w: the    *)
(* last one starts _ProcessDestroy.                                        *)
ProcessDereference(t, p, masked, w) ==
    /\ refCnt' = [refCnt EXCEPT ![p] = @ - 1]
    /\ work' = [work EXCEPT ![t] =
                  IF refCnt[p] = 1
                  THEN <<[proc |-> p, step |-> "unlist", masked |-> masked]>> \o w
                  ELSE w]

(* _ThreadDereference by thread t of the thread of p; the last one is      *)
(* _ThreadDestroy, with ProcessRemoveThreadFromList up to the release of   *)
(* ThreadListLock.                                                         *)
ThreadDereference(t, p, masked) ==
    /\ tRef' = [tRef EXCEPT ![p] = @ - 1]
    /\ \/ /\ tRef[p] = 1
          /\ tState' = [tState EXCEPT ![p] = "gone"]
          /\ nThreads' = [nThreads EXCEPT ![p] = @ - 1]
          /\ refCnt' = [refCnt EXCEPT ![p] = @ - 1]
          /\ work' = [work EXCEPT ![t] =
                        <<[proc |-> p, step |-> "last", masked |-> masked]>> \o @]
       \/ /\ tRef[p] # 1
          /\ UNCHANGED <<tState, nThreads, refCnt, work>>

(* Thread t on CPU c is creating process p and has come to stage g.        *)
CreatingAt(c, p, g) == Executing(c, creator[p]) /\ stage[p] = g

(* Thread t is not inside ProcessCreate.                                   *)
Free(t) == \A q \in Processes : creator[q] = t => stage[q] \notin Creating

(* _ProcessInit.  A failed allocation comes before the PID is taken and    *)
(* leaves everything as it was; running out of PIDs fails an ASSERT.       *)
ProcessInit(c, t, p) ==
    /\ Executing(c, t)
    /\ t \in Creators
    /\ stage[p] = "none"
    /\ Free(t)
    /\ \/ /\ Pids \subseteq pidBitmap
          /\ panic' = TRUE
          /\ UNCHANGED <<stage, creator, refCnt, pidVars>>
       \/ /\ ~(Pids \subseteq pidBitmap)
          /\ LET id == Min(Pids \ pidBitmap)
             IN  /\ pid' = [pid EXCEPT ![p] = id]
                 /\ pidBitmap' = pidBitmap \cup {id}
          /\ list' = list \cup {p}
          /\ refCnt' = [refCnt EXCEPT ![p] = 1]
          /\ stage' = [stage EXCEPT ![p] = "new"]
          /\ creator' = [creator EXCEPT ![p] = t]
          /\ UNCHANGED panic
    /\ UNCHANGED <<cpuVars, nThreads, evtVars, tables, freed, tVars, work, flushedOn>>

(* A step of ProcessCreate that succeeds or fails and touches nothing else *)
(* that is modelled: UmApplicationRetrieveHeader, MmuLoadPe.               *)
Try(c, p, from, to) ==
    /\ CreatingAt(c, p, from)
    /\ \E g \in {to, "failing"} : stage' = [stage EXCEPT ![p] = g]
    /\ UNCHANGED <<cpuVars, creator, refCnt, nThreads, evtVars, pidVars, tables,
                   freed, tVars, work, flushedOn, panic>>

UmApplicationRetrieveHeader(c, p) == Try(c, p, "new", "header")
MmuLoadPe(c, p) == Try(c, p, "space", "loaded")

(* MmuCreateAddressSpaceForProcess, which undoes what it did if it fails.  *)
MmuCreateAddressSpaceForProcess(c, p) ==
    /\ CreatingAt(c, p, "header")
    /\ \/ /\ tables' = tables \cup {p}
          /\ stage' = [stage EXCEPT ![p] = "space"]
       \/ /\ stage' = [stage EXCEPT ![p] = "failing"]
          /\ UNCHANGED tables
    /\ UNCHANGED <<cpuVars, creator, refCnt, nThreads, evtVars, pidVars, freed,
                   tVars, work, flushedOn, panic>>

(* Mutant: ProcessInsertThreadInList takes no reference.                   *)
ThreadCreateExNoReference(c, p) ==
    /\ CreatingAt(c, p, "loaded")
    /\ nThreads' = [nThreads EXCEPT ![p] = @ + 1]
    /\ active' = [active EXCEPT ![p] = @ + 1]
    /\ tRef' = [tRef EXCEPT ![p] = 2]
    /\ tState' = [tState EXCEPT ![p] = "made"]
    /\ stage' = [stage EXCEPT ![p] = "inserted"]
    /\ UNCHANGED <<cpuVars, creator, refCnt, signaled, pidVars, tables, freed, work,
                   flushedOn, panic>>

(* ThreadCreateEx up to _ThreadReference.  If _ThreadInit cannot allocate  *)
(* the THREAD it fails; if it fails later, _ThreadDestroy takes a thread   *)
(* off lists it was never put on.                                          *)
ThreadCreateEx(c, p) ==
    /\ CreatingAt(c, p, "loaded")
    /\ \/ /\ nThreads' = [nThreads EXCEPT ![p] = @ + 1]
          /\ active' = [active EXCEPT ![p] = @ + 1]
          /\ refCnt' = [refCnt EXCEPT ![p] = @ + 1]
          /\ tRef' = [tRef EXCEPT ![p] = 2]
          /\ tState' = [tState EXCEPT ![p] = "made"]
          /\ stage' = [stage EXCEPT ![p] = "inserted"]
          /\ UNCHANGED panic
       \/ /\ stage' = [stage EXCEPT ![p] = "failing"]
          /\ UNCHANGED <<nThreads, active, refCnt, tVars, panic>>
       \/ /\ panic' = TRUE
          /\ UNCHANGED <<nThreads, active, refCnt, tVars, stage>>
    /\ UNCHANGED <<cpuVars, creator, signaled, pidVars, tables, freed, work, flushedOn>>

(* The rest of ThreadCreateEx: the stacks, which may fail, ThreadUnblock.  *)
ThreadStart(c, p) ==
    /\ CreatingAt(c, p, "inserted")
    /\ \/ /\ ready' = ready \cup {p}
          /\ tState' = [tState EXCEPT ![p] = "run"]
          /\ stage' = [stage EXCEPT ![p] = "started"]
       \/ /\ stage' = [stage EXCEPT ![p] = "failing"]
          /\ UNCHANGED <<ready, tState>>
    /\ UNCHANGED <<run, prev, cr3, tlb, creator, refCnt, nThreads, evtVars, pidVars,
                   tables, freed, tRef, work, flushedOn, panic>>

(* ThreadCloseHandle at the end of UmApplicationRun.                       *)
ThreadCloseHandle(c, p) ==
    /\ CreatingAt(c, p, "started")
    /\ ThreadDereference(creator[p], p, FALSE)
    /\ stage' = [stage EXCEPT ![p] = "unnamed"]
    /\ UNCHANGED <<cpuVars, creator, evtVars, pidVars, tables, freed, flushedOn, panic>>

(* The end of ProcessCreate: the reference of the handle, or the loss of   *)
(* the first one.                                                          *)
ProcessCreateReturn(c, p) ==
    /\ \/ /\ CreatingAt(c, p, "unnamed")
          /\ refCnt' = [refCnt EXCEPT ![p] = @ + 1]
          /\ stage' = [stage EXCEPT ![p] = "open"]
          /\ panic' = (refCnt[p] = 0)
          /\ UNCHANGED work
       \/ /\ CreatingAt(c, p, "failing")
          /\ ProcessDereference(creator[p], p, FALSE, <<>>)
          /\ stage' = [stage EXCEPT ![p] = "failed"]
          /\ UNCHANGED panic
    /\ UNCHANGED <<cpuVars, creator, nThreads, evtVars, pidVars, tables, freed,
                   tVars, flushedOn>>

(* ProcessWaitForTermination returns.                                      *)
ProcessWaitForTermination(c, p) ==
    /\ CreatingAt(c, p, "open")
    /\ Free(creator[p])
    /\ signaled[p]
    /\ stage' = [stage EXCEPT ![p] = "waited"]
    /\ UNCHANGED <<cpuVars, creator, refCnt, nThreads, evtVars, pidVars, tables,
                   freed, tVars, work, flushedOn, panic>>

ProcessCloseHandle(c, p) ==
    /\ CreatingAt(c, p, "open") \/ CreatingAt(c, p, "waited")
    /\ Free(creator[p])
    /\ ProcessDereference(creator[p], p, FALSE, <<>>)
    /\ stage' = [stage EXCEPT ![p] = "closed"]
    /\ UNCHANGED <<cpuVars, creator, nThreads, evtVars, pidVars, tables, freed,
                   tVars, flushedOn, panic>>

-----------------------------------------------------------------------------
(* ThreadExit of the thread of p, with ProcessNotifyThreadTermination: the *)
(* last active thread signals TerminationEvt.                              *)
ThreadExit(c, p) ==
    /\ Executing(c, p)
    /\ tState[p] = "run"
    /\ tState' = [tState EXCEPT ![p] = "exit"]
    /\ active' = [active EXCEPT ![p] = @ - 1]
    /\ signaled' = [signaled EXCEPT ![p] = @ \/ active[p] = 1]
    /\ UNCHANGED <<cpuVars, stage, creator, refCnt, nThreads, pidVars, tables,
                   freed, tRef, work, flushedOn, panic>>

(* The _ThreadSchedule of ThreadExit; the idle thread runs if no other is  *)
(* ready.                                                                  *)
ThreadExitSwitch(c, p, u) ==
    /\ Executing(c, p)
    /\ tState[p] = "exit"
    /\ u \in ready \/ (ready = {} /\ u = c)
    /\ ThreadSchedule(c, p, u)
    /\ ready' = ready \ {u}
    /\ prev' = [prev EXCEPT ![c] = p]
    /\ tState' = [tState EXCEPT ![p] = "dead"]
    /\ UNCHANGED <<tlb, stage, creator, refCnt, nThreads, evtVars, pidVars, tables,
                   freed, tRef, work, flushedOn, panic>>

(* ThreadCleanupPostSchedule drops the reference of the dying thread.      *)
ThreadCleanupPostSchedule(c) ==
    /\ ~panic
    /\ prev[c] # None
    /\ ThreadDereference(run[c], prev[c], TRUE)
    /\ prev' = [prev EXCEPT ![c] = None]
    /\ UNCHANGED <<run, ready, cr3, tlb, stage, creator, evtVars, pidVars, tables,
                   freed, flushedOn, panic>>

-----------------------------------------------------------------------------
(* The innermost destruction of the thread CPU c executes is that of p and *)
(* has come to step g.                                                     *)
DestroyAt(c, p, g) ==
    /\ ~panic
    /\ prev[c] = None
    /\ work[run[c]] # <<>>
    /\ Head(work[run[c]]).proc = p
    /\ Head(work[run[c]]).step = g

GoOn(c, g) == work' = [work EXCEPT ![run[c]][1].step = g]

(* ProcessRemoveThreadFromList: no thread is left, the reference           *)
(* _ProcessInit made is dropped.                                           *)
DropInitialReference(c, p) ==
    /\ DestroyAt(c, p, "last")
    /\ ProcessDereference(run[c], p, Head(work[run[c]]).masked, Tail(work[run[c]]))
    /\ UNCHANGED <<cpuVars, stage, creator, nThreads, evtVars, pidVars, tables,
                   freed, tVars, flushedOn, panic>>

(* Mutant: the PID is freed before the address space is destroyed.         *)
ProcessDestroyEarlyPid(c, p) ==
    /\ DestroyAt(c, p, "unlist")
    /\ panic' = (nThreads[p] # 0)
    /\ list' = list \ {p}
    /\ pidBitmap' = pidBitmap \ {pid[p]}
    /\ GoOn(c, IF p \in tables THEN "activate" ELSE "free")
    /\ UNCHANGED <<cpuVars, stage, creator, refCnt, nThreads, evtVars, pid, tables,
                   freed, tVars, flushedOn>>

(* _ProcessDestroy up to MmuDestroyAddressSpaceForProcess.                 *)
ProcessDestroy(c, p) ==
    /\ DestroyAt(c, p, "unlist")
    /\ panic' = (nThreads[p] # 0)
    /\ list' = list \ {p}
    /\ GoOn(c, IF p \in tables THEN "activate" ELSE "free")
    /\ UNCHANGED <<cpuVars, stage, creator, refCnt, nThreads, evtVars, pid, pidBitmap,
                   tables, freed, tVars, flushedOn>>

(* Mutant: the translations are not invalidated.                           *)
ActivateDyingNoFlush(c, p) ==
    /\ DestroyAt(c, p, "activate")
    /\ cr3' = [cr3 EXCEPT ![c] = p]
    /\ flushedOn' = [flushedOn EXCEPT ![p] = c]
    /\ GoOn(c, "restore")
    /\ UNCHANGED <<run, prev, ready, tlb, stage, creator, refCnt, nThreads, evtVars,
                   pidVars, tables, freed, tVars, panic>>

(* MmuDestroyAddressSpaceForProcess: the page tables of p are activated on *)
(* this CPU so that its translations can be invalidated...                 *)
ActivateDying(c, p) ==
    /\ DestroyAt(c, p, "activate")
    /\ cr3' = [cr3 EXCEPT ![c] = p]
    /\ tlb' = [tlb EXCEPT ![c] = {q \in @ : pid[q] # pid[p]}]
    /\ flushedOn' = [flushedOn EXCEPT ![p] = c]
    /\ GoOn(c, "restore")
    /\ UNCHANGED <<run, prev, ready, stage, creator, refCnt, nThreads, evtVars,
                   pidVars, tables, freed, tVars, panic>>

(* ... then those of the current thread's process again...                 *)
RestoreTables(c, p) ==
    /\ DestroyAt(c, p, "restore")
    /\ cr3' = [cr3 EXCEPT ![c] = ProcessOf(run[c])]
    /\ GoOn(c, "unmap")
    /\ UNCHANGED <<run, prev, ready, tlb, stage, creator, refCnt, nThreads, evtVars,
                   pidVars, tables, freed, tVars, flushedOn, panic>>

(* ... and the page tables are freed.                                      *)
DestroyTables(c, p) ==
    /\ DestroyAt(c, p, "unmap")
    /\ tables' = tables \ {p}
    /\ GoOn(c, "free")
    /\ UNCHANGED <<cpuVars, stage, creator, refCnt, nThreads, evtVars, pidVars, freed,
                   tVars, flushedOn, panic>>

(* _ProcessSystemFreePid, and the structure is freed.                      *)
ProcessFree(c, p) ==
    /\ DestroyAt(c, p, "free")
    /\ pidBitmap' = pidBitmap \ {pid[p]}
    /\ freed' = freed \cup {p}
    /\ work' = [work EXCEPT ![run[c]] = Tail(@)]
    /\ UNCHANGED <<cpuVars, stage, creator, refCnt, nThreads, evtVars, pid, list,
                   tables, tVars, flushedOn, panic>>

-----------------------------------------------------------------------------
CreateStep(c, p) ==
    \/ \E t \in Creators : ProcessInit(c, t, p)
    \/ UmApplicationRetrieveHeader(c, p)
    \/ MmuCreateAddressSpaceForProcess(c, p)
    \/ MmuLoadPe(c, p)
    \/ ThreadCreateEx(c, p)
    \/ ThreadStart(c, p)
    \/ ThreadCloseHandle(c, p)
    \/ ProcessCreateReturn(c, p)
    \/ ProcessWaitForTermination(c, p)
    \/ ProcessCloseHandle(c, p)

ThreadStep(c, p) ==
    \/ ThreadExit(c, p)
    \/ \E u \in ThreadIds : ThreadExitSwitch(c, p, u)

DestroyStep(c, p) ==
    \/ DropInitialReference(c, p)
    \/ ProcessDestroy(c, p)
    \/ ActivateDying(c, p)
    \/ RestoreTables(c, p)
    \/ DestroyTables(c, p)
    \/ ProcessFree(c, p)

Next == \E c \in Cpus :
    \/ \E u \in ThreadIds : ThreadYield(c, u)
    \/ Touch(c)
    \/ ThreadCleanupPostSchedule(c)
    \/ \E p \in Processes : CreateStep(c, p) \/ ThreadStep(c, p) \/ DestroyStep(c, p)

Spec == Init /\ [][Next]_vars
-----------------------------------------------------------------------------
(* Every variable stays in its type.                                       *)
TypeOK ==
    /\ run \in [Cpus -> ThreadIds]
    /\ prev \in [Cpus -> Processes \cup {None}]
    /\ ready \in SUBSET (SysThreads \cup Processes)
    /\ cr3 \in [Cpus -> Processes \cup {System}]
    /\ tlb \in [Cpus -> SUBSET Processes]
    /\ stage \in [Processes -> Stages]
    /\ creator \in [Processes -> Creators \cup {None}]
    /\ refCnt \in [Processes -> 0 .. 3]
    /\ nThreads \in [Processes -> 0 .. 1]
    /\ active \in [Processes -> 0 .. 1]
    /\ signaled \in [Processes -> BOOLEAN]
    /\ pid \in [Processes -> Pids \cup {0}]
    /\ pidBitmap \in SUBSET Pids
    /\ list \in SUBSET Processes
    /\ tables \in SUBSET Processes
    /\ freed \in SUBSET Processes
    /\ tRef \in [Processes -> 0 .. 2]
    /\ tState \in [Processes -> ThreadStates]
    /\ work \in [ThreadIds -> Seq([proc : Processes, step : Steps, masked : BOOLEAN])]
    /\ flushedOn \in [Processes -> Cpus \cup {None}]
    /\ panic \in BOOLEAN

(* Some thread is destroying p, or dropping its last reference.            *)
InWork(p, steps) ==
    \E t \in ThreadIds : \E i \in DOMAIN work[t] :
        work[t][i].proc = p /\ work[t][i].step \in steps

(* As long as a process is not destroyed its reference count is what it    *)
(* should be: one for its creation until that fails or the last thread     *)
(* is removed, one per thread, one for the handle.                         *)
RefCountExact ==
    \A p \in Processes \ freed :
        refCnt[p] = nThreads[p]
                  + (IF \/ stage[p] \in Creating /\ tState[p] # "gone"
                        \/ stage[p] \in {"open", "waited", "closed"} /\ tState[p] # "gone"
                        \/ InWork(p, {"last"})
                     THEN 1 ELSE 0)
                  + (IF stage[p] \in {"open", "waited"} THEN 1 ELSE 0)

(* A handle keeps the process: while it is open nobody starts to destroy   *)
(* the process, unless the handle's reference came too late (panic).       *)
HandleKeepsProcess ==
    \A p \in Processes : (stage[p] \in {"open", "waited"} /\ ~panic) =>
        p \notin freed /\ ~InWork(p, Steps \ {"last"})

(* Nothing leaks: a process without a thread, whose creator has failed or  *)
(* has closed the handle, has been freed or is being destroyed.            *)
NoOrphans ==
    \A p \in Processes :
        (stage[p] \in {"closed", "failed"} /\ nThreads[p] = 0) =>
            p \in freed \/ InWork(p, Steps)

(* The last thread to exit, and no other, has signaled TerminationEvt.     *)
TerminationSignaled ==
    \A p \in Processes : signaled[p] <=> tState[p] \in {"exit", "dead", "gone"}

(* No two processes that are not destroyed yet have one PID, and the PIDs  *)
(* of destroyed processes are free again.                                  *)
PidExclusive ==
    LET holders == {p \in Processes \ freed : pid[p] # 0}
    IN  /\ \A p, q \in holders : pid[p] = pid[q] => p = q
        /\ pidBitmap = {pid[p] : p \in holders}

(* "That function is also responsible for destroying all cached            *)
(* translations for this process ID" (process.c): on the CPU that          *)
(* destroyed a process no later process with its PID finds translations.   *)
NoStaleTranslation ==
    \A c \in Cpus : run[c] \in Processes =>
        \A q \in tlb[c] \ {run[c]} :
            pid[q] = pid[run[c]] => flushedOn[q] # c

(* The thread of a process executes with its own page tables, which exist. *)
UserTables ==
    \A c \in Cpus : (run[c] \in Processes /\ work[run[c]] = <<>>) =>
        cr3[c] = run[c] /\ run[c] \in tables

(* process.h: the structure "will not be un-allocated until the handle     *)
(* receive in Process is closed with ProcessCloseHandle".                  *)
HandleValid ==
    \A p \in Processes : stage[p] \in {"open", "waited"} => p \notin freed

(* mmu.c: "nothing bad can happen if an interrupt occurs while we change   *)
(* our paging tables to those of another process".  Does not hold: a       *)
(* preempted destruction resumes on another CPU and frees the tables.      *)
TablesInUse ==
    \A c \in Cpus : cr3[c] \in tables \cup {System}

(* The life of a process, whoever drops its references in which order: the *)
(* count is exact, an open handle keeps the process, nothing is left of a  *)
(* process nobody refers to, TerminationEvt is signaled by the last thread *)
(* to exit, and the PID is taken until the process is gone and not longer. *)
LifetimeSound ==
    /\ TypeOK
    /\ RefCountExact
    /\ HandleKeepsProcess
    /\ NoOrphans
    /\ TerminationSignaled
    /\ PidExclusive

(* A thread of a process executes with the page tables of that process,    *)
(* and finds no translation of an earlier process with the same PID on the *)
(* CPU that destroyed it.                                                  *)
TranslationsSound ==
    /\ NoStaleTranslation
    /\ UserTables
=============================================================================
