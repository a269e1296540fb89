--------------------------- MODULE SchedulerProofs ---------------------------
(***************************************************************************)
(* Proofs about Scheduler for any number of CPUs and threads.              *)
(***************************************************************************)
EXTENDS Scheduler, TLAPS

(* Threads some wait list or some ThreadUnblock in progress refers to.     *)
Pending(t) == t \in waiters \/ \E u \in Threads : target[u] = t

(* ReadyThreadsLock is owned by the CPU whose thread is about to release   *)
(* it in ThreadCleanupPostSchedule, and by no other.                       *)
LockInv == \A c \in Cpus : readyLock = c <=> pc[current[c]] = "cleanup"

(* A thread that is not on a CPU was switched away from, or not created.   *)
OffCpuInv ==
    \A t \in Threads :
        /\ pc[t] = "none" <=> state[t] = "None"
        /\ OnCpu(t) => pc[t] # "none"
        /\ ~OnCpu(t) => pc[t] \in {"cleanup", "none"}

(* An idle thread runs on its own CPU only, and no client knows it.        *)
IdleInv ==
    /\ \A c, d \in Cpus : current[d] = Idle[c] \/ previous[d] = Idle[c] => d = c
    /\ \A t \in IdleThreads :
          /\ ~Pending(t)
          /\ state[t] \notin {"None", "Dying"}
          /\ pc[t] \in {"cleanup", "release", "idle", "hlt", "yield",
                        "yieldlock", "block", "blocklock"}
          /\ ret[t] \in {"idle", "hlt"}
    /\ \A t \in Threads \ IdleThreads :
          /\ pc[t] \notin {"idle", "hlt"}
          /\ ret[t] \notin {"idle", "hlt"}

(* Only threads of user processes are ever told to terminate.              *)
FlagsInv == \A t \in Threads : flags[t] # {} => t \in UserThreads

(* One ThreadUnblock at most is unblocking a thread, which its caller has  *)
(* taken off the wait list.                                                *)
TargetInv ==
    /\ \A u \in Threads :
          /\ target[u] # None <=> pc[u] \in {"unblock", "unblockready"}
          /\ target[u] \notin waiters
    /\ \A u, v \in Threads :
          target[u] = target[v] /\ target[u] # None => u = v

(* A thread that waits is on no ready list (the lists share the entry      *)
(* THREAD.ReadyList), and if it is on a CPU it is still blocking, or was   *)
(* told to terminate when it was about to block.                           *)
WaitListInv ==
    \A t \in Threads : Pending(t) =>
        /\ t \notin Range(readyList)
        /\ state[t] # "None"
        /\ OnCpu(t) => \/ pc[t] \in {"block", "blocklock", "exit"}
                       \/ state[t] = "Dying"

(* A thread that blocks is on a wait list, or is an idle thread.           *)
BlockingInv ==
    \A t \in Threads \ IdleThreads :
        pc[t] \in {"block", "blocklock"} => Pending(t)

(* Where State is Blocked or Dying on a CPU.                               *)
StateInv ==
    \A t \in Threads :
        /\ OnCpu(t) /\ state[t] = "Blocked" => pc[t] = "blocklock" \/ t \in IdleThreads
        /\ pc[t] = "blocklock" => state[t] = "Blocked"
        /\ pc[t] = "dying" => state[t] = "Dying"
        /\ ret[t] = "dying" => state[t] = "Dying"
        /\ OnCpu(t) /\ state[t] = "Dying" =>
              \/ pc[t] = "dying"
              \/ pc[t] \in {"unblock", "unblockready"} /\ ret[t] = "dying"

(* The CPU of a blocking thread owns its BlockLock until it has switched   *)
(* away from it.                                                           *)
BlockLockInv ==
    \A c \in Cpus : pc[current[c]] \in {"block", "blocklock"} =>
                       blockLock[current[c]] = c

(* Once ThreadUnblock has the BlockLock, its thread is off every CPU.      *)
UnblockInv ==
    \A c \in Cpus : pc[current[c]] = "unblockready" /\ ~panic =>
        /\ blockLock[target[current[c]]] = c
        /\ state[target[current[c]]] = "Blocked"
        /\ ~OnCpu(target[current[c]])

(* A CPU owns a BlockLock for one of three reasons: its thread is          *)
(* blocking, it is unblocking the thread, or it has just switched away     *)
(* from the thread.                                                        *)
OwnerInv ==
    \A t \in Threads, c \in Cpus : blockLock[t] = c /\ ~panic =>
        \/ current[c] = t /\ pc[t] \in {"block", "blocklock", "exit"}
        \/ pc[current[c]] = "unblockready" /\ target[current[c]] = t
        \/ /\ pc[current[c]] \in {"cleanup", "release"}
           /\ previous[c] = t
           /\ state[t] = "Blocked" \/ t = Idle[c]

(* A thread that is not running, ready, dead or idle is Blocked and known. *)
KnownInv ==
    \A t \in Threads :
        \/ OnCpu(t) \/ t \in IdleThreads \/ t \in Range(readyList)
        \/ state[t] \in {"None", "Dying"}
        \/ state[t] = "Blocked" /\ Pending(t)

(* The inductive invariant.                                                *)
IInv ==
    /\ TypeOK
    /\ OneCpuPerThread
    /\ LockInv
    /\ OffCpuInv
    /\ IdleInv
    /\ FlagsInv
    /\ ReadyListSound
    /\ TargetInv
    /\ WaitListInv
    /\ BlockingInv
    /\ StateInv
    /\ BlockLockInv
    /\ UnblockInv
    /\ OwnerInv
    /\ KnownInv

-----------------------------------------------------------------------------
(* InsertTailList on a list of distinct threads that does not hold the new *)
(* one keeps it a list of distinct threads.                                *)
LEMMA AppendFacts ==
    ASSUME NEW S, NEW s \in Seq(S), NEW e \in S
    PROVE  /\ Append(s, e) \in Seq(S)
           /\ Append(s, e) # <<>>
           /\ Range(Append(s, e)) = Range(s) \cup {e}
           /\ IsInjective(s) /\ e \notin Range(s) => IsInjective(Append(s, e))
<1>1. /\ Append(s, e) \in Seq(S) /\ Append(s, e) # <<>>
      /\ DOMAIN s = 1 .. Len(s) /\ DOMAIN Append(s, e) = 1 .. Len(s) + 1
      /\ \A i \in 1 .. Len(s) : Append(s, e)[i] = s[i]
      /\ Append(s, e)[Len(s) + 1] = e
      /\ Len(s) \in Nat
  OBVIOUS
<1>2. Range(Append(s, e)) = Range(s) \cup {e}
  BY <1>1 DEF Range
<1>3. ASSUME IsInjective(s), e \notin Range(s) PROVE IsInjective(Append(s, e))
  BY <1>1, <1>3 DEF Range, IsInjective
<1> QED BY <1>1, <1>2, <1>3

(* RemoveHeadList on a list of distinct threads returns one that the rest  *)
(* of the list no longer holds.                                            *)
LEMMA TailFacts ==
    ASSUME NEW S, NEW s \in Seq(S), s # <<>>, IsInjective(s)
    PROVE  /\ Head(s) \in S
           /\ Tail(s) \in Seq(S)
           /\ IsInjective(Tail(s))
           /\ Head(s) \notin Range(Tail(s))
           /\ Range(s) = Range(Tail(s)) \cup {Head(s)}
<1>1. /\ Head(s) \in S /\ Tail(s) \in Seq(S)
      /\ Len(s) \in Nat \ {0}
      /\ DOMAIN s = 1 .. Len(s) /\ DOMAIN Tail(s) = 1 .. Len(s) - 1
      /\ \A i \in 1 .. Len(s) - 1 : Tail(s)[i] = s[i + 1]
      /\ Head(s) = s[1]
  OBVIOUS
<1>2. IsInjective(Tail(s)) /\ Head(s) \notin Range(Tail(s))
  BY <1>1 DEF IsInjective, Range
<1>3. Range(s) \subseteq Range(Tail(s)) \cup {Head(s)}
  <2> SUFFICES ASSUME NEW i \in 1 .. Len(s), i # 1 PROVE s[i] \in Range(Tail(s))
    BY <1>1 DEF Range
  <2>1. i - 1 \in 1 .. Len(s) - 1 /\ Tail(s)[i - 1] = s[i]
    BY <1>1
  <2> QED BY <1>1, <2>1 DEF Range
<1>4. Range(Tail(s)) \cup {Head(s)} \subseteq Range(s)
  BY <1>1 DEF Range
<1> QED BY <1>1, <1>2, <1>3, <1>4

(* ReadyListSound, stated for the set of listed threads.                   *)
LEMMA ReadyFacts ==
    ASSUME IInv, NEW x \in Range(readyList)
    PROVE  /\ state[x] = "Ready"
           /\ pc[x] = "cleanup"
           /\ ~OnCpu(x)
           /\ x \notin IdleThreads
  BY DEF IInv, ReadyListSound, Range

(* The timer tick only moves the interrupted thread into ThreadYield.      *)
LEMMA ThreadTickInv ==
    ASSUME IInv, NEW c \in Cpus, ThreadTick(c)
    PROVE  IInv'
<1> USE SchedulerAssumption
<1> DEFINE t == current[c]
<1>1. /\ t \in Threads
      /\ OnCpu(t)
      /\ pc[t] \in {"run", "hlt"}
  BY DEF IInv, TypeOK, OnCpu, ThreadTick, At
<1>2. /\ pc' = [pc EXCEPT ![t] = "yield"]
      /\ ret' = [ret EXCEPT ![t] = IF pc[t] = "hlt" THEN "idle" ELSE "run"]
      /\ UNCHANGED <<state, flags, blockLock, refCnt, destroyed, handle,
                     readyList, readyLock, current, previous, waiters, target,
                     panic>>
  BY <1>1 DEF ThreadTick, Goto, threadVars, localVars, IInv, TypeOK
<1>11. TypeOK'
  BY <1>1, <1>2 DEF IInv, TypeOK, Locations, ThreadState
<1>12. OneCpuPerThread'
  BY <1>1, <1>2 DEF IInv, OneCpuPerThread
<1>13. LockInv'
  BY <1>1, <1>2 DEF IInv, TypeOK, LockInv, OneCpuPerThread
<1>14. OffCpuInv'
  BY <1>1, <1>2 DEF IInv, TypeOK, OffCpuInv, OnCpu
<1>15. IdleInv'
  BY <1>1, <1>2 DEF IInv, TypeOK, IdleInv, Pending
<1>16. FlagsInv'
  BY <1>1, <1>2 DEF IInv, TypeOK, FlagsInv
<1>17. ReadyListSound'
  BY <1>1, <1>2 DEF IInv, TypeOK, ReadyListSound, OnCpu
<1>18. TargetInv'
  BY <1>1, <1>2 DEF IInv, TypeOK, TargetInv
<1>19. WaitListInv'
  BY <1>1, <1>2 DEF IInv, TypeOK, WaitListInv, Pending, OnCpu
<1>20. BlockingInv'
  BY <1>1, <1>2 DEF IInv, TypeOK, BlockingInv, Pending, IdleInv
<1>21. StateInv'
  BY <1>1, <1>2 DEF IInv, TypeOK, StateInv, OnCpu
<1>22. BlockLockInv'
  BY <1>1, <1>2 DEF IInv, TypeOK, BlockLockInv, OneCpuPerThread
<1>23. UnblockInv'
  BY <1>1, <1>2 DEF IInv, TypeOK, UnblockInv, OnCpu, OneCpuPerThread
<1>24. OwnerInv'
  BY <1>1, <1>2 DEF IInv, TypeOK, OwnerInv, OneCpuPerThread
<1>25. KnownInv'
  BY <1>1, <1>2 DEF IInv, TypeOK, KnownInv, Pending, OnCpu
<1> QED
  BY <1>11, <1>12, <1>13, <1>14, <1>15, <1>16, <1>17, <1>18, <1>19, <1>20,
     <1>21, <1>22, <1>23, <1>24, <1>25 DEF IInv

(* The flag test of ThreadYield sends no idle thread to ThreadExit.        *)
LEMMA ThreadYieldInv ==
    ASSUME IInv, NEW c \in Cpus, ThreadYield(c)
    PROVE  IInv'
<1> USE SchedulerAssumption
<1> DEFINE t == current[c]
<1>1. /\ t \in Threads
      /\ OnCpu(t)
      /\ pc[t] = "yield"
  BY DEF IInv, TypeOK, OnCpu, ThreadYield, At
<1>2. /\ pc' = [pc EXCEPT ![t] = IF flags[t] = {PENDING} THEN "exit" ELSE "yieldlock"]
      /\ flags' = [flags EXCEPT ![t] = IF flags[t] = {PENDING} THEN @ \cup {TERMINATED} ELSE @]
      /\ UNCHANGED <<state, blockLock, refCnt, destroyed, handle, readyList,
                     readyLock, current, previous, waiters, target, ret, panic>>
  BY <1>1 DEF ThreadYield, Goto, threadVars, localVars, IInv, TypeOK
<1>3. t \in IdleThreads => flags[t] # {PENDING}
  BY <1>1 DEF IInv, FlagsInv
<1>11. TypeOK'
  BY <1>1, <1>2, <1>3 DEF IInv, TypeOK, Locations, ThreadState
<1>12. OneCpuPerThread'
  BY <1>1, <1>2, <1>3 DEF IInv, OneCpuPerThread
<1>13. LockInv'
  BY <1>1, <1>2, <1>3 DEF IInv, TypeOK, LockInv, OneCpuPerThread
<1>14. OffCpuInv'
  BY <1>1, <1>2, <1>3 DEF IInv, TypeOK, OffCpuInv, OnCpu
<1>15. IdleInv'
  BY <1>1, <1>2, <1>3 DEF IInv, TypeOK, IdleInv, Pending
<1>16. FlagsInv'
  BY <1>1, <1>2, <1>3 DEF IInv, TypeOK, FlagsInv
<1>17. ReadyListSound'
  BY <1>1, <1>2, <1>3 DEF IInv, TypeOK, ReadyListSound, OnCpu
<1>18. TargetInv'
  BY <1>1, <1>2, <1>3 DEF IInv, TypeOK, TargetInv
<1>19. WaitListInv'
  BY <1>1, <1>2, <1>3 DEF IInv, TypeOK, WaitListInv, Pending, OnCpu
<1>20. BlockingInv'
  BY <1>1, <1>2, <1>3 DEF IInv, TypeOK, BlockingInv, Pending, IdleInv
<1>21. StateInv'
  BY <1>1, <1>2, <1>3 DEF IInv, TypeOK, StateInv, OnCpu
<1>22. BlockLockInv'
  BY <1>1, <1>2, <1>3 DEF IInv, TypeOK, BlockLockInv, OneCpuPerThread
<1>23. UnblockInv'
  BY <1>1, <1>2, <1>3 DEF IInv, TypeOK, UnblockInv, OnCpu, OneCpuPerThread
<1>24. OwnerInv'
  BY <1>1, <1>2, <1>3 DEF IInv, TypeOK, OwnerInv, OneCpuPerThread
<1>25. KnownInv'
  BY <1>1, <1>2, <1>3 DEF IInv, TypeOK, KnownInv, Pending, OnCpu
<1> QED
  BY <1>11, <1>12, <1>13, <1>14, <1>15, <1>16, <1>17, <1>18, <1>19, <1>20,
     <1>21, <1>22, <1>23, <1>24, <1>25 DEF IInv

(* A running thread that starts to wait was on no list before.             *)
LEMMA ClientWaitInv ==
    ASSUME IInv, NEW c \in Cpus, ClientWait(c)
    PROVE  IInv'
<1> USE SchedulerAssumption
<1> DEFINE t == current[c]
<1>1. /\ t \in Threads
      /\ OnCpu(t)
      /\ pc[t] = "run"
      /\ blockLock[t] = None
  BY DEF IInv, TypeOK, OnCpu, ClientWait, At
<1>2. /\ pc' = [pc EXCEPT ![t] = "block"]
      /\ blockLock' = [blockLock EXCEPT ![t] = c]
      /\ waiters' = waiters \cup {t}
      /\ ret' = [ret EXCEPT ![t] = "run"]
      /\ UNCHANGED <<state, flags, refCnt, destroyed, handle, readyList,
                     readyLock, current, previous, target, panic>>
  BY <1>1 DEF ClientWait, Goto, threadVars, localVars, IInv, TypeOK
<1>3. t \notin IdleThreads /\ ~Pending(t)
  BY <1>1 DEF IInv, IdleInv, WaitListInv, StateInv
<1>4. t \notin Range(readyList)
  BY <1>1, ReadyFacts
<1>11. TypeOK'
  BY <1>1, <1>2, <1>3, <1>4 DEF IInv, TypeOK, Locations, ThreadState
<1>12. OneCpuPerThread'
  BY <1>1, <1>2, <1>3, <1>4 DEF IInv, OneCpuPerThread
<1>13. LockInv'
  BY <1>1, <1>2, <1>3, <1>4 DEF IInv, TypeOK, LockInv, OneCpuPerThread
<1>14. OffCpuInv'
  BY <1>1, <1>2, <1>3, <1>4 DEF IInv, TypeOK, OffCpuInv, OnCpu
<1>15. IdleInv'
  BY <1>1, <1>2, <1>3, <1>4 DEF IInv, TypeOK, IdleInv, Pending
<1>16. FlagsInv'
  BY <1>1, <1>2, <1>3, <1>4 DEF IInv, TypeOK, FlagsInv
<1>17. ReadyListSound'
  BY <1>1, <1>2, <1>3, <1>4 DEF IInv, TypeOK, ReadyListSound, OnCpu
<1>18. TargetInv'
  BY <1>1, <1>2, <1>3 DEF IInv, TypeOK, TargetInv, Pending
<1>19. WaitListInv'
  <2>1. \A x \in Threads : Pending(x)' => Pending(x) \/ x = t
    BY <1>2 DEF Pending
  <2> QED BY <1>1, <1>2, <1>3, <1>4, <2>1 DEF IInv, TypeOK, WaitListInv, OnCpu,
     OffCpuInv
<1>20. BlockingInv'
  BY <1>1, <1>2, <1>3, <1>4 DEF IInv, TypeOK, BlockingInv, Pending, IdleInv
<1>21. StateInv'
  BY <1>1, <1>2, <1>3, <1>4 DEF IInv, TypeOK, StateInv, OnCpu
<1>22. BlockLockInv'
  BY <1>1, <1>2, <1>3, <1>4 DEF IInv, TypeOK, BlockLockInv, OneCpuPerThread
<1>23. UnblockInv'
  BY <1>1, <1>2, <1>3, <1>4 DEF IInv, TypeOK, UnblockInv, OnCpu, OneCpuPerThread
<1>24. OwnerInv'
  BY <1>1, <1>2, <1>3, <1>4 DEF IInv, TypeOK, OwnerInv, OneCpuPerThread
<1>25. KnownInv'
  BY <1>1, <1>2, <1>3, <1>4 DEF IInv, TypeOK, KnownInv, Pending, OnCpu
<1> QED
  BY <1>11, <1>12, <1>13, <1>14, <1>15, <1>16, <1>17, <1>18, <1>19, <1>20,
     <1>21, <1>22, <1>23, <1>24, <1>25 DEF IInv

(* The idle thread blocks without being on a wait list.                    *)
LEMMA IdleThreadInv ==
    ASSUME IInv, NEW c \in Cpus, IdleThread(c)
    PROVE  IInv'
<1> USE SchedulerAssumption
<1> DEFINE t == current[c]
<1>1. /\ t \in Threads
      /\ OnCpu(t)
      /\ pc[t] \in {"idle", "hlt"}
      /\ blockLock[t] = None
  BY DEF IInv, TypeOK, OnCpu, IdleThread, At
<1>2. /\ pc' = [pc EXCEPT ![t] = "block"]
      /\ blockLock' = [blockLock EXCEPT ![t] = c]
      /\ ret' = [ret EXCEPT ![t] = "hlt"]
      /\ UNCHANGED <<state, flags, refCnt, destroyed, handle, readyList,
                     readyLock, current, previous, waiters, target, panic>>
  BY <1>1 DEF IdleThread, Goto, threadVars, localVars, IInv, TypeOK
<1>11. TypeOK'
  BY <1>1, <1>2 DEF IInv, TypeOK, Locations, ThreadState
<1>12. OneCpuPerThread'
  BY <1>1, <1>2 DEF IInv, OneCpuPerThread
<1>13. LockInv'
  BY <1>1, <1>2 DEF IInv, TypeOK, LockInv, OneCpuPerThread
<1>14. OffCpuInv'
  BY <1>1, <1>2 DEF IInv, TypeOK, OffCpuInv, OnCpu
<1>15. IdleInv'
  BY <1>1, <1>2 DEF IInv, TypeOK, IdleInv, Pending
<1>16. FlagsInv'
  BY <1>1, <1>2 DEF IInv, TypeOK, FlagsInv
<1>17. ReadyListSound'
  BY <1>1, <1>2 DEF IInv, TypeOK, ReadyListSound, OnCpu
<1>18. TargetInv'
  BY <1>1, <1>2 DEF IInv, TypeOK, TargetInv
<1>19. WaitListInv'
  BY <1>1, <1>2 DEF IInv, TypeOK, WaitListInv, Pending, OnCpu
<1>20. BlockingInv'
  BY <1>1, <1>2 DEF IInv, TypeOK, BlockingInv, Pending, IdleInv
<1>21. StateInv'
  BY <1>1, <1>2 DEF IInv, TypeOK, StateInv, OnCpu
<1>22. BlockLockInv'
  BY <1>1, <1>2 DEF IInv, TypeOK, BlockLockInv, OneCpuPerThread
<1>23. UnblockInv'
  BY <1>1, <1>2 DEF IInv, TypeOK, UnblockInv, OnCpu, OneCpuPerThread
<1>24. OwnerInv'
  BY <1>1, <1>2 DEF IInv, TypeOK, OwnerInv, OneCpuPerThread
<1>25. KnownInv'
  BY <1>1, <1>2 DEF IInv, TypeOK, KnownInv, Pending, OnCpu
<1> QED
  BY <1>11, <1>12, <1>13, <1>14, <1>15, <1>16, <1>17, <1>18, <1>19, <1>20,
     <1>21, <1>22, <1>23, <1>24, <1>25 DEF IInv

(* The flag test and the state change of ThreadBlock, BlockLock held.      *)
LEMMA ThreadBlockInv ==
    ASSUME IInv, NEW c \in Cpus, ThreadBlock(c)
    PROVE  IInv'
<1> USE SchedulerAssumption
<1> DEFINE t == current[c]
<1>1. /\ t \in Threads
      /\ OnCpu(t)
      /\ pc[t] = "block"
  BY DEF IInv, TypeOK, OnCpu, ThreadBlock, At
<1>2. /\ pc' = [pc EXCEPT ![t] = IF flags[t] = {PENDING} THEN "exit" ELSE "blocklock"]
      /\ flags' = [flags EXCEPT ![t] = IF flags[t] = {PENDING} THEN @ \cup {TERMINATED} ELSE @]
      /\ state' = [state EXCEPT ![t] = IF flags[t] = {PENDING} THEN @ ELSE "Blocked"]
      /\ UNCHANGED <<blockLock, refCnt, destroyed, handle, readyList, readyLock,
                     current, previous, waiters, target, ret, panic>>
  BY <1>1 DEF ThreadBlock, Goto, threadVars, localVars, IInv, TypeOK
<1>3. t \in IdleThreads => flags[t] # {PENDING}
  BY <1>1 DEF IInv, FlagsInv
<1>11. TypeOK'
  BY <1>1, <1>2, <1>3 DEF IInv, TypeOK, Locations, ThreadState
<1>12. OneCpuPerThread'
  BY <1>1, <1>2, <1>3 DEF IInv, OneCpuPerThread
<1>13. LockInv'
  BY <1>1, <1>2, <1>3 DEF IInv, TypeOK, LockInv, OneCpuPerThread
<1>14. OffCpuInv'
  BY <1>1, <1>2, <1>3 DEF IInv, TypeOK, OffCpuInv, OnCpu
<1>15. IdleInv'
  BY <1>1, <1>2, <1>3 DEF IInv, TypeOK, IdleInv, Pending
<1>16. FlagsInv'
  BY <1>1, <1>2, <1>3 DEF IInv, TypeOK, FlagsInv
<1>17. ReadyListSound'
  BY <1>1, <1>2, <1>3 DEF IInv, TypeOK, ReadyListSound, OnCpu
<1>18. TargetInv'
  BY <1>1, <1>2, <1>3 DEF IInv, TypeOK, TargetInv
<1>19. WaitListInv'
  BY <1>1, <1>2, <1>3 DEF IInv, TypeOK, WaitListInv, Pending, OnCpu
<1>20. BlockingInv'
  BY <1>1, <1>2, <1>3 DEF IInv, TypeOK, BlockingInv, Pending, IdleInv
<1>21. StateInv'
  BY <1>1, <1>2, <1>3 DEF IInv, TypeOK, StateInv, OnCpu
<1>22. BlockLockInv'
  BY <1>1, <1>2, <1>3 DEF IInv, TypeOK, BlockLockInv, OneCpuPerThread
<1>23. UnblockInv'
  BY <1>1, <1>2, <1>3 DEF IInv, TypeOK, UnblockInv, OnCpu, OneCpuPerThread
<1>24. OwnerInv'
  BY <1>1, <1>2, <1>3 DEF IInv, TypeOK, OwnerInv, OneCpuPerThread
<1>25. KnownInv'
  BY <1>1, <1>2, <1>3 DEF IInv, TypeOK, KnownInv, Pending, OnCpu
<1> QED
  BY <1>11, <1>12, <1>13, <1>14, <1>15, <1>16, <1>17, <1>18, <1>19, <1>20,
     <1>21, <1>22, <1>23, <1>24, <1>25 DEF IInv

(* Taking a thread off its wait list keeps it known: it becomes a target.  *)
LEMMA ClientWakeInv ==
    ASSUME IInv, NEW c \in Cpus, NEW w \in Threads, ClientWake(c, w)
    PROVE  IInv'
<1> USE SchedulerAssumption
<1> DEFINE t == current[c]
<1>1. /\ t \in Threads
      /\ OnCpu(t)
      /\ pc[t] \in {"run", "dying"}
      /\ w \in waiters
      /\ w # t
  BY DEF IInv, TypeOK, OnCpu, ClientWake, At
<1>2. /\ pc' = [pc EXCEPT ![t] = "unblock"]
      /\ waiters' = waiters \ {w}
      /\ target' = [target EXCEPT ![t] = w]
      /\ ret' = [ret EXCEPT ![t] = pc[t]]
      /\ UNCHANGED <<state, flags, blockLock, refCnt, destroyed, handle,
                     readyList, readyLock, current, previous, panic>>
  BY <1>1 DEF ClientWake, Goto, threadVars, localVars, IInv, TypeOK
<1>3. target[t] = None
  BY <1>1 DEF IInv, TargetInv
<1>4. \A x \in Threads : Pending(x)' <=> Pending(x)
  BY <1>1, <1>2, <1>3 DEF IInv, TypeOK, Pending
<1>11. TypeOK'
  BY <1>1, <1>2, <1>3, <1>4 DEF IInv, TypeOK, Locations, ThreadState
<1>12. OneCpuPerThread'
  BY <1>1, <1>2, <1>3, <1>4 DEF IInv, OneCpuPerThread
<1>13. LockInv'
  BY <1>1, <1>2, <1>3, <1>4 DEF IInv, TypeOK, LockInv, OneCpuPerThread
<1>14. OffCpuInv'
  BY <1>1, <1>2, <1>3, <1>4 DEF IInv, TypeOK, OffCpuInv, OnCpu
<1>15. IdleInv'
  BY <1>1, <1>2, <1>3, <1>4 DEF IInv, TypeOK, IdleInv, Pending
<1>16. FlagsInv'
  BY <1>1, <1>2, <1>3, <1>4 DEF IInv, TypeOK, FlagsInv
<1>17. ReadyListSound'
  BY <1>1, <1>2, <1>3, <1>4 DEF IInv, TypeOK, ReadyListSound, OnCpu
<1>18. TargetInv'
  BY <1>1, <1>2, <1>3, <1>4 DEF IInv, TypeOK, TargetInv
<1>19. WaitListInv'
  BY <1>1, <1>2, <1>4 DEF IInv, TypeOK, WaitListInv, OnCpu
<1>20. BlockingInv'
  BY <1>1, <1>2, <1>4 DEF IInv, TypeOK, BlockingInv
<1>21. StateInv'
  BY <1>1, <1>2, <1>3, <1>4 DEF IInv, TypeOK, StateInv, OnCpu
<1>22. BlockLockInv'
  BY <1>1, <1>2, <1>3, <1>4 DEF IInv, TypeOK, BlockLockInv, OneCpuPerThread
<1>23. UnblockInv'
  BY <1>1, <1>2, <1>3, <1>4 DEF IInv, TypeOK, UnblockInv, OnCpu, OneCpuPerThread
<1>24. OwnerInv'
  BY <1>1, <1>2, <1>3, <1>4 DEF IInv, TypeOK, OwnerInv, OneCpuPerThread
<1>25. KnownInv'
  BY <1>1, <1>2, <1>4 DEF IInv, TypeOK, KnownInv, OnCpu
<1> QED
  BY <1>11, <1>12, <1>13, <1>14, <1>15, <1>16, <1>17, <1>18, <1>19, <1>20,
     <1>21, <1>22, <1>23, <1>24, <1>25 DEF IInv

(* With the BlockLock free, a Blocked thread has been switched away from.  *)
LEMMA ThreadUnblockInv ==
    ASSUME IInv, NEW c \in Cpus, ThreadUnblock(c)
    PROVE  IInv'
<1> USE SchedulerAssumption
<1> DEFINE t == current[c]
<1> DEFINE w == target[t]
<1>1. /\ t \in Threads
      /\ OnCpu(t)
      /\ pc[t] = "unblock"
      /\ w \in Threads
      /\ blockLock[w] = None
      /\ ~panic
  BY DEF IInv, TypeOK, OnCpu, ThreadUnblock, At, TargetInv
<1>2. /\ pc' = [pc EXCEPT ![t] = "unblockready"]
      /\ blockLock' = [blockLock EXCEPT ![w] = c]
      /\ panic' = (state[w] # "Blocked")
      /\ UNCHANGED <<state, flags, refCnt, destroyed, handle, readyList,
                     readyLock, current, previous, waiters, target, ret>>
  BY <1>1 DEF ThreadUnblock, Goto, threadVars, localVars, IInv, TypeOK
<1>3. Pending(w) /\ w \notin IdleThreads
  BY <1>1 DEF Pending, IInv, IdleInv
<1>4. state[w] = "Blocked" => ~OnCpu(w)
  BY <1>1, <1>3 DEF IInv, StateInv, BlockLockInv, OnCpu
<1>5. \A d \in Cpus : d # c => target[current[d]] # w
  BY <1>1 DEF IInv, TypeOK, TargetInv, OneCpuPerThread
<1>6. panic' \/ state[w] = "Blocked"
  BY <1>2
<1>11. TypeOK'
  BY <1>1, <1>2, <1>3, <1>4, <1>5, <1>6 DEF IInv, TypeOK, Locations, ThreadState
<1>12. OneCpuPerThread'
  BY <1>1, <1>2, <1>3, <1>4, <1>5, <1>6 DEF IInv, OneCpuPerThread
<1>13. LockInv'
  BY <1>1, <1>2, <1>3, <1>4, <1>5, <1>6 DEF IInv, TypeOK, LockInv, OneCpuPerThread
<1>14. OffCpuInv'
  BY <1>1, <1>2, <1>3, <1>4, <1>5, <1>6 DEF IInv, TypeOK, OffCpuInv, OnCpu
<1>15. IdleInv'
  BY <1>1, <1>2, <1>3, <1>4, <1>5, <1>6 DEF IInv, TypeOK, IdleInv, Pending
<1>16. FlagsInv'
  BY <1>1, <1>2, <1>3, <1>4, <1>5, <1>6 DEF IInv, TypeOK, FlagsInv
<1>17. ReadyListSound'
  BY <1>1, <1>2, <1>3, <1>4, <1>5, <1>6 DEF IInv, TypeOK, ReadyListSound, OnCpu
<1>18. TargetInv'
  BY <1>1, <1>2, <1>3, <1>4, <1>5, <1>6 DEF IInv, TypeOK, TargetInv
<1>19. WaitListInv'
  BY <1>1, <1>2, <1>3, <1>4, <1>5, <1>6 DEF IInv, TypeOK, WaitListInv, Pending, OnCpu
<1>20. BlockingInv'
  BY <1>1, <1>2, <1>3, <1>4, <1>5, <1>6 DEF IInv, TypeOK, BlockingInv, Pending,
     IdleInv
<1>21. StateInv'
  BY <1>1, <1>2, <1>3, <1>4, <1>5, <1>6 DEF IInv, TypeOK, StateInv, OnCpu
<1>22. BlockLockInv'
  BY <1>1, <1>2, <1>3, <1>4, <1>5, <1>6 DEF IInv, TypeOK, BlockLockInv,
     OneCpuPerThread
<1>23. UnblockInv'
  <2> SUFFICES ASSUME NEW d \in Cpus, pc'[current'[d]] = "unblockready", ~panic'
               PROVE  /\ blockLock'[target'[current'[d]]] = d
                      /\ state'[target'[current'[d]]] = "Blocked"
                      /\ ~OnCpu(target[current[d]])'
    BY <1>2 DEF UnblockInv
  <2>1. CASE d = c
    BY <1>1, <1>2, <1>4, <1>6, <2>1 DEF IInv, TypeOK, OnCpu
  <2>2. CASE d # c
    BY <1>1, <1>2, <1>5, <2>2 DEF IInv, TypeOK, OnCpu, UnblockInv, OneCpuPerThread
  <2> QED BY <2>1, <2>2
<1>24. OwnerInv'
  BY <1>1, <1>2, <1>3, <1>4, <1>5, <1>6 DEF IInv, TypeOK, OwnerInv, OneCpuPerThread
<1>25. KnownInv'
  BY <1>1, <1>2, <1>3, <1>4, <1>5, <1>6 DEF IInv, TypeOK, KnownInv, Pending, OnCpu
<1> QED
  BY <1>11, <1>12, <1>13, <1>14, <1>15, <1>16, <1>17, <1>18, <1>19, <1>20,
     <1>21, <1>22, <1>23, <1>24, <1>25 DEF IInv

(* What ThreadUnblock appends to the ready list is on no CPU and no list.  *)
LEMMA ThreadUnblockReadyInv ==
    ASSUME IInv, NEW c \in Cpus, ThreadUnblockReady(c)
    PROVE  IInv'
<1> USE SchedulerAssumption
<1> DEFINE t == current[c]
<1> DEFINE w == target[t]
<1>1. /\ t \in Threads
      /\ OnCpu(t)
      /\ pc[t] = "unblockready"
      /\ w \in Threads
      /\ readyLock = None
      /\ ~panic
  BY DEF IInv, TypeOK, OnCpu, ThreadUnblockReady, At, TargetInv
<1>2. /\ pc' = [pc EXCEPT ![t] = ret[t]]
      /\ blockLock' = [blockLock EXCEPT ![w] = None]
      /\ state' = [state EXCEPT ![w] = "Ready"]
      /\ target' = [target EXCEPT ![t] = None]
      /\ readyList' = Append(readyList, w)
      /\ UNCHANGED <<flags, refCnt, destroyed, handle, readyLock, current,
                     previous, waiters, ret, panic>>
  BY <1>1 DEF ThreadUnblockReady, Goto, threadVars, localVars, IInv, TypeOK
<1>3. /\ blockLock[w] = c
      /\ state[w] = "Blocked"
      /\ ~OnCpu(w)
      /\ w # t
  BY <1>1 DEF IInv, UnblockInv
<1>4. Pending(w) /\ w \notin IdleThreads /\ w \notin Range(readyList)
  BY <1>1 DEF Pending, IInv, IdleInv, WaitListInv
<1>5. pc[w] = "cleanup"
  BY <1>1, <1>3 DEF IInv, OffCpuInv
<1>6. t \notin IdleThreads /\ ret[t] \in {"run", "dying"}
  <2>1. t \notin IdleThreads
    BY <1>1 DEF IInv, IdleInv
  <2> QED BY <1>1, <2>1 DEF IInv, IdleInv, TypeOK
<1>7. /\ readyList' \in Seq(Threads)
      /\ Range(readyList') = Range(readyList) \cup {w}
      /\ IsInjective(readyList')
  <2>1. readyList \in Seq(Threads) /\ IsInjective(readyList)
    BY DEF IInv, TypeOK, ReadyListSound, IsInjective
  <2> QED BY <1>1, <1>2, <1>4, <2>1, AppendFacts
<1>8. \A x \in Threads : Pending(x)' <=> Pending(x) /\ x # w
  BY <1>1, <1>2, <1>4 DEF IInv, TypeOK, TargetInv, Pending
<1>9. \A x \in Threads : OnCpu(x)' <=> OnCpu(x)
  BY <1>2 DEF OnCpu
<1>11. TypeOK'
  BY <1>1, <1>2, <1>6, <1>7 DEF IInv, TypeOK, Locations, ThreadState
<1>12. OneCpuPerThread'
  BY <1>1, <1>2, <1>3, <1>4, <1>5, <1>6, <1>7, <1>8, <1>9 DEF IInv, OneCpuPerThread
<1>13. LockInv'
  BY <1>1, <1>2, <1>3, <1>4, <1>5, <1>6, <1>7, <1>8, <1>9 DEF IInv, TypeOK,
     LockInv, OneCpuPerThread
<1>14. OffCpuInv'
  BY <1>1, <1>2, <1>3, <1>5, <1>6, <1>9 DEF IInv, TypeOK, OffCpuInv
<1>15. IdleInv'
  <2>1. \A x \in Threads : x # t => pc'[x] = pc[x]
    BY <1>2 DEF IInv, TypeOK
  <2>2. pc'[t] = ret[t] /\ \A x \in Threads : x # w => state'[x] = state[x]
    BY <1>1, <1>2 DEF IInv, TypeOK
  <2> QED BY <1>1, <1>2, <1>4, <1>6, <1>8, <2>1, <2>2 DEF IInv, IdleInv,
     IdleThreads, Range
<1>16. FlagsInv'
  BY <1>1, <1>2, <1>3, <1>4, <1>5, <1>6, <1>7, <1>8, <1>9 DEF IInv, TypeOK, FlagsInv
<1>17. ReadyListSound'
  <2>1. \A x \in Range(readyList') : /\ state'[x] = "Ready" /\ pc'[x] = "cleanup"
                                     /\ ~OnCpu(x)' /\ x \notin IdleThreads
    <3> SUFFICES ASSUME NEW x \in Range(readyList')
                 PROVE  /\ state'[x] = "Ready" /\ pc'[x] = "cleanup"
                        /\ ~OnCpu(x)' /\ x \notin IdleThreads
      OBVIOUS
    <3>1. CASE x = w
      BY <1>1, <1>2, <1>3, <1>4, <1>5, <1>9, <3>1 DEF IInv, TypeOK
    <3>2. CASE x \in Range(readyList) /\ x # w
      <4>1. x \in Threads /\ x # t /\ pc[x] = "cleanup"
        BY <1>1, <3>2, ReadyFacts DEF IInv, TypeOK, Range
      <4> QED BY <1>1, <1>2, <1>9, <3>2, <4>1, ReadyFacts DEF IInv, TypeOK
    <3> QED BY <1>7, <3>1, <3>2
  <2> QED BY <1>7, <2>1 DEF ReadyListSound, IsInjective, Range
<1>18. TargetInv'
  BY <1>1, <1>2, <1>3, <1>6 DEF IInv, TypeOK, TargetInv
<1>19. WaitListInv'
  BY <1>1, <1>2, <1>3, <1>6, <1>7, <1>8, <1>9 DEF IInv, TypeOK, WaitListInv, StateInv
<1>20. BlockingInv'
  BY <1>1, <1>2, <1>5, <1>6, <1>8 DEF IInv, TypeOK, BlockingInv
<1>21. StateInv'
  BY <1>1, <1>2, <1>3, <1>5, <1>6, <1>9 DEF IInv, TypeOK, StateInv
<1>22. BlockLockInv'
  BY <1>1, <1>2, <1>3, <1>6 DEF IInv, TypeOK, BlockLockInv, OneCpuPerThread, OnCpu
<1>23. UnblockInv'
  BY <1>1, <1>2, <1>3, <1>6, <1>9 DEF IInv, TypeOK, UnblockInv, TargetInv,
     OneCpuPerThread
<1>24. OwnerInv'
  BY <1>1, <1>2, <1>3, <1>4, <1>5, <1>6, <1>7, <1>8, <1>9 DEF IInv, TypeOK,
     OwnerInv, OneCpuPerThread
<1>25. KnownInv'
  BY <1>1, <1>2, <1>3, <1>7, <1>8, <1>9 DEF IInv, TypeOK, KnownInv
<1> QED
  BY <1>11, <1>12, <1>13, <1>14, <1>15, <1>16, <1>17, <1>18, <1>19, <1>20,
     <1>21, <1>22, <1>23, <1>24, <1>25 DEF IInv

(* ThreadExit: no other CPU owns the BlockLock of the thread that exits.   *)
LEMMA ThreadExitInv ==
    ASSUME IInv, NEW c \in Cpus, ThreadExit(c)
    PROVE  IInv'
<1> USE SchedulerAssumption
<1> DEFINE t == current[c]
<1>1. /\ t \in Threads
      /\ OnCpu(t)
      /\ pc[t] \in {"run", "exit"}
  BY DEF IInv, TypeOK, OnCpu, ThreadExit, At
<1>2. /\ pc' = [pc EXCEPT ![t] = "dying"]
      /\ blockLock' = IF blockLock[t] = c THEN [blockLock EXCEPT ![t] = None] ELSE blockLock
      /\ state' = [state EXCEPT ![t] = "Dying"]
      /\ UNCHANGED <<flags, refCnt, destroyed, handle, readyList, readyLock,
                     current, previous, waiters, target, ret, panic>>
  BY <1>1 DEF ThreadExit, Goto, threadVars, localVars, IInv, TypeOK
<1>3. t \notin IdleThreads /\ state[t] # "Blocked"
  BY <1>1 DEF IInv, IdleInv, StateInv
<1>4. panic \/ blockLock[t] \in {c, None}
  BY <1>1, <1>3 DEF IInv, TypeOK, OwnerInv, UnblockInv, OneCpuPerThread,
     IdleThreads, Range
<1>11. TypeOK'
  BY <1>1, <1>2, <1>3, <1>4 DEF IInv, TypeOK, Locations, ThreadState
<1>12. OneCpuPerThread'
  BY <1>1, <1>2, <1>3, <1>4 DEF IInv, OneCpuPerThread
<1>13. LockInv'
  BY <1>1, <1>2, <1>3, <1>4 DEF IInv, TypeOK, LockInv, OneCpuPerThread
<1>14. OffCpuInv'
  BY <1>1, <1>2, <1>3, <1>4 DEF IInv, TypeOK, OffCpuInv, OnCpu
<1>15. IdleInv'
  BY <1>1, <1>2, <1>3, <1>4 DEF IInv, TypeOK, IdleInv, Pending
<1>16. FlagsInv'
  BY <1>1, <1>2, <1>3, <1>4 DEF IInv, TypeOK, FlagsInv
<1>17. ReadyListSound'
  BY <1>1, <1>2, <1>3, <1>4 DEF IInv, TypeOK, ReadyListSound, OnCpu
<1>18. TargetInv'
  BY <1>1, <1>2, <1>3, <1>4 DEF IInv, TypeOK, TargetInv
<1>19. WaitListInv'
  BY <1>1, <1>2, <1>3, <1>4 DEF IInv, TypeOK, WaitListInv, Pending, OnCpu
<1>20. BlockingInv'
  BY <1>1, <1>2, <1>3, <1>4 DEF IInv, TypeOK, BlockingInv, Pending, IdleInv
<1>21. StateInv'
  BY <1>1, <1>2, <1>3, <1>4 DEF IInv, TypeOK, StateInv, OnCpu
<1>22. BlockLockInv'
  BY <1>1, <1>2, <1>3, <1>4 DEF IInv, TypeOK, BlockLockInv, OneCpuPerThread
<1>23. UnblockInv'
  BY <1>1, <1>2, <1>3, <1>4 DEF IInv, TypeOK, UnblockInv, OnCpu, OneCpuPerThread
<1>24. OwnerInv'
  BY <1>1, <1>2, <1>3, <1>4 DEF IInv, TypeOK, OwnerInv, OneCpuPerThread
<1>25. KnownInv'
  BY <1>1, <1>2, <1>3, <1>4 DEF IInv, TypeOK, KnownInv, Pending, OnCpu
<1> QED
  BY <1>11, <1>12, <1>13, <1>14, <1>15, <1>16, <1>17, <1>18, <1>19, <1>20,
     <1>21, <1>22, <1>23, <1>24, <1>25 DEF IInv

(* The release of ReadyThreadsLock after a switch.                         *)
LEMMA ThreadCleanupPostScheduleInv ==
    ASSUME IInv, NEW c \in Cpus, ThreadCleanupPostSchedule(c)
    PROVE  IInv'
<1> USE SchedulerAssumption
<1> DEFINE t == current[c]
<1>1. /\ t \in Threads
      /\ OnCpu(t)
      /\ pc[t] = "cleanup"
      /\ readyLock = c
  BY DEF IInv, TypeOK, OnCpu, ThreadCleanupPostSchedule, At
<1>2. /\ pc' = [pc EXCEPT ![t] = "release"]
      /\ readyLock' = None
      /\ UNCHANGED <<state, flags, blockLock, refCnt, destroyed, handle,
                     readyList, current, previous, waiters, target, ret, panic>>
  BY <1>1 DEF ThreadCleanupPostSchedule, Goto, threadVars, localVars, IInv, TypeOK
<1>11. TypeOK'
  BY <1>1, <1>2 DEF IInv, TypeOK, Locations, ThreadState
<1>12. OneCpuPerThread'
  BY <1>1, <1>2 DEF IInv, OneCpuPerThread
<1>13. LockInv'
  BY <1>1, <1>2 DEF IInv, TypeOK, LockInv, OneCpuPerThread
<1>14. OffCpuInv'
  BY <1>1, <1>2 DEF IInv, TypeOK, OffCpuInv, OnCpu
<1>15. IdleInv'
  BY <1>1, <1>2 DEF IInv, TypeOK, IdleInv, Pending
<1>16. FlagsInv'
  BY <1>1, <1>2 DEF IInv, TypeOK, FlagsInv
<1>17. ReadyListSound'
  BY <1>1, <1>2 DEF IInv, TypeOK, ReadyListSound, OnCpu
<1>18. TargetInv'
  BY <1>1, <1>2 DEF IInv, TypeOK, TargetInv
<1>19. WaitListInv'
  BY <1>1, <1>2 DEF IInv, TypeOK, WaitListInv, Pending, OnCpu
<1>20. BlockingInv'
  BY <1>1, <1>2 DEF IInv, TypeOK, BlockingInv, Pending, IdleInv
<1>21. StateInv'
  BY <1>1, <1>2 DEF IInv, TypeOK, StateInv, OnCpu
<1>22. BlockLockInv'
  BY <1>1, <1>2 DEF IInv, TypeOK, BlockLockInv, OneCpuPerThread
<1>23. UnblockInv'
  BY <1>1, <1>2 DEF IInv, TypeOK, UnblockInv, OnCpu, OneCpuPerThread
<1>24. OwnerInv'
  BY <1>1, <1>2 DEF IInv, TypeOK, OwnerInv, OneCpuPerThread
<1>25. KnownInv'
  BY <1>1, <1>2 DEF IInv, TypeOK, KnownInv, Pending, OnCpu
<1> QED
  BY <1>11, <1>12, <1>13, <1>14, <1>15, <1>16, <1>17, <1>18, <1>19, <1>20,
     <1>21, <1>22, <1>23, <1>24, <1>25 DEF IInv

(* Closing a handle touches no scheduling state.                           *)
LEMMA ThreadCloseHandleInv ==
    ASSUME IInv, NEW c \in Cpus, NEW w \in Threads, ThreadCloseHandle(c, w)
    PROVE  IInv'
<1> USE SchedulerAssumption
<1> DEFINE t == current[c]
<1>1. /\ t \in Threads
  BY DEF IInv, TypeOK, OnCpu, ThreadCloseHandle, At
<1>2. /\ handle' = [handle EXCEPT ![w] = None]
      /\ refCnt' = [refCnt EXCEPT ![w] = @ - 1]
      /\ destroyed' = IF refCnt[w] = 1 THEN destroyed \cup {w} ELSE destroyed
      /\ UNCHANGED <<state, flags, blockLock, readyList, readyLock, current,
                     previous, waiters, target, pc, ret, panic>>
  BY <1>1 DEF ThreadCloseHandle, Goto, threadVars, localVars, IInv, TypeOK,
     ThreadDereference
<1>11. TypeOK'
  BY <1>1, <1>2 DEF IInv, TypeOK, Locations, ThreadState
<1>12. OneCpuPerThread'
  BY <1>1, <1>2 DEF IInv, OneCpuPerThread
<1>13. LockInv'
  BY <1>1, <1>2 DEF IInv, TypeOK, LockInv, OneCpuPerThread
<1>14. OffCpuInv'
  BY <1>1, <1>2 DEF IInv, TypeOK, OffCpuInv, OnCpu
<1>15. IdleInv'
  BY <1>1, <1>2 DEF IInv, TypeOK, IdleInv, Pending
<1>16. FlagsInv'
  BY <1>1, <1>2 DEF IInv, TypeOK, FlagsInv
<1>17. ReadyListSound'
  BY <1>1, <1>2 DEF IInv, TypeOK, ReadyListSound, OnCpu
<1>18. TargetInv'
  BY <1>1, <1>2 DEF IInv, TypeOK, TargetInv
<1>19. WaitListInv'
  BY <1>1, <1>2 DEF IInv, TypeOK, WaitListInv, Pending, OnCpu
<1>20. BlockingInv'
  BY <1>1, <1>2 DEF IInv, TypeOK, BlockingInv, Pending, IdleInv
<1>21. StateInv'
  BY <1>1, <1>2 DEF IInv, TypeOK, StateInv, OnCpu
<1>22. BlockLockInv'
  BY <1>1, <1>2 DEF IInv, TypeOK, BlockLockInv, OneCpuPerThread
<1>23. UnblockInv'
  BY <1>1, <1>2 DEF IInv, TypeOK, UnblockInv, OnCpu, OneCpuPerThread
<1>24. OwnerInv'
  BY <1>1, <1>2 DEF IInv, TypeOK, OwnerInv, OneCpuPerThread
<1>25. KnownInv'
  BY <1>1, <1>2 DEF IInv, TypeOK, KnownInv, Pending, OnCpu
<1> QED
  BY <1>11, <1>12, <1>13, <1>14, <1>15, <1>16, <1>17, <1>18, <1>19, <1>20,
     <1>21, <1>22, <1>23, <1>24, <1>25 DEF IInv

(* ThreadTerminate only sets a flag, and only of user threads.             *)
LEMMA ThreadTerminateInv ==
    ASSUME IInv, NEW c \in Cpus, NEW w \in Threads, ThreadTerminate(c, w)
    PROVE  IInv'
<1> USE SchedulerAssumption
<1> DEFINE t == current[c]
<1>1. /\ t \in Threads
      /\ w \in UserThreads
  BY DEF IInv, TypeOK, OnCpu, ThreadTerminate, At
<1>2. /\ flags' = [flags EXCEPT ![w] = @ \cup {PENDING}]
      /\ UNCHANGED <<state, blockLock, refCnt, destroyed, handle, readyList,
                     readyLock, current, previous, waiters, target, pc, ret,
                     panic>>
  BY <1>1 DEF ThreadTerminate, Goto, threadVars, localVars, IInv, TypeOK
<1>11. TypeOK'
  BY <1>1, <1>2 DEF IInv, TypeOK, Locations, ThreadState
<1>12. OneCpuPerThread'
  BY <1>1, <1>2 DEF IInv, OneCpuPerThread
<1>13. LockInv'
  BY <1>1, <1>2 DEF IInv, TypeOK, LockInv, OneCpuPerThread
<1>14. OffCpuInv'
  BY <1>1, <1>2 DEF IInv, TypeOK, OffCpuInv, OnCpu
<1>15. IdleInv'
  BY <1>1, <1>2 DEF IInv, TypeOK, IdleInv, Pending
<1>16. FlagsInv'
  BY <1>1, <1>2 DEF IInv, TypeOK, FlagsInv
<1>17. ReadyListSound'
  BY <1>1, <1>2 DEF IInv, TypeOK, ReadyListSound, OnCpu
<1>18. TargetInv'
  BY <1>1, <1>2 DEF IInv, TypeOK, TargetInv
<1>19. WaitListInv'
  BY <1>1, <1>2 DEF IInv, TypeOK, WaitListInv, Pending, OnCpu
<1>20. BlockingInv'
  BY <1>1, <1>2 DEF IInv, TypeOK, BlockingInv, Pending, IdleInv
<1>21. StateInv'
  BY <1>1, <1>2 DEF IInv, TypeOK, StateInv, OnCpu
<1>22. BlockLockInv'
  BY <1>1, <1>2 DEF IInv, TypeOK, BlockLockInv, OneCpuPerThread
<1>23. UnblockInv'
  BY <1>1, <1>2 DEF IInv, TypeOK, UnblockInv, OnCpu, OneCpuPerThread
<1>24. OwnerInv'
  BY <1>1, <1>2 DEF IInv, TypeOK, OwnerInv, OneCpuPerThread
<1>25. KnownInv'
  BY <1>1, <1>2 DEF IInv, TypeOK, KnownInv, Pending, OnCpu
<1> QED
  BY <1>11, <1>12, <1>13, <1>14, <1>15, <1>16, <1>17, <1>18, <1>19, <1>20,
     <1>21, <1>22, <1>23, <1>24, <1>25 DEF IInv

(* A new thread is on no CPU and no list, and its creator unblocks it.     *)
LEMMA ThreadCreateExInv ==
    ASSUME IInv, NEW c \in Cpus, NEW w \in Threads, ThreadCreateEx(c, w)
    PROVE  IInv'
<1> USE SchedulerAssumption
<1> DEFINE t == current[c]
<1>1. /\ t \in Threads
      /\ OnCpu(t)
      /\ pc[t] = "run"
      /\ state[w] = "None"
  BY DEF IInv, TypeOK, OnCpu, ThreadCreateEx, At
<1>2. /\ state' = [state EXCEPT ![w] = "Blocked"]
      /\ refCnt' = [refCnt EXCEPT ![w] = 2]
      /\ handle' = [handle EXCEPT ![w] = t]
      /\ target' = [target EXCEPT ![t] = w]
      /\ ret' = [ret EXCEPT ![t] = "run", ![w] = "run"]
      /\ pc' = [pc EXCEPT ![t] = "unblock", ![w] = "cleanup"]
      /\ UNCHANGED <<flags, blockLock, destroyed, readyList, readyLock, current,
                     previous, waiters, panic>>
  BY <1>1 DEF ThreadCreateEx, Goto, threadVars, localVars, IInv, TypeOK
<1>3. /\ w # t
      /\ pc[w] = "none"
      /\ ~OnCpu(w)
      /\ ~Pending(w)
      /\ w \notin IdleThreads
      /\ t \notin IdleThreads
      /\ target[t] = None
  BY <1>1 DEF IInv, OffCpuInv, WaitListInv, IdleInv, TargetInv
<1>4. w \notin Range(readyList)
  BY <1>1, ReadyFacts
<1>5. \A x \in Threads : Pending(x)' <=> Pending(x) \/ x = w
  BY <1>1, <1>2, <1>3 DEF IInv, TypeOK, Pending
<1>6. \A x \in Threads : OnCpu(x)' <=> OnCpu(x)
  BY <1>2 DEF OnCpu
<1>7. \A x \in Threads : x # t /\ x # w => pc'[x] = pc[x] /\ ret'[x] = ret[x]
  BY <1>2 DEF IInv, TypeOK
<1>8. pc'[t] = "unblock" /\ pc'[w] = "cleanup" /\ ret'[t] = "run" /\ ret'[w] = "run"
  BY <1>1, <1>2, <1>3 DEF IInv, TypeOK
<1>9. \A d \in Cpus : d # c => current[d] # t /\ current[d] # w
  BY <1>1, <1>3 DEF IInv, OneCpuPerThread, OnCpu
<1>11. TypeOK'
  <2>1. state' \in [Threads -> ThreadState]
    BY <1>2 DEF IInv, TypeOK, ThreadState
  <2>2. pc' \in [Threads -> Locations]
    BY <1>2 DEF IInv, TypeOK, Locations
  <2>3. ret' \in [Threads -> {"run", "idle", "hlt", "dying"}]
    BY <1>2 DEF IInv, TypeOK
  <2>4. target' \in [Threads -> Threads \cup {None}]
    BY <1>1, <1>2 DEF IInv, TypeOK
  <2>5. handle' \in [Threads -> Threads \cup {None}]
    BY <1>1, <1>2 DEF IInv, TypeOK
  <2>6. refCnt' \in [Threads -> Int]
    BY <1>2 DEF IInv, TypeOK
  <2> QED BY <1>2, <2>1, <2>2, <2>3, <2>4, <2>5, <2>6 DEF IInv, TypeOK
<1>12. OneCpuPerThread'
  BY <1>1, <1>2, <1>3, <1>4, <1>5, <1>6, <1>7, <1>8, <1>9 DEF IInv, OneCpuPerThread
<1>13. LockInv'
  BY <1>1, <1>2, <1>3, <1>7, <1>8, <1>9 DEF IInv, TypeOK, LockInv
<1>14. OffCpuInv'
  BY <1>1, <1>2, <1>3, <1>6, <1>7, <1>8 DEF IInv, TypeOK, OffCpuInv
<1>15. IdleInv'
  <2>1. \A x \in Threads : x # w => state'[x] = state[x]
    BY <1>2 DEF IInv, TypeOK
  <2>2. IdleThreads \subseteq Threads
    BY DEF IdleThreads, Range
  <2>3. \A x \in IdleThreads :
          /\ ~Pending(x)'
          /\ state'[x] = state[x] /\ pc'[x] = pc[x] /\ ret'[x] = ret[x]
    BY <1>3, <1>5, <1>7, <2>1, <2>2 DEF IInv, IdleInv
  <2>4. \A x \in Threads \ IdleThreads :
          pc'[x] \notin {"idle", "hlt"} /\ ret'[x] \notin {"idle", "hlt"}
    BY <1>7, <1>8 DEF IInv, IdleInv
  <2> QED BY <1>2, <2>3, <2>4 DEF IInv, IdleInv
<1>16. FlagsInv'
  BY <1>1, <1>2, <1>3, <1>4, <1>5, <1>6, <1>7, <1>8, <1>9 DEF IInv, TypeOK, FlagsInv
<1>17. ReadyListSound'
  BY <1>1, <1>2, <1>3, <1>4, <1>5, <1>6, <1>7, <1>8, <1>9 DEF IInv, TypeOK,
     ReadyListSound, OnCpu
<1>18. TargetInv'
  BY <1>1, <1>2, <1>3, <1>7, <1>8 DEF IInv, TypeOK, TargetInv, Pending
<1>19. WaitListInv'
  <2>1. \A x \in Threads : x # w => state'[x] = state[x]
    BY <1>2 DEF IInv, TypeOK
  <2>2. state'[w] = "Blocked" /\ Range(readyList') = Range(readyList)
    BY <1>2 DEF IInv, TypeOK
  <2>3. ~Pending(t)
    BY <1>1 DEF IInv, WaitListInv, StateInv
  <2> QED BY <1>3, <1>4, <1>5, <1>6, <1>7, <2>1, <2>2, <2>3 DEF IInv, WaitListInv
<1>20. BlockingInv'
  BY <1>1, <1>2, <1>5, <1>7, <1>8 DEF IInv, TypeOK, BlockingInv
<1>21. StateInv'
  BY <1>1, <1>2, <1>3, <1>6, <1>7, <1>8 DEF IInv, TypeOK, StateInv
<1>22. BlockLockInv'
  BY <1>1, <1>2, <1>7, <1>8, <1>9 DEF IInv, TypeOK, BlockLockInv
<1>23. UnblockInv'
  BY <1>1, <1>2, <1>3, <1>6, <1>7, <1>8, <1>9 DEF IInv, TypeOK, UnblockInv,
     WaitListInv, Pending, TargetInv
<1>24. OwnerInv'
  BY <1>1, <1>2, <1>3, <1>7, <1>8, <1>9 DEF IInv, TypeOK, OwnerInv,
     OneCpuPerThread, OnCpu, IdleThreads
<1>25. KnownInv'
  BY <1>1, <1>2, <1>3, <1>5, <1>6 DEF IInv, TypeOK, KnownInv
<1> QED
  BY <1>11, <1>12, <1>13, <1>14, <1>15, <1>16, <1>17, <1>18, <1>19, <1>20,
     <1>21, <1>22, <1>23, <1>24, <1>25 DEF IInv

(* The ASSERT of ThreadCleanupPostSchedule never fails.                    *)
LEMMA CleanupAsserts ==
    ASSUME IInv, NEW c \in Cpus, CleanupPrevious(c)
    PROVE  panic' = FALSE
<1> DEFINE p == previous[c]
<1>1. ~panic /\ pc[current[c]] = "release" /\ p \in Threads \cup {None}
  BY DEF CleanupPrevious, At, IInv, TypeOK
<1>2. CASE p # None /\ blockLock[p] = c
  <2>1. p \in Threads
    BY <1>1, <1>2
  <2>2. state[p] = "Blocked" \/ p = Idle[c]
    BY <1>1, <1>2, <2>1, SchedulerAssumption DEF IInv, OwnerInv
  <2> QED BY <1>2, <2>2 DEF CleanupPrevious
<1>3. CASE ~(p # None /\ blockLock[p] = c)
  BY <1>1, <1>3 DEF CleanupPrevious, IInv, TypeOK
<1> QED BY <1>2, <1>3

(* The unlocked part of ThreadCleanupPostSchedule releases a BlockLock     *)
(* only of the thread this CPU has just switched away from.                *)
LEMMA CleanupPreviousInv ==
    ASSUME IInv, NEW c \in Cpus, CleanupPrevious(c)
    PROVE  IInv'
<1> USE SchedulerAssumption
<1> DEFINE t == current[c]
           p == previous[c]
<1>1. /\ t \in Threads /\ p \in Threads \cup {None}
      /\ OnCpu(t)
      /\ pc[t] = "release"
      /\ ~panic
  BY DEF IInv, TypeOK, OnCpu, CleanupPrevious, At
<1>2. /\ pc' = [pc EXCEPT ![t] = ret[t]]
      /\ UNCHANGED <<state, flags, handle, readyList, readyLock, current,
                     waiters, target, ret>>
  BY DEF CleanupPrevious, Goto, localVars
<1>3. \/ /\ p # None /\ blockLock[p] = c
         /\ blockLock' = [blockLock EXCEPT ![p] = None]
      \/ /\ p = None \/ blockLock[p] # c
         /\ blockLock' = blockLock
  BY DEF CleanupPrevious
<1>4. panic' = FALSE
  BY CleanupAsserts
<1>5. /\ refCnt' \in [Threads -> Int]
      /\ destroyed' \in SUBSET Threads
      /\ previous' \in [Cpus -> Threads \cup {None}]
      /\ previous' \in {previous, [previous EXCEPT ![c] = None]}
  <2>1. \/ UNCHANGED <<refCnt, destroyed, previous>>
        \/ /\ p \in Threads
           /\ refCnt' = [refCnt EXCEPT ![p] = @ - 1]
           /\ destroyed' = IF refCnt[p] = 1 THEN destroyed \cup {p} ELSE destroyed
           /\ previous' = [previous EXCEPT ![c] = None]
    BY <1>1 DEF CleanupPrevious, ThreadDereference
  <2>2. CASE UNCHANGED <<refCnt, destroyed, previous>>
    BY <2>2 DEF IInv, TypeOK
  <2>3. CASE ~UNCHANGED <<refCnt, destroyed, previous>>
    <3>1. refCnt' \in [Threads -> Int]
      BY <2>1, <2>3 DEF IInv, TypeOK
    <3>2. destroyed' \in SUBSET Threads
      BY <2>1, <2>3 DEF IInv, TypeOK
    <3>3. previous' = [previous EXCEPT ![c] = None]
      BY <2>1, <2>3
    <3>4. previous' \in [Cpus -> Threads \cup {None}]
      BY <3>3 DEF IInv, TypeOK
    <3> QED BY <3>1, <3>2, <3>3, <3>4
  <2> QED BY <2>2, <2>3
<1>6. /\ state[t] # "Dying"
      /\ ret[t] \in {"run", "idle", "hlt"}
      /\ t \in IdleThreads <=> ret[t] \in {"idle", "hlt"}
  BY <1>1 DEF IInv, TypeOK, StateInv, IdleInv
<1>7. \A x \in Threads : OnCpu(x)' <=> OnCpu(x)
  BY <1>2 DEF OnCpu
<1>8. \A x \in Threads : Pending(x)' <=> Pending(x)
  BY <1>2 DEF Pending
<1>9. /\ \A x \in Threads : x # t => pc'[x] = pc[x]
      /\ pc'[t] = ret[t]
      /\ \A d \in Cpus : d # c => current[d] # t
  BY <1>1, <1>2 DEF IInv, TypeOK, OneCpuPerThread
<1>11. TypeOK'
  BY <1>1, <1>2, <1>3, <1>4, <1>5, <1>6 DEF IInv, TypeOK, Locations
<1>12. OneCpuPerThread'
  BY <1>2 DEF IInv, OneCpuPerThread
<1>13. LockInv'
  BY <1>1, <1>2, <1>6, <1>9 DEF IInv, TypeOK, LockInv
<1>14. OffCpuInv'
  BY <1>1, <1>2, <1>6, <1>7, <1>9 DEF IInv, OffCpuInv
<1>15. IdleInv'
  <2>1. IdleThreads \subseteq Threads
    BY DEF IdleThreads, Range
  <2>2. \A a, d \in Cpus : previous'[d] = Idle[a] => d = a
    BY <1>5 DEF IInv, TypeOK, IdleInv
  <2> QED BY <1>1, <1>2, <1>6, <1>8, <1>9, <2>1, <2>2 DEF IInv, IdleInv
<1>16. FlagsInv'
  BY <1>2 DEF IInv, FlagsInv
<1>17. ReadyListSound'
  BY <1>1, <1>2 DEF IInv, TypeOK, ReadyListSound, OnCpu
<1>18. TargetInv'
  BY <1>1, <1>2, <1>6, <1>9 DEF IInv, TargetInv
<1>19. WaitListInv'
  BY <1>1, <1>2, <1>6, <1>7, <1>8, <1>9 DEF IInv, WaitListInv
<1>20. BlockingInv'
  BY <1>1, <1>2, <1>6, <1>8, <1>9 DEF IInv, BlockingInv
<1>21. StateInv'
  BY <1>1, <1>2, <1>6, <1>7, <1>9 DEF IInv, StateInv
<1>22. BlockLockInv'
  BY <1>1, <1>2, <1>3, <1>6, <1>9 DEF IInv, TypeOK, BlockLockInv
<1>23. UnblockInv'
  <2> SUFFICES ASSUME NEW d \in Cpus, pc'[current[d]] = "unblockready"
               PROVE  /\ blockLock'[target[current[d]]] = d
                      /\ state[target[current[d]]] = "Blocked"
                      /\ ~OnCpu(target[current[d]])'
    BY <1>2 DEF UnblockInv
  <2>1. d # c /\ current[d] \in Threads /\ pc[current[d]] = "unblockready"
    BY <1>6, <1>9 DEF IInv, TypeOK
  <2>2. /\ target[current[d]] \in Threads
        /\ blockLock[target[current[d]]] = d
        /\ state[target[current[d]]] = "Blocked"
        /\ ~OnCpu(target[current[d]])
    BY <1>1, <2>1 DEF IInv, TypeOK, TargetInv, UnblockInv
  <2>3. ~OnCpu(target[current[d]])'
    BY <1>2, <2>2 DEF OnCpu
  <2> QED BY <1>1, <1>3, <2>1, <2>2, <2>3 DEF IInv, TypeOK
<1>24. OwnerInv'
  <2> SUFFICES ASSUME NEW x \in Threads, NEW d \in Cpus, blockLock'[x] = d
               PROVE  \/ current[d] = x /\ pc'[x] \in {"block", "blocklock", "exit"}
                      \/ pc'[current[d]] = "unblockready" /\ target[current[d]] = x
                      \/ /\ pc'[current[d]] \in {"cleanup", "release"}
                         /\ previous'[d] = x
                         /\ state[x] = "Blocked" \/ x = Idle[d]
    BY <1>2 DEF OwnerInv
  <2>1. blockLock[x] = d /\ (x # p \/ blockLock[p] # c)
    BY <1>1, <1>3 DEF IInv, TypeOK
  <2>2. d # c
    BY <1>1, <2>1 DEF IInv, OwnerInv
  <2>3. current[d] \in Threads /\ current[d] # t /\ previous'[d] = previous[d]
    BY <1>5, <1>9, <2>2 DEF IInv, TypeOK
  <2> QED BY <1>1, <1>9, <2>1, <2>2, <2>3 DEF IInv, OwnerInv
<1>25. KnownInv'
  BY <1>2, <1>7, <1>8 DEF IInv, KnownInv
<1> QED
  BY <1>11, <1>12, <1>13, <1>14, <1>15, <1>16, <1>17, <1>18, <1>19, <1>20,
     <1>21, <1>22, <1>23, <1>24, <1>25 DEF IInv

(* _ThreadSchedule, for its three callers: the thread it picks is on no    *)
(* other CPU, and the thread it leaves is ready, known as a waiter, or     *)
(* dead.                                                                   *)
LEMMA SwitchInv ==
    ASSUME IInv, NEW c \in Cpus,
           ~panic, pc[current[c]] \in {"yieldlock", "blocklock", "dying"},
           ThreadSchedule(c, IF pc[current[c]] = "yieldlock" /\ current[c] # Idle[c]
                             THEN Append(readyList, current[c]) ELSE readyList),
           state' = IF pc[current[c]] = "yieldlock"
                    THEN [state EXCEPT ![current[c]] = "Ready"] ELSE state,
           UNCHANGED <<flags, blockLock, threadVars, waiters, localVars, panic>>
    PROVE  IInv'
<1> USE SchedulerAssumption
<1> DEFINE t == current[c]
           n == current'[c]
           rl == IF pc[t] = "yieldlock" /\ t # Idle[c]
                 THEN Append(readyList, t) ELSE readyList
<1>1. /\ t \in Threads /\ OnCpu(t)
      /\ pc[t] \in {"yieldlock", "blocklock", "dying"}
      /\ readyLock = None /\ readyLock' = c
      /\ previous' = [previous EXCEPT ![c] = t]
      /\ pc' = [pc EXCEPT ![t] = "cleanup"]
      /\ UNCHANGED <<flags, blockLock, refCnt, destroyed, handle, waiters,
                     target, ret, panic>>
  BY DEF IInv, TypeOK, OnCpu, ThreadSchedule, ThreadGetReadyThread, Goto, threadVars, localVars
<1>2. /\ \A x \in Threads : x # t => state'[x] = state[x] /\ pc'[x] = pc[x]
      /\ state'[t] = IF pc[t] = "yieldlock" THEN "Ready" ELSE state[t]
      /\ state' \in [Threads -> ThreadState]
      /\ pc'[t] = "cleanup"
  BY <1>1 DEF IInv, TypeOK, ThreadState
<1>3. /\ IdleThreads \subseteq Threads
      /\ \A d \in Cpus : Idle[d] \in IdleThreads
      /\ t \in IdleThreads => t = Idle[c]
      /\ t \in IdleThreads => pc[t] # "dying"
  BY <1>1 DEF IInv, IdleInv, IdleThreads, Range
<1>4. /\ readyList \in Seq(Threads) /\ IsInjective(readyList)
      /\ t \notin Range(readyList)
  BY <1>1, ReadyFacts DEF IInv, TypeOK, ReadyListSound, IsInjective
<1>5. /\ rl \in Seq(Threads) /\ IsInjective(rl)
      /\ Range(rl) = IF pc[t] = "yieldlock" /\ t # Idle[c]
                     THEN Range(readyList) \cup {t} ELSE Range(readyList)
  BY <1>1, <1>4, AppendFacts
<1>6. /\ readyList' = IF rl = <<>> THEN rl ELSE Tail(rl)
      /\ current' = [current EXCEPT ![c] = IF rl = <<>> THEN Idle[c] ELSE Head(rl)]
      /\ n = IF rl = <<>> THEN Idle[c] ELSE Head(rl)
  BY DEF ThreadSchedule, ThreadGetReadyThread, IInv, TypeOK
<1> HIDE DEF rl
<1>7. /\ n \in Threads
      /\ readyList' \in Seq(Threads) /\ IsInjective(readyList')
      /\ n \notin Range(readyList')
      /\ \/ n = Idle[c] /\ Range(rl) = {} /\ Range(readyList') = {}
         \/ Range(rl) = Range(readyList') \cup {n}
  <2>1. CASE rl = <<>>
    BY <1>3, <1>5, <1>6, <2>1 DEF Range
  <2>2. CASE rl # <<>>
    BY <1>5, <1>6, <2>2, TailFacts
  <2> QED BY <2>1, <2>2
<1>8. \A x \in Range(rl) : /\ x \in Threads \ IdleThreads
                           /\ state'[x] = "Ready"
                           /\ pc'[x] = "cleanup"
                           /\ x = t \/ ~OnCpu(x)
                           /\ x = t => pc[t] = "yieldlock"
  <2>1. \A x \in Range(readyList) : x \in Threads /\ x # t
    BY <1>4 DEF Range
  <2> QED BY <1>1, <1>2, <1>3, <1>5, <2>1, ReadyFacts
<1>9. /\ n = t \/ ~OnCpu(n)
      /\ n = Idle[c] \/ n \in Range(rl)
      /\ n = t => pc[t] = "yieldlock" \/ n = Idle[c]
      /\ pc'[n] = "cleanup"
      /\ state'[n] = "Ready" \/ n = Idle[c]
  <2>1. CASE n \in Range(rl)
    BY <1>8, <2>1
  <2>2. CASE n = Idle[c]
    <3>1. n = t \/ ~OnCpu(n)
      BY <2>2 DEF IInv, IdleInv, OnCpu
    <3>2. pc'[n] = "cleanup"
      BY <1>2, <1>3, <1>7, <2>2, <3>1 DEF IInv, IdleInv, OffCpuInv
    <3> QED BY <2>2, <3>1, <3>2
  <2> QED BY <1>7, <2>1, <2>2
<1>10. /\ \A d \in Cpus : d # c => current'[d] = current[d] /\ current[d] # t /\ current[d] # n
       /\ \A x \in Threads : OnCpu(x)' <=> x = n \/ (x # t /\ OnCpu(x))
  <2>1. \A d \in Cpus : d # c => current'[d] = current[d] /\ current[d] # t
    BY <1>6 DEF IInv, TypeOK, OneCpuPerThread
  <2>2. \A d \in Cpus : d # c => current[d] # n
    BY <1>9, <2>1 DEF OnCpu
  <2> QED BY <2>1, <2>2 DEF OnCpu
<1>11. /\ t \in IdleThreads \/ pc[t] = "blocklock" \/ ~Pending(t) \/ pc[t] = "dying"
       /\ \A x \in Threads : Pending(x)' <=> Pending(x)
       /\ \A x \in Threads : Pending(x) => x \notin Range(rl) /\ x # n
  <2>1. pc[t] = "yieldlock" => ~Pending(t)
    BY <1>1 DEF IInv, WaitListInv, StateInv
  <2>2. \A x \in Threads : Pending(x)' <=> Pending(x)
    BY <1>1 DEF Pending
  <2>3. \A x \in Threads : Pending(x) => x \notin Range(rl) /\ x \notin IdleThreads
    BY <1>5, <2>1 DEF IInv, WaitListInv, IdleInv
  <2> QED BY <1>1, <1>3, <1>9, <2>1, <2>2, <2>3
<1> HIDE DEF n
<1>21. TypeOK'
  BY <1>1, <1>2, <1>6, <1>7 DEF IInv, TypeOK, Locations, n
<1>22. OneCpuPerThread'
  BY <1>10 DEF IInv, OneCpuPerThread, n
<1>23. LockInv'
  BY <1>1, <1>2, <1>9, <1>10 DEF IInv, TypeOK, LockInv, n
<1>24. OffCpuInv'
  BY <1>1, <1>2, <1>9, <1>10 DEF IInv, OffCpuInv, StateInv
<1>25. IdleInv'
  <2>1. \A a, d \in Cpus : current'[d] = Idle[a] => d = a
    BY <1>3, <1>8, <1>9, <1>10 DEF IInv, IdleInv, n
  <2>3. \A a, d \in Cpus : previous'[d] = Idle[a] => d = a
    BY <1>1 DEF IInv, TypeOK, IdleInv
  <2>2. \A x \in IdleThreads : /\ ~Pending(x)'
                               /\ state'[x] \notin {"None", "Dying"}
                               /\ pc'[x] = "cleanup" \/ pc'[x] = pc[x]
    BY <1>1, <1>2, <1>3, <1>11 DEF IInv, IdleInv
  <2> QED BY <1>1, <1>2, <2>1, <2>2, <2>3 DEF IInv, IdleInv
<1>26. FlagsInv'
  BY <1>1 DEF IInv, FlagsInv
<1>27. ReadyListSound'
  <2>1. \A x \in Range(readyList') : /\ state'[x] = "Ready" /\ pc'[x] = "cleanup"
                                     /\ ~OnCpu(x)' /\ x \notin IdleThreads
    BY <1>7, <1>8, <1>10
  <2> QED BY <1>7, <2>1 DEF ReadyListSound, IsInjective, Range
<1>28. TargetInv'
  BY <1>1, <1>2 DEF IInv, TargetInv
<1>29. WaitListInv'
  BY <1>1, <1>2, <1>7, <1>10, <1>11 DEF IInv, WaitListInv
<1>30. BlockingInv'
  BY <1>1, <1>2, <1>11 DEF IInv, BlockingInv
<1>31. StateInv'
  BY <1>1, <1>2, <1>3, <1>9, <1>10 DEF IInv, StateInv, IdleInv
<1>32. BlockLockInv'
  <2> SUFFICES ASSUME NEW d \in Cpus, pc'[current'[d]] \in {"block", "blocklock"}
               PROVE  blockLock[current'[d]] = d
    BY <1>1 DEF BlockLockInv
  <2>1. d # c /\ current'[d] = current[d] /\ current[d] # t /\ current[d] \in Threads
    BY <1>9, <1>10 DEF n, IInv, TypeOK
  <2> QED BY <1>2, <2>1 DEF IInv, BlockLockInv
<1>33. UnblockInv'
  <2> SUFFICES ASSUME NEW d \in Cpus, pc'[current'[d]] = "unblockready"
               PROVE  /\ blockLock'[target'[current'[d]]] = d
                      /\ state'[target'[current'[d]]] = "Blocked"
                      /\ ~OnCpu(target[current[d]])'
    BY DEF UnblockInv
  <2>1. d # c /\ current'[d] = current[d] /\ current[d] # t /\ current[d] \in Threads
    BY <1>9, <1>10 DEF n, IInv, TypeOK
  <2>2. pc[current[d]] = "unblockready" /\ target[current[d]] \in Threads
    BY <1>1, <1>2, <2>1 DEF IInv, TypeOK, TargetInv
  <2>3. Pending(target[current[d]])
    BY <2>1, <2>2 DEF Pending
  <2>4. /\ blockLock[target[current[d]]] = d
        /\ state[target[current[d]]] = "Blocked"
        /\ ~OnCpu(target[current[d]])
        /\ target[current[d]] # t
    BY <1>1, <2>2 DEF IInv, UnblockInv
  <2>5. ~OnCpu(target[current[d]])'
    <3>1. \A w \in Threads : w # n /\ ~OnCpu(w) => ~OnCpu(w)'
      BY <1>10
    <3>2. (target[current[d]])' = target[current[d]]
      BY <1>1, <2>1
    <3> QED BY <1>11, <2>2, <2>3, <2>4, <3>1, <3>2 DEF OnCpu
  <2> QED BY <1>1, <1>2, <2>1, <2>2, <2>4, <2>5
<1>34. OwnerInv'
  <2> SUFFICES ASSUME NEW x \in Threads, NEW d \in Cpus, blockLock[x] = d
               PROVE  \/ current'[d] = x /\ pc'[x] \in {"block", "blocklock", "exit"}
                      \/ pc'[current'[d]] = "unblockready" /\ target'[current'[d]] = x
                      \/ /\ pc'[current'[d]] \in {"cleanup", "release"}
                         /\ previous'[d] = x
                         /\ state'[x] = "Blocked" \/ x = Idle[d]
    BY <1>1 DEF OwnerInv
  <2>1. CASE d = c
    <3>1. x = t /\ pc[t] = "blocklock"
      BY <1>1, <2>1 DEF IInv, OwnerInv
    <3> QED BY <1>1, <1>2, <1>9, <2>1, <3>1 DEF n, IInv, TypeOK, StateInv
  <2>2. CASE d # c
    <3>1. current'[d] = current[d] /\ current[d] # t /\ current[d] \in Threads /\ previous'[d] = previous[d]
      BY <1>1, <1>10, <2>2 DEF IInv, TypeOK
    <3>2. pc'[current'[d]] = pc[current[d]]
      BY <1>2, <3>1
    <3>3. previous[d] = x /\ state[x] = "Blocked" => state'[x] = "Blocked" \/ x = Idle[d]
      BY <1>1, <1>2, <1>3, <2>2 DEF IInv, StateInv, IdleInv
    <3> QED BY <1>1, <1>2, <2>2, <3>1, <3>2, <3>3 DEF IInv, OwnerInv
  <2> QED BY <2>1, <2>2
<1>35. KnownInv'
  <2> SUFFICES ASSUME NEW x \in Threads, ~OnCpu(x)', x \notin IdleThreads,
                      x \notin Range(readyList'), state'[x] \notin {"None", "Dying"}
               PROVE  state'[x] = "Blocked" /\ Pending(x)'
    BY DEF KnownInv
  <2>1. x # n /\ x \notin Range(rl)
    BY <1>7, <1>10
  <2>2. CASE x = t
    BY <1>1, <1>2, <1>3, <1>5, <1>11, <2>1, <2>2 DEF IInv, StateInv, BlockingInv
  <2>3. CASE x # t
    BY <1>1, <1>2, <1>5, <1>10, <1>11, <2>1, <2>3 DEF IInv, KnownInv
  <2> QED BY <2>2, <2>3
<1> QED
  BY <1>21, <1>22, <1>23, <1>24, <1>25, <1>26, <1>27, <1>28, <1>29, <1>30,
     <1>31, <1>32, <1>33, <1>34, <1>35 DEF IInv

(* ThreadYield hands the CPU over.                                         *)
LEMMA ThreadYieldSwitchInv ==
    ASSUME IInv, NEW c \in Cpus, ThreadYieldSwitch(c)
    PROVE  IInv'
<1>1. /\ ~panic /\ pc[current[c]] = "yieldlock"
      /\ state' = [state EXCEPT ![current[c]] = "Ready"]
      /\ ThreadSchedule(c, IF current[c] # Idle[c] THEN Append(readyList, current[c]) ELSE readyList)
      /\ UNCHANGED <<flags, blockLock, threadVars, waiters, localVars, panic>>
  BY DEF ThreadYieldSwitch, At, ThreadSchedule, ThreadGetReadyThread
<1> QED BY <1>1, SwitchInv

(* ThreadBlock hands the CPU over.                                         *)
LEMMA ThreadBlockSwitchInv ==
    ASSUME IInv, NEW c \in Cpus, ThreadBlockSwitch(c)
    PROVE  IInv'
<1>1. /\ ~panic /\ pc[current[c]] = "blocklock"
      /\ ThreadSchedule(c, readyList)
      /\ UNCHANGED <<state, flags, blockLock, threadVars, waiters, localVars, panic>>
  BY DEF ThreadBlockSwitch, At
<1> QED BY <1>1, SwitchInv

(* ThreadExit hands the CPU over.                                          *)
LEMMA ThreadExitSwitchInv ==
    ASSUME IInv, NEW c \in Cpus, ThreadExitSwitch(c)
    PROVE  IInv'
<1>1. /\ ~panic /\ pc[current[c]] = "dying"
      /\ ThreadSchedule(c, readyList)
      /\ UNCHANGED <<state, flags, blockLock, threadVars, waiters, localVars, panic>>
  BY DEF ThreadExitSwitch, At
<1> QED BY <1>1, SwitchInv

-----------------------------------------------------------------------------
(* The boot state satisfies the invariant.                                 *)
LEMMA InitInv == Init => IInv
<1> SUFFICES ASSUME Init PROVE IInv
  OBVIOUS
<1> USE SchedulerAssumption
<1>1. IdleThreads \subseteq Threads /\ MainThreads \subseteq Threads
  BY DEF IdleThreads, MainThreads, Range
<1>2. IdleThreads \cap MainThreads = {}
  BY DEF IdleThreads, MainThreads, Range
<1>3. /\ \A t \in Threads : OnCpu(t) <=> t \in MainThreads
      /\ \A c \in Cpus : current[c] \in MainThreads /\ Idle[c] \in IdleThreads
  BY DEF Init, OnCpu, MainThreads, IdleThreads, Range
<1>4. \A t \in Threads : ~Pending(t)
  BY DEF Init, Pending
<1>5. TypeOK
  <2>1. state \in [Threads -> ThreadState]
    BY DEF Init, ThreadState
  <2>2. pc \in [Threads -> Locations]
    BY DEF Init, Locations
  <2>3. ret \in [Threads -> {"run", "idle", "hlt", "dying"}]
    BY DEF Init
  <2>4. refCnt \in [Threads -> Int] /\ flags \in [Threads -> SUBSET {PENDING, TERMINATED}]
    BY DEF Init
  <2>5. /\ blockLock \in [Threads -> Cpus \cup {None}]
        /\ handle \in [Threads -> Threads \cup {None}]
        /\ target \in [Threads -> Threads \cup {None}]
        /\ previous \in [Cpus -> Threads \cup {None}]
        /\ current \in [Cpus -> Threads]
    BY DEF Init
  <2>6. /\ destroyed \in SUBSET Threads
        /\ readyList \in Seq(Threads)
        /\ readyLock \in Cpus \cup {None}
        /\ waiters \in SUBSET Threads
    BY DEF Init
  <2>7. panic \in BOOLEAN
    BY DEF Init
  <2> QED BY <2>1, <2>2, <2>3, <2>4, <2>5, <2>6, <2>7 DEF TypeOK
<1>6. OneCpuPerThread
  BY DEF Init, OneCpuPerThread
<1>7. LockInv
  <2>1. \A c \in Cpus : pc[current[c]] = "run"
    <3>1. \A x \in MainThreads : pc[x] = "run"
      BY <1>1, <1>2 DEF Init
    <3> QED BY <1>3, <3>1
  <2> QED BY <2>1 DEF Init, LockInv
<1>8. OffCpuInv
  BY <1>2, <1>3 DEF Init, OffCpuInv
<1>9. IdleInv
  BY <1>1, <1>2, <1>3, <1>4 DEF Init, IdleInv
<1>10. ReadyListSound
  BY DEF Init, ReadyListSound
<1>11. FlagsInv /\ TargetInv /\ WaitListInv /\ BlockingInv
  BY <1>1, <1>2, <1>4 DEF Init, FlagsInv, TargetInv, WaitListInv, BlockingInv
<1>12. StateInv
  BY <1>1, <1>2, <1>3 DEF Init, StateInv
<1>13. BlockLockInv /\ UnblockInv /\ OwnerInv
  BY <1>1, <1>3 DEF Init, BlockLockInv, UnblockInv, OwnerInv
<1>14. KnownInv
  BY <1>3 DEF Init, KnownInv
<1> QED
  BY <1>5, <1>6, <1>7, <1>8, <1>9, <1>10, <1>11, <1>12, <1>13, <1>14 DEF IInv

(* Every step preserves the invariant.                                     *)
LEMMA NextInv == IInv /\ [Next]_vars => IInv'
<1> SUFFICES ASSUME IInv, [Next]_vars PROVE IInv'
  OBVIOUS
<1>1. CASE UNCHANGED vars
  BY <1>1 DEF vars, IInv, TypeOK, OneCpuPerThread, LockInv, OffCpuInv, IdleInv,
     FlagsInv, ReadyListSound, TargetInv, WaitListInv, BlockingInv, StateInv,
     BlockLockInv, UnblockInv, OwnerInv, KnownInv, OnCpu, Pending
<1>2. ASSUME NEW c \in Cpus, CpuStep(c) PROVE IInv'
  <2>1. CASE \E w \in Threads : \/ ClientWake(c, w) \/ ThreadCreateEx(c, w)
                                \/ ThreadCloseHandle(c, w) \/ ThreadTerminate(c, w)
    BY <2>1, ClientWakeInv, ThreadCreateExInv, ThreadCloseHandleInv,
       ThreadTerminateInv
  <2>2. CASE \/ ThreadTick(c) \/ ThreadYield(c) \/ ThreadYieldSwitch(c)
             \/ ClientWait(c) \/ IdleThread(c)
    BY <2>2, ThreadTickInv, ThreadYieldInv, ThreadYieldSwitchInv, ClientWaitInv,
       IdleThreadInv
  <2>3. CASE \/ ThreadBlock(c) \/ ThreadBlockSwitch(c) \/ ThreadUnblock(c)
             \/ ThreadUnblockReady(c)
    BY <2>3, ThreadBlockInv, ThreadBlockSwitchInv, ThreadUnblockInv,
       ThreadUnblockReadyInv
  <2>4. CASE \/ ThreadExit(c) \/ ThreadExitSwitch(c)
             \/ ThreadCleanupPostSchedule(c) \/ CleanupPrevious(c)
    BY <2>4, ThreadExitInv, ThreadExitSwitchInv, ThreadCleanupPostScheduleInv,
       CleanupPreviousInv
  <2> QED BY <1>2, <2>1, <2>2, <2>3, <2>4 DEF CpuStep
<1> QED BY <1>1, <1>2 DEF Next

(* The inductive invariant holds throughout, for any number of CPUs and    *)
(* threads, forced termination included.                                   *)
THEOREM Invariance == Spec => []IInv
  BY InitInv, NextInv, PTL DEF Spec

(* Type correctness of the scheduler state.                                *)
THEOREM TypeCorrect == Spec => []TypeOK
<1>1. IInv => TypeOK
  BY DEF IInv
<1> QED BY <1>1, Invariance, PTL

(* BlockLock does its work: _ThreadSchedule never resumes a thread on one  *)
(* CPU while another CPU still executes on its stack.                      *)
THEOREM SingleCpu == Spec => []OneCpuPerThread
<1>1. IInv => OneCpuPerThread
  BY DEF IInv
<1> QED BY <1>1, Invariance, PTL

(* Every thread _ThreadGetReadyThread can take off ReadyThreadsList is     *)
(* Ready, saved, listed once, on no CPU and not an idle thread.            *)
THEOREM ReadyListCorrect == Spec => []ReadyListSound
<1>1. IInv => ReadyListSound
  BY DEF IInv
<1> QED BY <1>1, Invariance, PTL

(* ThreadBlock and ThreadUnblock lose no thread: one that is not running,  *)
(* ready, dead or idle is known to a wait list or to a ThreadUnblock.      *)
THEOREM NothingLost == Spec => []NoThreadLost
<1>1. IInv => NoThreadLost
  <2> SUFFICES ASSUME IInv, NEW t \in Threads, Pending(t), t \notin waiters
               PROVE  \E u \in Threads : OnCpu(u) /\ target[u] = t
    BY DEF IInv, KnownInv, NoThreadLost
  <2>1. PICK u \in Threads : target[u] = t
    BY DEF Pending
  <2>2. OnCpu(u)
    BY <2>1, SchedulerAssumption DEF IInv, TypeOK, TargetInv, OffCpuInv
  <2> QED BY <2>1, <2>2
<1> QED BY <1>1, Invariance, PTL

(* ThreadExit is final: no step takes a thread out of ThreadStateDying.    *)
THEOREM DyingFinal == Spec => DyingIsFinal
<1>1. ASSUME IInv, [Next]_vars
      PROVE  [\A t \in Threads : state[t] = "Dying" => state'[t] = "Dying"]_vars
  <2> SUFFICES ASSUME NEW c \in Cpus, CpuStep(c), NEW t \in Threads, state[t] = "Dying"
               PROVE  state'[t] = "Dying"
    BY <1>1 DEF Next
  <2>1. current[c] = t => pc[t] \in {"dying", "unblock", "unblockready"}
    BY <1>1 DEF IInv, StateInv, OnCpu
  <2>2. CASE state' = state
    BY <2>2
  <2>3. CASE ThreadYieldSwitch(c) \/ ThreadBlock(c) \/ ThreadExit(c)
    BY <1>1, <2>1, <2>3 DEF ThreadYieldSwitch, ThreadBlock, ThreadExit, At,
       IInv, TypeOK
  <2>4. CASE ThreadUnblockReady(c)
    <3>1. state[target[current[c]]] = "Blocked"
      BY <1>1, <2>4 DEF ThreadUnblockReady, At, IInv, UnblockInv
    <3> QED BY <1>1, <2>4, <3>1 DEF ThreadUnblockReady, IInv, TypeOK
  <2>5. CASE \E w \in Threads : ThreadCreateEx(c, w)
    BY <1>1, <2>5 DEF ThreadCreateEx, IInv, TypeOK
  <2> QED
    BY <2>2, <2>3, <2>4, <2>5 DEF CpuStep, ThreadTick, ThreadYield, ClientWait,
       IdleThread, ThreadBlockSwitch, ThreadUnblock, ThreadExitSwitch, ClientWake,
       ThreadCleanupPostSchedule, CleanupPrevious, ThreadCloseHandle, ThreadTerminate
<1> QED BY <1>1, Invariance, PTL DEF Spec, DyingIsFinal

-----------------------------------------------------------------------------
(* Without forced termination: no ASSERT has failed, and a waiting thread  *)
(* is Blocked or about to be.                                              *)
Unforced ==
    /\ NoPanic
    /\ \A t \in Threads :
          /\ pc[t] # "exit"
          /\ Pending(t) => state[t] = "Blocked" \/ (OnCpu(t) /\ pc[t] = "block")

(* Without forced termination a waiting thread is Blocked, or still owns   *)
(* its BlockLock on its way there, so ThreadUnblock finds it Blocked.      *)
LEMMA UnforcedStep ==
    ASSUME UserThreads = {}, IInv, Unforced, [Next]_vars
    PROVE  Unforced'
<1> USE SchedulerAssumption
<1>1. CASE UNCHANGED vars
  BY <1>1 DEF vars, Unforced, NoPanic, OnCpu, Pending
<1>2. ASSUME NEW c \in Cpus, CpuStep(c) PROVE Unforced'
  <2> DEFINE t == current[c]
  <2>1. /\ t \in Threads /\ OnCpu(t) /\ ~panic
        /\ \A x \in Threads : flags[x] # {PENDING}
        /\ Pending(t) => pc[t] \in {"block", "blocklock"}
    <3>1. t \in Threads /\ OnCpu(t) /\ ~panic
      BY DEF IInv, TypeOK, OnCpu, Unforced, NoPanic
    <3>2. \A x \in Threads : flags[x] # {PENDING}
      BY DEF IInv, FlagsInv
    <3>3. Pending(t) => pc[t] \in {"block", "blocklock"}
      BY <3>1 DEF IInv, Unforced, StateInv, IdleInv
    <3> QED BY <3>1, <3>2, <3>3
  <2>2. CASE ThreadTick(c) \/ ThreadCleanupPostSchedule(c)
    BY <2>1, <2>2 DEF ThreadTick, ThreadCleanupPostSchedule, At, Goto, Unforced,
       NoPanic, OnCpu, Pending, IInv, TypeOK, localVars
  <2>3. CASE ThreadYield(c)
    BY <2>1, <2>3 DEF ThreadYield, At, Goto, Unforced, NoPanic, OnCpu, Pending, IInv,
       TypeOK, localVars
  <2>4. CASE ThreadYieldSwitch(c)
    <3>1. /\ pc[t] = "yieldlock"
          /\ pc' = [pc EXCEPT ![t] = "cleanup"]
          /\ state' = [state EXCEPT ![t] = "Ready"]
          /\ UNCHANGED <<waiters, target, panic>>
      BY <2>4 DEF ThreadYieldSwitch, ThreadSchedule, ThreadGetReadyThread, At, Goto, localVars
    <3>2. \A x \in Threads : x # t /\ OnCpu(x) => OnCpu(x)'
      BY <2>4 DEF ThreadYieldSwitch, ThreadSchedule, ThreadGetReadyThread, OnCpu, IInv, TypeOK
    <3> QED BY <2>1, <3>1, <3>2 DEF Unforced, NoPanic, Pending, IInv, TypeOK
  <2>5. CASE ThreadBlockSwitch(c) \/ ThreadExitSwitch(c)
    <3>1. /\ pc[t] \in {"blocklock", "dying"}
          /\ pc' = [pc EXCEPT ![t] = "cleanup"]
          /\ UNCHANGED <<state, waiters, target, panic>>
      BY <2>5 DEF ThreadBlockSwitch, ThreadExitSwitch, ThreadSchedule, ThreadGetReadyThread, At, Goto,
         localVars
    <3>2. \A x \in Threads : x # t /\ OnCpu(x) => OnCpu(x)'
      BY <2>5 DEF ThreadBlockSwitch, ThreadExitSwitch, ThreadSchedule, ThreadGetReadyThread, OnCpu,
         IInv, TypeOK
    <3> QED BY <2>1, <3>1, <3>2 DEF Unforced, NoPanic, Pending, IInv, TypeOK
  <2>6. CASE ClientWait(c) \/ IdleThread(c)
    BY <2>1, <2>6 DEF ClientWait, IdleThread, At, Goto, Unforced, NoPanic, OnCpu,
       Pending, IInv, TypeOK
  <2>7. CASE ThreadBlock(c)
    <3>1. /\ pc' = [pc EXCEPT ![t] = "blocklock"]
          /\ state' = [state EXCEPT ![t] = "Blocked"]
          /\ UNCHANGED <<current, waiters, target, panic>>
      BY <2>1, <2>7 DEF ThreadBlock, Goto, localVars
    <3> QED BY <2>1, <3>1 DEF Unforced, NoPanic, OnCpu, Pending, IInv, TypeOK
  <2>8. CASE ThreadUnblock(c)
    <3>1. /\ pc[t] = "unblock" /\ blockLock[target[t]] = None
          /\ panic' = (state[target[t]] # "Blocked")
          /\ pc' = [pc EXCEPT ![t] = "unblockready"]
          /\ UNCHANGED <<state, current, waiters, target>>
      BY <2>8 DEF ThreadUnblock, At, Goto, localVars
    <3>2. target[t] \in Threads /\ Pending(target[t])
      BY <2>1, <3>1 DEF IInv, TypeOK, TargetInv, Pending
    <3>3. state[target[t]] = "Blocked"
      BY <3>1, <3>2 DEF Unforced, IInv, BlockLockInv, OnCpu
    <3>4. ~panic'
      BY <3>1, <3>3
    <3> QED BY <2>1, <3>1, <3>4 DEF Unforced, NoPanic, OnCpu, Pending, IInv, TypeOK
  <2>9. CASE ThreadUnblockReady(c)
    <3>1. /\ pc[t] = "unblockready"
          /\ pc' = [pc EXCEPT ![t] = ret[t]]
          /\ state' = [state EXCEPT ![target[t]] = "Ready"]
          /\ target' = [target EXCEPT ![t] = None]
          /\ UNCHANGED <<current, waiters, panic>>
      BY <2>9 DEF ThreadUnblockReady, At, Goto
    <3>2. ret[t] # "exit" /\ ret[t] # "block" /\ target[t] \in Threads
      BY <2>1, <3>1 DEF IInv, TypeOK, TargetInv
    <3>3. \A x \in Threads : Pending(x)' => Pending(x) /\ x # target[t]
      BY <2>1, <3>1, <3>2 DEF Pending, IInv, TypeOK, TargetInv
    <3> QED BY <2>1, <3>1, <3>2, <3>3 DEF Unforced, NoPanic, OnCpu, IInv, TypeOK
  <2>10. CASE ThreadExit(c)
    <3>1. /\ pc[t] = "run"
          /\ pc' = [pc EXCEPT ![t] = "dying"]
          /\ state' = [state EXCEPT ![t] = "Dying"]
          /\ UNCHANGED <<current, waiters, target, panic>>
      BY <2>1, <2>10 DEF ThreadExit, At, Goto, localVars, Unforced
    <3> QED BY <2>1, <3>1 DEF Unforced, NoPanic, OnCpu, Pending, IInv, TypeOK
  <2>11. CASE CleanupPrevious(c)
    <3>1. /\ pc[t] = "release"
          /\ pc' = [pc EXCEPT ![t] = ret[t]]
          /\ UNCHANGED <<state, current, waiters, target>>
      BY <2>11 DEF CleanupPrevious, At, Goto, localVars
    <3>2. ret[t] # "exit" /\ ret[t] # "block"
      BY <2>1 DEF IInv, TypeOK
    <3>3. ~panic'
      BY <2>11, CleanupAsserts
    <3> QED BY <2>1, <3>1, <3>2, <3>3 DEF Unforced, NoPanic, OnCpu, Pending,
       IInv, TypeOK
  <2>12. ASSUME NEW w \in Threads,
                ClientWake(c, w) \/ ThreadCreateEx(c, w) \/ ThreadCloseHandle(c, w)
                \/ ThreadTerminate(c, w)
         PROVE  Unforced'
    <3>1. CASE ClientWake(c, w)
      BY <2>1, <3>1 DEF ClientWake, At, Goto, Unforced, NoPanic, OnCpu, Pending,
         IInv, TypeOK
    <3>2. CASE ThreadCreateEx(c, w)
      <4>1. /\ pc[t] = "run" /\ state[w] = "None"
            /\ pc' = [pc EXCEPT ![t] = "unblock", ![w] = "cleanup"]
            /\ state' = [state EXCEPT ![w] = "Blocked"]
            /\ target' = [target EXCEPT ![t] = w]
            /\ UNCHANGED <<current, waiters, panic>>
        BY <3>2 DEF ThreadCreateEx, At
      <4>2. \A x \in Threads : Pending(x)' => Pending(x) \/ x = w
        BY <2>1, <4>1 DEF Pending, IInv, TypeOK
      <4>3. \A x \in Threads : x # t /\ x # w => pc'[x] = pc[x] /\ state'[x] = state[x]
        BY <4>1 DEF IInv, TypeOK
      <4>4. state'[w] = "Blocked" /\ pc'[w] # "exit" /\ pc'[t] # "exit"
        BY <2>1, <4>1 DEF IInv, TypeOK
      <4>5. ~Pending(t) /\ \A x \in Threads : OnCpu(x)' <=> OnCpu(x)
        BY <2>1, <4>1 DEF OnCpu
      <4> QED BY <2>1, <4>1, <4>2, <4>3, <4>4, <4>5 DEF Unforced, NoPanic
    <3>3. CASE ThreadCloseHandle(c, w) \/ ThreadTerminate(c, w)
      BY <2>1, <3>3 DEF ThreadCloseHandle, ThreadTerminate, Unforced, NoPanic, OnCpu,
         Pending, localVars
    <3> QED BY <2>12, <3>1, <3>2, <3>3
  <2> QED
    BY <1>2, <2>2, <2>3, <2>4, <2>5, <2>6, <2>7, <2>8, <2>9, <2>10, <2>11, <2>12
       DEF CpuStep
<1> QED BY <1>1, <1>2 DEF Next

(* Where no process is terminated by force, no ASSERT of thread.c fails.   *)
(* The hypothesis is needed: a thread that is terminated by force dies in  *)
(* ThreadBlock while it is on a wait list.                                 *)
THEOREM NeverPanics == UserThreads = {} /\ Spec => []NoPanic
<1>1. ASSUME Init PROVE Unforced
  BY <1>1, SchedulerAssumption DEF Init, Unforced, NoPanic, Pending
<1>2. ASSUME UserThreads = {}, IInv, Unforced, [Next]_vars PROVE Unforced'
  BY <1>2, UnforcedStep
<1>3. Unforced => NoPanic
  BY DEF Unforced
<1>4. ASSUME UserThreads = {} PROVE Spec => []NoPanic
  <2>1. IInv /\ Unforced /\ [Next]_vars => Unforced'
    BY <1>2, <1>4
  <2> QED BY <1>1, <1>3, <2>1, Invariance, PTL DEF Spec
<1> QED BY <1>4

-----------------------------------------------------------------------------
(* What clients of the scheduler need to know of its steps.                *)

(* A CPU that executes client code executes a created thread that is not   *)
(* an idle thread and that no wait list holds.                             *)
LEMMA RunFacts ==
    ASSUME IInv, NEW c \in Cpus, pc[current[c]] = "run"
    PROVE  /\ current[c] \in Threads \ IdleThreads
           /\ ~Pending(current[c])
           /\ OnCpu(current[c])
<1>1. current[c] \in Threads /\ OnCpu(current[c])
  BY DEF IInv, TypeOK, OnCpu
<1>2. current[c] \notin IdleThreads
  BY DEF IInv, IdleInv
<1>3. ~Pending(current[c])
  BY <1>1, <1>2 DEF IInv, WaitListInv, StateInv
<1> QED BY <1>1, <1>2, <1>3

(* A step of one CPU leaves the control points of the other threads alone, *)
(* switches no other CPU, and switches its own from three points only.     *)
LEMMA StepFrame ==
    ASSUME IInv, NEW c \in Cpus, CpuStep(c)
    PROVE  /\ \A d \in Cpus : d # c => current'[d] = current[d]
           /\ pc[current[c]] \notin {"yieldlock", "blocklock", "dying"} => current' = current
           /\ \A t \in Threads : t # current[c] /\ state[t] # "None" =>
                                    pc'[t] = pc[t] /\ ret'[t] = ret[t]
<1> USE SchedulerAssumption
<1>1. current[c] \in Threads
  BY DEF IInv, TypeOK
<1>2. CASE ThreadYieldSwitch(c) \/ ThreadBlockSwitch(c) \/ ThreadExitSwitch(c)
  BY <1>1, <1>2 DEF ThreadYieldSwitch, ThreadBlockSwitch, ThreadExitSwitch, ThreadSchedule,
     ThreadGetReadyThread, At, Goto, localVars, IInv, TypeOK
<1>3. CASE \E w \in Threads : ThreadCreateEx(c, w)
  BY <1>1, <1>3 DEF ThreadCreateEx, At, IInv, TypeOK
<1>4. CASE \/ ThreadTick(c) \/ ThreadYield(c) \/ ClientWait(c) \/ IdleThread(c)
           \/ ThreadBlock(c) \/ ThreadUnblock(c)
  BY <1>1, <1>4 DEF ThreadTick, ThreadYield, ClientWait, IdleThread, ThreadBlock,
     ThreadUnblock, Goto, localVars, IInv, TypeOK
<1>5. CASE \/ ThreadUnblockReady(c) \/ ThreadExit(c) \/ ThreadCleanupPostSchedule(c)
           \/ CleanupPrevious(c)
  BY <1>1, <1>5 DEF ThreadUnblockReady, ThreadExit, ThreadCleanupPostSchedule,
     CleanupPrevious, Goto, localVars, IInv, TypeOK
<1>6. CASE \E w \in Threads : \/ ClientWake(c, w) \/ ThreadCloseHandle(c, w)
                               \/ ThreadTerminate(c, w)
  BY <1>1, <1>6 DEF ClientWake, ThreadCloseHandle, ThreadTerminate, Goto, localVars,
     IInv, TypeOK
<1> QED BY <1>2, <1>3, <1>4, <1>5, <1>6 DEF CpuStep
-----------------------------------------------------------------------------
(* Reference counts, on one CPU.                                           *)

(* A count is exact until the thread is destroyed; a thread that was not   *)
(* created has no handle, and one that was destroyed is dead, off its CPU  *)
(* and without a handle.                                                   *)
RefInv ==
    /\ RefCountExact
    /\ \A t \in Threads : state[t] = "None" => handle[t] = None
    /\ \A t \in destroyed : state[t] = "Dying" /\ handle[t] = None /\ ~OnCpu(t)

(* Is the CPU between the switch and the end of ThreadCleanupPostSchedule? *)
Switched(c) == pc[current[c]] \in {"cleanup", "release"}

(* A count stays exact in a step that leaves it alone, if the step neither *)
(* kills a thread off its CPU, nor forgets the thread it switched from.    *)
LEMMA CountsKept ==
    ASSUME IInv, RefInv, NEW c \in Cpus, \A d \in Cpus : d = c,
           UNCHANGED <<refCnt, destroyed, handle>>,
           \A x \in Threads : state'[x] = "None" <=> state[x] = "None",
           \A x \in Threads : state[x] = "Dying" => state'[x] = "Dying",
           \A x \in Threads : state'[x] = "Dying" /\ state[x] # "Dying" =>
              current'[c] = x \/ (previous'[c] = x /\ Switched(c)'),
           \A x \in Threads : state[x] = "Dying" =>
              \/ current[c] = x \/ (previous[c] = x /\ Switched(c))
              <=> current'[c] = x \/ (previous'[c] = x /\ Switched(c)'),
           \A x \in Threads : state[x] = "Dying" /\ current[c] # x => current'[c] # x
    PROVE  RefInv'
<1>1. ASSUME NEW x \in Threads, state'[x] # "None", x \notin destroyed'
      PROVE  refCnt'[x] = (IF handle'[x] = None THEN 0 ELSE 1)
                        + (IF \/ state'[x] # "Dying"
                              \/ OnCpu(x)'
                              \/ \E d \in Cpus : previous'[d] = x /\ pc'[current'[d]] \in {"cleanup", "release"}
                           THEN 1 ELSE 0)
  <2>1. refCnt[x] = (IF handle[x] = None THEN 0 ELSE 1)
                  + (IF \/ state[x] # "Dying"
                        \/ OnCpu(x)
                        \/ \E d \in Cpus : previous[d] = x /\ pc[current[d]] \in {"cleanup", "release"}
                     THEN 1 ELSE 0)
    BY <1>1 DEF RefInv, RefCountExact
  <2>2. (state[x] # "Dying" \/ OnCpu(x)
           \/ \E d \in Cpus : previous[d] = x /\ pc[current[d]] \in {"cleanup", "release"})
        <=> (state'[x] # "Dying" \/ OnCpu(x)'
           \/ \E d \in Cpus : previous'[d] = x /\ pc'[current'[d]] \in {"cleanup", "release"})
    BY <1>1 DEF OnCpu, Switched
  <2> QED BY <1>1, <2>1, <2>2
<1>2. RefCountExact'
  BY <1>1 DEF RefCountExact
<1>3. ASSUME NEW x \in Threads, state'[x] = "None" PROVE handle'[x] = None
  BY <1>3 DEF RefInv
<1>4. ASSUME NEW x \in destroyed' PROVE state'[x] = "Dying" /\ handle'[x] = None /\ ~OnCpu(x)'
  BY <1>4 DEF RefInv, OnCpu, IInv, TypeOK
<1> QED BY <1>2, <1>3, <1>4 DEF RefInv

(* The head of a list is one of its elements.                              *)
LEMMA HeadListed ==
    ASSUME NEW S, NEW s \in Seq(S), s # <<>>
    PROVE  Head(s) \in Range(s)
  BY DEF Range

(* A CPU that switches to a listed thread or its idle thread leaves a      *)
(* thread that died on it as its previous thread, at cleanup.              *)
LEMMA SwitchKeepsCounts ==
    ASSUME IInv, RefInv, NEW c \in Cpus, \A d \in Cpus : d = c,
           ThreadYieldSwitch(c) \/ ThreadBlockSwitch(c) \/ ThreadExitSwitch(c)
    PROVE  RefInv'
<1> USE SchedulerAssumption
<1> DEFINE t == current[c]
           n == current'[c]
<1>1. /\ t \in Threads /\ OnCpu(t) /\ ~Switched(c)
      /\ pc[t] \in {"yieldlock", "blocklock", "dying"}
      /\ pc[t] # "dying" => state[t] # "Dying"
  BY DEF IInv, TypeOK, OnCpu, StateInv, Switched, ThreadYieldSwitch, ThreadBlockSwitch, ThreadExitSwitch, At
<1>2. /\ UNCHANGED <<refCnt, destroyed, handle>>
      /\ previous' = [previous EXCEPT ![c] = t]
      /\ pc' = [pc EXCEPT ![t] = "cleanup"]
      /\ state' = [state EXCEPT ![t] = IF pc[t] = "yieldlock" THEN "Ready" ELSE @]
  BY <1>1 DEF ThreadYieldSwitch, ThreadBlockSwitch, ThreadExitSwitch, ThreadSchedule, At, Goto,
     threadVars, IInv, TypeOK
<1>3. /\ n \in Threads
      /\ n = t \/ pc[n] = "cleanup"
      /\ n = t => pc[t] # "dying"
      /\ n # t => state[n] # "Dying"
  <2> DEFINE rl == IF pc[t] = "yieldlock" /\ t # Idle[c] THEN Append(readyList, t) ELSE readyList
  <2>1. /\ rl = <<>> => n = Idle[c]
        /\ rl # <<>> => n = Head(rl)
    BY <1>1 DEF ThreadYieldSwitch, ThreadBlockSwitch, ThreadExitSwitch, ThreadSchedule,
       ThreadGetReadyThread, At, IInv, TypeOK
  <2>2. rl # <<>> => Head(rl) \in Range(readyList) \/ (Head(rl) = t /\ pc[t] = "yieldlock")
    <3>1. CASE rl = readyList
      BY <3>1, HeadListed DEF IInv, TypeOK
    <3>2. CASE rl = Append(readyList, t) /\ pc[t] = "yieldlock"
      <4>1. Head(rl) \in Range(rl)
        BY <1>1, <3>2, AppendFacts, HeadListed DEF IInv, TypeOK
      <4> QED BY <1>1, <3>2, <4>1, AppendFacts DEF IInv, TypeOK
    <3> QED BY <3>1, <3>2
  <2>3. Idle[c] \in Threads /\ Idle[c] \in IdleThreads
    BY DEF Range, IdleThreads
  <2>4. state[Idle[c]] # "Dying" /\ pc[Idle[c]] # "dying"
    BY <2>3 DEF IInv, IdleInv
  <2>5. Idle[c] # t => ~OnCpu(Idle[c]) /\ pc[Idle[c]] = "cleanup"
    <3>1. Idle[c] # t => ~OnCpu(Idle[c])
      BY DEF OnCpu
    <3> QED BY <2>3, <2>4, <3>1 DEF IInv, OffCpuInv, IdleInv
  <2>6. CASE rl = <<>>
    BY <2>1, <2>3, <2>4, <2>5, <2>6
  <2>7. CASE rl # <<>> /\ Head(rl) \in Range(readyList)
    <3>1. n \in Range(readyList) /\ n \in Threads
      BY <2>1, <2>7 DEF IInv, TypeOK, Range
    <3> QED BY <1>1, <3>1, ReadyFacts
  <2>8. CASE rl # <<>> /\ Head(rl) = t /\ pc[t] = "yieldlock"
    BY <1>1, <2>1, <2>8
  <2> QED BY <2>2, <2>6, <2>7, <2>8
<1>4. Switched(c)' /\ previous'[c] = t
  BY <1>1, <1>2, <1>3 DEF Switched, IInv, TypeOK
<1>5. \A x \in Threads : state'[x] = "None" <=> state[x] = "None"
  BY <1>1, <1>2 DEF IInv, TypeOK, OffCpuInv
<1>6. \A x \in Threads : /\ state[x] = "Dying" => state'[x] = "Dying"
                         /\ state'[x] = "Dying" => state[x] = "Dying"
  BY <1>1, <1>2 DEF IInv, TypeOK
<1>7. \A x \in Threads : state[x] = "Dying" =>
         (\/ current[c] = x \/ (previous[c] = x /\ Switched(c))
          <=> current'[c] = x \/ (previous'[c] = x /\ Switched(c)'))
  BY <1>1, <1>3, <1>4
<1>8. \A x \in Threads : state[x] = "Dying" /\ current[c] # x => current'[c] # x
  BY <1>1, <1>3
<1> QED BY <1>2, <1>5, <1>6, <1>7, <1>8, CountsKept

(* Each step keeps the counts.  A reference is dropped once, because the   *)
(* thread that runs after a dying one drops it before it does anything     *)
(* else, and no other CPU can do so in between.                            *)
LEMMA RefStep ==
    ASSUME IInv, RefInv, NEW c \in Cpus, \A d \in Cpus : d = c, CpuStep(c)
    PROVE  RefInv'
<1> USE SchedulerAssumption
<1> DEFINE t == current[c]
<1>1. /\ t \in Threads /\ OnCpu(t) /\ pc[t] # "none" /\ state[t] # "None"
      /\ state[t] = "Dying" => pc[t] \in {"dying", "unblock", "unblockready"}
  BY DEF IInv, TypeOK, OnCpu, OffCpuInv, StateInv
<1>2. CASE ThreadTick(c) \/ ThreadYield(c) \/ ClientWait(c) \/ IdleThread(c)
           \/ ThreadUnblock(c) \/ (\E w \in Threads : ClientWake(c, w))
  <2>1. /\ UNCHANGED <<state, refCnt, destroyed, handle, current, previous>>
        /\ ~Switched(c) /\ ~Switched(c)'
    BY <1>1, <1>2 DEF ThreadTick, ThreadYield, ClientWait, IdleThread, ThreadUnblock,
       ClientWake, At, Goto, threadVars, Switched, IInv, TypeOK
  <2> QED BY <2>1, CountsKept
<1>3. CASE ThreadCleanupPostSchedule(c) \/ (\E w \in Threads : ThreadTerminate(c, w))
  <2>1. /\ UNCHANGED <<state, refCnt, destroyed, handle, current, previous>>
        /\ Switched(c)' <=> Switched(c)
    BY <1>1, <1>3 DEF ThreadCleanupPostSchedule, ThreadTerminate, At, Goto, threadVars,
       Switched, IInv, TypeOK
  <2> QED BY <2>1, CountsKept
<1>4. CASE ThreadBlock(c) \/ ThreadExit(c)
  <2>1. /\ UNCHANGED <<refCnt, destroyed, handle, current, previous>>
        /\ state' = state \/ \E s \in {"Blocked", "Dying"} : state' = [state EXCEPT ![t] = s]
        /\ state[t] # "Dying" /\ ~Switched(c) /\ ~Switched(c)'
    BY <1>1, <1>4 DEF ThreadBlock, ThreadExit, At, Goto, threadVars, Switched, IInv, TypeOK
  <2>2. \A x \in Threads : /\ state'[x] = "None" <=> state[x] = "None"
                           /\ x # t => state'[x] = state[x]
    BY <1>1, <2>1 DEF IInv, TypeOK
  <2> QED BY <2>1, <2>2, CountsKept
<1>5. CASE ThreadUnblockReady(c)
  <2>1. /\ pc[t] = "unblockready" /\ target[t] \in Threads
        /\ state[target[t]] = "Blocked"
        /\ state' = [state EXCEPT ![target[t]] = "Ready"]
        /\ pc' = [pc EXCEPT ![t] = ret[t]]
        /\ ret[t] \notin {"cleanup", "release"}
        /\ UNCHANGED <<refCnt, destroyed, handle, current, previous>>
    <3>1. pc[t] = "unblockready" /\ ~panic
      BY <1>5 DEF ThreadUnblockReady, At
    <3>2. target[t] \in Threads /\ state[target[t]] = "Blocked"
      BY <1>1, <3>1 DEF IInv, TypeOK, UnblockInv, TargetInv
    <3>3. ret[t] \notin {"cleanup", "release"}
      BY <1>1 DEF IInv, TypeOK
    <3>4. /\ state' = [state EXCEPT ![target[t]] = "Ready"]
          /\ pc' = [pc EXCEPT ![t] = ret[t]]
          /\ UNCHANGED <<refCnt, destroyed, handle, current, previous>>
      BY <1>5 DEF ThreadUnblockReady, Goto, threadVars
    <3> QED BY <3>1, <3>2, <3>3, <3>4
  <2>2. ~Switched(c) /\ ~Switched(c)'
    BY <1>1, <2>1 DEF Switched, IInv, TypeOK
  <2>3. \A x \in Threads : /\ state'[x] = "None" <=> state[x] = "None"
                           /\ state'[x] = "Dying" <=> state[x] = "Dying"
    BY <2>1 DEF IInv, TypeOK
  <2> QED BY <2>1, <2>2, <2>3, CountsKept
<1>6. CASE ThreadYieldSwitch(c) \/ ThreadBlockSwitch(c) \/ ThreadExitSwitch(c)
  BY <1>6, SwitchKeepsCounts
<1>7. CASE CleanupPrevious(c)
  <2> DEFINE p == previous[c]
  <2>1. /\ pc[t] = "release" /\ Switched(c) /\ ~panic
        /\ UNCHANGED <<state, handle, current>>
        /\ pc' = [pc EXCEPT ![t] = ret[t]]
        /\ ret[t] \notin {"cleanup", "release"}
    BY <1>1, <1>7 DEF CleanupPrevious, At, Goto, Switched, IInv, TypeOK
  <2>2. ~Switched(c)' /\ state[t] # "Dying"
    BY <1>1, <2>1 DEF Switched, IInv, TypeOK
  <2>3. CASE p # None /\ blockLock[p] # c /\ state[p] = "Dying"
    <3>0. PICK q \in Threads : q = p
      BY <2>3 DEF IInv, TypeOK
    <3>1. q # t /\ state[q] = "Dying" /\ ThreadDereference(q)
      BY <1>7, <2>2, <2>3, <3>0 DEF CleanupPrevious
    <3>2. /\ refCnt' = [refCnt EXCEPT ![q] = @ - 1]
          /\ destroyed' = IF refCnt[q] = 1 THEN destroyed \cup {q} ELSE destroyed
      BY <3>1 DEF ThreadDereference
    <3>3. q \notin destroyed => refCnt[q] = (IF handle[q] = None THEN 0 ELSE 1) + 1
      <4>1. \E d \in Cpus : previous[d] = q /\ pc[current[d]] \in {"cleanup", "release"}
        BY <2>1, <3>0
      <4>2. state[q] # "None"
        BY <3>1
      <4> QED BY <3>1, <4>1, <4>2 DEF RefInv, RefCountExact
    <3>4. ~OnCpu(q) /\ ~OnCpu(q)'
      BY <2>1, <3>1 DEF OnCpu
    <3>5. ASSUME NEW x \in Threads, state'[x] # "None", x \notin destroyed'
          PROVE  refCnt'[x] = (IF handle'[x] = None THEN 0 ELSE 1)
                   + (IF \/ state'[x] # "Dying"
                         \/ OnCpu(x)'
                         \/ \E d \in Cpus : previous'[d] = x /\ pc'[current'[d]] \in {"cleanup", "release"}
                      THEN 1 ELSE 0)
      <4>1. ~(\E d \in Cpus : previous'[d] = x /\ pc'[current'[d]] \in {"cleanup", "release"})
        BY <2>2 DEF Switched
      <4>2. CASE x = q
        <5>1. refCnt'[q] = refCnt[q] - 1 /\ handle'[q] = handle[q] /\ state'[q] = "Dying"
          BY <2>1, <3>1, <3>2 DEF IInv, TypeOK
        <5>2. q \notin destroyed
          BY <3>2, <3>5, <4>2
        <5>3. refCnt'[q] = (IF handle'[q] = None THEN 0 ELSE 1) + 0
          BY <3>3, <5>1, <5>2
        <5> QED BY <3>4, <4>1, <4>2, <5>1, <5>3
      <4>3. CASE x # q
        <5>1. refCnt'[x] = refCnt[x] /\ x \notin destroyed
          BY <3>1, <3>2, <3>5, <4>3 DEF IInv, TypeOK
        <5>2. ~(\E d \in Cpus : previous[d] = x /\ pc[current[d]] \in {"cleanup", "release"})
          BY <3>0, <4>3
        <5>3. OnCpu(x) <=> OnCpu(x)'
          BY <2>1 DEF OnCpu
        <5> QED BY <2>1, <3>5, <4>1, <5>1, <5>2, <5>3 DEF RefInv, RefCountExact
      <4> QED BY <4>2, <4>3
    <3>6. ASSUME NEW x \in destroyed' PROVE state'[x] = "Dying" /\ handle'[x] = None /\ ~OnCpu(x)'
      <4>1. CASE x \in destroyed
        BY <2>1, <4>1 DEF RefInv, OnCpu
      <4>2. CASE x \notin destroyed
        <5>1. x = q /\ refCnt[q] = 1
          BY <3>2, <3>6, <4>2
        <5>2. handle[q] = None
          BY <3>3, <4>2, <5>1
        <5> QED BY <2>1, <3>1, <3>4, <5>1, <5>2
      <4> QED BY <4>1, <4>2
    <3> QED BY <2>1, <3>5, <3>6 DEF RefInv, RefCountExact
  <2>4. CASE ~(p # None /\ blockLock[p] # c /\ state[p] = "Dying")
    <3>1. UNCHANGED <<refCnt, destroyed, previous>>
      BY <1>7, <2>4 DEF CleanupPrevious
    <3>2. p # None => state[p] # "Dying"
      <4>1. ASSUME p # None, blockLock[p] = c PROVE state[p] # "Dying"
        <5>1. p \in Threads
          BY <4>1 DEF IInv, TypeOK
        <5>2. state[p] = "Blocked" \/ p = Idle[c]
          BY <2>1, <4>1, <5>1 DEF IInv, OwnerInv
        <5> QED BY <5>1, <5>2 DEF IInv, IdleInv, IdleThreads, Range
      <4> QED BY <2>4, <4>1
    <3> QED BY <2>1, <2>2, <3>1, <3>2, CountsKept
  <2> QED BY <2>3, <2>4
<1>8. ASSUME NEW w \in Threads, ThreadCreateEx(c, w) PROVE RefInv'
  <2>1. /\ pc[t] = "run" /\ state[w] = "None" /\ w # t
        /\ state' = [state EXCEPT ![w] = "Blocked"]
        /\ refCnt' = [refCnt EXCEPT ![w] = 2]
        /\ handle' = [handle EXCEPT ![w] = t]
        /\ pc' = [pc EXCEPT ![t] = "unblock", ![w] = "cleanup"]
        /\ UNCHANGED <<destroyed, current, previous>>
    BY <1>1, <1>8 DEF ThreadCreateEx, At
  <2>2. ~Switched(c) /\ ~Switched(c)'
    BY <1>1, <2>1 DEF Switched, IInv, TypeOK
  <2>3. /\ w \notin destroyed /\ t # None
        /\ \A x \in Threads : OnCpu(x)' <=> OnCpu(x)
    BY <1>1, <2>1 DEF RefInv, OnCpu
  <2>4. ASSUME NEW x \in Threads, state'[x] # "None", x \notin destroyed'
        PROVE  refCnt'[x] = (IF handle'[x] = None THEN 0 ELSE 1)
                 + (IF \/ state'[x] # "Dying"
                       \/ OnCpu(x)'
                       \/ \E d \in Cpus : previous'[d] = x /\ pc'[current'[d]] \in {"cleanup", "release"}
                    THEN 1 ELSE 0)
    <3>1. CASE x = w
      BY <2>1, <2>3, <3>1 DEF IInv, TypeOK
    <3>2. CASE x # w
      <4>1. refCnt'[x] = refCnt[x] /\ handle'[x] = handle[x] /\ state'[x] = state[x]
        BY <2>1, <3>2 DEF IInv, TypeOK
      <4>2. /\ ~(\E d \in Cpus : previous[d] = x /\ pc[current[d]] \in {"cleanup", "release"})
            /\ ~(\E d \in Cpus : previous'[d] = x /\ pc'[current'[d]] \in {"cleanup", "release"})
        BY <2>2 DEF Switched
      <4> QED BY <2>1, <2>3, <2>4, <4>1, <4>2 DEF RefInv, RefCountExact
    <3> QED BY <3>1, <3>2
  <2>5. \A x \in Threads : state'[x] = "None" => handle'[x] = None
    BY <2>1 DEF RefInv, IInv, TypeOK
  <2>6. \A x \in destroyed' : state'[x] = "Dying" /\ handle'[x] = None /\ ~OnCpu(x)'
    BY <2>1, <2>3 DEF RefInv, IInv, TypeOK
  <2> QED BY <2>4, <2>5, <2>6 DEF RefInv, RefCountExact
<1>9. ASSUME NEW w \in Threads, ThreadCloseHandle(c, w) PROVE RefInv'
  <2>1. /\ pc[t] = "run" /\ handle[w] = t /\ t # None
        /\ handle' = [handle EXCEPT ![w] = None]
        /\ refCnt' = [refCnt EXCEPT ![w] = @ - 1]
        /\ destroyed' = IF refCnt[w] = 1 THEN destroyed \cup {w} ELSE destroyed
        /\ UNCHANGED <<state, pc, current, previous>>
    BY <1>1, <1>9 DEF ThreadCloseHandle, ThreadDereference, At
  <2>2. w \notin destroyed /\ state[w] # "None"
    BY <2>1 DEF RefInv
  <2>3. refCnt[w] = 1 + (IF \/ state[w] # "Dying"
                            \/ OnCpu(w)
                            \/ \E d \in Cpus : previous[d] = w /\ pc[current[d]] \in {"cleanup", "release"}
                         THEN 1 ELSE 0)
    BY <2>1, <2>2 DEF RefInv, RefCountExact
  <2>4. \A x \in Threads : OnCpu(x)' <=> OnCpu(x)
    BY <2>1 DEF OnCpu
  <2>5. ASSUME NEW x \in Threads, state'[x] # "None", x \notin destroyed'
        PROVE  refCnt'[x] = (IF handle'[x] = None THEN 0 ELSE 1)
                 + (IF \/ state'[x] # "Dying"
                       \/ OnCpu(x)'
                       \/ \E d \in Cpus : previous'[d] = x /\ pc'[current'[d]] \in {"cleanup", "release"}
                    THEN 1 ELSE 0)
    <3>1. CASE x = w
      <4>1. refCnt'[x] = refCnt[w] - 1 /\ handle'[x] = None
        BY <2>1, <3>1 DEF IInv, TypeOK
      <4> QED BY <2>1, <2>3, <2>4, <3>1, <4>1
    <3>2. CASE x # w
      <4>1. refCnt'[x] = refCnt[x] /\ handle'[x] = handle[x] /\ x \notin destroyed
        BY <2>1, <2>5, <3>2 DEF IInv, TypeOK
      <4> QED BY <2>1, <2>4, <2>5, <4>1 DEF RefInv, RefCountExact
    <3> QED BY <3>1, <3>2
  <2>6. \A x \in Threads : state'[x] = "None" => handle'[x] = None
    BY <2>1 DEF RefInv, IInv, TypeOK
  <2>7. ASSUME NEW x \in destroyed' PROVE state'[x] = "Dying" /\ handle'[x] = None /\ ~OnCpu(x)'
    <3>1. CASE x \in destroyed
      <4>1. x \in Threads /\ x # w
        BY <2>2, <3>1 DEF IInv, TypeOK
      <4> QED BY <2>1, <2>4, <3>1, <4>1 DEF RefInv, IInv, TypeOK
    <3>2. CASE x \notin destroyed
      <4>1. x = w /\ refCnt[w] = 1
        BY <2>1, <2>7, <3>2
      <4>2. state[w] = "Dying" /\ ~OnCpu(w)
        BY <2>3, <4>1
      <4> QED BY <2>1, <2>4, <4>1, <4>2 DEF IInv, TypeOK
    <3> QED BY <3>1, <3>2
  <2> QED BY <2>5, <2>6, <2>7 DEF RefInv, RefCountExact
<1> QED
  BY <1>2, <1>3, <1>4, <1>5, <1>6, <1>7, <1>8, <1>9 DEF CpuStep

(* On one CPU the reference counts of threads are exact, and no thread     *)
(* that runs or has an open handle is destroyed.  The hypothesis is        *)
(* needed: ThreadCleanupPostSchedule looks at the previous thread after it *)
(* has released ReadyThreadsLock, so on two CPUs both may drop the same    *)
(* reference.                                                              *)
THEOREM ReferencesCorrect ==
    ASSUME \A c, d \in Cpus : c = d
    PROVE  Spec => []ReferencesSound
<1>1. ASSUME Init PROVE RefInv
  BY <1>1, SchedulerAssumption DEF Init, RefInv, RefCountExact, OnCpu, MainThreads, IdleThreads, Range
<1>2. ASSUME IInv, RefInv, [Next]_vars PROVE RefInv'
  <2>1. CASE UNCHANGED vars
    BY <1>2, <2>1 DEF vars, RefInv, RefCountExact, OnCpu
  <2>2. ASSUME NEW c \in Cpus, CpuStep(c) PROVE RefInv'
    BY <1>2, <2>2, RefStep
  <2> QED BY <1>2, <2>1, <2>2 DEF Next
<1>3. RefInv => ReferencesSound
  BY DEF RefInv, ReferencesSound, NoUseAfterDestroy
<1>4. IInv /\ RefInv /\ [Next]_vars => RefInv'
  BY <1>2
<1> QED BY <1>1, <1>3, <1>4, Invariance, PTL DEF Spec
=============================================================================
