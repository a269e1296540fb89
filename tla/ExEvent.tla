------------------------------- MODULE ExEvent -------------------------------
(***************************************************************************)
(* The executive event of HAL9000 (src/HAL9000/src/ex_event.c), on top of  *)
(* the scheduler.                                                          *)
(*                                                                         *)
(* epc says where a thread is in ex_event.c while the scheduler sees it as *)
(* running client code; anywhere but "out" it has interrupts disabled.     *)
(* Signaled is read and written without EventLock by a waiter and under it *)
(* by ExEventSignal.  signals and returns count the calls of ExEventSignal *)
(* that have set the event and the waits that have returned; seen holds    *)
(* the threads during whose last wait the event was signaled at some time. *)
(***************************************************************************)
EXTENDS Scheduler

CONSTANTS EventTypes,  \* the EX_EVT_TYPEs in use
          MaxSignals,  \* bound on the calls of ExEventSignal
          MaxReturns,  \* bound on the calls of ExEventWaitForSignal
          Clearers     \* threads that call ExEventClearSignal

ASSUME EventAssumption ==
    /\ EventTypes \subseteq {"Notification", "Synchronization"}
    /\ MaxSignals \in Nat
    /\ MaxReturns \in Nat
    /\ Clearers \subseteq Threads

VARIABLES
    eventType,  \* EX_EVENT.EventType
    signaled,   \* EX_EVENT.Signaled
    eventLock,  \* CPU that owns EX_EVENT.EventLock
    eventList,  \* EX_EVENT.WaitingList
    epc,        \* control point of each thread in ex_event.c
    signals,    \* ExEventSignal calls so far
    returns,    \* ExEventWaitForSignal calls that have returned
    seen        \* threads whose wait overlapped a signaled event

eventVars == <<eventType, signaled, eventLock, eventList, epc, signals, returns, seen>>

EventLocations ==
    {"out",     \* not in ex_event.c
     "test",    \* ExEventWaitForSignal, before the compare-exchange
     "insert",  \* ExEventWaitForSignal, acquiring EventLock
     "woken",   \* ExEventWaitForSignal, in or after ThreadBlock
     "wake",    \* ExEventSignal, before RemoveHeadList, EventLock held
     "unlock"}  \* ExEventSignal, before the release of EventLock

(* ExEventInit, not signaled. *)
ExEventInit ==
    /\ Init
    /\ eventType \in EventTypes
    /\ signaled = FALSE
    /\ eventLock = None
    /\ eventList = <<>>
    /\ epc = [t \in Threads |-> "out"]
    /\ signals = 0
    /\ returns = 0
    /\ seen = {}

EIn(c, l) == At(c, "run") /\ epc[current[c]] = l
EGoto(c, l) == epc' = [epc EXCEPT ![current[c]] = l]

(* Waits in progress. *)
Waiting == {t \in Threads : epc[t] \in {"test", "insert", "woken"}}

-----------------------------------------------------------------------------
(* ExEventWaitForSignal up to CpuIntrDisable.                              *)
ExEventWaitForSignal(c) ==
    /\ EIn(c, "out")
    /\ returns < MaxReturns
    /\ EGoto(c, "test")
    /\ seen' = IF signaled THEN seen \cup {current[c]} ELSE seen \ {current[c]}
    /\ UNCHANGED <<vars, signaled, eventLock, eventList, signals, returns>>

(* Mutant: the compare-exchange never clears a synchronization event.      *)
WaitTestNoClear(c) ==
    /\ EIn(c, "test")
    /\ \/ /\ signaled
          /\ returns' = returns + 1
          /\ EGoto(c, "out")
       \/ /\ ~signaled
          /\ EGoto(c, "insert")
          /\ UNCHANGED returns
    /\ UNCHANGED <<vars, signaled, eventLock, eventList, signals, seen>>

(* _InterlockedCompareExchange8 of Signaled, with no lock held: it leaves  *)
(* a notification event signaled and clears a synchronization event.       *)
WaitTest(c) ==
    /\ EIn(c, "test")
    /\ \/ /\ signaled
          /\ signaled' = (eventType = "Notification")
          /\ returns' = returns + 1
          /\ EGoto(c, "out")
       \/ /\ ~signaled
          /\ EGoto(c, "insert")
          /\ UNCHANGED <<signaled, returns>>
    /\ UNCHANGED <<vars, eventLock, eventList, signals, seen>>

(* Mutant: the thread is put on the wait list without EventLock.           *)
WaitInsertUnlocked(c) ==
    /\ EIn(c, "insert")
    /\ ClientWait(c)
    /\ eventList' = Append(eventList, current[c])
    /\ EGoto(c, "woken")
    /\ UNCHANGED <<signaled, eventLock, signals, returns, seen>>

(* Mutant: ThreadTakeBlockLock is forgotten.                               *)
WaitInsertNoBlockLock(c) ==
    /\ EIn(c, "insert")
    /\ eventLock = None
    /\ ClientWaitNoBlockLock(c)
    /\ eventList' = Append(eventList, current[c])
    /\ EGoto(c, "woken")
    /\ UNCHANGED <<signaled, eventLock, signals, returns, seen>>

(* InsertTailList and ThreadTakeBlockLock under EventLock, ThreadBlock.    *)
(* The CPU that may still own this BlockLock is in a ThreadUnblock and     *)
(* needs no EventLock to finish it.                                        *)
WaitInsert(c) ==
    /\ EIn(c, "insert")
    /\ eventLock = None
    /\ ClientWait(c)
    /\ eventList' = Append(eventList, current[c])
    /\ EGoto(c, "woken")
    /\ UNCHANGED <<signaled, eventLock, signals, returns, seen>>

(* ThreadBlock has returned: a wait for a notification event is over, one  *)
(* for a synchronization event competes for Signaled again.                *)
WaitWoken(c) ==
    /\ EIn(c, "woken")
    /\ \/ /\ eventType = "Notification"
          /\ returns' = returns + 1
          /\ EGoto(c, "out")
       \/ /\ eventType = "Synchronization"
          /\ EGoto(c, "test")
          /\ UNCHANGED returns
    /\ UNCHANGED <<vars, signaled, eventLock, eventList, signals, seen>>

(* ExEventSignal: acquire EventLock and set Signaled.                      *)
ExEventSignal(c) ==
    /\ EIn(c, "out")
    /\ signals < MaxSignals
    /\ eventLock = None
    /\ eventLock' = c
    /\ signaled' = TRUE
    /\ signals' = signals + 1
    /\ EGoto(c, "wake")
    /\ seen' = seen \cup Waiting
    /\ UNCHANGED <<vars, eventList, returns>>

(* One turn of the loop: RemoveHeadList and ThreadUnblock; a               *)
(* synchronization event wakes one thread only.                            *)
SignalWake(c) ==
    /\ EIn(c, "wake")
    /\ eventList # <<>>
    /\ ClientWake(c, Head(eventList))
    /\ eventList' = Tail(eventList)
    /\ EGoto(c, IF eventType = "Synchronization" THEN "unlock" ELSE "wake")
    /\ UNCHANGED <<signaled, eventLock, signals, returns, seen>>

(* The end of the loop and the release of EventLock.                       *)
SignalUnlock(c) ==
    /\ EIn(c, "unlock") \/ (EIn(c, "wake") /\ eventList = <<>>)
    /\ eventLock' = None
    /\ EGoto(c, "out")
    /\ UNCHANGED <<vars, signaled, eventList, signals, returns, seen>>

ExEventClearSignal(c) ==
    /\ EIn(c, "out")
    /\ current[c] \in Clearers
    /\ signaled' = FALSE
    /\ UNCHANGED <<vars, eventLock, eventList, epc, signals, returns, seen>>

(* The steps of the scheduler: a thread is interrupted, exits and creates  *)
(* threads only outside ex_event.c.                                        *)
EventSchedulerStep(c) ==
    /\ \/ ThreadYield(c)
       \/ ThreadYieldSwitch(c)
       \/ IdleThread(c)
       \/ ThreadBlock(c)
       \/ ThreadBlockSwitch(c)
       \/ ThreadUnblock(c)
       \/ ThreadUnblockReady(c)
       \/ ThreadExitSwitch(c)
       \/ ThreadCleanupPostSchedule(c)
       \/ CleanupPrevious(c)
       \/ /\ epc[current[c]] = "out"
          /\ \/ ThreadTick(c)
             \/ ThreadExit(c)
             \/ \E w \in Threads : ThreadCreateEx(c, w)
    /\ UNCHANGED eventVars

EventStep(c) ==
    /\ \/ ExEventWaitForSignal(c)
       \/ WaitTest(c)
       \/ WaitInsert(c)
       \/ WaitWoken(c)
       \/ ExEventSignal(c)
       \/ SignalWake(c)
       \/ SignalUnlock(c)
       \/ ExEventClearSignal(c)
    /\ UNCHANGED eventType

EventNext == \E c \in Cpus : EventSchedulerStep(c) \/ EventStep(c)

EventSpec == ExEventInit /\ [][EventNext]_<<vars, eventVars>>

(* Every CPU keeps executing instructions, and its timer keeps ticking.    *)
FairEventSpec ==
    /\ EventSpec
    /\ \A c \in Cpus : /\ WF_<<vars, eventVars>>(EventSchedulerStep(c) \/ EventStep(c))
                       /\ WF_<<vars, eventVars>>(ThreadTick(c) /\ EventSchedulerStep(c))
-----------------------------------------------------------------------------
(* Every variable of the event stays in its type, and the CPU that owns    *)
(* EventLock is executing a thread inside ExEventSignal.                   *)
EventTypeOK ==
    /\ eventType \in EventTypes
    /\ signaled \in BOOLEAN
    /\ eventLock \in Cpus \cup {None}
    /\ eventList \in Seq(Threads)
    /\ epc \in [Threads -> EventLocations]
    /\ signals \in 0 .. MaxSignals
    /\ returns \in Nat
    /\ seen \in SUBSET Threads
    /\ eventLock # None => epc[current[eventLock]] \in {"wake", "unlock"}

(* The ready list and every wait list are linked through one field,        *)
(* THREAD.ReadyList: a thread is never on two of them, nor on one twice.   *)
OneEventList ==
    /\ Range(eventList) \cap Range(readyList) = {}
    /\ IsInjective(eventList)
    /\ Range(eventList) = waiters

(* A synchronization event lets one wait through per signal, however       *)
(* wake-ups and new waits compete for Signaled.                            *)
ConsumedOnce == eventType = "Synchronization" => returns <= signals

(* A wait returns only if the event was signaled at some time during it,   *)
(* although a wait for a notification event does not look at Signaled      *)
(* after ThreadBlock and ExEventClearSignal may have cleared it again.     *)
NoEarlyReturn ==
    [][\A t \in Waiting : t \in Waiting' \/ t \in seen]_<<vars, eventVars>>

(* "If we are waiting for a notification type event => all threads must be *)
(* woken up" (ex_event.c): once a notification event that nobody clears is *)
(* signaled, every wait for it returns.  Does not hold: a signal between   *)
(* WaitTest and WaitInsert wakes nobody.                                   *)
WaitReturns ==
    \A t \in Threads : (signaled /\ t \in Waiting) ~> t \notin Waiting

(* The state of an event under all competing calls: its list holds each    *)
(* waiter once and no ready thread, and a synchronization event lets one   *)
(* wait through per signal.                                                *)
EventSound ==
    /\ EventTypeOK
    /\ OneEventList
    /\ ConsumedOnce
=============================================================================
