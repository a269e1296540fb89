------------------------------ MODULE SystemTime ------------------------------
(***************************************************************************)
(* The system clock and the two parts that live on it: the idle state of   *)
(* the machine (iomu.c, os_info.c, core.c) and the executive timer         *)
(* (ex_timer.c), composed with the start of the machine.                   *)
(*                                                                         *)
(* The PIT interrupts every CPU, and each adds its share of a period to    *)
(* the microseconds; the RTC interrupts one CPU once in a second, which    *)
(* exchanges <<seconds, microseconds>> for <<seconds + 1, 0>>.  A request  *)
(* that meets a CPU with interrupts off stays pending in its local APIC,   *)
(* and a second one merges with it.                                        *)
(***************************************************************************)
EXTENDS SystemStart

CONSTANTS
    SecUs,          \* SEC_IN_US
    Period,         \* SCHEDULER_TIMER_INTERRUPT_TIME_US
    ToIdle,         \* MicrosecondsToIdle
    TimerUs,        \* the times timers are set to
    MaxSeconds,     \* bound: updates of the RTC
    MaxTicks        \* bound: ticks of the PIT between two updates

ASSUME TimeAssumption ==
    /\ {SecUs, Period, ToIdle, MaxSeconds, MaxTicks} \subseteq Nat \ {0}
    /\ TimerUs \subseteq Nat
    /\ "none" \notin Cpus

VARIABLES
    clock,      \* m_iomuData.SystemUptime
    perCpu,     \* TimeUpdatePerCpuUs
    ticked,     \* CPUs with a tick pending in the local APIC
    ticks,      \* ticks of the PIT since the last update of the RTC (ghost)
    rtc,        \* the interrupt of the RTC, and the second its handler has computed
    lock,       \* holder of ReadyThreadsLock, or "none"
    core,       \* CoreUpdateIdleTime on each CPU: step, argument, the time read
    readyUs,    \* m_coreData.ReadyThreadUs
    idle,       \* m_coreData.SystemIdle
    screen,     \* what is displayed
    buffer,     \* what m_coreData.DisplayBuffer holds
    timer,      \* an EX_TIMER; halted: it was not running at some time (ghost)
    wait        \* ExTimerWait of the thread that waits for it

clockVars == <<clock, perCpu, ticked, ticks, rtc>>
coreVars == <<lock, core, readyUs, idle, screen, buffer>>
timerVars == <<timer, wait>>
vars == <<startVars, clockVars, coreVars, timerVars>>

Start == [c \in Cpus |-> [pc |-> "out", busy |-> FALSE, t |-> 0]]

\* closing: a thread is inside ExTimerUninit.
NoTimer == [trigger |-> 0, started |-> FALSE, closing |-> FALSE, uninited |-> FALSE,
            halted |-> TRUE]

Init ==
    /\ StartInit
    /\ clock = [sec |-> 0, us |-> 0] /\ perCpu = Period /\ ticked = {} /\ ticks = 0
    /\ rtc = [pc |-> "none", sec |-> 0]
    /\ lock = "none" /\ core = Start /\ readyUs = 0 /\ idle = FALSE
    /\ screen = "console" /\ buffer = "empty"
    /\ timer = NoTimer
    /\ wait = "none"

Unmasked == boot \in {"unmasked", "up"}
\* Does the CPU schedule threads?
OnLine(c) ==
    IF c = Bsp THEN boot \in {"init", "sipi", "test", "insert", "blocked", "awake"} \/ Unmasked
               ELSE ap[c] = "running"

----------------------------------------------------------------------------
\* The clock

GetSystemTimeUnclamped(s) == s.sec * SecUs + s.us

IomuGetSystemTimeUs(s) == s.sec * SecUs + IF s.us >= SecUs THEN SecUs ELSE s.us

Now == IomuGetSystemTimeUs(clock)

Share == Period \div active

\* IomuInitSystemAfterApWakeup as a whole: the share of each CPU, then the
\* interrupts are unmasked, unless their lines cannot be found out.
IomuAfterApWakeup ==
    /\ IomuInitSystemAfterApWakeup
    /\ perCpu' = Share
    /\ UNCHANGED <<clock, ticked, ticks, rtc, coreVars, timerVars>>

PitTick ==
    /\ Running /\ Unmasked /\ ticks < MaxTicks
    /\ ticks' = ticks + 1 /\ ticked' = Cpus
    /\ UNCHANGED <<startVars, clock, perCpu, rtc, coreVars, timerVars>>

RtcUpdate ==
    /\ Running /\ Unmasked /\ rtc.pc = "none" /\ clock.sec < MaxSeconds
    /\ rtc' = [rtc EXCEPT !.pc = "pending"]
    /\ UNCHANGED <<startVars, clock, perCpu, ticked, ticks, coreVars, timerVars>>

IntrOn(c) == core[c].pc = "out"

\* _IomuSystemTickInterrupt
SystemTick(c) ==
    /\ Running /\ c \in ticked /\ IntrOn(c)
    /\ ticked' = ticked \ {c}
    /\ clock' = [clock EXCEPT !.us = @ + perCpu]
    /\ UNCHANGED <<startVars, perCpu, ticks, rtc, coreVars, timerVars>>

\* OsInfoTimeUpdateIsr: IomuCmosUpdateOccurred reads the seconds ...
CmosUpdateRead ==
    /\ Running /\ rtc.pc = "pending" /\ \E c \in Cpus : IntrOn(c)
    /\ rtc' = [pc |-> "read", sec |-> clock.sec + 1]
    /\ UNCHANGED <<startVars, clock, perCpu, ticked, ticks, coreVars, timerVars>>

\* ... and exchanges both: a tick in between is lost with the microseconds.
CmosUpdateExchange ==
    /\ Running /\ rtc.pc = "read"
    /\ clock' = [sec |-> rtc.sec, us |-> 0]
    /\ rtc' = [pc |-> "none", sec |-> 0] /\ ticks' = 0
    /\ UNCHANGED <<startVars, perCpu, ticked, coreVars, timerVars>>

----------------------------------------------------------------------------
(***************************************************************************)
(* CoreUpdateIdleTime, called by _ThreadGetReadyThread with interrupts off *)
(* and ReadyThreadsLock held.                                              *)
(***************************************************************************)
At(c, pc) == Running /\ core[c].pc = pc
\* The time read is kept for as long as it is used.
Goto(c, pc) == core' = [core EXCEPT ![c].pc = pc, ![c].t = IF pc = "activity" THEN @ ELSE 0]

LockIgnored == TRUE

LockFree == lock = "none"

Schedule(c) ==
    /\ At(c, "out") /\ OnLine(c) /\ LockFree
    /\ lock' = c
    /\ \E busy \in BOOLEAN :
         core' = [core EXCEPT ![c] = [pc |-> "time", busy |-> busy, t |-> 0]]
    /\ UNCHANGED <<startVars, clockVars, readyUs, idle, screen, buffer, timerVars>>

ReadTime(c) ==
    /\ At(c, "time")
    /\ IF core[c].busy \/ c = Bsp THEN core' = [core EXCEPT ![c].t = Now, ![c].pc = "last"]
                                  ELSE Goto(c, "leave")
    /\ UNCHANGED <<startVars, clockVars, lock, readyUs, idle, screen, buffer, timerVars>>

\* The last activity is read, and the branch chosen.
ReadLast(c) ==
    /\ At(c, "last")
    /\ LET t == core[c].t
           next == IF core[c].busy THEN (IF t <= readyUs THEN "leave" ELSE "activity")
                   ELSE IF t < readyUs THEN "leave"
                   ELSE IF t - readyUs >= ToIdle THEN "idle" ELSE "leave"
       IN  /\ Goto(c, next)
           /\ panic' = IF ~core[c].busy /\ t < readyUs /\ t + Period < readyUs THEN "idle" ELSE panic
    /\ UNCHANGED <<boot, apVars, listed, lowMap, active, evtVars,
                   clockVars, lock, readyUs, idle, screen, buffer, timerVars>>

SystemIdle(c) ==
    /\ At(c, "idle")
    /\ idle' = TRUE /\ Goto(c, IF idle THEN "leave" ELSE "store")
    /\ UNCHANGED <<startVars, clockVars, lock, readyUs, screen, buffer, timerVars>>

\* DispStoreBuffer, DispClearScreen
CoreSystemIdle(c) ==
    /\ At(c, "store")
    /\ buffer' = screen /\ screen' = "blank" /\ Goto(c, "leave")
    /\ UNCHANGED <<startVars, clockVars, lock, readyUs, idle, timerVars>>

Activity(c) ==
    /\ At(c, "activity")
    /\ readyUs' = core[c].t /\ Goto(c, "awake")
    /\ UNCHANGED <<startVars, clockVars, lock, idle, screen, buffer, timerVars>>

ClearIdle(c) ==
    /\ At(c, "awake")
    /\ idle' = FALSE /\ Goto(c, IF idle THEN "restore" ELSE "leave")
    /\ UNCHANGED <<startVars, clockVars, lock, readyUs, screen, buffer, timerVars>>

CoreSystemRevertFromIdle(c) ==
    /\ At(c, "restore")
    /\ screen' = buffer /\ Goto(c, "leave")
    /\ UNCHANGED <<startVars, clockVars, lock, readyUs, idle, buffer, timerVars>>

\* The switch is made and the lock released.
Leave(c) ==
    /\ At(c, "leave")
    /\ lock' = "none" /\ core' = [core EXCEPT ![c] = Start[c]]
    /\ UNCHANGED <<startVars, clockVars, readyUs, idle, screen, buffer, timerVars>>

CoreStep(c) ==
    \/ ReadTime(c) \/ ReadLast(c) \/ SystemIdle(c) \/ CoreSystemIdle(c)
    \/ Activity(c) \/ ClearIdle(c) \/ CoreSystemRevertFromIdle(c) \/ Leave(c)

----------------------------------------------------------------------------
\* The executive timer: one thread waits, others may start and stop it.

ExTimerInit ==
    /\ Running /\ boot = "up" /\ wait = "none"
    /\ wait' = "inited"
    /\ \E us \in TimerUs, absolute \in BOOLEAN :
         LET trigger == IF absolute THEN us ELSE Now + us
         IN  trigger <= MaxSeconds * SecUs /\ timer' = [timer EXCEPT !.trigger = trigger]
    /\ UNCHANGED <<startVars, clockVars, coreVars>>

\* The operations of other threads matter until the wait has returned.
InUse == wait \notin {"none", "returned"}

ExTimerStart ==
    /\ Running /\ InUse /\ ~timer.uninited
    /\ timer' = [timer EXCEPT !.started = TRUE, !.halted = @ /\ wait # "inited"]
    /\ UNCHANGED <<startVars, clockVars, coreVars, wait>>

ExTimerStop ==
    /\ Running /\ InUse /\ ~timer.uninited
    /\ timer' = [timer EXCEPT !.started = FALSE, !.halted = TRUE]
    /\ UNCHANGED <<startVars, clockVars, coreVars, wait>>

\* It stops the timer first ...
ExTimerUninit ==
    /\ Running /\ InUse /\ ~timer.closing
    /\ timer' = [timer EXCEPT !.closing = TRUE, !.started = @ /\ timer.uninited, !.halted = TRUE]
    /\ UNCHANGED <<startVars, clockVars, coreVars, wait>>

\* ... and sets TimerUninited after; a timer started in between stays started.
ExTimerUninited ==
    /\ Running /\ InUse /\ timer.closing
    /\ timer' = [timer EXCEPT !.closing = FALSE, !.uninited = TRUE, !.halted = TRUE]
    /\ UNCHANGED <<startVars, clockVars, coreVars, wait>>

\* The condition of the loop that reads the clock
NotYetExact == Now # timer.trigger

NotYet == Now < timer.trigger

\* The timer is a local of the waiter, and gone once it has returned.
ExTimerWait ==
    /\ Running
    /\ \/ wait = "inited" /\ wait' = IF timer.uninited THEN "returned" ELSE "clock"
       \/ wait = "clock" /\ wait' = IF NotYet THEN "started" ELSE "returned"
       \/ wait = "started" /\ wait' = IF timer.started THEN "clock" ELSE "returned"
    /\ timer' = IF wait' = "returned" THEN NoTimer ELSE timer
    /\ UNCHANGED <<startVars, clockVars, coreVars>>

----------------------------------------------------------------------------
Others == UNCHANGED <<clockVars, coreVars, timerVars>>

Next ==
    \/ BspStep /\ Others
    \/ IomuAfterApWakeup
    \/ \E c \in APs : ApStep(c) /\ Others
    \/ PitTick \/ RtcUpdate \/ CmosUpdateRead \/ CmosUpdateExchange
    \/ \E c \in Cpus : SystemTick(c) \/ Schedule(c) \/ CoreStep(c)
    \/ ExTimerInit \/ ExTimerStart \/ ExTimerStop
    \/ ExTimerUninit \/ ExTimerUninited \/ ExTimerWait

(***************************************************************************)
(* Processors make progress, and the RTC interrupts: one request for it is *)
(* taken by a CPU that has interrupts on.  Nothing is assumed of the PIT,  *)
(* of scheduling or of the operations on the timer.                        *)
(***************************************************************************)
FairSpec ==
    /\ Init /\ [][Next]_vars
    /\ WF_vars((BspStep /\ Others) \/ IomuAfterApWakeup)
    /\ \A c \in APs : WF_vars(ApStep(c) /\ Others)
    /\ WF_vars(RtcUpdate) /\ WF_vars(CmosUpdateRead) /\ WF_vars(CmosUpdateExchange)
    /\ WF_vars(ExTimerWait)

----------------------------------------------------------------------------
SystemTypeOK ==
    /\ clock \in [sec : 0..MaxSeconds, us : 0..(Period * (MaxTicks + 1))]
    /\ perCpu \in 0..Period /\ ticked \subseteq Cpus /\ ticks \in 0..MaxTicks
    /\ rtc \in [pc : {"none", "pending", "read"}, sec : 0..MaxSeconds]
    /\ lock \in Cpus \cup {"none"} /\ readyUs \in Nat /\ idle \in BOOLEAN
    /\ StartTypeOK

(***************************************************************************)
(* IomuGetSystemTimeUs never goes back, across the update of the RTC and   *)
(* although the PIT may have counted more than a second before it.         *)
(***************************************************************************)
TimeMonotonic == [][IomuGetSystemTimeUs(clock') >= IomuGetSystemTimeUs(clock)]_vars

(***************************************************************************)
(* The CPUs together add one period for a tick of the PIT: the             *)
(* microseconds are never ahead of the ticks since the last update by      *)
(* more than the one still pending when it came.                           *)
(***************************************************************************)
ClockNotFast == clock.us <= (ticks + 1) * Period

(***************************************************************************)
(* The assertion of CoreUpdateIdleTime never fails: no CPU reads a time    *)
(* more than a tick before the last activity another has recorded.         *)
(***************************************************************************)
NoIdlePanic == panic # "idle"

\* The last activity is never lowered ("simply do not lower last activity time").
ActivityMonotone == [][readyUs' >= readyUs]_vars

(***************************************************************************)
(* A CPU that has scheduled a thread leaves the machine awake and its      *)
(* screen shown, although the BSP may be about to declare it idle.         *)
(***************************************************************************)
BusyMeansAwake ==
    \A c \in Cpus : core[c].pc = "leave" /\ core[c].busy => ~idle /\ screen = "console"

\* What was displayed before the machine became idle is never lost.
ContentKept == screen = "console" \/ buffer = "console"

(***************************************************************************)
(* ExTimerWait returns at the trigger time, and earlier only if the timer  *)
(* was stopped or uninitialised.                                           *)
(***************************************************************************)
TimerNotEarly ==
    [][InUse /\ wait' = "returned" => Now >= timer.trigger \/ timer.halted]_vars

(***************************************************************************)
(* A thread that waits for a timer is released, whether the clock moves by *)
(* ticks or jumps at an update of the RTC.                                 *)
(***************************************************************************)
TimerWaitReturns == wait # "none" ~> (wait = "returned" \/ ~Running)

(* The CPUs together count one period for a tick.  However those that      *)
(* schedule compete with the BSP's check for idleness, a busy machine is   *)
(* shown awake, the screen is kept and no ASSERT fails.                    *)
IdleSound ==
    /\ SystemTypeOK
    /\ ClockNotFast
    /\ NoIdlePanic
    /\ BusyMeansAwake
    /\ ContentKept

(* Neither the system time nor the time of the last activity goes back.    *)
TimesMonotonic ==
    /\ TimeMonotonic
    /\ ActivityMonotone

(* ExTimerWait returns, and not before the trigger time.                   *)
TimerWaitExact ==
    /\ TimerNotEarly
    /\ TimerWaitReturns
=============================================================================
