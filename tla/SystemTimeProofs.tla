--------------------------- MODULE SystemTimeProofs ---------------------------
(***************************************************************************)
(* Proofs about SystemStart and SystemTime for any number of CPUs, any     *)
(* period of the PIT, any length of the second and any number of ticks.    *)
(***************************************************************************)
EXTENDS SystemTime, FiniteSetTheorems, TLAPS

Reported == {c \in Cpus : seen[c] # 0}

EarlyBoot == {"early", "smp", "cpu", "iomu", "lower", "threads", "init"}
LaterBoot == {"sipi", "test", "insert", "blocked", "awake", "unmasked", "up", "failed"}

(* The types of the variables of SystemStart, and how far an AP can be.    *)
StartTypes ==
    /\ boot \in EarlyBoot \cup LaterBoot
    /\ ap \in [APs -> {"off", "tramp", "lowgdt", "init", "ready", "counted", "running"}]
    /\ seen \in [Cpus -> Nat]
    /\ active \in Nat
    /\ listed \subseteq Cpus
    /\ signaled \in BOOLEAN
    /\ waiting \in BOOLEAN
    /\ boot \in EarlyBoot => \A c \in APs : ap[c] = "off"

(* Low memory is mapped from SmpSetupLowerMemory to SmpCleanupLowerMemory. *)
LowMemoryInv ==
    /\ lowMap \subseteq {"code"} \cup APs
    /\ boot \in {"threads", "init", "sipi", "test", "insert", "blocked", "awake", "unmasked"} =>
          lowMap = {"code"} \cup APs
    /\ LowMemoryInUse

(* A CPU has reported when _InterlockedIncrement has returned to it, and   *)
(* no count that was returned is above the number of reports.              *)
ReportInv ==
    /\ \A c \in APs : seen[c] # 0 <=> ap[c] \in {"counted", "running"}
    /\ boot \in {"early", "smp", "cpu"} => seen[Bsp] = 0
    /\ boot \notin {"early", "smp", "cpu", "failed"} => seen[Bsp] # 0
    /\ active = Cardinality(Reported)
    /\ \A c \in Cpus : seen[c] <= active

(* ApStartupEvent is signaled, and the BSP goes on, when all have reported.*)
AwakeInv ==
    signaled \/ boot \in {"awake", "unmasked", "up"} => active = Cardinality(Cpus)

(* The inductive invariant of the start of the machine.                    *)
StartInv ==
    /\ StartTypes
    /\ LowMemoryInv
    /\ ReportInv
    /\ AwakeInv

-----------------------------------------------------------------------------
(* The types of the clock; its interrupts are masked until the BSP has     *)
(* divided the period.  Of the updates of the RTC one is handled at a time.*)
ClockInv ==
    /\ clock \in [sec : 0 .. MaxSeconds, us : Nat]
    /\ perCpu \in 0 .. Period
    /\ ticked \subseteq Cpus
    /\ ticks \in 0 .. MaxTicks
    /\ rtc \in [pc : {"none", "pending", "read"}, sec : 0 .. MaxSeconds]
    /\ rtc.pc # "none" => clock.sec < MaxSeconds
    /\ rtc.pc = "read" => rtc.sec = clock.sec + 1
    /\ boot \notin {"unmasked", "up", "failed"} =>
          ticked = {} /\ ticks = 0 /\ rtc.pc = "none" /\ clock.us = 0

(* The CPUs together count one period for a tick, those that have not yet  *)
(* counted it included.                                                    *)
ShareInv ==
    /\ boot \in {"unmasked", "up"} => perCpu * Cardinality(Cpus) <= Period
    /\ clock.us + perCpu * Cardinality(ticked) <= (ticks + 1) * Period

(* Where a CPU is in CoreUpdateIdleTime, its argument and the time read.   *)
CorePoints == {"out", "time", "last", "idle", "store", "activity", "awake", "restore", "leave"}
CoreRecord == [pc : CorePoints, busy : BOOLEAN, t : Nat]

(* CoreUpdateIdleTime runs on the holder of ReadyThreadsLock and on no     *)
(* other CPU, and knows on each of its paths what it was called for.       *)
CoreInv ==
    /\ core \in [Cpus -> CoreRecord]
    /\ lock \in Cpus \cup {"none"}
    /\ readyUs \in Nat
    /\ idle \in BOOLEAN
    /\ \A c \in Cpus :
          /\ core[c].pc # "out" <=> lock = c
          /\ core[c].pc \in {"idle", "store"} => ~core[c].busy
          /\ core[c].pc \in {"activity", "awake", "restore"} => core[c].busy

(* The last activity is not in the future, and before the time the holder  *)
(* has read; an idle machine has been without activity for some time,      *)
(* until the holder has recorded one.                                      *)
ActivityInv ==
    /\ readyUs <= Now
    /\ \A c \in Cpus :
          /\ core[c].pc \in {"last", "activity"} => readyUs <= core[c].t /\ core[c].t <= Now
          /\ core[c].pc = "activity" => readyUs < core[c].t
          /\ core[c].pc = "last" /\ idle => readyUs < core[c].t
          /\ core[c].pc = "idle" => readyUs < Now
    /\ idle => readyUs < Now \/ \E c \in Cpus : core[c].pc = "awake"

(* What is on the screen and what is in the buffer, before and after the   *)
(* holder of the lock has exchanged them.                                  *)
ScreenInv ==
    /\ \A c \in Cpus :
          /\ core[c].pc = "store" => idle /\ screen = "console"
          /\ core[c].pc = "restore" => ~idle /\ screen = "blank" /\ buffer = "console"
    /\ idle /\ (\A c \in Cpus : core[c].pc # "store") => screen = "blank" /\ buffer = "console"
    /\ ~idle /\ (\A c \in Cpus : core[c].pc # "restore") => screen = "console"

(* A timer that does not run was halted.                                   *)
TimerInv ==
    /\ timer \in [trigger : Nat, started : BOOLEAN, closing : BOOLEAN,
                  uninited : BOOLEAN, halted : BOOLEAN]
    /\ ~timer.started \/ timer.uninited => timer.halted

(* The inductive invariant of the clock and of what lives on it.           *)
TimeInv ==
    /\ ClockInv
    /\ ShareInv
    /\ CoreInv
    /\ ActivityInv
    /\ ScreenInv
    /\ NoIdlePanic
    /\ BusyMeansAwake
    /\ TimerInv
-----------------------------------------------------------------------------
(* Counting the CPUs that have reported.                                   *)
LEMMA ReportFacts ==
    ASSUME StartInv
    PROVE  /\ IsFiniteSet(Cpus) /\ IsFiniteSet(Reported)
           /\ Cardinality(Cpus) \in Nat \ {0}
           /\ active <= Cardinality(Cpus)
           /\ active = Cardinality(Cpus) => \A c \in Cpus : seen[c] # 0
<1> USE StartAssumption
<1>1. Reported \subseteq Cpus
  BY DEF Reported
<1>2. /\ IsFiniteSet(Reported) /\ Cardinality(Reported) <= Cardinality(Cpus)
      /\ Cardinality(Cpus) = Cardinality(Reported) => Cpus = Reported
  BY <1>1, FS_Subset
<1>3. Cardinality(Cpus) \in Nat /\ Cardinality(Cpus) # 0
  BY FS_CardinalityType, FS_EmptySet
<1>4. active = Cardinality(Reported)
  BY DEF StartInv, ReportInv
<1>5. Cpus = Reported => \A c \in Cpus : seen[c] # 0
  BY DEF Reported
<1> QED BY <1>2, <1>3, <1>4, <1>5

(* _InterlockedIncrement: a CPU that has not reported is not yet counted.  *)
LEMMA CountFacts ==
    ASSUME StartInv, NEW c \in Cpus, seen[c] = 0, Count(c)
    PROVE  /\ seen' \in [Cpus -> Nat] /\ seen'[c] # 0
           /\ \A d \in Cpus \ {c} : seen'[d] = seen[d]
           /\ active' \in Nat /\ active < Cardinality(Cpus)
           /\ active' = Cardinality(Reported')
           /\ \A d \in Cpus : seen'[d] <= active'
<1>1. /\ active' = active + 1 /\ seen' = [seen EXCEPT ![c] = active + 1]
      /\ active \in Nat /\ seen \in [Cpus -> Nat]
      /\ active = Cardinality(Reported) /\ \A d \in Cpus : seen[d] <= active
  BY DEF Count, StartInv, StartTypes, ReportInv
<1>2. Reported' = Reported \cup {c} /\ c \notin Reported
  BY <1>1 DEF Reported
<1>3. Cardinality(Reported') = Cardinality(Reported) + 1
  BY <1>2, ReportFacts, FS_AddElement
<1>4. active # Cardinality(Cpus)
  BY ReportFacts
<1>5. active < Cardinality(Cpus)
  BY <1>1, <1>4, ReportFacts
<1>6. \A d \in Cpus : seen'[d] <= active'
  BY <1>1
<1> QED BY <1>1, <1>3, <1>5, <1>6

(* What SystemStart keeps does not change.                                 *)
LEMMA StartFrame ==
    ASSUME StartInv, UNCHANGED <<boot, apVars, listed, lowMap, active, evtVars>>
    PROVE  StartInv'
  BY DEF StartInv, StartTypes, LowMemoryInv, LowMemoryInUse, ReportInv, Reported, AwakeInv,
     apVars, evtVars

(* The stages of SystemInit that only go on or fail.                       *)
LEMMA BootStageInv ==
    ASSUME StartInv,
           \/ EarlyInit \/ SmpInit \/ ThreadsInit \/ IomuInitSystemAfterApWakeup
    PROVE  StartInv'
<1>1. UNCHANGED <<ap, seen, listed, lowMap, active, signaled, waiting>>
  BY DEF EarlyInit, SmpInit, ThreadsInit, IomuInitSystemAfterApWakeup, apVars, evtVars
<1>2. \/ boot = "early" /\ boot' \in {"smp", "failed"}
      \/ boot = "smp" /\ boot' \in {"cpu", "failed"}
      \/ boot = "threads" /\ boot' \in {"init", "failed"}
      \/ boot = "awake" /\ boot' \in {"unmasked", "failed"}
  BY DEF EarlyInit, SmpInit, ThreadsInit, IomuInitSystemAfterApWakeup, BootStage
<1>3. StartTypes'
  BY <1>1, <1>2 DEF StartInv, StartTypes, EarlyBoot, LaterBoot
<1>4. LowMemoryInv'
  BY <1>1, <1>2 DEF StartInv, LowMemoryInv, LowMemoryInUse
<1>5. ReportInv' /\ AwakeInv'
  BY <1>1, <1>2 DEF StartInv, ReportInv, Reported, AwakeInv
<1> QED BY <1>3, <1>4, <1>5 DEF StartInv

LEMMA CpuMuAllocAndInitCpuInv ==
    ASSUME StartInv, CpuMuAllocAndInitCpu
    PROVE  StartInv'
<1> USE StartAssumption
<1>1. boot = "cpu" /\ boot' \in {"iomu", "failed"} /\ seen[Bsp] = 0 /\ Bsp \notin APs
  BY DEF CpuMuAllocAndInitCpu, BootStage, StartInv, ReportInv, APs
<1>2. UNCHANGED <<ap, listed, lowMap, signaled, waiting>>
  BY DEF CpuMuAllocAndInitCpu, evtVars
<1>3. CASE boot' = "failed"
  <2>1. UNCHANGED <<active, seen>>
    BY <1>3 DEF CpuMuAllocAndInitCpu
  <2> QED BY <1>1, <1>2, <1>3, <2>1 DEF StartInv, StartTypes, EarlyBoot, LaterBoot, LowMemoryInv,
       LowMemoryInUse, ReportInv, Reported, AwakeInv
<1>4. CASE boot' # "failed"
  <2>1. Count(Bsp)
    BY <1>4 DEF CpuMuAllocAndInitCpu
  <2>2. StartTypes' /\ LowMemoryInv'
    BY <1>1, <1>2, <1>4, <2>1, CountFacts DEF StartInv, StartTypes, EarlyBoot, LaterBoot,
       LowMemoryInv, LowMemoryInUse
  <2>3. ReportInv'
    <3>1. \A c \in APs : seen'[c] = seen[c]
      BY <1>1, <2>1, CountFacts DEF APs
    <3> QED BY <1>1, <1>2, <1>4, <2>1, <3>1, CountFacts DEF StartInv, ReportInv
  <2>4. ~signaled
    BY <1>1, ReportFacts DEF StartInv, AwakeInv
  <2>5. AwakeInv'
    BY <1>1, <1>2, <1>4, <2>4 DEF AwakeInv
  <2> QED BY <2>2, <2>3, <2>5 DEF StartInv
<1> QED BY <1>3, <1>4

(* The BSP signals ApStartupEvent itself if it is the only CPU.            *)
LEMMA BspNotifiedInv ==
    ASSUME StartInv, BspNotified
    PROVE  StartInv'
<1> USE StartAssumption
<1>1. boot = "iomu" /\ boot' \in {"lower", "failed"}
  BY DEF BspNotified, BootStage
<1>2. UNCHANGED <<ap, seen, listed, lowMap, active, waiting>>
  BY DEF BspNotified, apVars
<1>3. seen[Bsp] <= active /\ seen[Bsp] \in Nat /\ active \in Nat
  BY DEF StartInv, StartTypes, ReportInv
<1>4. signaled' \in BOOLEAN /\ (signaled' => signaled \/ seen[Bsp] = Cardinality(Cpus))
  BY DEF BspNotified, Notify
<1>5. signaled' => active = Cardinality(Cpus)
  <2>1. seen[Bsp] = Cardinality(Cpus) => active = Cardinality(Cpus)
    BY <1>3, ReportFacts
  <2> QED BY <1>4, <2>1 DEF StartInv, AwakeInv
<1>6. StartTypes' /\ LowMemoryInv'
  BY <1>1, <1>2, <1>4 DEF StartInv, StartTypes, EarlyBoot, LaterBoot, LowMemoryInv, LowMemoryInUse
<1>7. ReportInv' /\ AwakeInv'
  BY <1>1, <1>2, <1>5 DEF StartInv, ReportInv, Reported, AwakeInv
<1> QED BY <1>6, <1>7 DEF StartInv

LEMMA SmpSetupLowerMemoryInv ==
    ASSUME StartInv, SmpSetupLowerMemory
    PROVE  StartInv'
<1>1. boot = "lower" /\ boot' \in {"threads", "failed"}
  BY DEF SmpSetupLowerMemory, BootStage
<1>2. UNCHANGED <<ap, seen, active, signaled, waiting>> /\ listed' \subseteq Cpus
  BY DEF SmpSetupLowerMemory, apVars, evtVars
<1>3. lowMap' \subseteq {"code"} \cup APs /\ (boot' = "threads" => lowMap' = {"code"} \cup APs)
  BY <1>1 DEF SmpSetupLowerMemory, StartInv, LowMemoryInv
<1>4. \A c \in APs : ap[c] = "off"
  BY <1>1 DEF StartInv, StartTypes, EarlyBoot
<1>5. StartTypes' /\ LowMemoryInv'
  BY <1>1, <1>2, <1>3, <1>4 DEF StartInv, StartTypes, EarlyBoot, LaterBoot, LowMemoryInv,
     LowMemoryInUse
<1>6. ReportInv' /\ AwakeInv'
  BY <1>1, <1>2 DEF StartInv, ReportInv, Reported, AwakeInv
<1> QED BY <1>5, <1>6 DEF StartInv

(* The APs are started on memory that is mapped for them.                  *)
LEMMA SmpSignalAllAPsInv ==
    ASSUME StartInv, SmpSignalAllAPs
    PROVE  StartInv'
<1> USE StartAssumption
<1>1. UNCHANGED <<listed, lowMap, active, seen, signaled, waiting>>
  BY DEF SmpSignalAllAPs, evtVars
<1>2. /\ \/ boot = "init" /\ boot' \in {"awake", "sipi"}
         \/ boot = "sipi" /\ boot' = "test"
      /\ boot' = "awake" => APs = {}
  BY DEF SmpSignalAllAPs
<1>3. /\ ap' \in [APs -> {"off", "tramp", "lowgdt", "init", "ready", "counted", "running"}]
      /\ \A c \in APs : ap'[c] = ap[c] \/ (ap'[c] = "tramp" /\ ap[c] = "off")
  BY <1>2 DEF SmpSignalAllAPs, StartInv, StartTypes, EarlyBoot
<1>4. StartTypes' /\ LowMemoryInv'
  BY <1>1, <1>2, <1>3 DEF StartInv, StartTypes, EarlyBoot, LaterBoot, LowMemoryInv, LowMemoryInUse
<1>5. ReportInv'
  BY <1>1, <1>2, <1>3 DEF StartInv, ReportInv, Reported
<1>6. AwakeInv'
  <2>1. ASSUME boot' = "awake" PROVE active = Cardinality(Cpus)
    <3>1. Cpus = {Bsp} /\ seen[Bsp] # 0
      BY <1>2, <2>1 DEF APs, StartInv, ReportInv
    <3>2. Reported = Cpus
      BY <3>1 DEF Reported
    <3> QED BY <3>2 DEF StartInv, ReportInv
  <2> QED BY <1>1, <1>2, <2>1 DEF StartInv, AwakeInv
<1> QED BY <1>4, <1>5, <1>6 DEF StartInv

(* The wait for ApStartupEvent ends only if it is signaled.                *)
LEMMA BspWaitInv ==
    ASSUME StartInv, WaitTest \/ WaitInsert \/ WaitWoken
    PROVE  StartInv'
<1>1. UNCHANGED <<ap, seen, listed, lowMap, active>>
  BY DEF WaitTest, WaitInsert, WaitWoken, apVars
<1>2. /\ boot \in {"test", "insert", "blocked"}
      /\ boot' \in {"awake", "insert", "blocked", "test"}
      /\ boot' = "awake" => signaled
      /\ signaled' \in {signaled, FALSE} /\ waiting' \in {waiting, TRUE}
  BY DEF WaitTest, WaitInsert, WaitWoken, evtVars
<1>3. StartTypes' /\ LowMemoryInv'
  BY <1>1, <1>2 DEF StartInv, StartTypes, EarlyBoot, LaterBoot, LowMemoryInv, LowMemoryInUse
<1>4. ReportInv'
  BY <1>1, <1>2 DEF StartInv, ReportInv, Reported
<1>5. signaled' => signaled
  BY <1>2
<1>6. AwakeInv'
  BY <1>1, <1>2, <1>5 DEF StartInv, AwakeInv
<1> QED BY <1>3, <1>4, <1>6 DEF StartInv

(* Low memory is unmapped when every AP has reported, from its own stack.  *)
LEMMA SmpCleanupLowerMemoryInv ==
    ASSUME StartInv, SmpCleanupLowerMemory
    PROVE  StartInv'
<1>1. boot = "unmasked" /\ boot' \in {"up", "failed"} /\ lowMap' = {}
  BY DEF SmpCleanupLowerMemory, BootStage
<1>2. UNCHANGED <<ap, seen, listed, active, signaled, waiting>>
  BY DEF SmpCleanupLowerMemory, apVars, evtVars
<1>3. \A c \in APs : ap[c] \in {"counted", "running"}
  BY <1>1, ReportFacts DEF StartInv, AwakeInv, ReportInv, APs
<1>4. StartTypes' /\ LowMemoryInv'
  BY <1>1, <1>2, <1>3 DEF StartInv, StartTypes, EarlyBoot, LaterBoot, LowMemoryInv, LowMemoryInUse
<1>5. ReportInv' /\ AwakeInv'
  BY <1>1, <1>2 DEF StartInv, ReportInv, Reported, AwakeInv
<1> QED BY <1>4, <1>5 DEF StartInv

(* An application processor goes on, and reports once.                     *)
LEMMA ApStepInv ==
    ASSUME StartInv, NEW c \in APs, ApStep(c)
    PROVE  StartInv'
<1> USE StartAssumption
<1>1. UNCHANGED <<boot, listed, lowMap>> /\ ap[c] # "off"
  BY DEF ApStep, Trampoline, ApInitCpu, CpuMuInitCpu, SmpNotifyCpuWakeup, SmpSignalStartup, ApStage
<1>2. boot \notin EarlyBoot /\ c \in Cpus /\ c # Bsp
  BY <1>1 DEF StartInv, StartTypes, APs
<1>3. CASE Trampoline(c) \/ ApInitCpu(c) \/ CpuMuInitCpu(c)
  <2>1. /\ UNCHANGED <<seen, active, signaled, waiting>>
        /\ \/ ap' = ap
           \/ ap[c] = "tramp" /\ ap' = [ap EXCEPT ![c] = "lowgdt"]
           \/ ap[c] = "lowgdt" /\ ap' = [ap EXCEPT ![c] = "init"]
           \/ ap[c] = "init" /\ ap' = [ap EXCEPT ![c] = "ready"]
    BY <1>3 DEF Trampoline, ApInitCpu, CpuMuInitCpu, ApStage, evtVars
  <2>2. StartTypes' /\ LowMemoryInv'
    BY <1>1, <1>2, <2>1 DEF StartInv, StartTypes, LowMemoryInv, LowMemoryInUse
  <2>3. ReportInv' /\ AwakeInv'
    BY <1>1, <2>1 DEF StartInv, StartTypes, ReportInv, Reported, AwakeInv
  <2> QED BY <2>2, <2>3 DEF StartInv
<1>4. CASE SmpNotifyCpuWakeup(c)
  <2>1. /\ ap[c] = "ready" /\ ap' = [ap EXCEPT ![c] = "counted"] /\ Count(c)
        /\ UNCHANGED <<signaled, waiting>>
    BY <1>4 DEF SmpNotifyCpuWakeup, evtVars
  <2>2. seen[c] = 0
    BY <2>1 DEF StartInv, ReportInv
  <2>3. StartTypes' /\ LowMemoryInv'
    BY <1>1, <1>2, <2>1, <2>2, CountFacts DEF StartInv, StartTypes, LowMemoryInv, LowMemoryInUse
  <2>4. ReportInv'
    <3>1. \A d \in APs \ {c} : seen'[d] = seen[d] /\ ap'[d] = ap[d]
      BY <1>2, <2>1, <2>2, CountFacts DEF APs, StartInv, StartTypes
    <3>2. ap'[c] = "counted" /\ seen'[c] # 0 /\ seen'[Bsp] = seen[Bsp]
      BY <1>2, <2>1, <2>2, CountFacts DEF StartInv, StartTypes
    <3> QED BY <1>1, <1>2, <2>1, <2>2, <3>1, <3>2, CountFacts DEF StartInv, ReportInv
  <2>5. AwakeInv'
    <3>1. active # Cardinality(Cpus)
      BY <1>2, <2>2, ReportFacts
    <3> QED BY <1>1, <2>1, <3>1 DEF StartInv, AwakeInv
  <2> QED BY <2>3, <2>4, <2>5 DEF StartInv
<1>5. CASE SmpSignalStartup(c)
  <2>1. /\ ap[c] = "counted" /\ (ap' = ap \/ ap' = [ap EXCEPT ![c] = "running"])
        /\ UNCHANGED <<seen, active>>
        /\ \/ seen[c] = Cardinality(Cpus) /\ signaled' = TRUE /\ waiting' = FALSE
           \/ UNCHANGED <<signaled, waiting>>
    BY <1>5 DEF SmpSignalStartup, ApStage, Notify, evtVars
  <2>2. seen[c] = Cardinality(Cpus) => active = Cardinality(Cpus)
    BY <1>2, ReportFacts DEF StartInv, StartTypes, ReportInv
  <2>3. StartTypes' /\ LowMemoryInv'
    BY <1>1, <1>2, <2>1 DEF StartInv, StartTypes, LowMemoryInv, LowMemoryInUse
  <2>4. ReportInv' /\ AwakeInv'
    BY <1>1, <2>1, <2>2 DEF StartInv, StartTypes, ReportInv, Reported, AwakeInv
  <2> QED BY <2>3, <2>4 DEF StartInv
<1> QED BY <1>3, <1>4, <1>5 DEF ApStep

LEMMA BspStepInv ==
    ASSUME StartInv, BspStep
    PROVE  StartInv'
  BY BootStageInv, CpuMuAllocAndInitCpuInv, BspNotifiedInv, SmpSetupLowerMemoryInv,
     SmpSignalAllAPsInv, BspWaitInv, SmpCleanupLowerMemoryInv DEF BspStep
-----------------------------------------------------------------------------
(* The shares of n CPUs add up to the period at most.                      *)
LEMMA ShareFacts ==
    ASSUME NEW p \in Nat, NEW n \in Nat \ {0}
    PROVE  p \div n \in 0 .. p /\ (p \div n) * n <= p
<1>1. p \div n \in Nat /\ n * (p \div n) <= p
  OBVIOUS
<1>2. (p \div n) * n = n * (p \div n) /\ p \div n <= n * (p \div n)
  BY <1>1
<1> QED BY <1>1, <1>2

(* The time a clock shows.                                                 *)
LEMMA TimeFacts ==
    ASSUME NEW s \in Nat, NEW u \in Nat
    PROVE  /\ s * SecUs \in Nat /\ (s + 1) * SecUs = s * SecUs + SecUs
           /\ IomuGetSystemTimeUs([sec |-> s, us |-> u]) \in Nat
           /\ s * SecUs <= IomuGetSystemTimeUs([sec |-> s, us |-> u])
           /\ IomuGetSystemTimeUs([sec |-> s, us |-> u]) <= s * SecUs + SecUs
<1>1. SecUs \in Nat
  BY TimeAssumption
<1>2. s * SecUs \in Nat /\ (s + 1) * SecUs = s * SecUs + SecUs
  BY <1>1
<1> QED BY <1>1, <1>2 DEF IomuGetSystemTimeUs

(* A clock that has counted further shows no earlier time.                 *)
LEMMA CountingFacts ==
    ASSUME NEW s \in Nat, NEW u \in Nat, NEW v \in Nat, u <= v
    PROVE  IomuGetSystemTimeUs([sec |-> s, us |-> u]) <= IomuGetSystemTimeUs([sec |-> s, us |-> v])
<1>1. SecUs \in Nat /\ s * SecUs \in Nat
  BY TimeAssumption, TimeFacts
<1> QED BY <1>1 DEF IomuGetSystemTimeUs

LEMMA ClockFacts ==
    ASSUME ClockInv
    PROVE  /\ clock = [sec |-> clock.sec, us |-> clock.us]
           /\ clock.sec \in Nat /\ clock.us \in Nat /\ Now \in Nat
<1>1. MaxSeconds \in Nat
  BY TimeAssumption
<1>2. clock = [sec |-> clock.sec, us |-> clock.us] /\ clock.sec \in Nat /\ clock.us \in Nat
  BY <1>1 DEF ClockInv
<1> QED BY <1>2, TimeFacts DEF Now

(* Only time passes: the activity is still not in the future.              *)
LEMMA TimePasses ==
    ASSUME TimeInv, ClockInv', Now' >= Now, UNCHANGED coreVars
    PROVE  CoreInv' /\ ActivityInv' /\ ScreenInv' /\ BusyMeansAwake'
<1>1. UNCHANGED <<lock, core, readyUs, idle, screen, buffer>>
  BY DEF coreVars
<1>2. Now \in Nat /\ Now' \in Nat
  <2>1. Now \in Nat
    BY ClockFacts DEF TimeInv
  <2>2. Now' \in Nat
    <3>1. MaxSeconds \in Nat
      BY TimeAssumption
    <3>2. clock' = [sec |-> clock'.sec, us |-> clock'.us] /\ clock'.sec \in Nat /\ clock'.us \in Nat
      BY <3>1 DEF ClockInv
    <3> QED BY <3>2, TimeFacts DEF Now
  <2> QED BY <2>1, <2>2
<1>3. CoreInv' /\ ScreenInv' /\ BusyMeansAwake'
  BY <1>1 DEF TimeInv, CoreInv, ScreenInv, BusyMeansAwake
<1>4. ActivityInv'
  <2>1. readyUs \in Nat /\ \A c \in Cpus : core[c].t \in Nat
    BY DEF TimeInv, CoreInv, CoreRecord
  <2> HIDE DEF Now
  <2> QED BY <1>1, <1>2, <2>1 DEF TimeInv, ActivityInv
<1> QED BY <1>3, <1>4

(* Only the start of the machine goes on.                                  *)
LEMMA StartTimeInv ==
    ASSUME TimeInv, Others, BspStep \/ \E c \in APs : ApStep(c)
    PROVE  TimeInv' /\ Now' = Now
<1>1. /\ boot' \notin {"unmasked", "up", "failed"} => boot \notin {"unmasked", "up", "failed"}
      /\ boot' \in {"unmasked", "up"} => boot \in {"unmasked", "up"}
      /\ panic' \in {panic, "ap"}
  BY DEF BspStep, EarlyInit, SmpInit, CpuMuAllocAndInitCpu, BspNotified, SmpSetupLowerMemory,
     ThreadsInit, SmpSignalAllAPs, WaitTest, WaitInsert, WaitWoken, SmpCleanupLowerMemory,
     BootStage, Running, ApStep, Trampoline, ApInitCpu, CpuMuInitCpu, SmpNotifyCpuWakeup,
     SmpSignalStartup, ApStage
<1>2. UNCHANGED <<clock, perCpu, ticked, ticks, rtc, lock, core, readyUs, idle, screen, buffer,
                  timer, wait>>
  BY DEF Others, clockVars, coreVars, timerVars
<1>3. ClockInv' /\ ShareInv' /\ Now' = Now
  BY <1>1, <1>2 DEF TimeInv, ClockInv, ShareInv, Now
<1>4. CoreInv' /\ ActivityInv' /\ ScreenInv' /\ BusyMeansAwake' /\ TimerInv' /\ NoIdlePanic'
  BY <1>1, <1>2, <1>3 DEF TimeInv, CoreInv, ActivityInv, ScreenInv, BusyMeansAwake, TimerInv,
     NoIdlePanic, Now
<1> QED BY <1>3, <1>4 DEF TimeInv

(* The period is divided by the CPUs when all of them have reported.       *)
LEMMA IomuAfterApWakeupInv ==
    ASSUME StartInv, TimeInv, IomuAfterApWakeup
    PROVE  TimeInv' /\ Now' = Now
<1> USE TimeAssumption
<1>1. boot = "awake" /\ boot' \in {"unmasked", "failed"} /\ panic' = panic
  BY DEF IomuAfterApWakeup, IomuInitSystemAfterApWakeup, BootStage
<1>2. /\ perCpu' = Period \div active
      /\ UNCHANGED <<clock, ticked, ticks, rtc, lock, core, readyUs, idle, screen, buffer, timer,
                     wait>>
  BY DEF IomuAfterApWakeup, Share, coreVars, timerVars
<1>3. active = Cardinality(Cpus) /\ Cardinality(Cpus) \in Nat \ {0}
  BY <1>1, ReportFacts DEF StartInv, AwakeInv
<1>4. perCpu' \in 0 .. Period /\ perCpu' * Cardinality(Cpus) <= Period
  BY <1>2, <1>3, ShareFacts
<1>5. ticked = {} /\ ticks = 0 /\ clock.us = 0 /\ Cardinality(ticked) = 0
  BY <1>1, FS_EmptySet DEF TimeInv, ClockInv
<1>6. ClockInv' /\ Now' = Now
  BY <1>1, <1>2, <1>4 DEF TimeInv, ClockInv, Now
<1>7. ShareInv'
  BY <1>1, <1>2, <1>4, <1>5 DEF ShareInv
<1>8. CoreInv' /\ ActivityInv' /\ ScreenInv' /\ BusyMeansAwake' /\ TimerInv' /\ NoIdlePanic'
  BY <1>1, <1>2 DEF TimeInv, CoreInv, ActivityInv, ScreenInv, BusyMeansAwake, TimerInv,
     NoIdlePanic, Now
<1> QED BY <1>6, <1>7, <1>8 DEF TimeInv
(* A tick of the PIT becomes pending on every CPU, and merges with the one *)
(* that may already be.                                                    *)
LEMMA PitTickInv ==
    ASSUME StartInv, TimeInv, PitTick
    PROVE  TimeInv' /\ Now' = Now
<1> USE TimeAssumption
<1>1. boot \in {"unmasked", "up"} /\ ticks < MaxTicks /\ ticks' = ticks + 1 /\ ticked' = Cpus
  BY DEF PitTick, Unmasked
<1>2. UNCHANGED <<boot, panic, clock, perCpu, rtc, coreVars, timer>>
  BY DEF PitTick, startVars, timerVars
<1>3. ClockInv' /\ Now' = Now
  BY <1>1, <1>2 DEF TimeInv, ClockInv, Now
<1>4. ShareInv'
  <2>1. /\ clock.us \in Nat /\ perCpu \in Nat /\ ticks \in Nat /\ Period \in Nat
        /\ clock.us + perCpu * Cardinality(ticked) <= (ticks + 1) * Period
        /\ perCpu * Cardinality(Cpus) <= Period
    BY <1>1, ClockFacts DEF TimeInv, ClockInv, ShareInv
  <2>2. Cardinality(Cpus) \in Nat /\ Cardinality(ticked) \in Nat
    BY ReportFacts, FS_Subset, FS_CardinalityType DEF TimeInv, ClockInv
  <2>3. perCpu * Cardinality(ticked) \in Nat /\ perCpu * Cardinality(Cpus) \in Nat
    BY <2>1, <2>2
  <2>4. (ticks + 1 + 1) * Period = (ticks + 1) * Period + Period /\ (ticks + 1) * Period \in Nat
    BY <2>1
  <2>5. clock.us + perCpu * Cardinality(Cpus) <= (ticks + 1 + 1) * Period
    BY <2>1, <2>3, <2>4
  <2> QED BY <1>1, <1>2, <2>1, <2>5 DEF ShareInv
<1>5. CoreInv' /\ ActivityInv' /\ ScreenInv' /\ BusyMeansAwake'
  <2>1. Now' >= Now
    BY <1>3, ClockFacts DEF TimeInv
  <2> QED BY <1>2, <1>3, <2>1, TimePasses
<1> QED BY <1>2, <1>3, <1>4, <1>5 DEF TimeInv, TimerInv, NoIdlePanic

(* A CPU counts its share of the tick that was pending.                    *)
LEMMA SystemTickInv ==
    ASSUME StartInv, TimeInv, NEW c \in Cpus, SystemTick(c)
    PROVE  TimeInv' /\ Now' >= Now
<1> USE TimeAssumption
<1>1. /\ c \in ticked /\ ticked' = ticked \ {c} /\ boot # "failed"
      /\ clock' = [clock EXCEPT !.us = @ + perCpu]
  BY DEF SystemTick, Running
<1>2. UNCHANGED <<boot, panic, perCpu, ticks, rtc, coreVars, timer>>
  BY DEF SystemTick, startVars, timerVars
<1>3. boot \in {"unmasked", "up"} /\ perCpu \in Nat
  BY <1>1 DEF TimeInv, ClockInv
<1>4. /\ clock' = [sec |-> clock.sec, us |-> clock.us + perCpu]
      /\ clock'.sec = clock.sec /\ clock'.us = clock.us + perCpu
      /\ clock.sec \in 0 .. MaxSeconds /\ clock.us \in Nat
  BY <1>1, <1>3 DEF TimeInv, ClockInv
<1>5. ClockInv'
  <2>1. clock' \in [sec : 0 .. MaxSeconds, us : Nat]
    BY <1>3, <1>4
  <2> QED BY <1>1, <1>2, <1>3, <1>4, <2>1 DEF TimeInv, ClockInv
<1>6. Now' >= Now
  <2>1. clock.sec \in Nat /\ clock.us + perCpu \in Nat /\ clock.us <= clock.us + perCpu
    BY <1>3, <1>4
  <2>2. IomuGetSystemTimeUs([sec |-> clock.sec, us |-> clock.us]) <=
           IomuGetSystemTimeUs([sec |-> clock.sec, us |-> clock.us + perCpu])
    BY <1>4, <2>1, CountingFacts
  <2>3. clock = [sec |-> clock.sec, us |-> clock.us]
    BY ClockFacts DEF TimeInv
  <2>4. /\ Now = IomuGetSystemTimeUs([sec |-> clock.sec, us |-> clock.us])
        /\ Now' = IomuGetSystemTimeUs([sec |-> clock.sec, us |-> clock.us + perCpu])
    BY <1>4, <2>3 DEF Now
  <2>5. Now \in Nat /\ Now' \in Nat
    BY <1>4, <2>1, <2>4, TimeFacts
  <2> HIDE DEF Now
  <2> QED BY <2>2, <2>4, <2>5
<1>7. ShareInv'
  <2>1. Cardinality(ticked) \in Nat /\ Cardinality(ticked \ {c}) = Cardinality(ticked) - 1
    BY <1>1, ReportFacts, FS_Subset, FS_CardinalityType, FS_RemoveElement DEF TimeInv, ClockInv
  <2>2. perCpu * (Cardinality(ticked) - 1) = perCpu * Cardinality(ticked) - perCpu
    BY <1>3, <2>1
  <2>3. perCpu * Cardinality(ticked) \in Nat
    BY <1>3, <2>1
  <2>4. (ticks + 1) * Period \in Nat
    BY DEF TimeInv, ClockInv
  <2>5. clock.us + perCpu + perCpu * Cardinality(ticked \ {c}) <= (ticks + 1) * Period
    BY <1>3, <1>4, <2>1, <2>2, <2>3, <2>4 DEF TimeInv, ShareInv
  <2> QED BY <1>1, <1>2, <1>4, <2>5 DEF TimeInv, ShareInv
<1>8. CoreInv' /\ ActivityInv' /\ ScreenInv' /\ BusyMeansAwake'
  BY <1>2, <1>5, <1>6, TimePasses
<1> QED BY <1>2, <1>5, <1>6, <1>7, <1>8 DEF TimeInv, TimerInv, NoIdlePanic

(* An update of the RTC is announced, and its handler computes the second. *)
LEMMA RtcUpdateInv ==
    ASSUME TimeInv, RtcUpdate \/ CmosUpdateRead
    PROVE  TimeInv' /\ Now' = Now
<1> USE TimeAssumption
<1>1. /\ boot # "failed" /\ rtc.pc \in {"none", "pending"}
      /\ rtc.pc = "none" => boot \in {"unmasked", "up"} /\ clock.sec < MaxSeconds
      /\ \/ rtc' = [rtc EXCEPT !.pc = "pending"]
         \/ rtc.pc = "pending" /\ rtc' = [pc |-> "read", sec |-> clock.sec + 1]
  BY DEF RtcUpdate, CmosUpdateRead, Running, Unmasked
<1>2. UNCHANGED <<boot, panic, clock, perCpu, ticked, ticks, coreVars, timer>>
  BY DEF RtcUpdate, CmosUpdateRead, startVars, timerVars
<1>3. /\ clock.sec \in 0 .. MaxSeconds /\ clock.sec < MaxSeconds
      /\ boot \in {"unmasked", "up"}
      /\ rtc' \in [pc : {"none", "pending", "read"}, sec : 0 .. MaxSeconds]
      /\ rtc'.pc = "read" => rtc'.sec = clock.sec + 1
  BY <1>1 DEF TimeInv, ClockInv
<1>4. ClockInv' /\ Now' = Now
  BY <1>2, <1>3 DEF TimeInv, ClockInv, Now
<1>5. ShareInv'
  BY <1>2 DEF TimeInv, ShareInv
<1>6. CoreInv' /\ ActivityInv' /\ ScreenInv' /\ BusyMeansAwake'
  <2>1. Now' >= Now
    BY <1>4, ClockFacts DEF TimeInv
  <2> QED BY <1>2, <1>4, <2>1, TimePasses
<1> QED BY <1>2, <1>4, <1>5, <1>6 DEF TimeInv, TimerInv, NoIdlePanic

(* The exchange: the next second, whatever the microseconds had come to.   *)
LEMMA CmosUpdateExchangeInv ==
    ASSUME StartInv, TimeInv, CmosUpdateExchange
    PROVE  TimeInv' /\ Now' >= Now
<1> USE TimeAssumption
<1>1. /\ rtc.pc = "read" /\ boot # "failed" /\ clock' = [sec |-> rtc.sec, us |-> 0]
      /\ rtc' = [pc |-> "none", sec |-> 0] /\ ticks' = 0
  BY DEF CmosUpdateExchange, Running
<1>2. UNCHANGED <<boot, panic, perCpu, ticked, coreVars, timer>>
  BY DEF CmosUpdateExchange, startVars, timerVars
<1>3. /\ boot \in {"unmasked", "up"} /\ clock.sec \in Nat /\ clock.us \in Nat
      /\ rtc.sec = clock.sec + 1 /\ rtc.sec \in 0 .. MaxSeconds
      /\ perCpu \in Nat /\ perCpu * Cardinality(Cpus) <= Period
  BY <1>1, ClockFacts DEF TimeInv, ClockInv, ShareInv
<1>4. ClockInv'
  BY <1>1, <1>2, <1>3 DEF TimeInv, ClockInv
<1>5. Now' >= Now
  <2>1. clock.sec + 1 \in Nat /\ 0 \in Nat
    BY <1>3
  <2>2. /\ Now = IomuGetSystemTimeUs([sec |-> clock.sec, us |-> clock.us])
        /\ Now' = IomuGetSystemTimeUs([sec |-> clock.sec + 1, us |-> 0])
    BY <1>1, <1>3, ClockFacts DEF Now, TimeInv
  <2>3. /\ Now <= clock.sec * SecUs + SecUs /\ (clock.sec + 1) * SecUs = clock.sec * SecUs + SecUs
        /\ (clock.sec + 1) * SecUs <= Now' /\ Now \in Nat /\ Now' \in Nat
        /\ (clock.sec + 1) * SecUs \in Nat
    BY <1>3, <2>1, <2>2, TimeFacts
  <2> HIDE DEF Now
  <2> QED BY <2>3
<1>6. ShareInv'
  <2>1. /\ Cardinality(Cpus) \in Nat /\ Cardinality(ticked) \in Nat
        /\ Cardinality(ticked) <= Cardinality(Cpus)
    BY ReportFacts, FS_Subset, FS_CardinalityType DEF TimeInv, ClockInv
  <2>2. perCpu * Cardinality(ticked) <= perCpu * Cardinality(Cpus)
    BY <1>3, <2>1
  <2>3. perCpu * Cardinality(ticked) \in Nat /\ perCpu * Cardinality(Cpus) \in Nat
    BY <1>3, <2>1
  <2>4. 0 + perCpu * Cardinality(ticked) <= (0 + 1) * Period
    BY <1>3, <2>2, <2>3
  <2> QED BY <1>1, <1>2, <1>3, <2>4 DEF ShareInv
<1>7. CoreInv' /\ ActivityInv' /\ ScreenInv' /\ BusyMeansAwake'
  BY <1>2, <1>4, <1>5, TimePasses
<1> QED BY <1>2, <1>4, <1>5, <1>6, <1>7 DEF TimeInv, TimerInv, NoIdlePanic

(* The operations of the executive timer.                                  *)
LEMMA TimerStepInv ==
    ASSUME TimeInv, ExTimerInit \/ ExTimerStart \/ ExTimerStop \/ ExTimerUninit
              \/ ExTimerUninited \/ ExTimerWait
    PROVE  TimeInv' /\ Now' = Now
<1> USE TimeAssumption
<1>1. UNCHANGED <<boot, panic, clock, perCpu, ticked, ticks, rtc, lock, core, readyUs, idle,
                  screen, buffer>>
  BY DEF ExTimerInit, ExTimerStart, ExTimerStop, ExTimerUninit, ExTimerUninited, ExTimerWait,
         startVars, clockVars, coreVars
<1>2. TimerInv'
  <2>1. CASE ExTimerInit
    <3>1. \A us \in TimerUs : us \in Nat /\ Now + us \in Nat
      BY ClockFacts DEF TimeInv
    <3> QED BY <2>1, <3>1 DEF ExTimerInit, TimeInv, TimerInv
  <2>2. CASE ExTimerStart \/ ExTimerStop \/ ExTimerUninit \/ ExTimerUninited
    BY <2>2 DEF ExTimerStart, ExTimerStop, ExTimerUninit, ExTimerUninited, TimeInv, TimerInv
  <2>3. CASE ExTimerWait
    BY <2>3 DEF ExTimerWait, NoTimer, TimeInv, TimerInv
  <2> QED BY <2>1, <2>2, <2>3
<1>3. ClockInv' /\ ShareInv' /\ Now' = Now
  BY <1>1 DEF TimeInv, ClockInv, ShareInv, Now
<1>4. CoreInv' /\ ActivityInv' /\ ScreenInv' /\ BusyMeansAwake' /\ NoIdlePanic'
  BY <1>1, <1>3 DEF TimeInv, CoreInv, ActivityInv, ScreenInv, BusyMeansAwake, NoIdlePanic, Now
<1> QED BY <1>2, <1>3, <1>4 DEF TimeInv
-----------------------------------------------------------------------------
(* The holder of ReadyThreadsLock is alone in CoreUpdateIdleTime.          *)
LEMMA HolderFacts ==
    ASSUME TimeInv, NEW c \in Cpus, core[c].pc # "out"
    PROVE  lock = c /\ \A d \in Cpus \ {c} : core[d].pc = "out"
  BY DEF TimeInv, CoreInv

(* Goto changes the control point of one CPU.                              *)
LEMMA GotoFacts ==
    ASSUME TimeInv, NEW c \in Cpus, NEW l, Goto(c, l),
           l \in {"idle", "store", "activity", "awake", "restore", "leave"}
    PROVE  /\ core' \in [Cpus -> CoreRecord]
           /\ core'[c].pc = l /\ core'[c].busy = core[c].busy
           /\ l = "activity" => core'[c].t = core[c].t
           /\ \A d \in Cpus \ {c} : core'[d] = core[d]
<1>1. /\ core[c] = [pc |-> core[c].pc, busy |-> core[c].busy, t |-> core[c].t]
      /\ core[c].busy \in BOOLEAN /\ core[c].t \in Nat
  BY DEF TimeInv, CoreInv, CoreRecord
<1>2. core'[c] = [core[c] EXCEPT !.pc = l, !.t = IF l = "activity" THEN @ ELSE 0]
  BY DEF Goto, TimeInv, CoreInv
<1>3. core'[c] = [pc |-> l, busy |-> core[c].busy, t |-> IF l = "activity" THEN core[c].t ELSE 0]
  BY <1>1, <1>2
<1>4. core'[c] \in CoreRecord
  BY <1>1, <1>3 DEF CoreRecord, CorePoints
<1>5. \A d \in Cpus \ {c} : core'[d] = core[d]
  BY DEF Goto, TimeInv, CoreInv
<1>6. core' = [d \in Cpus |-> core'[d]]
  BY DEF Goto, TimeInv, CoreInv
<1>7. core' \in [Cpus -> CoreRecord]
  BY <1>4, <1>5, <1>6 DEF TimeInv, CoreInv
<1> QED BY <1>3, <1>5, <1>7

(* Nothing of the clock or of a timer changes in CoreUpdateIdleTime.       *)
LEMMA CoreFrame ==
    ASSUME TimeInv, NEW c \in Cpus, Schedule(c) \/ CoreStep(c)
    PROVE  /\ ClockInv' /\ ShareInv' /\ TimerInv' /\ Now' = Now /\ Now \in Nat
           /\ UNCHANGED <<boot, ap, seen, listed, lowMap, active, signaled, waiting, timer, wait>>
<1>1. UNCHANGED <<boot, ap, seen, listed, lowMap, active, signaled, waiting, clock, perCpu, ticked,
                  ticks, rtc, timer, wait>>
  BY DEF Schedule, CoreStep, ReadTime, ReadLast, SystemIdle, CoreSystemIdle, Activity, ClearIdle,
     CoreSystemRevertFromIdle, Leave, startVars, clockVars, timerVars, apVars, evtVars
<1>2. Now \in Nat
  BY ClockFacts DEF TimeInv
<1> QED BY <1>1, <1>2 DEF TimeInv, ClockInv, ShareInv, TimerInv, Now

(* _ThreadGetReadyThread enters CoreUpdateIdleTime with the lock, and      *)
(* leaves it.                                                              *)
LEMMA EnterLeaveInv ==
    ASSUME TimeInv, NEW c \in Cpus, Schedule(c) \/ Leave(c)
    PROVE  TimeInv' /\ readyUs' = readyUs
<1> USE TimeAssumption
<1>1. UNCHANGED <<panic, readyUs, idle, screen, buffer>> /\ core[c].pc \in {"out", "leave"}
  BY DEF Schedule, Leave, startVars, At
<1>2. \A d \in Cpus \ {c} : core[d].pc = "out"
  <2>1. CASE Schedule(c)
    BY <2>1 DEF Schedule, LockFree, TimeInv, CoreInv
  <2>2. CASE Leave(c)
    BY <2>2, HolderFacts DEF Leave, At
  <2> QED BY <2>1, <2>2
<1>3. \/ /\ lock' = c
         /\ \E b \in BOOLEAN : core' = [core EXCEPT ![c] = [pc |-> "time", busy |-> b, t |-> 0]]
      \/ /\ lock' = "none"
         /\ core' = [core EXCEPT ![c] = [pc |-> "out", busy |-> FALSE, t |-> 0]]
  BY DEF Schedule, Leave, Start
<1>4. /\ core' \in [Cpus -> CoreRecord]
      /\ \A d \in Cpus \ {c} : core'[d] = core[d]
      /\ \/ lock' = c /\ core'[c].pc = "time"
         \/ lock' = "none" /\ core'[c].pc = "out"
  <2>1. PICK r \in CoreRecord : /\ core' = [core EXCEPT ![c] = r]
                                /\ \/ lock' = c /\ r.pc = "time"
                                   \/ lock' = "none" /\ r.pc = "out"
    <3>1. \A b \in BOOLEAN, l \in {"time", "out"} :
             /\ [pc |-> l, busy |-> b, t |-> 0] \in CoreRecord
             /\ [pc |-> l, busy |-> b, t |-> 0].pc = l
      BY DEF CoreRecord, CorePoints
    <3>2. CASE lock' = "none" /\ core' = [core EXCEPT ![c] = [pc |-> "out", busy |-> FALSE, t |-> 0]]
      BY <3>1, <3>2
    <3>3. CASE /\ lock' = c
               /\ \E b \in BOOLEAN :
                     core' = [core EXCEPT ![c] = [pc |-> "time", busy |-> b, t |-> 0]]
      <4>1. PICK b \in BOOLEAN : core' = [core EXCEPT ![c] = [pc |-> "time", busy |-> b, t |-> 0]]
        BY <3>3
      <4> QED BY <3>1, <3>3, <4>1
    <3> QED BY <1>3, <3>2, <3>3
  <2> QED BY <2>1 DEF TimeInv, CoreInv
<1>5. CoreInv'
  BY <1>1, <1>2, <1>4 DEF TimeInv, CoreInv
<1>6. ActivityInv' /\ ScreenInv' /\ BusyMeansAwake' /\ NoIdlePanic'
  <2>1. \A d \in Cpus : core'[d].pc \in {"time", "out"} /\ core[d].pc \in {"out", "leave"}
    BY <1>1, <1>2, <1>4
  <2>2. readyUs <= Now /\ (idle => readyUs < Now)
    BY <2>1 DEF TimeInv, ActivityInv
  <2>3. ActivityInv'
    BY <1>1, <2>1, <2>2, CoreFrame DEF ActivityInv, CoreStep
  <2>4. ScreenInv' /\ BusyMeansAwake' /\ NoIdlePanic'
    BY <1>1, <2>1 DEF TimeInv, ScreenInv, BusyMeansAwake, NoIdlePanic
  <2> QED BY <2>3, <2>4
<1> QED BY <1>1, <1>5, <1>6, CoreFrame DEF TimeInv, CoreStep

(* The time is read with the lock held: it is not before the activity.     *)
LEMMA ReadTimeInv ==
    ASSUME TimeInv, NEW c \in Cpus, ReadTime(c)
    PROVE  TimeInv' /\ readyUs' = readyUs
<1>1. UNCHANGED <<panic, lock, readyUs, idle, screen, buffer>> /\ core[c].pc = "time"
  BY DEF ReadTime, startVars, At
<1>2. lock = c /\ \A d \in Cpus \ {c} : core[d].pc = "out"
  BY <1>1, HolderFacts
<1>3. /\ core' \in [Cpus -> CoreRecord]
      /\ \A d \in Cpus \ {c} : core'[d] = core[d]
      /\ \/ core'[c].pc = "last" /\ core'[c].t = Now
         \/ core'[c].pc = "leave" /\ ~core'[c].busy
  <2>1. CASE core[c].busy \/ c = Bsp
    <3>1. core' = [core EXCEPT ![c].t = Now, ![c].pc = "last"] /\ Now \in Nat
      BY <2>1, ClockFacts DEF ReadTime, TimeInv
    <3> HIDE DEF Now
    <3> QED BY <3>1, ZenonT(40) DEF TimeInv, CoreInv, CoreRecord, CorePoints
  <2>2. CASE ~(core[c].busy \/ c = Bsp)
    <3>1. Goto(c, "leave")
      BY <2>2 DEF ReadTime
    <3> QED BY <2>2, <3>1, GotoFacts
  <2> QED BY <2>1, <2>2
<1>4. CoreInv'
  BY <1>1, <1>2, <1>3 DEF TimeInv, CoreInv
<1>5. ActivityInv'
  <2>1. readyUs <= Now /\ (idle => readyUs < Now) /\ readyUs \in Nat
    BY <1>1, <1>2 DEF TimeInv, ActivityInv, CoreInv
  <2>2. Now' = Now /\ Now \in Nat
    BY CoreFrame DEF CoreStep
  <2> HIDE DEF Now
  <2> QED BY <1>1, <1>2, <1>3, <2>1, <2>2 DEF ActivityInv
<1>6. ScreenInv' /\ BusyMeansAwake' /\ NoIdlePanic'
  BY <1>1, <1>2, <1>3 DEF TimeInv, ScreenInv, BusyMeansAwake, NoIdlePanic
<1> QED BY <1>1, <1>4, <1>5, <1>6, CoreFrame DEF TimeInv, CoreStep

(* The branch: the assertion holds, a time equal to that of the activity   *)
(* was read by a machine that is not idle.                                 *)
LEMMA ReadLastInv ==
    ASSUME TimeInv, NEW c \in Cpus, ReadLast(c)
    PROVE  TimeInv' /\ readyUs' = readyUs
<1> USE TimeAssumption
<1>1. UNCHANGED <<lock, readyUs, idle, screen, buffer>> /\ core[c].pc = "last"
  BY DEF ReadLast, At
<1>2. lock = c /\ \A d \in Cpus \ {c} : core[d].pc = "out"
  BY <1>1, HolderFacts
<1>3. /\ readyUs <= core[c].t /\ core[c].t <= Now /\ (idle => readyUs < core[c].t)
      /\ readyUs \in Nat /\ core[c].t \in Nat /\ Now \in Nat
  BY <1>1, ClockFacts DEF TimeInv, ActivityInv, CoreInv, CoreRecord
<1>4. panic' = panic
  BY <1>3 DEF ReadLast
<1> DEFINE next == IF core[c].busy THEN (IF core[c].t <= readyUs THEN "leave" ELSE "activity")
                   ELSE IF core[c].t < readyUs THEN "leave"
                   ELSE IF core[c].t - readyUs >= ToIdle THEN "idle" ELSE "leave"
<1>5. Goto(c, next) /\ next \in {"leave", "activity", "idle"}
  BY DEF ReadLast
<1>6. /\ next = "activity" => core[c].busy /\ readyUs < core[c].t
      /\ next = "idle" => ~core[c].busy /\ readyUs < Now
      /\ next = "leave" /\ core[c].busy => ~idle
  <2> HIDE DEF Now
  <2> QED BY <1>3
<1> HIDE DEF next
<1>7. /\ core' \in [Cpus -> CoreRecord]
      /\ core'[c].pc = next /\ core'[c].busy = core[c].busy
      /\ next = "activity" => core'[c].t = core[c].t
      /\ \A d \in Cpus \ {c} : core'[d] = core[d]
  BY <1>5, GotoFacts
<1>8. CoreInv'
  BY <1>1, <1>2, <1>5, <1>6, <1>7 DEF TimeInv, CoreInv
<1>9. ActivityInv'
  <2>1. readyUs <= Now /\ (idle => readyUs < Now)
    BY <1>1, <1>2 DEF TimeInv, ActivityInv
  <2>2. Now' = Now
    BY CoreFrame DEF CoreStep
  <2> HIDE DEF Now
  <2> QED BY <1>1, <1>2, <1>3, <1>5, <1>6, <1>7, <2>1, <2>2 DEF ActivityInv
<1>10. ScreenInv' /\ BusyMeansAwake' /\ NoIdlePanic'
  <2>1. ~idle => screen = "console"
    BY <1>1, <1>2 DEF TimeInv, ScreenInv
  <2> QED BY <1>1, <1>2, <1>4, <1>5, <1>6, <1>7, <2>1 DEF TimeInv, ScreenInv, BusyMeansAwake,
       NoIdlePanic
<1> QED BY <1>1, <1>8, <1>9, <1>10, CoreFrame DEF TimeInv, CoreStep
(* The machine becomes idle, and its screen is kept in the buffer.         *)
LEMMA SystemIdleInv ==
    ASSUME TimeInv, NEW c \in Cpus, SystemIdle(c)
    PROVE  TimeInv' /\ readyUs' = readyUs
<1>1. UNCHANGED <<panic, lock, readyUs, screen, buffer>> /\ core[c].pc = "idle" /\ idle' = TRUE
  BY DEF SystemIdle, startVars, At
<1>2. lock = c /\ \A d \in Cpus \ {c} : core[d].pc = "out"
  BY <1>1, HolderFacts
<1>3. ~core[c].busy /\ readyUs < Now
  BY <1>1 DEF TimeInv, CoreInv, ActivityInv
<1> DEFINE next == IF idle THEN "leave" ELSE "store"
<1>4. /\ Goto(c, next) /\ next \in {"leave", "store"}
      /\ next = "store" => ~idle
      /\ next = "leave" => idle
  BY DEF SystemIdle, TimeInv, CoreInv
<1> HIDE DEF next
<1>5. /\ core' \in [Cpus -> CoreRecord] /\ core'[c].pc = next /\ core'[c].busy = core[c].busy
      /\ \A d \in Cpus \ {c} : core'[d] = core[d]
  BY <1>4, GotoFacts
<1>6. CoreInv'
  BY <1>1, <1>2, <1>3, <1>4, <1>5 DEF TimeInv, CoreInv
<1>7. ActivityInv'
  <2>1. Now' = Now /\ readyUs <= Now
    BY CoreFrame DEF CoreStep, TimeInv, ActivityInv
  <2> HIDE DEF Now
  <2> QED BY <1>1, <1>2, <1>3, <1>4, <1>5, <2>1 DEF ActivityInv
<1>8. ScreenInv'
  <2>1. /\ idle => screen = "blank" /\ buffer = "console"
        /\ ~idle => screen = "console"
    BY <1>1, <1>2 DEF TimeInv, ScreenInv
  <2> QED BY <1>1, <1>2, <1>4, <1>5, <2>1 DEF ScreenInv
<1>9. BusyMeansAwake' /\ NoIdlePanic'
  BY <1>1, <1>2, <1>3, <1>5 DEF TimeInv, BusyMeansAwake, NoIdlePanic
<1> QED BY <1>1, <1>6, <1>7, <1>8, <1>9, CoreFrame DEF TimeInv, CoreStep

LEMMA CoreSystemIdleInv ==
    ASSUME TimeInv, NEW c \in Cpus, CoreSystemIdle(c)
    PROVE  TimeInv' /\ readyUs' = readyUs
<1>1. /\ UNCHANGED <<panic, lock, readyUs, idle>> /\ core[c].pc = "store" /\ Goto(c, "leave")
      /\ buffer' = screen /\ screen' = "blank"
  BY DEF CoreSystemIdle, startVars, At
<1>2. lock = c /\ \A d \in Cpus \ {c} : core[d].pc = "out"
  BY <1>1, HolderFacts
<1>3. ~core[c].busy /\ idle /\ screen = "console"
  BY <1>1 DEF TimeInv, CoreInv, ScreenInv
<1>4. /\ core' \in [Cpus -> CoreRecord] /\ core'[c].pc = "leave" /\ core'[c].busy = core[c].busy
      /\ \A d \in Cpus \ {c} : core'[d] = core[d]
  BY <1>1, GotoFacts
<1>5. CoreInv'
  BY <1>1, <1>2, <1>4 DEF TimeInv, CoreInv
<1>6. ActivityInv'
  <2>1. Now' = Now /\ readyUs <= Now /\ readyUs < Now
    BY <1>1, <1>2, <1>3, CoreFrame DEF CoreStep, TimeInv, ActivityInv
  <2> HIDE DEF Now
  <2> QED BY <1>1, <1>2, <1>4, <2>1 DEF ActivityInv
<1>7. ScreenInv' /\ BusyMeansAwake' /\ NoIdlePanic'
  BY <1>1, <1>2, <1>3, <1>4 DEF TimeInv, ScreenInv, BusyMeansAwake, NoIdlePanic
<1> QED BY <1>1, <1>5, <1>6, <1>7, CoreFrame DEF TimeInv, CoreStep

(* An activity is recorded: it is later than the last one.                 *)
LEMMA ActivityStepInv ==
    ASSUME TimeInv, NEW c \in Cpus, Activity(c)
    PROVE  TimeInv' /\ readyUs' >= readyUs
<1>1. /\ UNCHANGED <<panic, lock, idle, screen, buffer>> /\ core[c].pc = "activity"
      /\ Goto(c, "awake") /\ readyUs' = core[c].t
  BY DEF Activity, startVars, At
<1>2. lock = c /\ \A d \in Cpus \ {c} : core[d].pc = "out"
  BY <1>1, HolderFacts
<1>3. /\ core[c].busy /\ core[c].t \in Nat /\ readyUs \in Nat
      /\ readyUs < core[c].t /\ core[c].t <= Now
  BY <1>1 DEF TimeInv, CoreInv, CoreRecord, ActivityInv
<1>4. /\ core' \in [Cpus -> CoreRecord] /\ core'[c].pc = "awake" /\ core'[c].busy = core[c].busy
      /\ \A d \in Cpus \ {c} : core'[d] = core[d]
  BY <1>1, GotoFacts
<1>5. CoreInv'
  BY <1>1, <1>2, <1>3, <1>4 DEF TimeInv, CoreInv
<1>6. ActivityInv'
  <2>1. Now' = Now
    BY CoreFrame DEF CoreStep
  <2> HIDE DEF Now
  <2> QED BY <1>1, <1>2, <1>3, <1>4, <2>1 DEF ActivityInv
<1>7. ScreenInv' /\ BusyMeansAwake' /\ NoIdlePanic'
  BY <1>1, <1>2, <1>4 DEF TimeInv, ScreenInv, BusyMeansAwake, NoIdlePanic
<1>8. readyUs' >= readyUs
  BY <1>1, <1>3
<1> QED BY <1>5, <1>6, <1>7, <1>8, CoreFrame DEF TimeInv, CoreStep

(* The machine is awake again, and its screen is shown before the CPU      *)
(* leaves.                                                                 *)
LEMMA ClearIdleInv ==
    ASSUME TimeInv, NEW c \in Cpus, ClearIdle(c)
    PROVE  TimeInv' /\ readyUs' = readyUs
<1>1. UNCHANGED <<panic, lock, readyUs, screen, buffer>> /\ core[c].pc = "awake" /\ idle' = FALSE
  BY DEF ClearIdle, startVars, At
<1>2. lock = c /\ \A d \in Cpus \ {c} : core[d].pc = "out"
  BY <1>1, HolderFacts
<1>3. core[c].busy /\ readyUs <= Now
  BY <1>1 DEF TimeInv, CoreInv, ActivityInv
<1> DEFINE next == IF idle THEN "restore" ELSE "leave"
<1>4. /\ Goto(c, next) /\ next \in {"restore", "leave"}
      /\ next = "restore" => idle
      /\ next = "leave" => ~idle
  BY DEF ClearIdle, TimeInv, CoreInv
<1> HIDE DEF next
<1>5. /\ core' \in [Cpus -> CoreRecord] /\ core'[c].pc = next /\ core'[c].busy = core[c].busy
      /\ \A d \in Cpus \ {c} : core'[d] = core[d]
  BY <1>4, GotoFacts
<1>6. CoreInv'
  BY <1>1, <1>2, <1>3, <1>4, <1>5 DEF TimeInv, CoreInv
<1>7. ActivityInv'
  <2>1. Now' = Now
    BY CoreFrame DEF CoreStep
  <2> HIDE DEF Now
  <2> QED BY <1>1, <1>2, <1>3, <1>4, <1>5, <2>1 DEF ActivityInv
<1>8. /\ idle => screen = "blank" /\ buffer = "console"
      /\ ~idle => screen = "console"
  BY <1>1, <1>2 DEF TimeInv, ScreenInv
<1>9. ScreenInv' /\ BusyMeansAwake' /\ NoIdlePanic'
  BY <1>1, <1>2, <1>4, <1>5, <1>8 DEF TimeInv, ScreenInv, BusyMeansAwake, NoIdlePanic
<1> QED BY <1>1, <1>6, <1>7, <1>9, CoreFrame DEF TimeInv, CoreStep

LEMMA RevertFromIdleInv ==
    ASSUME TimeInv, NEW c \in Cpus, CoreSystemRevertFromIdle(c)
    PROVE  TimeInv' /\ readyUs' = readyUs
<1>1. /\ UNCHANGED <<panic, lock, readyUs, idle, buffer>> /\ core[c].pc = "restore"
      /\ Goto(c, "leave") /\ screen' = buffer
  BY DEF CoreSystemRevertFromIdle, startVars, At
<1>2. lock = c /\ \A d \in Cpus \ {c} : core[d].pc = "out"
  BY <1>1, HolderFacts
<1>3. ~idle /\ buffer = "console"
  BY <1>1 DEF TimeInv, ScreenInv
<1>4. /\ core' \in [Cpus -> CoreRecord] /\ core'[c].pc = "leave" /\ core'[c].busy = core[c].busy
      /\ \A d \in Cpus \ {c} : core'[d] = core[d]
  BY <1>1, GotoFacts
<1>5. CoreInv'
  BY <1>1, <1>2, <1>4 DEF TimeInv, CoreInv
<1>6. ActivityInv'
  <2>1. Now' = Now /\ readyUs <= Now
    BY CoreFrame DEF CoreStep, TimeInv, ActivityInv
  <2> HIDE DEF Now
  <2> QED BY <1>1, <1>2, <1>3, <1>4, <2>1 DEF ActivityInv
<1>7. ScreenInv' /\ BusyMeansAwake' /\ NoIdlePanic'
  BY <1>1, <1>2, <1>3, <1>4 DEF TimeInv, ScreenInv, BusyMeansAwake, NoIdlePanic
<1> QED BY <1>1, <1>5, <1>6, <1>7, CoreFrame DEF TimeInv, CoreStep

-----------------------------------------------------------------------------
LEMMA TimeInitInv == Init => StartInv /\ TimeInv
<1> SUFFICES ASSUME Init PROVE StartInv /\ TimeInv
  OBVIOUS
<1> USE StartAssumption, TimeAssumption DEF Init, StartInit
<1>1. StartTypes /\ LowMemoryInv /\ AwakeInv
  BY DEF StartTypes, EarlyBoot, LaterBoot, LowMemoryInv, LowMemoryInUse, AwakeInv
<1>2. ReportInv
  <2>1. Reported = {}
    BY DEF Reported
  <2>2. active = Cardinality(Reported)
    BY <2>1, FS_EmptySet
  <2>3. \A c \in APs : c \in Cpus /\ seen[c] = 0 /\ ap[c] = "off"
    BY DEF APs
  <2>4. \A c \in Cpus : seen[c] = 0
    OBVIOUS
  <2>5. active = 0
    OBVIOUS
  <2> QED BY <2>2, <2>3, <2>4, <2>5 DEF ReportInv
<1>3. ClockInv
  BY DEF ClockInv
<1>4. ShareInv
  BY FS_EmptySet DEF ShareInv
<1>5. CoreInv
  <2>1. core \in [Cpus -> CoreRecord] /\ \A c \in Cpus : core[c].pc = "out"
    BY DEF Start, CoreRecord, CorePoints
  <2> QED BY <2>1 DEF CoreInv
<1>6. ActivityInv /\ ScreenInv /\ BusyMeansAwake /\ NoIdlePanic
  <2>1. \A c \in Cpus : core[c].pc = "out"
    BY DEF Start
  <2>2. Now \in Nat
    BY <1>3, ClockFacts
  <2> HIDE DEF Now
  <2> QED BY <2>1, <2>2 DEF ActivityInv, ScreenInv, BusyMeansAwake, NoIdlePanic
<1>7. TimerInv
  BY DEF TimerInv, NoTimer
<1> QED BY <1>1, <1>2, <1>3, <1>4, <1>5, <1>6, <1>7 DEF StartInv, TimeInv

(* Every step preserves both invariants, and neither the time nor the time *)
(* of the last activity goes back.                                         *)
LEMMA TimeNextInv ==
    ASSUME StartInv, TimeInv, [Next]_vars
    PROVE  StartInv' /\ TimeInv' /\ Now' >= Now /\ readyUs' >= readyUs
<1>1. Now \in Nat /\ readyUs \in Nat /\ (Now' = Now => Now' >= Now)
  BY ClockFacts DEF TimeInv, CoreInv
<1>2. CASE UNCHANGED vars
  <2>1. UNCHANGED <<startVars, clock, perCpu, ticked, ticks, rtc, lock, core, readyUs, idle, screen,
                    buffer, timer, wait>>
    BY <1>2 DEF vars, clockVars, coreVars, timerVars
  <2>2. StartInv'
    BY <2>1, StartFrame DEF startVars
  <2>3. Now' = Now /\ UNCHANGED <<boot, panic>>
    BY <2>1 DEF Now, startVars
  <2>4. TimeInv'
    BY <2>1, <2>3 DEF TimeInv, ClockInv, ShareInv, CoreInv, ActivityInv, ScreenInv, NoIdlePanic,
       BusyMeansAwake, TimerInv, Now
  <2> QED BY <1>1, <2>1, <2>2, <2>3, <2>4
<1>3. CASE (BspStep \/ \E c \in APs : ApStep(c)) /\ Others
  <2>1. StartInv'
    BY <1>3, BspStepInv, ApStepInv
  <2>2. readyUs' = readyUs
    BY <1>3 DEF Others, coreVars
  <2> QED BY <1>1, <1>3, <2>1, <2>2, StartTimeInv
<1>4. CASE IomuAfterApWakeup
  <2>1. StartInv' /\ readyUs' = readyUs
    BY <1>4, BootStageInv DEF IomuAfterApWakeup, coreVars
  <2> QED BY <1>1, <1>4, <2>1, IomuAfterApWakeupInv
<1>5. CASE PitTick \/ RtcUpdate \/ CmosUpdateRead \/ CmosUpdateExchange \/ \E c \in Cpus : SystemTick(c)
  <2>1. UNCHANGED <<startVars, coreVars>>
    BY <1>5 DEF PitTick, RtcUpdate, CmosUpdateRead, CmosUpdateExchange, SystemTick
  <2>2. StartInv' /\ readyUs' = readyUs
    BY <2>1, StartFrame DEF startVars, coreVars
  <2> QED BY <1>1, <1>5, <2>2, PitTickInv, RtcUpdateInv, CmosUpdateExchangeInv, SystemTickInv
<1>6. CASE ExTimerInit \/ ExTimerStart \/ ExTimerStop \/ ExTimerUninit
              \/ ExTimerUninited \/ ExTimerWait
  <2>1. UNCHANGED <<startVars, coreVars>>
    BY <1>6 DEF ExTimerInit, ExTimerStart, ExTimerStop, ExTimerUninit, ExTimerUninited, ExTimerWait
  <2>2. StartInv' /\ readyUs' = readyUs
    BY <2>1, StartFrame DEF startVars, coreVars
  <2> QED BY <1>1, <1>6, <2>2, TimerStepInv
<1>7. ASSUME NEW c \in Cpus, Schedule(c) \/ CoreStep(c)
      PROVE  StartInv' /\ TimeInv' /\ Now' >= Now /\ readyUs' >= readyUs
  <2>1. StartInv' /\ Now' = Now
    BY <1>7, CoreFrame, StartFrame DEF apVars, evtVars
  <2>2. TimeInv' /\ (readyUs' = readyUs \/ readyUs' >= readyUs)
    BY <1>7, EnterLeaveInv, ReadTimeInv, ReadLastInv, SystemIdleInv, CoreSystemIdleInv,
       ActivityStepInv, ClearIdleInv, RevertFromIdleInv DEF CoreStep
  <2> QED BY <1>1, <2>1, <2>2
<1> QED BY <1>2, <1>3, <1>4, <1>5, <1>6, <1>7 DEF Next

(* The inductive invariants of the start of the machine and of its time.   *)
THEOREM TimeInvariance == FairSpec => [](StartInv /\ TimeInv)
<1>1. StartInv /\ TimeInv /\ [Next]_vars => StartInv' /\ TimeInv'
  BY TimeNextInv
<1> QED BY <1>1, TimeInitInv, PTL DEF FairSpec

(* Nothing is taken from an AP that still needs it, and the BSP divides    *)
(* the clock when all CPUs have reported, each once, and not before.       *)
THEOREM StartCorrect == FairSpec => []StartSound
<1>1. ASSUME StartInv PROVE StartSound
  <2>1. StartTypeOK
    BY <1>1, ReportFacts DEF StartInv, StartTypes, LowMemoryInv, StartTypeOK
  <2>2. LowMemoryInUse /\ AllAwake
    BY <1>1 DEF StartInv, LowMemoryInv, ReportInv, Reported, AwakeInv, AllAwake
  <2> QED BY <2>1, <2>2 DEF StartSound
<1> QED BY <1>1, TimeInvariance, PTL

(* However the CPUs that schedule compete with the BSP's check for         *)
(* idleness, the clock is not fast, a busy machine is shown awake, the     *)
(* screen is kept and the assertion of CoreUpdateIdleTime holds.           *)
THEOREM IdleCorrect == FairSpec => []IdleSound
<1>1. ASSUME StartInv, TimeInv PROVE IdleSound
  <2>1. ClockNotFast
    <3>1. Cardinality(ticked) \in Nat
      BY <1>1, ReportFacts, FS_Subset, FS_CardinalityType DEF TimeInv, ClockInv
    <3>2. perCpu * Cardinality(ticked) \in Nat /\ clock.us \in Nat /\ (ticks + 1) * Period \in Nat
      BY <1>1, <3>1, ClockFacts, TimeAssumption DEF TimeInv, ClockInv
    <3> QED BY <1>1, <3>2 DEF TimeInv, ShareInv, ClockNotFast
  <2>2. SystemTypeOK
    <3>1. /\ Period \in Nat /\ MaxTicks \in Nat /\ ticks \in 0 .. MaxTicks /\ clock.us \in Nat
          /\ clock \in [sec : 0 .. MaxSeconds, us : Nat]
      BY <1>1, ClockFacts, TimeAssumption DEF TimeInv, ClockInv
    <3>2. (ticks + 1) * Period <= Period * (MaxTicks + 1)
      BY <3>1
    <3>3. clock.us \in 0 .. (Period * (MaxTicks + 1))
      BY <2>1, <3>1, <3>2 DEF ClockNotFast
    <3>4. clock \in [sec : 0 .. MaxSeconds, us : 0 .. (Period * (MaxTicks + 1))]
      BY <3>1, <3>3
    <3>5. StartTypeOK
      BY <1>1, ReportFacts DEF StartInv, StartTypes, LowMemoryInv, StartTypeOK
    <3> QED BY <1>1, <3>4, <3>5 DEF TimeInv, ClockInv, CoreInv, SystemTypeOK
  <2>3. ContentKept
    BY <1>1 DEF TimeInv, CoreInv, ScreenInv, ContentKept
  <2> QED BY <1>1, <2>1, <2>2, <2>3 DEF TimeInv, IdleSound
<1> QED BY <1>1, TimeInvariance, PTL

(* IomuGetSystemTimeUs never goes back, across updates of the RTC and      *)
(* ticks that add up to more than a second; nor does the last activity.    *)
THEOREM TimesNeverGoBack == FairSpec => TimesMonotonic
<1>1. StartInv /\ TimeInv /\ [Next]_vars =>
        [IomuGetSystemTimeUs(clock') >= IomuGetSystemTimeUs(clock)]_vars
  BY TimeNextInv DEF Now
<1>2. StartInv /\ TimeInv /\ [Next]_vars => [readyUs' >= readyUs]_vars
  BY TimeNextInv
<1> QED BY <1>1, <1>2, TimeInvariance, PTL DEF FairSpec, TimesMonotonic, TimeMonotonic,
     ActivityMonotone

(* ExTimerWait returns before the trigger time only if the timer was       *)
(* stopped or uninitialized, whenever another thread did that.             *)
THEOREM TimerNeverEarly == FairSpec => TimerNotEarly
<1>1. ASSUME StartInv, TimeInv, [Next]_vars
      PROVE  [InUse /\ wait' = "returned" => Now >= timer.trigger \/ timer.halted]_vars
  <2> SUFFICES ASSUME Next, InUse, wait' = "returned" PROVE Now >= timer.trigger \/ timer.halted
    BY <1>1
  <2>1. wait # "returned" /\ wait # "none"
    BY DEF InUse
  <2>2. ExTimerWait
    BY <2>1 DEF Next, Others, IomuAfterApWakeup, PitTick, RtcUpdate, CmosUpdateRead,
       CmosUpdateExchange, SystemTick, Schedule, CoreStep, ReadTime, ReadLast, SystemIdle,
       CoreSystemIdle, Activity, ClearIdle, CoreSystemRevertFromIdle, Leave, ExTimerInit,
       ExTimerStart, ExTimerStop, ExTimerUninit, ExTimerUninited, timerVars
  <2>3. timer.uninited \/ ~timer.started \/ ~NotYet
    BY <2>2 DEF ExTimerWait
  <2>4. timer.trigger \in Nat /\ Now \in Nat
    BY <1>1, ClockFacts DEF TimeInv, TimerInv
  <2>5. ~NotYet => Now >= timer.trigger
    <3> HIDE DEF Now
    <3> QED BY <2>4 DEF NotYet
  <2> QED BY <1>1, <2>3, <2>5 DEF TimeInv, TimerInv
<1> QED BY <1>1, TimeInvariance, PTL DEF FairSpec, TimerNotEarly
=============================================================================
