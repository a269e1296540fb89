----------------------------- MODULE SystemStart -----------------------------
(***************************************************************************)
(* The start of the machine (system.c, smp.c, cpumu.c, ap_tramp.c).  The   *)
(* boot processor runs SystemInit; it maps the trampoline and the initial  *)
(* stacks of the application processors in low memory, starts them, waits  *)
(* on ApStartupEvent until the last of them has reported and then unmaps   *)
(* low memory.                                                             *)
(*                                                                         *)
(* The wait is modelled with the steps of ExEventWaitForSignal: Signaled   *)
(* is tested before EventLock is taken.                                    *)
(***************************************************************************)
EXTENDS Integers, FiniteSets

CONSTANTS
    Cpus,       \* the CPUs of the MADT, all of which can be started
    Bsp         \* the boot processor

ASSUME StartAssumption == Bsp \in Cpus /\ IsFiniteSet(Cpus)

VARIABLES
    boot,       \* how far SystemInit has come on the BSP
    ap,         \* how far each application processor has come
    listed,     \* CPUs with a PCPU in m_smpData.CpuList
    lowMap,     \* what is mapped in low memory: "code" and the stack of each CPU
    active,     \* NoOfActiveCpus
    seen,       \* what _InterlockedIncrement returned to each CPU
    signaled,   \* ApStartupEvent.Signaled
    waiting,    \* is the BSP in ApStartupEvent.WaitingList?
    panic       \* "none", or what halted the machine

apVars == <<ap, seen>>
evtVars == <<signaled, waiting>>
startVars == <<boot, apVars, listed, lowMap, active, evtVars, panic>>

APs == Cpus \ {Bsp}

\* ASSERT(SUCCEEDED(status)) after SystemInit halts the machine.
Running == panic = "none" /\ boot # "failed"

StartInit ==
    /\ boot = "early" /\ ap = [c \in APs |-> "off"] /\ listed = {} /\ lowMap = {}
    /\ active = 0 /\ seen = [c \in Cpus |-> 0] /\ signaled = FALSE /\ waiting = FALSE
    /\ panic = "none"

----------------------------------------------------------------------------
(***************************************************************************)
(* SystemInit, on the BSP.  A step that fails returns its status, and the  *)
(* machine halts.                                                          *)
(***************************************************************************)
BootStage(from, to) == Running /\ boot = from /\ boot' \in {to, "failed"}

\* GDT, serial port, FPU, IDT, memory, boot modules, system driver, ACPI, local APIC
EarlyInit ==
    /\ BootStage("early", "smp")
    /\ UNCHANGED <<apVars, listed, lowMap, active, evtVars, panic>>

SmpInit ==
    /\ BootStage("smp", "cpu")
    /\ UNCHANGED <<apVars, listed, lowMap, active, evtVars, panic>>

\* SmpNotifyCpuWakeup, up to the comparison
Count(c) == active' = active + 1 /\ seen' = [seen EXCEPT ![c] = active + 1]

\* SmpNotifyCpuWakeup, the rest: the last CPU signals ApStartupEvent.
NotifyEarly(c) == seen[c] >= Cardinality(Cpus) - 1

NotifyLate(c) == seen[c] > Cardinality(Cpus)

Notify(c) == seen[c] = Cardinality(Cpus)

\* CpuMuAllocAndInitCpu: the BSP reports as well, alone at this time.
CpuMuAllocAndInitCpu ==
    /\ BootStage("cpu", "iomu")
    /\ IF boot' = "failed" THEN UNCHANGED <<active, seen>> ELSE Count(Bsp)
    /\ UNCHANGED <<ap, listed, lowMap, evtVars, panic>>

BspNotified ==
    /\ BootStage("iomu", "lower")
    /\ signaled' = (signaled \/ Notify(Bsp))
    /\ UNCHANGED <<apVars, listed, lowMap, active, waiting, panic>>

(***************************************************************************)
(* SmpSetupLowerMemory allocates the PCPUs, and stops at the first that    *)
(* cannot be; ApTrampSetupLowerMemory maps the code and, unless its        *)
(* configuration page cannot be mapped, a stack for each AP.               *)
(***************************************************************************)
SmpSetupLowerMemory ==
    /\ BootStage("lower", "threads")
    /\ \/ boot' # "failed" /\ listed' = Cpus /\ lowMap' = {"code"} \cup APs
       \/ boot' = "failed" /\ \E got \in SUBSET Cpus : got # Cpus /\ listed' = got /\ UNCHANGED lowMap
       \/ boot' = "failed" /\ listed' = Cpus /\ lowMap' = {"code"}
    /\ UNCHANGED <<apVars, active, evtVars, panic>>

\* The system process, the idle thread of the BSP, the ACPI tables
ThreadsInit ==
    /\ BootStage("threads", "init")
    /\ UNCHANGED <<apVars, listed, lowMap, active, evtVars, panic>>

\* SmpWakeupAps: without APs nothing is sent and nothing waited for.
SmpSignalAllAPs ==
    /\ Running
    /\ \/ /\ boot = "init" /\ boot' = IF APs = {} THEN "awake" ELSE "sipi"
          /\ \E started \in SUBSET APs : ap' = [c \in APs |-> IF c \in started THEN "tramp" ELSE ap[c]]
       \/ /\ boot = "sipi" /\ boot' = "test"
          /\ ap' = [c \in APs |-> IF ap[c] = "off" THEN "tramp" ELSE ap[c]]
    /\ UNCHANGED <<listed, lowMap, active, seen, evtVars, panic>>

\* ExEventWaitForSignal: the test that consumes the signal
WaitTest ==
    /\ Running /\ boot = "test"
    /\ boot' = IF signaled THEN "awake" ELSE "insert"
    /\ signaled' = FALSE
    /\ UNCHANGED <<apVars, listed, lowMap, active, waiting, panic>>

\* Into the list under EventLock, and ThreadBlock
WaitInsert ==
    /\ Running /\ boot = "insert"
    /\ boot' = "blocked" /\ waiting' = TRUE
    /\ UNCHANGED <<apVars, listed, lowMap, active, signaled, panic>>

\* Out of the list: the BSP tests again.
WaitWoken ==
    /\ Running /\ boot = "blocked" /\ ~waiting
    /\ boot' = "test"
    /\ UNCHANGED <<apVars, listed, lowMap, active, evtVars, panic>>

\* IomuInitSystemAfterApWakeup; what it does to the clock is in SystemTime.
IomuInitSystemAfterApWakeup ==
    /\ BootStage("awake", "unmasked")
    /\ UNCHANGED <<apVars, listed, lowMap, active, evtVars, panic>>

\* And the rest, which touches nothing of this: the identity mappings, the
\* drivers, the network.
SmpCleanupLowerMemory ==
    /\ BootStage("unmasked", "up")
    /\ lowMap' = {}
    /\ UNCHANGED <<apVars, listed, active, evtVars, panic>>

BspStep ==
    \/ EarlyInit \/ SmpInit \/ CpuMuAllocAndInitCpu \/ BspNotified \/ SmpSetupLowerMemory
    \/ ThreadsInit \/ SmpSignalAllAPs \/ WaitTest \/ WaitInsert \/ WaitWoken
    \/ SmpCleanupLowerMemory

----------------------------------------------------------------------------
(***************************************************************************)
(* An application processor: the trampoline, ApInitCpu, CpuMuInitCpu.      *)
(* Whatever fails here ends in NOT_REACHED.                                *)
(***************************************************************************)
ApStage(c, from, to) ==
    /\ Running /\ ap[c] = from
    /\ \/ ap' = [ap EXCEPT ![c] = to] /\ UNCHANGED panic
       \/ panic' = "ap" /\ UNCHANGED ap

\* From the low code and stack to the stack of the PCPU
Trampoline(c) ==
    /\ Running /\ ap[c] = "tramp" /\ ap' = [ap EXCEPT ![c] = "lowgdt"]
    /\ UNCHANGED <<boot, seen, listed, lowMap, active, evtVars, panic>>

\* The GDT of the low code is replaced; FPU, IDT.
ApInitCpu(c) ==
    /\ ApStage(c, "lowgdt", "init")
    /\ UNCHANGED <<boot, seen, listed, lowMap, active, evtVars>>

\* Local APIC, system calls, main thread
CpuMuInitCpu(c) ==
    /\ ApStage(c, "init", "ready")
    /\ UNCHANGED <<boot, seen, listed, lowMap, active, evtVars>>

SmpNotifyCpuWakeup(c) ==
    /\ Running /\ ap[c] = "ready" /\ ap' = [ap EXCEPT ![c] = "counted"]
    /\ Count(c)
    /\ UNCHANGED <<boot, listed, lowMap, evtVars, panic>>

\* ExEventSignal, under EventLock; MmuActivateProcessIds and the idle thread of
\* the CPU, and its main thread exits.
SmpSignalStartup(c) ==
    /\ ApStage(c, "counted", "running")
    /\ IF Notify(c) THEN signaled' = TRUE /\ waiting' = FALSE ELSE UNCHANGED evtVars
    /\ UNCHANGED <<boot, seen, listed, lowMap, active>>

ApStep(c) ==
    \/ Trampoline(c) \/ ApInitCpu(c) \/ CpuMuInitCpu(c)
    \/ SmpNotifyCpuWakeup(c) \/ SmpSignalStartup(c)

----------------------------------------------------------------------------
(***************************************************************************)
(* An AP finds the trampoline and its own first stack mapped for as long   *)
(* as it runs on them, whatever the BSP has come to.                       *)
(***************************************************************************)
LowMemoryInUse ==
    \A c \in APs : ap[c] \in {"tramp", "lowgdt"} => {"code", c} \subseteq lowMap

(***************************************************************************)
(* The clock is divided by the CPUs that share it: when the BSP goes on,   *)
(* every CPU has reported, exactly once.                                   *)
(***************************************************************************)
AllAwake ==
    /\ active = Cardinality({c \in Cpus : seen[c] # 0})
    /\ boot \in {"awake", "unmasked", "up"} => active = Cardinality(Cpus)

StartTypeOK ==
    /\ active \in 0..Cardinality(Cpus) /\ listed \subseteq Cpus
    /\ lowMap \subseteq {"code"} \cup APs
    /\ signaled \in BOOLEAN /\ waiting \in BOOLEAN

(***************************************************************************)
(* Nothing is taken from an AP that still needs it, and the BSP goes on    *)
(* when all CPUs have reported and not before.                             *)
(***************************************************************************)
StartSound ==
    /\ StartTypeOK
    /\ LowMemoryInUse
    /\ AllAwake

(***************************************************************************)
(* The machine comes up: the last AP to report releases the BSP from       *)
(* SmpWakeupAps.  The one exception is a signal between the BSP's test of  *)
(* Signaled and its insertion in the list: nobody signals again, and the   *)
(* BSP waits for good although the event is signaled.                      *)
(***************************************************************************)
StartupCompletes ==
    boot = "init" ~> (boot = "up" \/ ~Running \/ (boot = "blocked" /\ waiting /\ signaled))
=============================================================================
