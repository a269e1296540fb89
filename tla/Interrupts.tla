----------------------------- MODULE Interrupts -----------------------------
(***************************************************************************)
(* Interrupts from boot to the drivers (iomu.c, ioapic_system.c, isr.c,    *)
(* lapic_system.c): the kernel's own routines are registered while every   *)
(* line is masked, the routing tables are read, the lines are unmasked,    *)
(* and then drivers register handlers while CPUs take interrupts.          *)
(*                                                                         *)
(* A vector is <<irql, i>>: the IRQL is the priority class of the vector.  *)
(* A request stands for the IO_INTERRUPT of one caller, for the handler it *)
(* installs and for the device that then interrupts.  Handlers run with    *)
(* interrupts off, so a CPU serves one interrupt at a time, and the lock   *)
(* of a vector's list is never waited for across a step.                   *)
(***************************************************************************)
EXTENDS Pci

CONSTANTS
    Cpus, Bsp,
    Irqls,          \* the IRQLs in use
    PerIrql,        \* VECTORS_PER_IRQL
    IoApics,        \* GlobalIrqBase and MaximumRedirectionEntry of each IO APIC
    Overrides,      \* interrupt overrides of the MADT: [src, dst]
    Prt,            \* the PCI routing tables: [root, bridge, dev, fn, pin, line], fn -1 for any
    Requests,       \* request -> [type, irq, dev, wire, irql, exclusive, when, declines]
    Order,          \* the requests of the kernel, in the order of the boot
    PicSpurious,    \* the vectors of the spurious interrupts of the legacy PICs
    None

\* The table of a root bridge; the others belong to a bridge given by <<device, function>>.
NoBridge == << >>

Vectors == Irqls \X (0 .. PerIrql - 1)

Lines == UNION {a.base .. a.base + a.max : a \in ToSet(IoApics)}

RequestRec == [type : {"lapic", "legacy", "pci"}, irq : Nat, dev : 0 .. Len(Hardware), wire : Nat, irql : Irqls,
               exclusive : BOOLEAN, when : {"lapic", "legacy", "driver"}, declines : BOOLEAN]

ASSUME IntrAssumption ==
    /\ Bsp \in Cpus /\ None \notin Cpus \cup Lines \cup Vectors \cup DOMAIN Requests
    /\ Irqls \subseteq Nat \ {0} /\ PerIrql \in Nat \ {0} /\ PicSpurious \subseteq Vectors
    /\ IoApics \in Seq([base : Nat, max : Nat])
    /\ Overrides \in Seq([src : Nat, dst : Nat])
    /\ Prt \in Seq([root : Nat, bridge : (Nat \X Nat) \cup {NoBridge}, dev : Nat, fn : Nat \cup {-1},
                    pin : Nat, line : Nat])
    /\ Requests \in [DOMAIN Requests -> RequestRec]
    /\ \A r \in DOMAIN Requests : Requests[r].type = "pci" => Requests[r].dev \in DOMAIN Hardware
    /\ Order \in Seq(DOMAIN Requests)

VARIABLES
    phase,          \* how far SystemInit has come
    devices,        \* PciDeviceList
    parent,         \* the bridge above each device
    nOverrides,     \* NoOfInterruptOverrides
    nPrt,           \* NoOfPrtEntries
    maskInterrupts, \* MaskInterrupts
    taken,          \* InterruptBitmap
    isr,            \* vectors with an entry in m_isrRoutines
    handlers,       \* RegisteredInterrupts: the list of each vector
    redir,          \* redirection entry of each IO APIC line; vec is None until it is written
    msi,            \* vector programmed in each device
    gLock,          \* holder of GlobalInterruptLock
    reg,            \* the registration under way on each CPU
    result,         \* what each registration returned
    given,          \* the vector each registration chose
    pending,        \* devices that want service
    cpu,            \* the interrupt each CPU serves
    irql,           \* CR8 of each CPU
    inService,      \* in-service vectors of each local APIC
    panic

pciVars == <<devices, parent>>
tables == <<nOverrides, nPrt, maskInterrupts>>
regVars == <<taken, isr, handlers, redir, msi, gLock, reg, result, given>>
cpuVars == <<pending, cpu, irql, inService>>
vars == <<phase, pciVars, tables, regVars, cpuVars, panic>>

\* IRQL_TO_VECTOR and VECTOR_TO_IRQL
IrqlToVector(q) == <<q, 0>>
VectorToIrql(v) == v[1]

NoReg == [step |-> "none", r |-> None, line |-> None, vec |-> None, shared |-> FALSE, setup |-> FALSE, status |-> "ok"]
NoService == [mode |-> "run", src |-> None, vec |-> None]

Init ==
    /\ phase = "lapic" /\ panic = "none"
    /\ devices = << >> /\ parent = << >>
    /\ nOverrides = 0 /\ nPrt = 0 /\ maskInterrupts = TRUE
    /\ taken = {} /\ isr = {} /\ handlers = [v \in Vectors |-> << >>]
    /\ redir = [l \in Lines |-> [vec |-> None, masked |-> TRUE]]
    /\ msi = [d \in DOMAIN Hardware |-> None]
    /\ gLock = None /\ reg = [c \in Cpus |-> NoReg]
    /\ result = [r \in DOMAIN Requests |-> "none"]
    /\ given = [r \in DOMAIN Requests |-> None]
    /\ pending = {} /\ cpu = [c \in Cpus |-> NoService]
    /\ irql = [c \in Cpus |-> 0] /\ inService = [c \in Cpus |-> {}]

----------------------------------------------------------------------------
(***************************************************************************)
(* Boot.                                                                   *)
(***************************************************************************)

\* A kernel routine that could not be registered ends the boot.
Booted(ph) == \A r \in ToSet(Order) : Requests[r].when = ph => result[r] = "ok"

BootTo(ph, ok) ==
    /\ panic = "none" /\ cpu[Bsp].mode = "run" /\ phase' = IF ok THEN ph ELSE "failed"
    /\ UNCHANGED <<regVars, cpuVars, panic>>

\* The registers of the local APIC are mapped after its routines are registered.
LapicSystemInit ==
    /\ phase = "lapic" /\ gLock = None
    /\ \A r \in ToSet(Order) : Requests[r].when = "lapic" => result[r] # "none"
    /\ \E mapped \in BOOLEAN : BootTo("mcfg", Booted("lapic") /\ mapped)
    /\ UNCHANGED <<pciVars, tables>>

\* A root complex or an IO APIC that cannot be allocated or mapped ends the boot.
PciSystemInit ==
    /\ phase = "mcfg"
    /\ BootTo("ioapic", TRUE) \/ (Complexes # << >> /\ BootTo("ioapic", FALSE))
    /\ UNCHANGED <<pciVars, tables>>

\* IoApicSystemInit, in two parts
IoApicSystemRetrieveIoApics ==
    /\ phase = "ioapic"
    /\ BootTo("overrides", TRUE) \/ (IoApics # << >> /\ BootTo("overrides", FALSE))
    /\ UNCHANGED <<pciVars, tables>>

\* The overrides are counted, allocated and then copied.
IoApicSystemRetrieveInterruptOverrides ==
    /\ phase = "overrides"
    /\ BootTo("pci", TRUE) \/ (Overrides # << >> /\ BootTo("pci", FALSE))
    /\ nOverrides' = Len(Overrides)
    /\ UNCHANGED <<pciVars, nPrt, maskInterrupts>>

RetrievePciDevices ==
    /\ phase = "pci" /\ panic = "none"
    /\ \E got \in Retrievals :
        LET r == PciSystemRetrieveDevices(got)
        IN  /\ devices' = r.devices
            /\ phase' = IF r.ok THEN "legacy" ELSE "failed"
            /\ parent' = IF r.ok THEN PciSystemEstablishHierarchy(r.devices) ELSE << >>
            /\ panic' = IF r.ok /\ Orphans(r.devices) # {} THEN "hierarchy" ELSE "none"
    /\ UNCHANGED <<tables, regVars, cpuVars>>

LegacyInit ==
    /\ phase = "legacy" /\ gLock = None
    /\ \A r \in ToSet(Order) : result[r] # "none"
    /\ BootTo("acpi", Booted("legacy")) /\ UNCHANGED <<pciVars, tables>>

(***************************************************************************)
(* _AcpiInterfaceDeviceWalkCallback: the table of a bridge describes its   *)
(* secondary bus.  The bridge is looked up on the bus of the root bridge;  *)
(* the table of one that is not found is skipped, that of a function that  *)
(* is no bridge ends the boot.                                             *)
(***************************************************************************)
Owner(i) == IoGetPciSecondaryBusForBridge(devices, <<Prt[i].root>> \o Prt[i].bridge)

PrtBus(i) == IF Prt[i].bridge = NoBridge THEN Prt[i].root ELSE Owner(i).bus

PrtList == {i \in DOMAIN Prt : Prt[i].bridge # NoBridge => Owner(i).status = "ok"}

AcpiInterfaceLateInit ==
    /\ phase = "acpi"
    /\ \/ BootTo("late", \A i \in DOMAIN Prt : Prt[i].bridge # NoBridge => Owner(i).status \in {"ok", "none"})
       \/ BootTo("late", FALSE)
    /\ UNCHANGED <<pciVars, tables>>

\* The number of routing entries is stored in NoOfInterruptOverrides as well.
IoApicSystemRetrievePrtEntries ==
    /\ phase = "late"
    /\ \/ BootTo("enable", TRUE) /\ nPrt' = Cardinality(PrtList)
       \/ BootTo("enable", FALSE) /\ PrtList # {} /\ UNCHANGED nPrt
    /\ nOverrides' = Cardinality(PrtList)
    /\ UNCHANGED <<pciVars, maskInterrupts>>

IoApicSystemEnableRegisteredInterruptsOnce ==
    /\ phase = "enable" /\ panic = "none" /\ cpu[Bsp].mode = "run"
    /\ phase' = "up" /\ UNCHANGED maskInterrupts
    /\ redir' = [l \in Lines |-> [redir[l] EXCEPT !.masked = redir[l].vec = None]]
    /\ UNCHANGED <<pciVars, nOverrides, nPrt, taken, isr, handlers, msi, gLock, reg, result, given, cpuVars, panic>>

IoApicSystemEnableRegisteredInterrupts ==
    /\ phase = "enable" /\ panic = "none" /\ cpu[Bsp].mode = "run"
    /\ phase' = "up" /\ maskInterrupts' = FALSE
    /\ redir' = [l \in Lines |-> [redir[l] EXCEPT !.masked = redir[l].vec = None]]
    /\ UNCHANGED <<pciVars, nOverrides, nPrt, taken, isr, handlers, msi, gLock, reg, result, given, cpuVars, panic>>

----------------------------------------------------------------------------
(***************************************************************************)
(* The line of a request.                                                  *)
(***************************************************************************)

\* IoApicGetInterruptLineForPciDevice: the routing table, or the bridges above the device.
PrtEntries(d) ==
    {i \in PrtList : /\ nPrt # 0
                     /\ PrtBus(i) = Bus(Hardware[d].loc) /\ Prt[i].dev = Hardware[d].loc[2]
                     /\ Prt[i].fn \in {-1, Hardware[d].loc[3]}
                     /\ Prt[i].pin = Hardware[d].pin}

Place(d) == SelectInSeq(devices, LAMBDA f : f.loc = Hardware[d].loc)

Above(d) ==
    LET chain[p \in 0 .. Len(devices)] == IF p = NoParent THEN {} ELSE {p} \cup chain[parent[p]]
    IN  IF Place(d) = 0 THEN {} ELSE chain[parent[Place(d)]]

Swizzle(d) ==
    LET bridges == {p \in Above(d) : parent[p] # NoParent}
    IN  IF bridges = {} THEN Hardware[d].pin
        ELSE (Hardware[d].pin + MapThenSumSet(LAMBDA p : devices[p].loc[3], bridges)) % 4

FirstPciLine == 16

IoApicGetInterruptLineForPciDevice(d) ==
    IF PrtEntries(d) # {} THEN Prt[Min(PrtEntries(d))].line ELSE FirstPciLine + Swizzle(d)

MsiCapable(r) == Requests[r].type = "pci" /\ Hardware[Requests[r].dev].msi

IsIoApic(r) == Requests[r].type = "legacy" \/ (Requests[r].type = "pci" /\ ~MsiCapable(r))

InterruptLine(r) ==
    IF Requests[r].type = "pci" THEN IoApicGetInterruptLineForPciDevice(Requests[r].dev) ELSE Requests[r].irq

\* The last override of irq among the first n.
Overridden(irq, n) ==
    LET of == {i \in DOMAIN Overrides : i <= n /\ Overrides[i].src = irq}
    IN  IF of = {} THEN irq ELSE Overrides[Max(of)].dst

\* What lies past the end of the table may look like an override to any line, or to none.
FinalIrqs(irq) ==
    {Overridden(irq, nOverrides)}
        \cup (IF nOverrides > Len(Overrides) THEN Lines \cup {None} ELSE {})

\* Where the hardware has connected the device.
HwLine(r) == Requests[r].wire

----------------------------------------------------------------------------
(***************************************************************************)
(* IomuRegisterInterrupt on CPU c, one action for each of its stages.      *)
(***************************************************************************)

(***************************************************************************)
(* Which CPU may make request r now: the kernel's come in order on the     *)
(* BSP, drivers' at any time after it; the driver of a PCI function found  *)
(* it by its identification.                                               *)
(***************************************************************************)
Found(d) == Hardware[d] \in ToSet(IoGetPciDevicesMatchingSpecification(devices, Hardware[d].id).written)

MayRequest(c, r) ==
    /\ result[r] = "none" /\ \A d \in Cpus : reg[d].r # r
    /\ Requests[r].type = "pci" => Found(Requests[r].dev)
    /\ CASE Requests[r].when = "driver" -> phase = "up"
         [] OTHER -> /\ c = Bsp /\ phase = Requests[r].when
                     /\ \A i, j \in DOMAIN Order : Order[j] = r /\ i < j => result[Order[i]] = "ok"

IomuRegisterInterruptUnlocked(c, r) ==
    /\ panic = "none" /\ cpu[c].mode = "run" /\ reg[c].step = "none" /\ MayRequest(c, r)
    /\ gLock' = c
    /\ reg' = [reg EXCEPT ![c] = [NoReg EXCEPT !.step = "lookup", !.r = r]]
    /\ UNCHANGED <<phase, pciVars, tables, taken, isr, handlers, redir, msi, result, given, cpuVars, panic>>

IomuRegisterInterrupt(c, r) ==
    /\ panic = "none" /\ cpu[c].mode = "run" /\ reg[c].step = "none" /\ MayRequest(c, r)
    /\ gLock = None /\ gLock' = c
    /\ reg' = [reg EXCEPT ![c] = [NoReg EXCEPT !.step = "lookup", !.r = r]]
    /\ UNCHANGED <<phase, pciVars, tables, taken, isr, handlers, redir, msi, result, given, cpuVars, panic>>

\* __leave with an error
Leave(c, why) == reg' = [reg EXCEPT ![c].step = "done", ![c].status = why]

\* IoApicSystemGetVectorForIrq and the check of the priority
LookupLine(c, line) ==
    CASE line \notin Lines -> Leave(c, "nodevice")
      [] line \in Lines /\ redir[line].vec = None ->
            reg' = [reg EXCEPT ![c].step = "vector", ![c].line = line]
      [] line \in Lines /\ redir[line].vec # None /\ VectorToIrql(redir[line].vec) # Requests[reg[c].r].irql ->
            Leave(c, "priority")
      [] OTHER -> reg' = [reg EXCEPT ![c].step = "vector", ![c].line = line, ![c].shared = TRUE]

Lookup(c) ==
    /\ panic = "none" /\ reg[c].step = "lookup"
    /\ IF ~IsIoApic(reg[c].r) THEN reg' = [reg EXCEPT ![c].step = "vector"] /\ UNCHANGED panic
       ELSE IF nOverrides > 0 /\ Overrides = << >> THEN panic' = "overrides" /\ UNCHANGED reg
       ELSE /\ \E line \in FinalIrqs(InterruptLine(reg[c].r)) : LookupLine(c, line)
            /\ UNCHANGED panic
    /\ UNCHANGED <<phase, pciVars, tables, taken, isr, handlers, redir, msi, gLock, result, given, cpuVars>>

\* BitmapScanFromToAndFlip over the vectors of the IRQL; the vector of a routed line is shared.
FreeVectors(q) == {v \in Vectors \ taken : VectorToIrql(v) = q}

ChooseVector(c) ==
    LET r == reg[c].r
        q == Requests[r].irql
        free == FreeVectors(q)
        lowest == CHOOSE v \in free : \A w \in free : v[1] < w[1] \/ (v[1] = w[1] /\ v[2] <= w[2])
    IN  /\ panic = "none" /\ reg[c].step = "vector"
        /\ IF reg[c].shared \/ free = {}
           THEN /\ IF Requests[r].exclusive THEN Leave(c, "unavailable")
                   ELSE reg' = [reg EXCEPT ![c].step = "install",
                                   ![c].vec = IF reg[c].shared THEN redir[reg[c].line].vec ELSE IrqlToVector(q)]
                /\ UNCHANGED taken
           ELSE /\ reg' = [reg EXCEPT ![c].step = "install", ![c].vec = lowest]
                /\ taken' = taken \cup {lowest}
        /\ UNCHANGED <<phase, pciVars, tables, isr, handlers, redir, msi, gLock, result, given, cpuVars, panic>>

(***************************************************************************)
(* Under the list's lock: the first handler installs the routine of the    *)
(* vector, which stays when the entry cannot be allocated.                 *)
(***************************************************************************)
InstallHandler(c) ==
    LET r == reg[c].r
        v == reg[c].vec
        first == handlers[v] = << >>
        entry(setup) == /\ handlers' = [handlers EXCEPT ![v] = Append(@, r)]
                        /\ reg' = [reg EXCEPT ![c].step = "program", ![c].setup = setup]
        noMemory == Leave(c, "heap") /\ UNCHANGED handlers
    IN  /\ panic = "none" /\ reg[c].step = "install"
        /\ CASE Requests[r].exclusive /\ ~first ->
                    panic' = "exclusive" /\ UNCHANGED <<isr, handlers, reg>>
             [] first /\ v \in isr ->
                    Leave(c, "already") /\ UNCHANGED <<isr, handlers, panic>>
             [] OTHER ->
                    /\ isr' = isr \cup {v}
                    /\ entry(first /\ IsIoApic(r) /\ ~reg[c].shared) \/ noMemory
                    /\ UNCHANGED panic
        /\ UNCHANGED <<phase, pciVars, tables, taken, redir, msi, gLock, result, given, cpuVars>>

Finished(c) == reg' = [reg EXCEPT ![c].step = "done"]

\* IoApicSystemSetInterrupt
IoApicSystemSetInterrupt(c) ==
    IF redir[reg[c].line].vec # None THEN Leave(c, "taken") /\ UNCHANGED redir
    ELSE /\ redir' = [redir EXCEPT ![reg[c].line] = [vec |-> reg[c].vec, masked |-> maskInterrupts]]
         /\ Finished(c)

\* _IomuProgramPciInterrupt: the writes to the device may fail.
ProgramMsi(c) ==
    \/ msi' = [msi EXCEPT ![Requests[reg[c].r].dev] = reg[c].vec] /\ Finished(c)
    \/ Leave(c, "msi") /\ UNCHANGED msi

ProgramSource(c) ==
    /\ panic = "none" /\ reg[c].step = "program"
    /\ CASE MsiCapable(reg[c].r) -> ProgramMsi(c) /\ UNCHANGED redir
         [] reg[c].setup -> IoApicSystemSetInterrupt(c) /\ UNCHANGED msi
         [] OTHER -> Finished(c) /\ UNCHANGED <<redir, msi>>
    /\ UNCHANGED <<phase, pciVars, tables, taken, isr, handlers, gLock, result, given, cpuVars, panic>>

RegisterDone(c) ==
    LET r == reg[c].r
    IN  /\ panic = "none" /\ reg[c].step = "done"
        /\ result' = [result EXCEPT ![r] = reg[c].status]
        /\ given' = [given EXCEPT ![r] = IF reg[c].status = "ok" THEN reg[c].vec ELSE None]
        /\ reg' = [reg EXCEPT ![c] = NoReg] /\ gLock' = None
        /\ UNCHANGED <<phase, pciVars, tables, taken, isr, handlers, redir, msi, cpuVars, panic>>

----------------------------------------------------------------------------
(***************************************************************************)
(* Interrupts.  A device interrupts once its handler is registered.        *)
(***************************************************************************)

InterruptsOn == phase \in {"acpi", "late", "enable", "up"}

Raise(r) ==
    /\ panic = "none" /\ InterruptsOn /\ result[r] = "ok" /\ r \notin pending
    /\ pending' = pending \cup {r}
    /\ UNCHANGED <<phase, pciVars, tables, regVars, cpu, irql, inService, panic>>

\* The vector the hardware makes of an interrupt of r, None while it is masked.
Route(r) ==
    CASE Requests[r].type = "lapic" -> given[r]
      [] MsiCapable(r) -> msi[Requests[r].dev]
      [] OTHER -> LET l == HwLine(r)
                  IN  IF l \in Lines /\ ~redir[l].masked THEN redir[l].vec ELSE None

\* A CPU serves the line or the device of r already: it is not delivered again before the EOI.
Delivered(r) ==
    \E d \in Cpus : /\ cpu[d].src # None
                    /\ cpu[d].src = r \/ (IsIoApic(r) /\ IsIoApic(cpu[d].src) /\ HwLine(r) = HwLine(cpu[d].src))

\* _IsrInterruptHandler up to the call of the routine
Deliver(c, r) ==
    LET v == Route(r)
    IN  /\ panic = "none" /\ InterruptsOn /\ cpu[c].mode = "run" /\ reg[c].step = "none"
        /\ r \in pending /\ v # None /\ ~Delivered(r)
        /\ VectorToIrql(v) > irql[c]
        /\ cpu' = [cpu EXCEPT ![c] = [mode |-> "isr", src |-> r, vec |-> v]]
        /\ irql' = [irql EXCEPT ![c] = VectorToIrql(v)]
        /\ inService' = [inService EXCEPT ![c] = @ \cup {v}]
        /\ UNCHANGED <<phase, pciVars, tables, regVars, pending, panic>>

\* A spurious interrupt of a legacy PIC reaches the BSP, and not through its local APIC.
DeliverSpurious(c, v) ==
    /\ c = Bsp
    /\ panic = "none" /\ InterruptsOn /\ cpu[c].mode = "run" /\ reg[c].step = "none"
    /\ cpu' = [cpu EXCEPT ![c] = [mode |-> "isr", src |-> None, vec |-> v]]
    /\ irql' = [irql EXCEPT ![c] = VectorToIrql(v)]
    /\ UNCHANGED <<phase, pciVars, tables, regVars, pending, inService, panic>>

\* An exclusive routine claims every call; a shared one looks at its device.
Claims(r) == ~Requests[r].declines /\ (Requests[r].exclusive \/ r \in pending)

\* IomuIsInterruptSpurious
IsSpurious(c) == cpu[c].vec \in PicSpurious /\ cpu[c].vec \notin inService[c]

\* IomuAckInterrupt unless the interrupt is spurious, CpuMuLowerIrql
ReturnFromInterruptInverted(c, spurious) ==
    /\ cpu' = [cpu EXCEPT ![c] = NoService] /\ irql' = [irql EXCEPT ![c] = 0]
    /\ inService' = IF spurious THEN [inService EXCEPT ![c] = @ \ {cpu[c].vec}] ELSE inService

ReturnFromInterrupt(c, spurious) ==
    /\ cpu' = [cpu EXCEPT ![c] = NoService] /\ irql' = [irql EXCEPT ![c] = 0]
    /\ inService' = IF spurious THEN inService ELSE [inService EXCEPT ![c] = @ \ {cpu[c].vec}]

\* _IomuGenericInterrupt: the first handler that claims the interrupt, 0 if there is none.
GenericInterrupt(v) == IF v \in isr THEN SelectInSeq(handlers[v], Claims) ELSE 0

\* The rest of _IsrInterruptHandler: the call, the assertion, the acknowledgement
RunHandlers(c) ==
    LET v == cpu[c].vec
        i == GenericInterrupt(v)
    IN  /\ panic = "none" /\ cpu[c].mode = "isr"
        /\ CASE i # 0 ->
                    pending' = pending \ {handlers[v][i]} /\ ReturnFromInterrupt(c, FALSE) /\ UNCHANGED panic
             [] i = 0 /\ IsSpurious(c) ->
                    ReturnFromInterrupt(c, TRUE) /\ UNCHANGED <<pending, panic>>
             [] OTHER ->
                    /\ panic' = IF cpu[c].src # None /\ Requests[cpu[c].src].declines THEN "apic" ELSE "unhandled"
                    /\ UNCHANGED <<pending, cpu, irql, inService>>
        /\ UNCHANGED <<phase, pciVars, tables, regVars>>

----------------------------------------------------------------------------
BootStep ==
    \/ LapicSystemInit \/ PciSystemInit \/ IoApicSystemRetrieveIoApics
    \/ IoApicSystemRetrieveInterruptOverrides \/ RetrievePciDevices \/ LegacyInit
    \/ AcpiInterfaceLateInit \/ IoApicSystemRetrievePrtEntries \/ IoApicSystemEnableRegisteredInterrupts

RegisterStep(c) ==
    Lookup(c) \/ ChooseVector(c) \/ InstallHandler(c) \/ ProgramSource(c) \/ RegisterDone(c)

CpuStep(c) == RegisterStep(c) \/ RunHandlers(c)

Next ==
    \/ BootStep
    \/ \E c \in Cpus : CpuStep(c)
    \/ \E c \in Cpus, r \in DOMAIN Requests : IomuRegisterInterrupt(c, r) \/ Deliver(c, r)
    \/ \E r \in DOMAIN Requests : Raise(r)
    \/ \E c \in Cpus, v \in PicSpurious : DeliverSpurious(c, v)

Spec == Init /\ [][Next]_vars

(***************************************************************************)
(* The CPUs proceed, and interrupts do not keep the BSP from the boot.  A  *)
(* local APIC hands a pending interrupt over whenever a CPU takes          *)
(* interrupts again; other devices do not keep it from doing so for ever.  *)
(***************************************************************************)
Fairness ==
    /\ SF_vars(BootStep) /\ \A c \in Cpus : WF_vars(CpuStep(c))
    /\ \A r \in {q \in DOMAIN Requests : ~Requests[q].declines} : SF_vars(\E c \in Cpus : Deliver(c, r))

FairSpec == Spec /\ Fairness

----------------------------------------------------------------------------
Statuses == {"none", "ok", "nodevice", "priority", "unavailable", "already", "heap", "taken", "msi"}

\* The type invariant: every list, table and CPU holds what its declaration says.
IntrTypeOK ==
    /\ phase \in {"lapic", "mcfg", "ioapic", "overrides", "pci", "legacy", "acpi", "late", "enable", "up", "failed"}
    /\ DOMAIN parent \subseteq DOMAIN devices
    /\ nOverrides \in Nat /\ nPrt \in 0 .. Len(Prt) /\ maskInterrupts \in BOOLEAN
    /\ isr \subseteq taken /\ taken \subseteq Vectors
    /\ \A v \in Vectors : ToSet(handlers[v]) \subseteq DOMAIN Requests
    /\ \A l \in Lines : redir[l].vec \in Vectors \cup {None} /\ redir[l].masked \in BOOLEAN
    /\ gLock \in Cpus \cup {None}
    /\ \A r \in DOMAIN Requests : result[r] \in Statuses /\ given[r] \in Vectors \cup {None}
    /\ pending \subseteq DOMAIN Requests
    /\ \A c \in Cpus : irql[c] \in Irqls \cup {0} /\ inService[c] \subseteq Vectors

(***************************************************************************)
(* r was squeezed into the first vector of an IRQL without free vectors,   *)
(* in whose list it follows the handler of another line.                   *)
(***************************************************************************)
Squeezed(r) ==
    /\ IsIoApic(r)
    /\ FreeVectors(Requests[r].irql) = {} /\ given[r] = IrqlToVector(Requests[r].irql)
    /\ LET first == handlers[given[r]][1]
       IN  IsIoApic(first) => HwLine(first) # HwLine(r)

(***************************************************************************)
(* A registration that returned success is complete: its handler is in the *)
(* list of the vector it was given and its line or its device sends that   *)
(* vector, the first of its list or not, whatever registrations ran beside *)
(* it and whatever failed before.  IomuRegisterInterrupt programs the line *)
(* of the first handler of a list only, so the line of one that it         *)
(* squeezed into a full IRQL, beside a handler of another line, is not     *)
(* routed although the registration succeeds.                              *)
(***************************************************************************)
RegisteredIsRouted ==
    \A r \in DOMAIN Requests : result[r] = "ok" =>
        /\ r \in ToSet(handlers[given[r]])
        /\ MsiCapable(r) => msi[Requests[r].dev] = given[r]
        /\ IsIoApic(r) => (redir[HwLine(r)].vec = given[r]) \/ Squeezed(r)

(***************************************************************************)
(* The handlers that share a vector agree on its priority, and so does the *)
(* line: CpuMuRaiseIrql would otherwise run a routine at a foreign IRQL.   *)
(***************************************************************************)
PrioritiesAgree ==
    \A v \in Vectors : \A r \in ToSet(handlers[v]) : Requests[r].irql = VectorToIrql(v)

(***************************************************************************)
(* A caller that asked for an exclusive vector is the first handler of it, *)
(* so the assertion of IomuRegisterInterrupt on its list never fails.      *)
(***************************************************************************)
ExclusiveFirst ==
    /\ panic # "exclusive"
    /\ \A v \in Vectors : \A i \in DOMAIN handlers[v] : Requests[handlers[v][i]].exclusive => i = 1

(***************************************************************************)
(* A registration that failed is in no list, so that no CPU calls the      *)
(* routine of a driver that gave up; only a device whose MSI could not be  *)
(* programmed leaves its handler behind.                                   *)
(***************************************************************************)
FailedNotCalled ==
    \A r \in DOMAIN Requests : result[r] \notin {"none", "ok", "msi"} =>
        \A v \in Vectors : r \notin ToSet(handlers[v])

(***************************************************************************)
(* No IO APIC line is unmasked before the application processors run and   *)
(* the lines are enabled together, however early a routine is registered.  *)
(***************************************************************************)
QuietAtBoot ==
    phase # "up" => \A l \in Lines : redir[l].masked

(***************************************************************************)
(* Each interrupt the local APIC delivered is acknowledged once, and none  *)
(* twice: outside a handler nothing is in service and the IRQL is 0.       *)
(***************************************************************************)
ServiceMatched ==
    \A c \in Cpus : cpu[c].mode = "run" => inService[c] = {} /\ irql[c] = 0

(***************************************************************************)
(* No interrupt of a registered device goes unclaimed, which would stop    *)
(* the system by the assertion in _IsrInterruptHandler.                    *)
(***************************************************************************)
NoUnclaimedInterrupt == panic # "unhandled"

(***************************************************************************)
(* Whatever part of each root complex could be retrieved, the list holds   *)
(* functions of the machine, and every function behind a bridge knows the  *)
(* bridge of its bus.  The NOT_REACHED of PciSystemEstablishHierarchy is   *)
(* reached only when a retrieval failed and a later one, which succeeded,  *)
(* hid the failure.                                                        *)
(***************************************************************************)
HierarchySound ==
    /\ ToSet(devices) \subseteq ToSet(Hardware)
    /\ panic = "hierarchy" => ToSet(devices) # ToSet(Hardware)
    /\ panic # "hierarchy" => \A i \in DOMAIN parent :
           IF Bus(devices[i].loc) = 0 THEN parent[i] = NoParent
           ELSE parent[i] \in 1 .. i - 1 /\ devices[parent[i]].secondary = Bus(devices[i].loc)

(***************************************************************************)
(* A function that a driver found interrupts through the line it is wired  *)
(* to, which is looked up in the routing tables of the bridges or          *)
(* translated from pin to pin by the bridges above it, though functions    *)
(* may be missing from the list.                                           *)
(***************************************************************************)
PinsTranslated ==
    phase = "up" =>
        \A r \in DOMAIN Requests : Requests[r].type = "pci" /\ IsIoApic(r) /\ Found(Requests[r].dev) =>
            InterruptLine(r) = HwLine(r)

(***************************************************************************)
(* A write to the configuration space of any width, at a register aligned  *)
(* to it, changes the addressed bytes only, and a read returns what was    *)
(* written, whatever DWORD the bytes were merged into.  Registers that are *)
(* not aligned are refused.                                                *)
(***************************************************************************)
ConfigExact ==
    phase = "ioapic" =>
        \A width \in {1, 2, 4, 8}, reg0 \in 0 .. Space - 1 :
            reg0 % width = 0 /\ Reachable(Hardware[1].loc, Dword(reg0)) =>
                LET cfg == [b \in 1 .. Space |-> b]
                    val == [b \in 1 .. width |-> Space + b]
                    after == PciSystemWriteConfigurationSpaceGeneric(cfg, reg0, width, val)
                IN  /\ PciSystemReadConfigurationSpaceGeneric(after, reg0, width) = val
                    /\ \A b \in 1 .. Space : after[b] # cfg[b] => b \in reg0 + 1 .. reg0 + width

(***************************************************************************)
(* What does not hold of the lookups and of the list.  The declarations    *)
(* say OUT_WRITES_OPT of NumberOfDevices, but a full buffer gets one more  *)
(* entry; the callers of the kernel pass a buffer that is large enough.    *)
(* The list of a boot that went on may lack functions of the machine.      *)
(***************************************************************************)
LookupsInBounds ==
    phase = "legacy" =>
        \A size \in 0 .. Len(devices), b, d \in {Wildcard, 0, 1} :
            Len(PciSystemFindDevicesMatchingLocation(devices, <<b, d, Wildcard>>, size).written) <= size

ListComplete == phase = "legacy" => ToSet(devices) = ToSet(Hardware)

(***************************************************************************)
(* A legacy interrupt is routed through the line its override names; the   *)
(* lookup says it searches the overrides before anything else.  Does not   *)
(* hold after the routing entries are read (LateIsa of MCInterrupts).      *)
(***************************************************************************)
OverridesHonoured ==
    \A c \in Cpus : reg[c].line # None /\ Requests[reg[c].r].type = "legacy" => reg[c].line = HwLine(reg[c].r)

\* The handlers before r in its list
Before(r) ==
    LET list == handlers[given[r]]
    IN  {list[i] : i \in 1 .. SelectInSeq(list, LAMBDA h : h = r) - 1}

\* The routine of r is called for its interrupts.
Heard(r) ==
    /\ result[r] = "ok" /\ ~Squeezed(r)
    /\ \A h \in Before(r) : ~Requests[h].exclusive

(***************************************************************************)
(* A device that wants service gets it: its interrupt reaches a CPU, the   *)
(* handlers before its own decline, and its own runs.  A shared vector is  *)
(* walked up to the first handler that claims, so a device must be left    *)
(* alone by the devices before it in the list from some time on.  The      *)
(* system may stop by an assertion or fail to boot first.                  *)
(***************************************************************************)
InterruptsServed ==
    \A r \in {q \in DOMAIN Requests : ~Requests[q].declines} :
        <>[](result[r] = "ok" /\ Before(r) \cap pending = {})
            => []((r \in pending /\ Heard(r)) => <>(r \notin pending \/ panic # "none" \/ phase = "failed"))

(* What a registration leaves behind, whatever runs beside it: one that    *)
(* succeeded has its handler listed and its line or device programmed,     *)
(* unless IomuRegisterInterrupt squeezed it into a full IRQL; one that     *)
(* failed is in no list, unless the writes to its device with MSI failed,  *)
(* which come after the handler is listed; handlers of one vector agree on *)
(* its priority, and an exclusive one is the first.                        *)
RegistrationSound ==
    /\ IntrTypeOK
    /\ RegisteredIsRouted
    /\ FailedNotCalled
    /\ PrioritiesAgree
    /\ ExclusiveFirst

(* An interrupt comes when lines are enabled, is claimed by one of its     *)
(* handlers, and is acknowledged once.                                     *)
DeliverySound ==
    /\ QuietAtBoot
    /\ ServiceMatched
    /\ NoUnclaimedInterrupt

=============================================================================
