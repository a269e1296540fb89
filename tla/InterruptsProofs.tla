-------------------------- MODULE InterruptsProofs --------------------------
(***************************************************************************)
(* Proofs about Interrupts for any CPUs, vectors, IO APICs, tables and     *)
(* requests: what registrations leave behind and what CPUs serve.          *)
(***************************************************************************)
EXTENDS Interrupts, WellFoundedInduction, FiniteSetTheorems, TLAPS

R == DOMAIN Requests

Phases == {"lapic", "mcfg", "ioapic", "overrides", "pci", "legacy", "acpi", "late", "enable", "up",
           "failed"}

RegRec == [step : {"none", "lookup", "vector", "install", "program", "done"}, r : R \cup {None},
           line : Lines \cup {None}, vec : Vectors \cup {None}, shared : BOOLEAN, setup : BOOLEAN,
           status : Statuses \ {"none"}]

ServiceRec == [mode : {"run", "isr"}, src : R \cup {None}, vec : Vectors \cup {None}]

(* The types, as IntrTypeOK has them and of the locals besides.            *)
TableTypes ==
    /\ phase \in Phases
    /\ DOMAIN parent \subseteq DOMAIN devices
    /\ nOverrides \in Nat /\ nPrt \in 0 .. Len(Prt)
    /\ pending \in SUBSET R

RegTypes ==
    /\ taken \in SUBSET Vectors
    /\ handlers \in [Vectors -> Seq(R)]
    /\ redir \in [Lines -> [vec : Vectors \cup {None}, masked : BOOLEAN]]
    /\ msi \in [DOMAIN Hardware -> Vectors \cup {None}]
    /\ gLock \in Cpus \cup {None}
    /\ reg \in [Cpus -> RegRec]
    /\ result \in [R -> Statuses]
    /\ given \in [R -> Vectors \cup {None}]

(* Lines stay masked, and are programmed masked, until they are enabled    *)
(* together.                                                               *)
MaskInv ==
    /\ maskInterrupts \in BOOLEAN
    /\ phase # "up" => maskInterrupts /\ \A l \in Lines : redir[l].masked

(* A CPU has in service at most the vector whose routine it is about to    *)
(* call; for a spurious interrupt of a PIC it has none.                    *)
ServiceInv ==
    /\ cpu \in [Cpus -> ServiceRec] /\ irql \in [Cpus -> Irqls \cup {0}]
    /\ inService \in [Cpus -> SUBSET Vectors]
    /\ \A c \in Cpus :
        /\ cpu[c].mode = "run" => inService[c] = {} /\ irql[c] = 0
        /\ cpu[c].mode = "isr" => cpu[c].vec \in Vectors /\ inService[c] \subseteq {cpu[c].vec}

(* A vector with a handler or with a line has its routine installed, one   *)
(* with a routine is taken, and one that is taken has a routine or gets it *)
(* from the registration under way.                                        *)
VectorInv ==
    /\ isr \subseteq taken
    /\ \A v \in taken \ isr : \E c \in Cpus : reg[c].step = "install" /\ reg[c].vec = v
    /\ \A v \in Vectors : handlers[v] # << >> => v \in isr
    /\ \A l \in Lines : redir[l].vec # None => redir[l].vec \in isr

(* Handlers have the priority of their vector; exclusive ones are first.   *)
ListInv ==
    \A v \in Vectors : \A i \in DOMAIN handlers[v] :
        /\ Requests[handlers[v][i]].irql = VectorToIrql(v)
        /\ Requests[handlers[v][i]].exclusive => i = 1

(* GlobalInterruptLock is held from the start of a registration to its end.*)
LockInv ==
    \A c \in Cpus : IF reg[c].step = "none" THEN reg[c] = NoReg ELSE gLock = c

Unlisted(r) == \A v \in Vectors : r \notin ToSet(handlers[v])

(* v is the first vector of an IRQL whose vectors are all taken.           *)
Exhausted(r, v) ==
    /\ v = IrqlToVector(Requests[r].irql)
    /\ \A w \in Vectors : VectorToIrql(w) = Requests[r].irql => w \in taken

(* r follows another handler in the list of such a vector.                 *)
Second(r, v) == Len(handlers[v]) > 1 /\ handlers[v][1] # r /\ Exhausted(r, v)

(* What the locals of a registration say while the lock is held.           *)
LineKnown(c) ==
    IF IsIoApic(reg[c].r)
    THEN /\ reg[c].line \in Lines
         /\ reg[c].shared <=> redir[reg[c].line].vec # None
         /\ reg[c].shared => VectorToIrql(redir[reg[c].line].vec) = Requests[reg[c].r].irql
    ELSE ~reg[c].shared

VectorKnown(c) ==
    /\ reg[c].vec \in taken
    /\ VectorToIrql(reg[c].vec) = Requests[reg[c].r].irql
    /\ IF reg[c].shared THEN reg[c].vec = redir[reg[c].line].vec
       ELSE handlers[reg[c].vec] = << >> \/ Exhausted(reg[c].r, reg[c].vec)
    /\ Requests[reg[c].r].exclusive => handlers[reg[c].vec] = << >>

InList(c) == reg[c].vec \in isr /\ reg[c].r \in ToSet(handlers[reg[c].vec])

Programmed(c) ==
    /\ MsiCapable(reg[c].r) => msi[Requests[reg[c].r].dev] = reg[c].vec
    /\ IsIoApic(reg[c].r) => /\ reg[c].line \in Lines
                             /\ redir[reg[c].line].vec = reg[c].vec \/ Second(reg[c].r, reg[c].vec)

RegInv(c) ==
    reg[c].step # "none" =>
        /\ reg[c].r \in R /\ result[reg[c].r] = "none"
        /\ reg[c].step # "done" => reg[c].status = "ok"
        /\ reg[c].step = "lookup" => ~reg[c].shared
        /\ reg[c].step \in {"lookup", "vector", "install"} => Unlisted(reg[c].r)
        /\ reg[c].step \in {"vector", "install", "program"} => LineKnown(c)
        /\ reg[c].step = "install" => VectorKnown(c)
        /\ reg[c].step = "program" =>
              /\ InList(c)
              /\ reg[c].setup => IsIoApic(reg[c].r) /\ ~reg[c].shared
              /\ IsIoApic(reg[c].r) =>
                    \/ reg[c].setup
                    \/ reg[c].shared /\ redir[reg[c].line].vec = reg[c].vec
                    \/ Second(reg[c].r, reg[c].vec)
        /\ reg[c].step = "done" /\ reg[c].status = "ok" => InList(c) /\ Programmed(c)
        /\ reg[c].step = "done" /\ reg[c].status \notin {"ok", "msi"} => Unlisted(reg[c].r)

(* Which requests are in a list: those that succeeded or failed to program *)
(* their device.                                                           *)
ResultInv ==
    \A r \in R :
        /\ result[r] = "none" => Unlisted(r) \/ \E c \in Cpus : reg[c].r = r
        /\ result[r] \notin {"none", "ok", "msi"} => Unlisted(r)
        /\ result[r] = "ok" => given[r] \in Vectors /\ r \in ToSet(handlers[given[r]])

(* The inductive invariant.                                                *)
IntrInv ==
    /\ TableTypes /\ RegTypes
    /\ MaskInv
    /\ ServiceInv
    /\ VectorInv /\ ListInv
    /\ LockInv /\ (\A c \in Cpus : RegInv(c))
    /\ ResultInv
    /\ panic # "exclusive"

(* The tables the kernel reads describe the machine: the line found for a  *)
(* request is the one its device is connected to.                          *)
TablesRight == \A c \in Cpus : reg[c].line # None => reg[c].line = HwLine(reg[c].r)

(* A device with MSI, which has one vector to program, has one driver.     *)
OneDriverPerMsi ==
    \A r, s \in R : MsiCapable(r) /\ MsiCapable(s) /\ Requests[r].dev = Requests[s].dev => r = s

(* Where the interrupts of registered handlers come from.                  *)
RoutedInv ==
    \A r \in R : result[r] = "ok" =>
        /\ MsiCapable(r) => msi[Requests[r].dev] = given[r]
        /\ IsIoApic(r) => /\ HwLine(r) \in Lines
                          /\ redir[HwLine(r)].vec = given[r] \/ Second(r, given[r])
----------------------------------------------------------------------------
(* InsertTailList.                                                         *)
LEMMA AppendFacts ==
    ASSUME NEW S, NEW q \in Seq(S), NEW x \in S
    PROVE  /\ Append(q, x) \in Seq(S) /\ Len(Append(q, x)) = Len(q) + 1 /\ Len(q) \in Nat
           /\ DOMAIN q = 1 .. Len(q) /\ DOMAIN Append(q, x) = 1 .. Len(q) + 1
           /\ \A i \in 1 .. Len(q) : Append(q, x)[i] = q[i]
           /\ Append(q, x)[Len(q) + 1] = x
           /\ Append(q, x) # << >>
           /\ ToSet(Append(q, x)) = ToSet(q) \cup {x}
<1>1. /\ Append(q, x) \in Seq(S) /\ Len(Append(q, x)) = Len(q) + 1 /\ Len(q) \in Nat
      /\ DOMAIN q = 1 .. Len(q) /\ DOMAIN Append(q, x) = 1 .. Len(q) + 1
      /\ \A i \in 1 .. Len(q) : Append(q, x)[i] = q[i]
      /\ Append(q, x)[Len(q) + 1] = x
  OBVIOUS
<1>2. Append(q, x) # << >>
  BY <1>1
<1>3. ToSet(Append(q, x)) = ToSet(q) \cup {x}
  BY <1>1 DEF ToSet
<1>. QED  BY <1>1, <1>2, <1>3

LEMMA EmptyList ==
    /\ ToSet(<< >>) = {}
    /\ \A S : \A q \in Seq(S) : q # << >> => Len(q) >= 1 /\ q[1] \in ToSet(q)
    /\ \A S : \A q \in Seq(S) : ToSet(q) \subseteq S
<1>1. ToSet(<< >>) = {}
  BY DEF ToSet
<1>2. ASSUME NEW S, NEW q \in Seq(S), q # << >> PROVE Len(q) >= 1 /\ q[1] \in ToSet(q)
  <2>1. Len(q) \in Nat /\ Len(q) # 0 /\ DOMAIN q = 1 .. Len(q)
    BY <1>2
  <2>2. Len(q) >= 1 /\ 1 \in DOMAIN q
    BY <2>1
  <2>. QED  BY <2>2 DEF ToSet
<1>3. ASSUME NEW S, NEW q \in Seq(S) PROVE ToSet(q) \subseteq S
  <2>1. \A i \in DOMAIN q : q[i] \in S
    BY <1>3
  <2>. QED  BY <2>1 DEF ToSet
<1>. QED  BY <1>1, <1>2, <1>3

(* The first vector of an IRQL; what VectorToIrql makes of a vector.       *)
LEMMA VectorFacts ==
    /\ \A q \in Irqls : IrqlToVector(q) \in Vectors /\ VectorToIrql(IrqlToVector(q)) = q
    /\ \A v \in Vectors : VectorToIrql(v) \in Irqls /\ v[2] \in Nat /\ v = <<v[1], v[2]>> /\ v # None
    /\ 0 \notin Irqls
<1>1. 0 \in 0 .. PerIrql - 1
  BY IntrAssumption
<1>2. \A q \in Irqls : <<q, 0>> \in Vectors /\ <<q, 0>>[1] = q
  BY <1>1 DEF Vectors
<1>3. \A v \in Vectors : v[1] \in Irqls /\ v[2] \in 0 .. PerIrql - 1 /\ v = <<v[1], v[2]>>
  BY DEF Vectors
<1>4. None \notin Vectors /\ 0 \notin Irqls /\ 0 .. PerIrql - 1 \subseteq Nat
  BY IntrAssumption
<1>. QED  BY <1>2, <1>3, <1>4 DEF IrqlToVector, VectorToIrql

(* The fields of a request.                                                *)
LEMMA RequestFacts ==
    ASSUME NEW r \in R
    PROVE  /\ Requests[r].irql \in Irqls
           /\ Requests[r].exclusive \in BOOLEAN
           /\ r # None
           /\ MsiCapable(r) => Requests[r].dev \in DOMAIN Hardware
           /\ MsiCapable(r) => ~IsIoApic(r)
<1>1. Requests[r] \in RequestRec /\ r # None
  BY IntrAssumption DEF R
<1>2. Requests[r].irql \in Irqls
  BY <1>1 DEF RequestRec
<1>3. Requests[r].exclusive \in BOOLEAN
  BY <1>1 DEF RequestRec
<1>4. MsiCapable(r) => Requests[r].dev \in DOMAIN Hardware
  BY IntrAssumption DEF R, MsiCapable
<1>5. MsiCapable(r) => ~IsIoApic(r)
  BY DEF MsiCapable, IsIoApic
<1>. QED  BY <1>1, <1>2, <1>3, <1>4, <1>5

LEMMA NoRegType == NoReg \in RegRec /\ NoReg.step = "none" /\ NoReg.r = None /\ NoReg.line = None
<1>1. NoReg \in RegRec
  BY DEF NoReg, RegRec, Statuses
<1>. QED  BY <1>1 DEF NoReg

LEMMA NoServiceType == NoService \in ServiceRec /\ NoService.mode = "run"
  BY DEF NoService, ServiceRec

(* Nothing is registered.                                                  *)
LEMMA IntrInit == Init => IntrInv /\ RoutedInv
<1>. SUFFICES ASSUME Init PROVE IntrInv /\ RoutedInv
  OBVIOUS
<1>1. TableTypes
  <2>1. Len(Prt) \in Nat
    BY IntrAssumption
  <2>. QED  BY <2>1 DEF Init, TableTypes, Phases
<1>2. RegTypes
  <2>1. /\ taken \in SUBSET Vectors
        /\ msi \in [DOMAIN Hardware -> Vectors \cup {None}]
        /\ gLock \in Cpus \cup {None}
        /\ given \in [R -> Vectors \cup {None}]
    BY DEF Init, R
  <2>2. handlers \in [Vectors -> Seq(R)]
    BY DEF Init
  <2>3. redir \in [Lines -> [vec : Vectors \cup {None}, masked : BOOLEAN]]
    BY DEF Init
  <2>4. reg \in [Cpus -> RegRec]
    BY NoRegType DEF Init
  <2>5. result \in [R -> Statuses]
    BY DEF Init, R, Statuses
  <2>. QED  BY <2>1, <2>2, <2>3, <2>4, <2>5 DEF RegTypes
<1>3. MaskInv
  BY DEF Init, MaskInv
<1>4. ServiceInv
  <2>1. cpu \in [Cpus -> ServiceRec] /\ \A c \in Cpus : cpu[c].mode = "run"
    BY NoServiceType DEF Init
  <2>. QED  BY <2>1 DEF Init, ServiceInv
<1>5. VectorInv
  BY DEF Init, VectorInv
<1>6. ListInv
  BY DEF Init, ListInv
<1>7. LockInv /\ (\A c \in Cpus : RegInv(c))
  BY NoRegType DEF Init, LockInv, RegInv
<1>8. ResultInv /\ RoutedInv
  <2>1. \A r \in R : Unlisted(r)
    BY EmptyList DEF Init, Unlisted
  <2>2. \A r \in R : result[r] = "none"
    BY DEF Init, R
  <2>. QED  BY <2>1, <2>2 DEF ResultInv, RoutedInv
<1>9. panic # "exclusive"
  BY DEF Init
<1>. QED  BY <1>1, <1>2, <1>3, <1>4, <1>5, <1>6, <1>7, <1>8, <1>9 DEF IntrInv

----------------------------------------------------------------------------
(* A step that changes nothing of the registrations but masks keeps what   *)
(* they have established.                                                  *)
RegPart == VectorInv /\ ListInv /\ LockInv /\ (\A c \in Cpus : RegInv(c)) /\ ResultInv

LEMMA RegFrame ==
    ASSUME UNCHANGED <<taken, isr, handlers, msi, gLock, reg, result, given>>,
           \A l \in Lines : redir'[l].vec = redir[l].vec
    PROVE  /\ RegPart => RegPart'
           /\ RoutedInv => RoutedInv'
           /\ TablesRight => TablesRight'
<1>1. VectorInv => VectorInv'
  BY DEF VectorInv
<1>2. ListInv => ListInv'
  BY DEF ListInv
<1>3. LockInv => LockInv'
  BY DEF LockInv
<1>4. ASSUME NEW c \in Cpus PROVE RegInv(c) => RegInv(c)'
  <2>1. /\ LineKnown(c) => LineKnown(c)'
        /\ LineKnown(c) /\ VectorKnown(c) => VectorKnown(c)'
        /\ InList(c) => InList(c)'
        /\ Programmed(c) => Programmed(c)'
        /\ Unlisted(reg[c].r) => Unlisted(reg[c].r)'
        /\ \A r, v : Second(r, v)' <=> Second(r, v)
    BY DEF LineKnown, VectorKnown, InList, Programmed, Unlisted, Second, Exhausted
  <2>2. reg'[c] = reg[c] /\ result' = result
    OBVIOUS
  <2>3. LineKnown(c) /\ IsIoApic(reg[c].r) => redir'[reg[c].line].vec = redir[reg[c].line].vec
    BY DEF LineKnown
  <2>. QED  BY <2>1, <2>2, <2>3 DEF RegInv
<1>5. ResultInv => ResultInv'
  BY DEF ResultInv, Unlisted
<1>6. RoutedInv => RoutedInv'
  BY DEF RoutedInv, Second, Exhausted
<1>7. TablesRight => TablesRight'
  BY DEF TablesRight
<1>. QED  BY <1>1, <1>2, <1>3, <1>4, <1>5, <1>6, <1>7 DEF RegPart
(* A step outside the registrations: their tables stay, but for masks.     *)
LEMMA OtherSteps ==
    ASSUME IntrInv,
           UNCHANGED <<taken, isr, handlers, msi, gLock, reg, result, given>>,
           redir' \in [Lines -> [vec : Vectors \cup {None}, masked : BOOLEAN]],
           \A l \in Lines : redir'[l].vec = redir[l].vec,
           TableTypes', MaskInv', ServiceInv', panic' # "exclusive"
    PROVE  IntrInv' /\ (RoutedInv => RoutedInv')
<1>1. RegTypes'
  BY DEF IntrInv, RegTypes
<1>2. RegPart' /\ (RoutedInv => RoutedInv')
  BY RegFrame DEF IntrInv, RegPart
<1>. QED  BY <1>1, <1>2 DEF IntrInv, RegPart

(* A step of the CPUs alone.                                               *)
LEMMA CpuSteps ==
    ASSUME IntrInv, UNCHANGED <<phase, pciVars, tables, regVars>>,
           pending' \in SUBSET R, ServiceInv', panic' # "exclusive"
    PROVE  IntrInv' /\ (RoutedInv => RoutedInv')
<1>1. /\ UNCHANGED <<phase, devices, parent, nOverrides, nPrt, maskInterrupts>>
      /\ UNCHANGED <<taken, isr, handlers, redir, msi, gLock, reg, result, given>>
  BY DEF pciVars, tables, regVars
<1>2. TableTypes' /\ MaskInv'
  BY <1>1 DEF IntrInv, TableTypes, MaskInv
<1>3. redir' \in [Lines -> [vec : Vectors \cup {None}, masked : BOOLEAN]]
  BY <1>1 DEF IntrInv, RegTypes
<1>. QED  BY <1>1, <1>2, <1>3, OtherSteps

(* The list has no more routing entries than the tables.                   *)
LEMMA PrtListSize == Cardinality(PrtList) \in 0 .. Len(Prt)
<1>. DEFINE n == Len(Prt)
<1>1. n \in Nat /\ DOMAIN Prt = 1 .. n
  BY IntrAssumption
<1>2. PrtList \in SUBSET (1 .. n)
  BY <1>1 DEF PrtList
<1>. HIDE DEF n
<1>3. IsFiniteSet(1 .. n) /\ Cardinality(1 .. n) = n
  <2>1. n \in Int /\ 1 \in Int /\ (IF 1 > n THEN 0 ELSE n - 1 + 1) = n
    BY <1>1
  <2>. QED  BY <2>1, FS_Interval
<1>4. IsFiniteSet(PrtList) /\ Cardinality(PrtList) <= Cardinality(1 .. n)
  BY <1>2, <1>3, FS_Subset
<1>5. Cardinality(PrtList) \in Nat
  BY <1>4, FS_CardinalityType
<1>. QED  BY <1>1, <1>3, <1>4, <1>5 DEF n

(* SystemInit: lines stay masked up to IoApicSystemEnableRegistered-       *)
(* Interrupts, which unmasks those that are routed.                        *)
LEMMA BootInv ==
    ASSUME IntrInv, BootStep
    PROVE  IntrInv' /\ (RoutedInv => RoutedInv')
<1>. TableTypes /\ MaskInv /\ ServiceInv /\ RegTypes
  BY DEF IntrInv
<1>1. Len(Prt) \in Nat /\ Len(Overrides) \in Nat
  BY IntrAssumption
<1>2. ASSUME UNCHANGED <<regVars, cpuVars, maskInterrupts>>, panic' \in {panic, "none", "hierarchy"},
             phase # "up", TableTypes'
      PROVE  IntrInv' /\ (RoutedInv => RoutedInv')
  <2>1. UNCHANGED <<taken, isr, handlers, redir, msi, gLock, reg, result, given, cpu, irql, inService>>
    BY <1>2 DEF regVars, cpuVars
  <2>2. MaskInv' /\ ServiceInv'
    BY <1>2, <2>1 DEF MaskInv, ServiceInv
  <2>3. redir' \in [Lines -> [vec : Vectors \cup {None}, masked : BOOLEAN]]
    BY <2>1 DEF RegTypes
  <2>4. panic' # "exclusive"
    BY <1>2 DEF IntrInv
  <2>. QED  BY <1>2, <2>1, <2>2, <2>3, <2>4, OtherSteps
<1>3. ASSUME NEW ph \in Phases, NEW ok, BootTo(ph, ok), UNCHANGED <<pciVars, maskInterrupts>>, phase # "up",
             nOverrides' \in Nat, nPrt' \in 0 .. Len(Prt)
      PROVE  IntrInv' /\ (RoutedInv => RoutedInv')
  <2>1. UNCHANGED <<regVars, cpuVars, panic, devices, parent, pending>> /\ phase' \in Phases
    BY <1>3 DEF BootTo, pciVars, Phases, cpuVars
  <2>2. TableTypes'
    BY <1>3, <2>1 DEF TableTypes
  <2>. QED  BY <1>2, <1>3, <2>1, <2>2
<1>4. CASE LapicSystemInit \/ PciSystemInit \/ IoApicSystemRetrieveIoApics \/ LegacyInit \/ AcpiInterfaceLateInit
  <2>1. PICK ph \in Phases, ok \in BOOLEAN : BootTo(ph, ok) /\ UNCHANGED <<pciVars, tables>> /\ phase # "up"
    <3>1. CASE LapicSystemInit
      BY <3>1 DEF LapicSystemInit, Phases, Booted
    <3>2. CASE PciSystemInit
      BY <3>2 DEF PciSystemInit, Phases
    <3>3. CASE IoApicSystemRetrieveIoApics
      BY <3>3 DEF IoApicSystemRetrieveIoApics, Phases
    <3>4. CASE LegacyInit
      BY <3>4 DEF LegacyInit, Phases, Booted
    <3>5. CASE AcpiInterfaceLateInit
      BY <3>5 DEF AcpiInterfaceLateInit, Phases
    <3>. QED  BY <1>4, <3>1, <3>2, <3>3, <3>4, <3>5
  <2>2. UNCHANGED <<nOverrides, nPrt, maskInterrupts>>
    BY <2>1 DEF tables
  <2>. QED  BY <1>3, <2>1, <2>2 DEF TableTypes
<1>5. CASE IoApicSystemRetrieveInterruptOverrides
  <2>1. PICK ok \in BOOLEAN : BootTo("pci", ok)
    BY <1>5 DEF IoApicSystemRetrieveInterruptOverrides
  <2>2. phase # "up" /\ UNCHANGED <<pciVars, nPrt, maskInterrupts>> /\ nOverrides' = Len(Overrides)
    BY <1>5 DEF IoApicSystemRetrieveInterruptOverrides
  <2>3. "pci" \in Phases
    BY DEF Phases
  <2>. QED  BY <1>1, <1>3, <2>1, <2>2, <2>3 DEF TableTypes
<1>6. CASE RetrievePciDevices
  <2>1. PICK got \in Retrievals :
          /\ devices' = PciSystemRetrieveDevices(got).devices
          /\ phase' \in {"legacy", "failed"}
          /\ parent' \in {PciSystemEstablishHierarchy(PciSystemRetrieveDevices(got).devices), << >>}
          /\ panic' \in {"hierarchy", "none"}
    BY <1>6 DEF RetrievePciDevices
  <2>2. DOMAIN parent' \subseteq DOMAIN devices'
    <3>1. CASE parent' = << >>
      BY <3>1
    <3>2. CASE parent' = PciSystemEstablishHierarchy(devices')
      BY <3>2 DEF PciSystemEstablishHierarchy
    <3>. QED  BY <2>1, <3>1, <3>2
  <2>3. phase # "up" /\ UNCHANGED <<tables, regVars, cpuVars>>
    BY <1>6 DEF RetrievePciDevices
  <2>4. TableTypes'
    BY <2>1, <2>2, <2>3 DEF TableTypes, tables, cpuVars, Phases
  <2>5. UNCHANGED maskInterrupts
    BY <2>3 DEF tables
  <2>. QED  BY <1>2, <2>1, <2>3, <2>4, <2>5
<1>7. CASE IoApicSystemRetrievePrtEntries
  <2>1. PICK ok \in BOOLEAN : BootTo("enable", ok)
    BY <1>7 DEF IoApicSystemRetrievePrtEntries
  <2>2. /\ phase # "up" /\ UNCHANGED <<pciVars, maskInterrupts>> /\ nOverrides' = Cardinality(PrtList)
        /\ nPrt' \in {nPrt, Cardinality(PrtList)}
    BY <1>7 DEF IoApicSystemRetrievePrtEntries
  <2>3. "enable" \in Phases /\ nPrt' \in 0 .. Len(Prt) /\ nOverrides' \in Nat
    BY <1>1, <2>2, PrtListSize DEF Phases, TableTypes
  <2>. QED  BY <1>1, <1>3, <2>1, <2>2, <2>3
<1>8. CASE IoApicSystemEnableRegisteredInterrupts
  <2>1. /\ UNCHANGED <<taken, isr, handlers, msi, gLock, reg, result, given>>
        /\ UNCHANGED <<devices, parent, nOverrides, nPrt, pending, cpu, irql, inService, panic>>
        /\ phase' = "up" /\ maskInterrupts' = FALSE
    BY <1>8 DEF IoApicSystemEnableRegisteredInterrupts, pciVars, cpuVars
  <2>2. ASSUME NEW l \in Lines
        PROVE  redir'[l].vec = redir[l].vec /\ redir'[l] \in [vec : Vectors \cup {None}, masked : BOOLEAN]
    <3>1. redir[l] \in [vec : Vectors \cup {None}, masked : BOOLEAN]
      BY DEF RegTypes
    <3>2. redir'[l] = [redir[l] EXCEPT !.masked = redir[l].vec = None]
      BY <1>8 DEF IoApicSystemEnableRegisteredInterrupts
    <3>3. (redir[l].vec = None) \in BOOLEAN
      OBVIOUS
    <3>. QED  BY <3>1, <3>2, <3>3
  <2>3. redir' \in [Lines -> [vec : Vectors \cup {None}, masked : BOOLEAN]]
    BY <1>8, <2>2 DEF IoApicSystemEnableRegisteredInterrupts
  <2>4. TableTypes' /\ MaskInv' /\ ServiceInv' /\ panic' # "exclusive"
    BY <2>1 DEF TableTypes, MaskInv, ServiceInv, IntrInv, Phases
  <2>. QED  BY <1>2, <2>1, <2>2, <2>3, <2>4, OtherSteps
<1>. QED  BY <1>4, <1>5, <1>6, <1>7, <1>8 DEF BootStep

(* A device wants service.                                                 *)
LEMMA RaiseInv ==
    ASSUME IntrInv, NEW r \in R, Raise(r)
    PROVE  IntrInv' /\ (RoutedInv => RoutedInv')
<1>1. /\ UNCHANGED <<phase, pciVars, tables, regVars, cpu, irql, inService, panic>>
      /\ pending' = pending \cup {r}
  BY DEF Raise
<1>2. ServiceInv' /\ pending' \in SUBSET R /\ panic' # "exclusive"
  BY <1>1 DEF IntrInv, ServiceInv, TableTypes
<1>. QED  BY <1>1, <1>2, CpuSteps

(* The vectors of interrupts.                                              *)
LEMMA RouteFacts ==
    ASSUME IntrInv, NEW r \in R
    PROVE  Route(r) \in Vectors \cup {None}
<1>. RegTypes
  BY DEF IntrInv
<1>1. given[r] \in Vectors \cup {None}
  BY DEF RegTypes
<1>2. MsiCapable(r) => msi[Requests[r].dev] \in Vectors \cup {None}
  BY RequestFacts DEF RegTypes
<1>3. HwLine(r) \in Lines => redir[HwLine(r)].vec \in Vectors \cup {None}
  BY DEF RegTypes
<1>. QED  BY <1>1, <1>2, <1>3 DEF Route

(* _IsrInterruptHandler is entered from the local APIC.                    *)
LEMMA DeliverInv ==
    ASSUME IntrInv, NEW c \in Cpus, NEW r \in R, Deliver(c, r)
    PROVE  IntrInv' /\ (RoutedInv => RoutedInv')
<1>. ServiceInv
  BY DEF IntrInv
<1>1. PICK v \in Vectors : v = Route(r)
  BY RouteFacts DEF Deliver
<1>2. /\ cpu[c].mode = "run"
      /\ cpu' = [cpu EXCEPT ![c] = [mode |-> "isr", src |-> r, vec |-> v]]
      /\ irql' = [irql EXCEPT ![c] = VectorToIrql(v)]
      /\ inService' = [inService EXCEPT ![c] = @ \cup {v}]
      /\ UNCHANGED <<phase, pciVars, tables, regVars, pending, panic>>
  BY <1>1 DEF Deliver
<1>3. VectorToIrql(v) \in Irqls
  BY VectorFacts
<1>4. [mode |-> "isr", src |-> r, vec |-> v] \in ServiceRec
  BY DEF ServiceRec
<1>5. inService[c] = {}
  BY <1>2 DEF ServiceInv
<1>6. ServiceInv'
  BY <1>2, <1>3, <1>4, <1>5 DEF ServiceInv
<1>7. pending' \in SUBSET R /\ panic' # "exclusive"
  BY <1>2 DEF IntrInv, TableTypes
<1>. QED  BY <1>2, <1>6, <1>7, CpuSteps

(* ... or by a legacy PIC.                                                 *)
LEMMA DeliverSpuriousInv ==
    ASSUME IntrInv, NEW c \in Cpus, NEW v \in PicSpurious, DeliverSpurious(c, v)
    PROVE  IntrInv' /\ (RoutedInv => RoutedInv')
<1>. ServiceInv
  BY DEF IntrInv
<1>1. v \in Vectors
  BY IntrAssumption
<1>2. /\ cpu[c].mode = "run"
      /\ cpu' = [cpu EXCEPT ![c] = [mode |-> "isr", src |-> None, vec |-> v]]
      /\ irql' = [irql EXCEPT ![c] = VectorToIrql(v)]
      /\ UNCHANGED <<phase, pciVars, tables, regVars, pending, inService, panic>>
  BY DEF DeliverSpurious
<1>3. VectorToIrql(v) \in Irqls
  BY <1>1, VectorFacts
<1>4. [mode |-> "isr", src |-> None, vec |-> v] \in ServiceRec
  BY <1>1 DEF ServiceRec
<1>5. inService[c] = {}
  BY <1>2 DEF ServiceInv
<1>6. ServiceInv'
  BY <1>1, <1>2, <1>3, <1>4, <1>5 DEF ServiceInv
<1>7. pending' \in SUBSET R /\ panic' # "exclusive"
  BY <1>2 DEF IntrInv, TableTypes
<1>. QED  BY <1>2, <1>6, <1>7, CpuSteps

(* An interrupt that was not acknowledged was not in service.              *)
LEMMA RunHandlersInv ==
    ASSUME IntrInv, NEW c \in Cpus, RunHandlers(c)
    PROVE  IntrInv' /\ (RoutedInv => RoutedInv')
<1>. ServiceInv
  BY DEF IntrInv
<1>1. cpu[c].mode = "isr" /\ UNCHANGED <<phase, pciVars, tables, regVars>>
  BY DEF RunHandlers
<1>2. pending' \subseteq pending /\ panic' \in {panic, "apic", "unhandled"}
  BY DEF RunHandlers
<1>3. \/ \E s \in BOOLEAN : ReturnFromInterrupt(c, s) /\ (s => IsSpurious(c))
      \/ UNCHANGED <<cpu, irql, inService>>
  BY DEF RunHandlers
<1>4. ASSUME NEW s \in BOOLEAN, ReturnFromInterrupt(c, s), s => IsSpurious(c) PROVE ServiceInv'
  <2>1. inService[c] \subseteq {cpu[c].vec}
    BY <1>1 DEF ServiceInv
  <2>2. s => inService[c] = {}
    BY <1>4, <2>1 DEF IsSpurious
  <2>3. inService'[c] = {} /\ \A d \in Cpus \ {c} : inService'[d] = inService[d]
    BY <1>4, <2>1, <2>2 DEF ReturnFromInterrupt, ServiceInv
  <2>4. inService' \in [Cpus -> SUBSET Vectors]
    BY <1>4 DEF ReturnFromInterrupt, ServiceInv
  <2>5. cpu' = [cpu EXCEPT ![c] = NoService] /\ irql' = [irql EXCEPT ![c] = 0]
    BY <1>4 DEF ReturnFromInterrupt
  <2>. QED  BY <2>3, <2>4, <2>5, NoServiceType DEF ServiceInv
<1>5. UNCHANGED <<cpu, irql, inService>> => ServiceInv'
  BY DEF ServiceInv
<1>6. ServiceInv' /\ pending' \in SUBSET R /\ panic' # "exclusive"
  BY <1>2, <1>3, <1>4, <1>5 DEF IntrInv, TableTypes
<1>. QED  BY <1>1, <1>6, CpuSteps
----------------------------------------------------------------------------
(* Only the CPU with the lock is inside IomuRegisterInterrupt.             *)
LEMMA Alone ==
    ASSUME IntrInv, NEW c \in Cpus, reg[c].step # "none"
    PROVE  /\ gLock = c /\ reg[c] \in RegRec /\ reg[c].r \in R /\ RegInv(c)
           /\ \A d \in Cpus \ {c} : reg[d] = NoReg
<1>1. gLock = c /\ \A d \in Cpus \ {c} : reg[d] = NoReg
  BY DEF IntrInv, LockInv
<1>2. reg[c] \in RegRec /\ RegInv(c) /\ reg[c].r \in R
  BY DEF IntrInv, RegTypes, RegInv
<1>. QED  BY <1>1, <1>2

(* What a stage of a registration has to show.                             *)
LEMMA RegSteps ==
    ASSUME IntrInv, NEW c \in Cpus, reg[c].step # "none",
           UNCHANGED <<phase, pciVars, tables, cpuVars, gLock, result, given>>,
           NEW g \in RegRec, reg' = [reg EXCEPT ![c] = g], g.step # "none", g.r = reg[c].r,
           taken' \in SUBSET Vectors,
           handlers' \in [Vectors -> Seq(R)],
           redir' \in [Lines -> [vec : Vectors \cup {None}, masked : BOOLEAN]],
           msi' \in [DOMAIN Hardware -> Vectors \cup {None}],
           phase # "up" => \A l \in Lines : redir'[l].masked,
           VectorInv', ListInv', RegInv(c)', ResultInv', panic' # "exclusive"
    PROVE  IntrInv' /\ reg'[c] = g
<1>. TableTypes /\ RegTypes /\ MaskInv /\ ServiceInv /\ LockInv
  BY DEF IntrInv
<1>1. reg'[c] = g /\ reg' \in [Cpus -> RegRec] /\ \A d \in Cpus \ {c} : reg'[d] = reg[d]
  BY DEF RegTypes
<1>2. UNCHANGED <<devices, parent, nOverrides, nPrt, maskInterrupts, pending, cpu, irql, inService>>
  BY DEF pciVars, tables, cpuVars
<1>3. TableTypes' /\ MaskInv' /\ ServiceInv'
  BY <1>2 DEF TableTypes, MaskInv, ServiceInv
<1>4. RegTypes'
  BY <1>1 DEF RegTypes
<1>5. gLock' = c /\ \A d \in Cpus \ {c} : reg'[d] = NoReg
  BY <1>1, Alone
<1>6. LockInv' /\ \A d \in Cpus \ {c} : RegInv(d)'
  BY <1>1, <1>5, NoRegType DEF LockInv, RegInv
<1>. QED  BY <1>1, <1>3, <1>4, <1>6 DEF IntrInv

(* A stage that works on its locals only, with every taken vector served   *)
(* or kept.                                                                *)
LEMMA LocalSteps ==
    ASSUME IntrInv, NEW c \in Cpus, reg[c].step # "none",
           UNCHANGED <<phase, pciVars, tables, cpuVars, gLock, result, given>>,
           UNCHANGED <<taken, isr, handlers, redir, msi>>,
           NEW g \in RegRec, reg' = [reg EXCEPT ![c] = g], g.step # "none", g.r = reg[c].r,
           \A v \in taken \ isr : g.step = "install" /\ g.vec = v,
           RegInv(c)', panic' # "exclusive"
    PROVE  IntrInv' /\ (RoutedInv => RoutedInv')
<1>. RegTypes /\ MaskInv /\ VectorInv /\ ListInv /\ ResultInv
  BY DEF IntrInv
<1>1. reg'[c] = g /\ \A d \in Cpus \ {c} : reg'[d] = reg[d]
  BY DEF RegTypes
<1>2. VectorInv'
  BY <1>1 DEF VectorInv
<1>3. ListInv'
  BY DEF ListInv
<1>4. ResultInv'
  <2>1. \A r \in R : (\E d \in Cpus : reg[d].r = r) => (\E d \in Cpus : reg'[d].r = r)
    BY <1>1
  <2>. QED  BY <2>1 DEF ResultInv, Unlisted
<1>5. /\ taken' \in SUBSET Vectors /\ handlers' \in [Vectors -> Seq(R)]
      /\ redir' \in [Lines -> [vec : Vectors \cup {None}, masked : BOOLEAN]]
      /\ msi' \in [DOMAIN Hardware -> Vectors \cup {None}]
      /\ phase # "up" => \A l \in Lines : redir'[l].masked
  BY DEF RegTypes, MaskInv
<1>6. IntrInv'
  BY <1>2, <1>3, <1>4, <1>5, RegSteps
<1>7. RoutedInv => RoutedInv'
  BY DEF RoutedInv, Second, Exhausted
<1>. QED  BY <1>6, <1>7

(* A registration that leaves with an error before its handler is listed.  *)
LEMMA LeaveInv ==
    ASSUME IntrInv, NEW c \in Cpus, reg[c].step \in {"lookup", "vector", "install"},
           UNCHANGED <<phase, pciVars, tables, cpuVars, gLock, result, given>>,
           UNCHANGED <<taken, isr, handlers, redir, msi>>,
           NEW why \in Statuses \ {"none", "ok", "msi"}, Leave(c, why),
           taken \subseteq isr, panic' # "exclusive"
    PROVE  IntrInv' /\ (RoutedInv => RoutedInv')
<1>1. reg[c] \in RegRec /\ RegInv(c) /\ reg[c].r \in R
  BY Alone
<1>2. PICK g : g = [reg[c] EXCEPT !.step = "done", !.status = why]
  OBVIOUS
<1>3. g \in RegRec /\ g.step = "done" /\ g.r = reg[c].r /\ g.status = why
  BY <1>1, <1>2 DEF RegRec
<1>4. reg' = [reg EXCEPT ![c] = g]
  BY <1>2 DEF Leave
<1>5. reg'[c] = g
  BY <1>4 DEF IntrInv, RegTypes
<1>6. Unlisted(reg[c].r) /\ result[reg[c].r] = "none"
  BY <1>1 DEF RegInv
<1>7. Unlisted(g.r)'
  BY <1>3, <1>6 DEF Unlisted
<1>8. RegInv(c)'
  BY <1>1, <1>3, <1>5, <1>6, <1>7 DEF RegInv
<1>. QED  BY <1>3, <1>4, <1>8, LocalSteps

(* The lock is taken.                                                      *)
LEMMA IomuRegisterInterruptInv ==
    ASSUME IntrInv, NEW c \in Cpus, NEW r \in R, IomuRegisterInterrupt(c, r)
    PROVE  IntrInv' /\ (RoutedInv => RoutedInv')
<1>. TableTypes /\ RegTypes /\ MaskInv /\ ServiceInv /\ LockInv /\ VectorInv /\ ListInv /\ ResultInv
  BY DEF IntrInv
<1>1. PICK g : g = [NoReg EXCEPT !.step = "lookup", !.r = r]
  OBVIOUS
<1>2. /\ g \in RegRec /\ g.step = "lookup" /\ g.r = r /\ g.status = "ok" /\ ~g.shared
  BY <1>1, NoRegType DEF NoReg, RegRec, Statuses
<1>3. /\ gLock = None /\ gLock' = c /\ reg' = [reg EXCEPT ![c] = g] /\ result[r] = "none"
      /\ \A d \in Cpus : reg[d].r # r
      /\ UNCHANGED <<phase, pciVars, tables, taken, isr, handlers, redir, msi, result, given, cpuVars, panic>>
  BY <1>1 DEF IomuRegisterInterrupt, MayRequest
<1>4. \A d \in Cpus : reg[d] = NoReg
  BY <1>3, IntrAssumption DEF LockInv
<1>5. reg'[c] = g /\ reg' \in [Cpus -> RegRec] /\ \A d \in Cpus \ {c} : reg'[d] = NoReg
  BY <1>2, <1>3, <1>4 DEF RegTypes
<1>6. TableTypes' /\ MaskInv' /\ ServiceInv'
  BY <1>3 DEF TableTypes, MaskInv, ServiceInv, pciVars, tables, cpuVars
<1>7. RegTypes'
  BY <1>3, <1>5 DEF RegTypes
<1>8. taken \ isr = {}
  BY <1>4, NoRegType DEF VectorInv
<1>9. VectorInv' /\ ListInv'
  BY <1>3, <1>8 DEF VectorInv, ListInv
<1>10. LockInv'
  BY <1>2, <1>3, <1>5, NoRegType DEF LockInv
<1>11. Unlisted(r)
  BY <1>3 DEF ResultInv
<1>12. ASSUME NEW d \in Cpus PROVE RegInv(d)'
  <2>1. CASE d = c
    <3>1. Unlisted(g.r)'
      BY <1>2, <1>3, <1>11 DEF Unlisted
    <3>. QED  BY <1>2, <1>3, <1>5, <2>1, <3>1 DEF RegInv
  <2>2. CASE d # c
    BY <1>5, <2>2, NoRegType DEF RegInv
  <2>. QED  BY <2>1, <2>2
<1>13. ResultInv'
  BY <1>3, <1>4, NoRegType, RequestFacts DEF ResultInv, Unlisted
<1>14. RoutedInv => RoutedInv'
  BY <1>3 DEF RoutedInv, Second, Exhausted
<1>. QED
  BY <1>3, <1>6, <1>7, <1>9, <1>10, <1>12, <1>13, <1>14 DEF IntrInv

(* The line of the request and its vector, if it has one.                  *)
LEMMA LookupInv ==
    ASSUME IntrInv, NEW c \in Cpus, Lookup(c)
    PROVE  IntrInv' /\ (RoutedInv => RoutedInv')
<1>1. /\ reg[c].step = "lookup" /\ panic' # "exclusive"
      /\ UNCHANGED <<phase, pciVars, tables, taken, isr, handlers, redir, msi, gLock, result, given, cpuVars>>
  BY DEF Lookup, IntrInv
<1>2. /\ reg[c] \in RegRec /\ RegInv(c) /\ reg[c].r \in R
      /\ \A d \in Cpus \ {c} : reg[d] = NoReg
  BY <1>1, Alone
<1>3. taken \subseteq isr
  BY <1>1, <1>2, NoRegType DEF IntrInv, VectorInv
<1>4. result[reg[c].r] = "none" /\ reg[c].status = "ok" /\ ~reg[c].shared /\ Unlisted(reg[c].r)
  BY <1>1, <1>2 DEF RegInv
<1>5. ASSUME NEW g \in RegRec, reg' = [reg EXCEPT ![c] = g], g.step = "vector", g.r = reg[c].r, g.status = "ok",
             LineKnown(c)'
      PROVE  IntrInv' /\ (RoutedInv => RoutedInv')
  <2>1. reg'[c] = g
    BY <1>5 DEF IntrInv, RegTypes
  <2>2. Unlisted(g.r)'
    BY <1>1, <1>4, <1>5 DEF Unlisted
  <2>3. RegInv(c)'
    BY <1>1, <1>2, <1>4, <1>5, <2>1, <2>2 DEF RegInv
  <2>. QED  BY <1>1, <1>3, <1>5, <2>3, LocalSteps
<1>6. CASE ~IsIoApic(reg[c].r)
  <2>1. PICK g : g = [reg[c] EXCEPT !.step = "vector"]
    OBVIOUS
  <2>2. reg' = [reg EXCEPT ![c] = g]
    BY <1>6, <2>1 DEF Lookup
  <2>3. /\ g \in RegRec /\ g.step = "vector" /\ g.r = reg[c].r /\ g.status = "ok" /\ ~g.shared
    BY <1>2, <1>4, <2>1 DEF RegRec
  <2>4. reg'[c] = g
    BY <2>2 DEF IntrInv, RegTypes
  <2>5. LineKnown(c)'
    BY <1>6, <2>3, <2>4 DEF LineKnown
  <2>. QED  BY <1>5, <2>2, <2>3, <2>5
<1>7. CASE reg' = reg
  <2>1. UNCHANGED <<taken, isr, handlers, redir, msi, gLock, reg, result, given>> /\ RegTypes
    BY <1>1, <1>7 DEF IntrInv
  <2>2. TableTypes' /\ MaskInv' /\ ServiceInv'
    BY <1>1 DEF IntrInv, TableTypes, MaskInv, ServiceInv, pciVars, tables, cpuVars
  <2>. QED  BY <1>1, <2>1, <2>2, OtherSteps DEF RegTypes
<1>8. ASSUME NEW line, LookupLine(c, line), IsIoApic(reg[c].r)
      PROVE  IntrInv' /\ (RoutedInv => RoutedInv')
  <2>1. CASE line \notin Lines
    <3>1. Leave(c, "nodevice")
      BY <1>8, <2>1 DEF LookupLine
    <3>. QED  BY <1>1, <1>3, <3>1, LeaveInv DEF Statuses
  <2>2. CASE line \in Lines /\ redir[line].vec = None
    <3>1. reg' = [reg EXCEPT ![c].step = "vector", ![c].line = line]
      BY <1>8, <2>2 DEF LookupLine
    <3>2. PICK g : g = [reg[c] EXCEPT !.step = "vector", !.line = line]
      OBVIOUS
    <3>3. reg' = [reg EXCEPT ![c] = g]
      BY <3>1, <3>2
    <3>4. /\ g \in RegRec /\ g.step = "vector" /\ g.r = reg[c].r /\ g.status = "ok" /\ ~g.shared /\ g.line = line
      BY <1>2, <1>4, <2>2, <3>2 DEF RegRec
    <3>5. reg'[c] = g
      BY <3>3 DEF IntrInv, RegTypes
    <3>6. LineKnown(c)'
      BY <1>1, <1>8, <2>2, <3>4, <3>5 DEF LineKnown
    <3>. QED  BY <1>5, <3>3, <3>4, <3>6
  <2>3. CASE line \in Lines /\ redir[line].vec # None /\ VectorToIrql(redir[line].vec) # Requests[reg[c].r].irql
    <3>1. Leave(c, "priority")
      BY <1>8, <2>3 DEF LookupLine
    <3>. QED  BY <1>1, <1>3, <3>1, LeaveInv DEF Statuses
  <2>4. CASE line \in Lines /\ redir[line].vec # None /\ VectorToIrql(redir[line].vec) = Requests[reg[c].r].irql
    <3>1. reg' = [reg EXCEPT ![c].step = "vector", ![c].line = line, ![c].shared = TRUE]
      BY <1>8, <2>4 DEF LookupLine
    <3>2. PICK g : g = [reg[c] EXCEPT !.step = "vector", !.line = line, !.shared = TRUE]
      OBVIOUS
    <3>3. reg' = [reg EXCEPT ![c] = g]
      BY <3>1, <3>2
    <3>4. /\ g \in RegRec /\ g.step = "vector" /\ g.r = reg[c].r /\ g.status = "ok" /\ g.shared /\ g.line = line
      BY <1>2, <1>4, <2>4, <3>2 DEF RegRec
    <3>5. reg'[c] = g
      BY <3>3 DEF IntrInv, RegTypes
    <3>6. LineKnown(c)'
      BY <1>1, <1>8, <2>4, <3>4, <3>5 DEF LineKnown
    <3>. QED  BY <1>5, <3>3, <3>4, <3>6
  <2>. QED  BY <2>1, <2>2, <2>3, <2>4
<1>. QED  BY <1>6, <1>7, <1>8 DEF Lookup
----------------------------------------------------------------------------
(* A nonempty set of natural numbers has a least element.                  *)
LEMMA LeastNumber ==
    ASSUME NEW S, S \subseteq Nat, S # {}
    PROVE  \E x \in S : \A y \in S : x <= y
<1>. DEFINE Rel == OpToRel(<, Nat)
<1>1. IsWellFoundedOn(Rel, Nat)
  BY NatLessThanWellFounded
<1>2. \A x, y \in Nat : x < y => <<x, y>> \in Rel
  BY DEF OpToRel
<1>. HIDE DEF Rel
<1>3. PICK x \in S : \A y \in S : ~(<<y, x>> \in Rel)
  BY <1>1, WFMin, Zenon
<1>4. \A y \in S : ~(y < x)
  BY <1>2, <1>3, Zenon
<1>. QED  BY <1>4

Lowest(free) == CHOOSE v \in free : \A w \in free : v[1] < w[1] \/ (v[1] = w[1] /\ v[2] <= w[2])

(* BitmapScanFromToAndFlip finds a free vector of the IRQL if one is left. *)
LEMMA LowestFree ==
    ASSUME NEW q \in Irqls, FreeVectors(q) # {}
    PROVE  Lowest(FreeVectors(q)) \in FreeVectors(q)
<1>1. \A v \in FreeVectors(q) : v \in Vectors /\ v[1] = q /\ v[2] \in Nat
  BY VectorFacts DEF FreeVectors, VectorToIrql
<1>2. PICK n \in {v[2] : v \in FreeVectors(q)} : \A m \in {v[2] : v \in FreeVectors(q)} : n <= m
  <2>1. {v[2] : v \in FreeVectors(q)} \subseteq Nat
    BY <1>1
  <2>2. {v[2] : v \in FreeVectors(q)} # {}
    OBVIOUS
  <2>. QED  BY <2>1, <2>2, LeastNumber
<1>3. PICK u \in FreeVectors(q) : u[2] = n
  BY <1>2
<1>4. \A w \in FreeVectors(q) : u[1] < w[1] \/ (u[1] = w[1] /\ u[2] <= w[2])
  BY <1>1, <1>2, <1>3
<1>. QED  BY <1>3, <1>4 DEF Lowest

(* The vector of the line, a free one, or the first of a full IRQL.        *)
LEMMA ChooseVectorInv ==
    ASSUME IntrInv, NEW c \in Cpus, ChooseVector(c)
    PROVE  IntrInv' /\ (RoutedInv => RoutedInv')
<1>. RegTypes /\ MaskInv /\ VectorInv /\ ListInv /\ ResultInv
  BY DEF IntrInv
<1>1. /\ reg[c].step = "vector"
      /\ UNCHANGED <<phase, pciVars, tables, isr, handlers, redir, msi, gLock, result, given, cpuVars, panic>>
      /\ panic' # "exclusive"
  BY DEF ChooseVector, IntrInv
<1>2. /\ reg[c] \in RegRec /\ RegInv(c) /\ reg[c].r \in R
      /\ \A d \in Cpus \ {c} : reg[d] = NoReg
  BY <1>1, Alone
<1>3. taken \subseteq isr
  BY <1>1, <1>2, NoRegType DEF VectorInv
<1>4. result[reg[c].r] = "none" /\ reg[c].status = "ok" /\ LineKnown(c) /\ Unlisted(reg[c].r)
  BY <1>1, <1>2 DEF RegInv
<1>5. Requests[reg[c].r].irql \in Irqls /\ Requests[reg[c].r].exclusive \in BOOLEAN
  BY <1>2, RequestFacts
<1>10. PICK r \in R : r = reg[c].r
  BY <1>2
<1>6. reg[c].shared => /\ reg[c].line \in Lines /\ redir[reg[c].line].vec \in isr
                       /\ VectorToIrql(redir[reg[c].line].vec) = Requests[reg[c].r].irql
  BY <1>4 DEF LineKnown, VectorInv
<1>7. ASSUME NEW v \in Vectors, reg' = [reg EXCEPT ![c].step = "install", ![c].vec = v],
             v \in taken', VectorToIrql(v) = Requests[reg[c].r].irql,
             IF reg[c].shared THEN v = redir[reg[c].line].vec
             ELSE handlers[v] = << >> \/ Exhausted(r, v)',
             Requests[reg[c].r].exclusive => handlers[v] = << >>
      PROVE  \E g \in RegRec : /\ reg' = [reg EXCEPT ![c] = g] /\ reg'[c] = g
                               /\ g.step = "install" /\ g.r = reg[c].r /\ g.vec = v /\ RegInv(c)'
  <2>1. PICK g : g = [reg[c] EXCEPT !.step = "install", !.vec = v]
    OBVIOUS
  <2>2. reg' = [reg EXCEPT ![c] = g]
    BY <1>7, <2>1
  <2>3. /\ g \in RegRec /\ g.step = "install" /\ g.r = reg[c].r /\ g.status = "ok" /\ g.shared = reg[c].shared
        /\ g.line = reg[c].line /\ g.vec = v
    BY <1>2, <1>4, <1>7, <2>1 DEF RegRec
  <2>4. reg'[c] = g
    BY <2>2 DEF RegTypes
  <2>5. LineKnown(c)'
    BY <1>1, <1>4, <2>3, <2>4 DEF LineKnown
  <2>6. VectorKnown(c)'
    BY <1>1, <1>7, <1>10, <2>3, <2>4 DEF VectorKnown
  <2>7. Unlisted(g.r)'
    BY <1>1, <1>4, <2>3 DEF Unlisted
  <2>8. RegInv(c)'
    BY <1>1, <1>2, <1>4, <2>3, <2>4, <2>5, <2>6, <2>7 DEF RegInv
  <2>. QED  BY <2>2, <2>3, <2>4, <2>8
<1>8. CASE reg[c].shared \/ FreeVectors(Requests[reg[c].r].irql) = {}
  <2>1. taken' = taken
    BY <1>8 DEF ChooseVector
  <2>2. CASE Requests[reg[c].r].exclusive
    <3>1. Leave(c, "unavailable")
      BY <1>8, <2>2 DEF ChooseVector
    <3>. QED  BY <1>1, <1>3, <2>1, <3>1, LeaveInv DEF Statuses
  <2>3. CASE ~Requests[reg[c].r].exclusive
    <3>1. PICK v : v = IF reg[c].shared THEN redir[reg[c].line].vec ELSE IrqlToVector(Requests[reg[c].r].irql)
      OBVIOUS
    <3>2. reg' = [reg EXCEPT ![c].step = "install", ![c].vec = v]
      BY <1>8, <2>3, <3>1 DEF ChooseVector
    <3>3. v \in taken /\ VectorToIrql(v) = Requests[reg[c].r].irql
      <4>1. CASE reg[c].shared
        BY <1>6, <3>1, <4>1 DEF VectorInv
      <4>2. CASE ~reg[c].shared
        <5>1. v \in Vectors /\ VectorToIrql(v) = Requests[reg[c].r].irql
          BY <1>5, <3>1, <4>2, VectorFacts
        <5>. QED  BY <1>8, <4>2, <5>1 DEF FreeVectors
      <4>. QED  BY <4>1, <4>2
    <3>4. v \in Vectors
      BY <3>3 DEF RegTypes
    <3>5. reg[c].shared \/ Exhausted(r, v)'
      BY <1>8, <1>10, <2>1, <3>1 DEF FreeVectors, Exhausted
    <3>6. PICK g \in RegRec : /\ reg' = [reg EXCEPT ![c] = g] /\ g.step = "install" /\ g.r = reg[c].r
                              /\ RegInv(c)'
      BY <1>7, <2>1, <2>3, <3>1, <3>2, <3>3, <3>4, <3>5
    <3>. QED  BY <1>1, <1>3, <2>1, <3>6, LocalSteps
  <2>. QED  BY <1>5, <2>2, <2>3
<1>9. CASE ~(reg[c].shared \/ FreeVectors(Requests[reg[c].r].irql) = {})
  <2>1. PICK v : v = Lowest(FreeVectors(Requests[reg[c].r].irql))
    OBVIOUS
  <2>2. reg' = [reg EXCEPT ![c].step = "install", ![c].vec = v] /\ taken' = taken \cup {v}
    BY <1>9, <2>1 DEF ChooseVector, Lowest
  <2>3. v \in FreeVectors(Requests[reg[c].r].irql)
    BY <1>5, <1>9, <2>1, LowestFree
  <2>4. v \in Vectors /\ v \notin taken /\ VectorToIrql(v) = Requests[reg[c].r].irql
    BY <2>3 DEF FreeVectors
  <2>5. handlers[v] = << >>
    BY <2>4 DEF VectorInv
  <2>6. PICK g \in RegRec : /\ reg' = [reg EXCEPT ![c] = g] /\ reg'[c] = g /\ g.step = "install"
                            /\ g.r = reg[c].r /\ g.vec = v /\ RegInv(c)'
    BY <1>7, <1>9, <2>2, <2>4, <2>5
  <2>7. taken' \in SUBSET Vectors
    BY <2>2, <2>4 DEF RegTypes
  <2>8. VectorInv'
    BY <1>1, <1>3, <2>2, <2>6 DEF VectorInv
  <2>9. ListInv'
    BY <1>1 DEF ListInv
  <2>10. ResultInv'
    <3>1. \A s \in R : (\E d \in Cpus : reg[d].r = s) => (\E d \in Cpus : reg'[d].r = s)
      BY <2>6 DEF RegTypes
    <3>. QED  BY <1>1, <3>1 DEF ResultInv, Unlisted
  <2>11. /\ handlers' \in [Vectors -> Seq(R)]
         /\ redir' \in [Lines -> [vec : Vectors \cup {None}, masked : BOOLEAN]]
         /\ msi' \in [DOMAIN Hardware -> Vectors \cup {None}]
         /\ phase # "up" => \A l \in Lines : redir'[l].masked
    BY <1>1 DEF RegTypes, MaskInv
  <2>12. IntrInv'
    BY <1>1, <2>6, <2>7, <2>8, <2>9, <2>10, <2>11, RegSteps
  <2>13. \A s, w : Second(s, w) => Second(s, w)'
    BY <1>1, <2>2 DEF Second, Exhausted
  <2>14. RoutedInv => RoutedInv'
    BY <1>1, <2>13 DEF RoutedInv
  <2>. QED  BY <2>12, <2>14
<1>. QED  BY <1>8, <1>9

(* The handler is put at the end of the vector's list; a handler that      *)
(* finds the list empty has its routine installed.                         *)
LEMMA InstallHandlerInv ==
    ASSUME IntrInv, NEW c \in Cpus, InstallHandler(c)
    PROVE  IntrInv' /\ (RoutedInv => RoutedInv')
<1>. RegTypes /\ MaskInv /\ VectorInv /\ ListInv /\ ResultInv
  BY DEF IntrInv
<1>1. /\ reg[c].step = "install"
      /\ UNCHANGED <<phase, pciVars, tables, taken, redir, msi, gLock, result, given, cpuVars>>
  BY DEF InstallHandler
<1>2. /\ reg[c] \in RegRec /\ RegInv(c) /\ reg[c].r \in R
      /\ \A d \in Cpus \ {c} : reg[d] = NoReg
  BY <1>1, Alone
<1>3. /\ result[reg[c].r] = "none" /\ reg[c].status = "ok" /\ LineKnown(c) /\ VectorKnown(c)
      /\ Unlisted(reg[c].r)
  BY <1>1, <1>2 DEF RegInv
<1>4. PICK v \in Vectors : v = reg[c].vec /\ v \in taken
  BY <1>3 DEF VectorKnown, RegTypes
<1>5. taken \ isr \subseteq {v}
  BY <1>1, <1>2, <1>4, NoRegType DEF VectorInv
<1>6. PICK r \in R : r = reg[c].r
  BY <1>2
<1>7. ~(Requests[r].exclusive /\ handlers[v] # << >>)
  BY <1>3, <1>4, <1>6 DEF VectorKnown
<1>8. CASE handlers[v] = << >> /\ v \in isr
  <2>1. Leave(c, "already") /\ UNCHANGED <<isr, handlers, panic>>
    BY <1>4, <1>6, <1>7, <1>8 DEF InstallHandler
  <2>2. taken \subseteq isr /\ panic' # "exclusive"
    BY <1>5, <1>8, <2>1 DEF IntrInv
  <2>. QED  BY <1>1, <2>1, <2>2, LeaveInv DEF Statuses
<1>9. CASE ~(handlers[v] = << >> /\ v \in isr)
  <2>1. /\ isr' = isr \cup {v} /\ panic' = panic
        /\ \/ /\ handlers' = [handlers EXCEPT ![v] = Append(@, r)]
              /\ reg' = [reg EXCEPT ![c].step = "program",
                                    ![c].setup = handlers[v] = << >> /\ IsIoApic(r) /\ ~reg[c].shared]
           \/ Leave(c, "heap") /\ UNCHANGED handlers
    BY <1>4, <1>6, <1>7, <1>9 DEF InstallHandler
  <2>2. panic' # "exclusive" /\ taken' = taken
    BY <1>1, <2>1 DEF IntrInv
  <2>3. /\ taken' \in SUBSET Vectors
        /\ redir' \in [Lines -> [vec : Vectors \cup {None}, masked : BOOLEAN]]
        /\ msi' \in [DOMAIN Hardware -> Vectors \cup {None}]
        /\ phase # "up" => \A l \in Lines : redir'[l].masked
    BY <1>1 DEF RegTypes, MaskInv
  <2>4. taken' \subseteq isr' /\ isr' \subseteq taken'
    BY <1>4, <1>5, <2>1, <2>2 DEF VectorInv
  <2>5. CASE Leave(c, "heap") /\ UNCHANGED handlers
    <3>1. PICK g : g = [reg[c] EXCEPT !.step = "done", !.status = "heap"]
      OBVIOUS
    <3>2. g \in RegRec /\ g.step = "done" /\ g.r = reg[c].r /\ g.status = "heap"
      BY <1>2, <3>1 DEF RegRec, Statuses
    <3>3. reg' = [reg EXCEPT ![c] = g] /\ reg'[c] = g
      BY <2>5, <3>1 DEF Leave, RegTypes
    <3>4. Unlisted(g.r)'
      BY <1>3, <2>5, <3>2 DEF Unlisted
    <3>5. RegInv(c)'
      BY <1>1, <1>2, <1>3, <3>2, <3>3, <3>4 DEF RegInv
    <3>6. VectorInv' /\ ListInv'
      BY <1>1, <2>1, <2>4, <2>5 DEF VectorInv, ListInv
    <3>7. ResultInv'
      <4>1. \A s \in R : (\E d \in Cpus : reg[d].r = s) => (\E d \in Cpus : reg'[d].r = s)
        BY <3>2, <3>3 DEF RegTypes
      <4>. QED  BY <1>1, <2>5, <4>1 DEF ResultInv, Unlisted
    <3>8. handlers' \in [Vectors -> Seq(R)]
      BY <2>5 DEF RegTypes
    <3>9. IntrInv'
      BY <1>1, <2>2, <2>3, <3>2, <3>3, <3>5, <3>6, <3>7, <3>8, RegSteps
    <3>10. RoutedInv => RoutedInv'
      BY <1>1, <2>5 DEF RoutedInv, Second, Exhausted
    <3>. QED  BY <3>9, <3>10
  <2>6. CASE /\ handlers' = [handlers EXCEPT ![v] = Append(@, r)]
             /\ reg' = [reg EXCEPT ![c].step = "program",
                                   ![c].setup = handlers[v] = << >> /\ IsIoApic(r) /\ ~reg[c].shared]
    <3>1. PICK g : g = [reg[c] EXCEPT !.step = "program",
                                      !.setup = handlers[v] = << >> /\ IsIoApic(r) /\ ~reg[c].shared]
      OBVIOUS
    <3>2. (handlers[v] = << >> /\ IsIoApic(r) /\ ~reg[c].shared) \in BOOLEAN
      OBVIOUS
    <3>3. g \in RegRec /\ g.step = "program" /\ g.r = r /\ g.status = "ok" /\ g.vec = v /\ g.line = reg[c].line
          /\ g.shared = reg[c].shared
      BY <1>2, <1>3, <1>4, <1>6, <3>1, <3>2 DEF RegRec
    <3>4. g.setup <=> handlers[v] = << >> /\ IsIoApic(r) /\ ~reg[c].shared
      BY <1>2, <3>1 DEF RegRec
    <3>5. reg' = [reg EXCEPT ![c] = g] /\ reg'[c] = g
      BY <2>6, <3>1 DEF RegTypes
    <3>6. handlers[v] \in Seq(R) /\ handlers'[v] = Append(handlers[v], r)
      BY <2>6 DEF RegTypes
    <3>7. \A w \in Vectors \ {v} : handlers'[w] = handlers[w]
      BY <2>6 DEF RegTypes
    <3>8. /\ handlers'[v] \in Seq(R) /\ Len(handlers'[v]) = Len(handlers[v]) + 1 /\ Len(handlers[v]) \in Nat
          /\ DOMAIN handlers[v] = 1 .. Len(handlers[v]) /\ DOMAIN handlers'[v] = 1 .. Len(handlers[v]) + 1
          /\ \A i \in 1 .. Len(handlers[v]) : handlers'[v][i] = handlers[v][i]
          /\ handlers'[v][Len(handlers[v]) + 1] = r
          /\ handlers'[v] # << >> /\ ToSet(handlers'[v]) = ToSet(handlers[v]) \cup {r}
      BY <3>6, AppendFacts
    <3>9. handlers' \in [Vectors -> Seq(R)]
      BY <2>6, <3>7, <3>8 DEF RegTypes
    <3>10. \A s, w : w \in Vectors /\ s # r => (s \in ToSet(handlers'[w]) <=> s \in ToSet(handlers[w]))
      BY <3>7, <3>8
    <3>11. ASSUME NEW s, NEW w \in Vectors, Second(s, w) PROVE Second(s, w)'
      <4>1. CASE w = v
        <5>1. 1 \in 1 .. Len(handlers[v])
          BY <1>4, <3>8, <3>11, <4>1 DEF Second
        <5>. QED  BY <1>1, <3>8, <3>11, <4>1, <5>1 DEF Second, Exhausted
      <4>2. CASE w # v
        BY <1>1, <3>7, <3>11, <4>2 DEF Second, Exhausted
      <4>. QED  BY <4>1, <4>2
    <3>12. VectorInv'
      BY <1>1, <2>1, <2>4, <3>7 DEF VectorInv
    <3>13. ListInv'
      <4>. SUFFICES ASSUME NEW w \in Vectors, NEW i \in DOMAIN handlers'[w]
                    PROVE  /\ Requests[handlers'[w][i]].irql = VectorToIrql(w)
                           /\ Requests[handlers'[w][i]].exclusive => i = 1
        BY DEF ListInv
      <4>1. CASE w # v
        BY <3>7, <4>1 DEF ListInv
      <4>2. CASE w = v /\ i \in DOMAIN handlers[v]
        <5>1. handlers'[v][i] = handlers[v][i]
          BY <3>8, <4>2
        <5>. QED  BY <4>2, <5>1 DEF ListInv
      <4>3. CASE w = v /\ i = Len(handlers[v]) + 1
        <5>1. handlers'[w][i] = r
          BY <3>8, <4>3
        <5>2. Requests[r].irql = VectorToIrql(v)
          BY <1>3, <1>4, <1>6 DEF VectorKnown
        <5>3. Requests[r].exclusive => handlers[v] = << >>
          BY <1>7
        <5>4. handlers[v] = << >> => i = 1
          BY <4>3
        <5>. QED  BY <4>3, <5>1, <5>2, <5>3, <5>4
      <4>. QED  BY <3>8, <4>1, <4>2, <4>3
    <3>14. ResultInv'
      <4>. SUFFICES ASSUME NEW s \in R
                    PROVE  /\ result[s] = "none" => Unlisted(s)' \/ \E d \in Cpus : reg'[d].r = s
                           /\ result[s] \notin {"none", "ok", "msi"} => Unlisted(s)'
                           /\ result[s] = "ok" => given[s] \in Vectors /\ s \in ToSet(handlers'[given[s]])
        BY <1>1 DEF ResultInv
      <4>1. CASE s = r
        BY <1>3, <1>6, <3>3, <3>5, <4>1
      <4>2. CASE s # r
        <5>1. Unlisted(s) => Unlisted(s)'
          BY <3>10, <4>2 DEF Unlisted
        <5>2. (\E d \in Cpus : reg[d].r = s) => (\E d \in Cpus : reg'[d].r = s)
          BY <1>6, <3>3, <3>5 DEF RegTypes
        <5>. QED  BY <3>10, <4>2, <5>1, <5>2 DEF ResultInv
      <4>. QED  BY <4>1, <4>2
    <3>15. LineKnown(c)'
      BY <1>1, <1>3, <1>6, <3>3, <3>5 DEF LineKnown
    <3>16. InList(c)'
      <4>1. v \in isr'
        BY <2>1
      <4>. QED  BY <3>3, <3>5, <3>8, <4>1 DEF InList
    <3>17. IsIoApic(r) => g.setup \/ (g.shared /\ redir'[g.line].vec = v) \/ Second(r, v)'
      <4>1. CASE handlers[v] = << >>
        <5>1. v \notin isr
          BY <1>9, <4>1
        <5>2. IsIoApic(r) => ~reg[c].shared
          BY <1>3, <1>4, <1>6, <5>1 DEF LineKnown, VectorKnown, VectorInv
        <5>. QED  BY <3>4, <4>1, <5>2
      <4>2. CASE handlers[v] # << >>
        <5>1. Len(handlers[v]) >= 1 /\ handlers[v][1] \in ToSet(handlers[v])
          BY <3>6, <4>2, EmptyList
        <5>2. handlers[v][1] # r
          BY <1>3, <1>6, <5>1 DEF Unlisted
        <5>3. 1 \in 1 .. Len(handlers[v])
          BY <3>8, <5>1
        <5>4. CASE reg[c].shared
          BY <1>1, <1>3, <1>4, <3>3, <5>4 DEF VectorKnown
        <5>5. CASE ~reg[c].shared
          <6>1. Exhausted(r, v)'
            BY <1>1, <1>3, <1>4, <1>6, <4>2, <5>5 DEF VectorKnown, Exhausted
          <6>. QED  BY <3>8, <5>1, <5>2, <5>3, <6>1 DEF Second
        <5>. QED  BY <5>4, <5>5
      <4>. QED  BY <4>1, <4>2
    <3>18. RegInv(c)'
      BY <1>1, <1>3, <1>6, <3>3, <3>4, <3>5, <3>15, <3>16, <3>17 DEF RegInv
    <3>19. IntrInv'
      BY <1>1, <1>6, <2>2, <2>3, <3>3, <3>5, <3>9, <3>12, <3>13, <3>14, <3>18, RegSteps
    <3>20. RoutedInv => RoutedInv'
      <4>1. \A s \in R : result[s] = "ok" => given[s] \in Vectors
        BY DEF ResultInv
      <4>. QED  BY <1>1, <3>11, <4>1 DEF RoutedInv
    <3>. QED  BY <3>19, <3>20
  <2>. QED  BY <2>1, <2>5, <2>6
<1>. QED  BY <1>8, <1>9
----------------------------------------------------------------------------
(* A registration ends after its source is programmed.                     *)
LEMMA FinishInv ==
    ASSUME IntrInv, NEW c \in Cpus, reg[c].step = "program",
           UNCHANGED <<phase, pciVars, tables, taken, isr, handlers, gLock, result, given, cpuVars, panic>>,
           redir' \in [Lines -> [vec : Vectors \cup {None}, masked : BOOLEAN]],
           msi' \in [DOMAIN Hardware -> Vectors \cup {None}],
           phase # "up" => \A l \in Lines : redir'[l].masked,
           \A l \in Lines : redir'[l].vec # None => redir'[l].vec \in isr,
           NEW why \in {"ok", "msi"}, reg' = [reg EXCEPT ![c].step = "done", ![c].status = why],
           why = "ok" => /\ MsiCapable(reg[c].r) => msi'[Requests[reg[c].r].dev] = reg[c].vec
                         /\ IsIoApic(reg[c].r) =>
                               \/ redir'[reg[c].line].vec = reg[c].vec
                               \/ Second(reg[c].r, reg[c].vec)
    PROVE  IntrInv'
<1>. RegTypes /\ VectorInv /\ ListInv /\ ResultInv
  BY DEF IntrInv
<1>1. /\ reg[c] \in RegRec /\ RegInv(c) /\ reg[c].r \in R
      /\ \A d \in Cpus \ {c} : reg[d] = NoReg
  BY Alone
<1>2. result[reg[c].r] = "none" /\ LineKnown(c) /\ InList(c)
  BY <1>1 DEF RegInv
<1>3. PICK g : g = [reg[c] EXCEPT !.step = "done", !.status = why]
  OBVIOUS
<1>4. /\ g \in RegRec /\ g.step = "done" /\ g.r = reg[c].r /\ g.vec = reg[c].vec /\ g.line = reg[c].line
      /\ g.status = why
  BY <1>1, <1>3 DEF RegRec, Statuses
<1>5. reg' = [reg EXCEPT ![c] = g] /\ reg'[c] = g
  BY <1>3 DEF RegTypes
<1>6. taken \subseteq isr
  BY <1>1, NoRegType DEF VectorInv
<1>7. VectorInv' /\ ListInv'
  BY <1>6 DEF VectorInv, ListInv
<1>8. ResultInv'
  <2>1. \A s \in R : (\E d \in Cpus : reg[d].r = s) => (\E d \in Cpus : reg'[d].r = s)
    BY <1>4, <1>5 DEF RegTypes
  <2>. QED  BY <2>1 DEF ResultInv, Unlisted
<1>9. InList(c)'
  BY <1>2, <1>4, <1>5 DEF InList
<1>10. why = "ok" => Programmed(c)'
  BY <1>2, <1>4, <1>5 DEF Programmed, LineKnown, Second, Exhausted
<1>11. RegInv(c)'
  BY <1>1, <1>2, <1>4, <1>5, <1>9, <1>10 DEF RegInv
<1>12. taken' \in SUBSET Vectors /\ handlers' \in [Vectors -> Seq(R)] /\ panic' # "exclusive"
  BY DEF RegTypes, IntrInv
<1>. QED  BY <1>4, <1>5, <1>7, <1>8, <1>11, <1>12, RegSteps

(* The device or the line gets the vector; a line that has one keeps it.   *)
LEMMA ProgramSourceInv ==
    ASSUME IntrInv, NEW c \in Cpus, ProgramSource(c)
    PROVE  IntrInv' /\ (OneDriverPerMsi /\ RoutedInv => RoutedInv')
<1>. RegTypes /\ MaskInv /\ VectorInv /\ ResultInv
  BY DEF IntrInv
<1>1. /\ reg[c].step = "program"
      /\ UNCHANGED <<phase, pciVars, tables, taken, isr, handlers, gLock, result, given, cpuVars, panic>>
  BY DEF ProgramSource
<1>2. reg[c] \in RegRec /\ RegInv(c) /\ reg[c].r \in R
  BY <1>1, Alone
<1>3. /\ result[reg[c].r] = "none" /\ reg[c].status = "ok" /\ LineKnown(c) /\ InList(c)
      /\ reg[c].setup => IsIoApic(reg[c].r) /\ ~reg[c].shared
      /\ IsIoApic(reg[c].r) =>
            \/ reg[c].setup
            \/ reg[c].shared /\ redir[reg[c].line].vec = reg[c].vec
            \/ Second(reg[c].r, reg[c].vec)
  BY <1>1, <1>2 DEF RegInv
<1>4. PICK v \in Vectors : v = reg[c].vec /\ v \in isr
  BY <1>3 DEF InList, VectorInv, RegTypes
<1>5. MsiCapable(reg[c].r) => Requests[reg[c].r].dev \in DOMAIN Hardware /\ ~IsIoApic(reg[c].r)
  BY <1>2, RequestFacts
<1>6. Finished(c) => reg' = [reg EXCEPT ![c].step = "done", ![c].status = "ok"]
  <2>1. [reg[c] EXCEPT !.step = "done"] = [reg[c] EXCEPT !.step = "done", !.status = "ok"]
    BY <1>2, <1>3 DEF RegRec
  <2>. QED  BY <2>1 DEF Finished
<1>7. CASE redir' = redir /\ msi' = msi
  <2>1. PICK why \in {"ok", "msi"} : /\ reg' = [reg EXCEPT ![c].step = "done", ![c].status = why]
                                     /\ why = "ok" => \/ ~MsiCapable(reg[c].r) /\ ~reg[c].setup
                                                      \/ MsiCapable(reg[c].r) /\ msi[Requests[reg[c].r].dev] = v
    <3>1. CASE MsiCapable(reg[c].r)
      <4>1. ProgramMsi(c)
        BY <1>3, <1>5, <3>1 DEF ProgramSource
      <4>2. CASE msi' = [msi EXCEPT ![Requests[reg[c].r].dev] = reg[c].vec] /\ Finished(c)
        <5>1. msi[Requests[reg[c].r].dev] = v
          BY <1>4, <1>5, <1>7, <3>1, <4>2 DEF RegTypes
        <5>. QED  BY <1>6, <3>1, <4>2, <5>1
      <4>3. CASE Leave(c, "msi")
        BY <4>3 DEF Leave
      <4>. QED  BY <4>1, <4>2, <4>3 DEF ProgramMsi
    <3>2. CASE ~MsiCapable(reg[c].r) /\ reg[c].setup
      <4>1. redir[reg[c].line].vec = None /\ reg[c].line \in Lines
        BY <1>3, <3>2 DEF LineKnown
      <4>2. redir' = [redir EXCEPT ![reg[c].line] = [vec |-> reg[c].vec, masked |-> maskInterrupts]]
        BY <3>2, <4>1 DEF ProgramSource, IoApicSystemSetInterrupt
      <4>3. redir'[reg[c].line].vec = v
        BY <1>4, <4>1, <4>2 DEF RegTypes
      <4>. QED  BY <1>7, <4>1, <4>3, VectorFacts
    <3>3. CASE ~MsiCapable(reg[c].r) /\ ~reg[c].setup
      BY <1>6, <3>3 DEF ProgramSource
    <3>. QED  BY <3>1, <3>2, <3>3
  <2>2. /\ redir' \in [Lines -> [vec : Vectors \cup {None}, masked : BOOLEAN]]
        /\ msi' \in [DOMAIN Hardware -> Vectors \cup {None}]
        /\ phase # "up" => \A l \in Lines : redir'[l].masked
        /\ \A l \in Lines : redir'[l].vec # None => redir'[l].vec \in isr
    BY <1>7 DEF RegTypes, MaskInv, VectorInv
  <2>3. why = "ok" => /\ MsiCapable(reg[c].r) => msi'[Requests[reg[c].r].dev] = reg[c].vec
                      /\ IsIoApic(reg[c].r) =>
                            \/ redir'[reg[c].line].vec = reg[c].vec
                            \/ Second(reg[c].r, reg[c].vec)
    BY <1>3, <1>4, <1>5, <1>7, <2>1
  <2>4. IntrInv'
    BY <1>1, <2>1, <2>2, <2>3, FinishInv
  <2>5. RoutedInv => RoutedInv'
    BY <1>1, <1>7 DEF RoutedInv, Second, Exhausted
  <2>. QED  BY <2>4, <2>5
<1>8. CASE /\ MsiCapable(reg[c].r) /\ redir' = redir
           /\ msi' = [msi EXCEPT ![Requests[reg[c].r].dev] = v] /\ Finished(c)
  <2>1. msi' \in [DOMAIN Hardware -> Vectors \cup {None}] /\ msi'[Requests[reg[c].r].dev] = v
    BY <1>5, <1>8 DEF RegTypes
  <2>2. /\ redir' \in [Lines -> [vec : Vectors \cup {None}, masked : BOOLEAN]]
        /\ phase # "up" => \A l \in Lines : redir'[l].masked
        /\ \A l \in Lines : redir'[l].vec # None => redir'[l].vec \in isr
    BY <1>8 DEF RegTypes, MaskInv, VectorInv
  <2>3. IntrInv'
    BY <1>1, <1>4, <1>5, <1>6, <1>8, <2>1, <2>2, FinishInv
  <2>4. ASSUME OneDriverPerMsi, RoutedInv PROVE RoutedInv'
    <3>1. ASSUME NEW s \in R, result[s] = "ok", MsiCapable(s)
          PROVE  msi'[Requests[s].dev] = msi[Requests[s].dev]
      <4>1. Requests[s].dev # Requests[reg[c].r].dev
        BY <1>2, <1>3, <1>8, <2>4, <3>1 DEF OneDriverPerMsi
      <4>. QED  BY <1>5, <1>8, <3>1, <4>1, RequestFacts DEF RegTypes
    <3>. QED  BY <1>1, <1>8, <2>4, <3>1 DEF RoutedInv, Second, Exhausted
  <2>. QED  BY <2>3, <2>4
<1>9. CASE ~MsiCapable(reg[c].r) /\ reg[c].setup
  <2>1. redir[reg[c].line].vec = None /\ reg[c].line \in Lines
    BY <1>3, <1>9 DEF LineKnown
  <2>2. /\ redir' = [redir EXCEPT ![reg[c].line] = [vec |-> v, masked |-> maskInterrupts]]
        /\ Finished(c) /\ msi' = msi
    BY <1>4, <1>9, <2>1 DEF ProgramSource, IoApicSystemSetInterrupt
  <2>3. maskInterrupts \in BOOLEAN /\ (phase # "up" => maskInterrupts)
    BY DEF MaskInv
  <2>4. [vec |-> v, masked |-> maskInterrupts] \in [vec : Vectors \cup {None}, masked : BOOLEAN]
    BY <2>3
  <2>5. /\ redir' \in [Lines -> [vec : Vectors \cup {None}, masked : BOOLEAN]]
        /\ redir'[reg[c].line] = [vec |-> v, masked |-> maskInterrupts]
        /\ \A l \in Lines \ {reg[c].line} : redir'[l] = redir[l]
    BY <2>1, <2>2, <2>4 DEF RegTypes
  <2>6. redir'[reg[c].line].vec = v /\ redir'[reg[c].line].masked = maskInterrupts
    BY <2>5
  <2>7. /\ phase # "up" => \A l \in Lines : redir'[l].masked
        /\ \A l \in Lines : redir'[l].vec # None => redir'[l].vec \in isr
    BY <1>4, <2>3, <2>5, <2>6 DEF MaskInv, VectorInv
  <2>8. msi' \in [DOMAIN Hardware -> Vectors \cup {None}]
    BY <2>2 DEF RegTypes
  <2>9. IntrInv'
    BY <1>1, <1>4, <1>6, <1>9, <2>2, <2>5, <2>6, <2>7, <2>8, FinishInv
  <2>10. RoutedInv => RoutedInv'
    <3>1. \A s \in R : result[s] = "ok" => given[s] \in Vectors /\ given[s] # None
      BY VectorFacts DEF ResultInv
    <3>2. \A s \in R : result[s] = "ok" /\ HwLine(s) \in Lines /\ redir[HwLine(s)].vec = given[s]
                          => redir'[HwLine(s)].vec = given[s]
      BY <2>1, <2>5, <3>1
    <3>. QED  BY <1>1, <2>2, <3>2 DEF RoutedInv, Second, Exhausted
  <2>. QED  BY <2>9, <2>10
<1>10. \/ redir' = redir /\ msi' = msi
       \/ /\ MsiCapable(reg[c].r) /\ redir' = redir
          /\ msi' = [msi EXCEPT ![Requests[reg[c].r].dev] = v] /\ Finished(c)
       \/ ~MsiCapable(reg[c].r) /\ reg[c].setup
  <2>1. CASE MsiCapable(reg[c].r)
    BY <1>3, <1>4, <1>5, <2>1 DEF ProgramSource, ProgramMsi
  <2>2. CASE ~MsiCapable(reg[c].r) /\ ~reg[c].setup
    BY <2>2 DEF ProgramSource
  <2>. QED  BY <2>1, <2>2
<1>. QED  BY <1>7, <1>8, <1>9, <1>10

(* The lock is released; the line that was found is the right one.         *)
LEMMA RegisterDoneInv ==
    ASSUME IntrInv, NEW c \in Cpus, RegisterDone(c)
    PROVE  IntrInv' /\ (TablesRight /\ RoutedInv => RoutedInv')
<1>. TableTypes /\ RegTypes /\ MaskInv /\ ServiceInv /\ VectorInv /\ ListInv /\ ResultInv
  BY DEF IntrInv
<1>1. reg[c].step = "done"
  BY DEF RegisterDone
<1>2. /\ reg[c] \in RegRec /\ RegInv(c) /\ reg[c].r \in R
      /\ \A d \in Cpus \ {c} : reg[d] = NoReg
  BY <1>1, Alone
<1>3. PICK r \in R, st \in Statuses \ {"none"} : r = reg[c].r /\ st = reg[c].status
  BY <1>2 DEF RegRec
<1>4. PICK v : v = IF st = "ok" THEN reg[c].vec ELSE None
  OBVIOUS
<1>5. /\ result' = [result EXCEPT ![r] = st] /\ given' = [given EXCEPT ![r] = v]
      /\ reg' = [reg EXCEPT ![c] = NoReg] /\ gLock' = None
      /\ UNCHANGED <<phase, pciVars, tables, taken, isr, handlers, redir, msi, cpuVars, panic>>
  BY <1>3, <1>4 DEF RegisterDone
<1>6. /\ result[r] = "none"
      /\ st = "ok" => InList(c) /\ Programmed(c)
      /\ st \notin {"ok", "msi"} => Unlisted(r)
  BY <1>1, <1>2, <1>3 DEF RegInv
<1>7. v \in Vectors \cup {None} /\ (st = "ok" => v \in Vectors /\ r \in ToSet(handlers[v]))
  BY <1>3, <1>4, <1>6 DEF InList, VectorInv, RegTypes
<1>8. reg' \in [Cpus -> RegRec] /\ \A d \in Cpus : reg'[d] = NoReg
  BY <1>2, <1>5, NoRegType DEF RegTypes
<1>9. /\ result' \in [R -> Statuses] /\ given' \in [R -> Vectors \cup {None}]
      /\ result'[r] = st /\ given'[r] = v
      /\ \A s \in R \ {r} : result'[s] = result[s] /\ given'[s] = given[s]
  BY <1>5, <1>7 DEF RegTypes
<1>10. TableTypes' /\ MaskInv' /\ ServiceInv'
  BY <1>5 DEF TableTypes, MaskInv, ServiceInv, pciVars, tables, cpuVars
<1>11. RegTypes'
  BY <1>5, <1>8, <1>9 DEF RegTypes
<1>12. taken \subseteq isr
  BY <1>1, <1>2, NoRegType DEF VectorInv
<1>13. VectorInv' /\ ListInv'
  BY <1>5, <1>12 DEF VectorInv, ListInv
<1>14. LockInv' /\ \A d \in Cpus : RegInv(d)'
  BY <1>8, NoRegType DEF LockInv, RegInv
<1>15. ResultInv'
  <2>. SUFFICES ASSUME NEW s \in R
                PROVE  /\ result'[s] = "none" => Unlisted(s)'
                       /\ result'[s] \notin {"none", "ok", "msi"} => Unlisted(s)'
                       /\ result'[s] = "ok" => given'[s] \in Vectors /\ s \in ToSet(handlers'[given'[s]])
    BY DEF ResultInv
  <2>1. Unlisted(s)' <=> Unlisted(s)
    BY <1>5 DEF Unlisted
  <2>2. CASE s = r
    BY <1>3, <1>5, <1>6, <1>7, <1>9, <2>1, <2>2
  <2>3. CASE s # r
    <3>1. ~\E d \in Cpus : reg[d].r = s
      BY <1>2, <1>3, <2>3, NoRegType, RequestFacts
    <3>. QED  BY <1>5, <1>9, <2>1, <2>3, <3>1 DEF ResultInv
  <2>. QED  BY <2>2, <2>3
<1>16. IntrInv'
  BY <1>5, <1>10, <1>11, <1>13, <1>14, <1>15 DEF IntrInv
<1>17. ASSUME TablesRight, RoutedInv PROVE RoutedInv'
  <2>. SUFFICES ASSUME NEW s \in R, result'[s] = "ok"
                PROVE  /\ MsiCapable(s) => msi'[Requests[s].dev] = given'[s]
                       /\ IsIoApic(s) => /\ HwLine(s) \in Lines
                                         /\ redir'[HwLine(s)].vec = given'[s] \/ Second(s, given[s])'
    BY DEF RoutedInv, Second, Exhausted
  <2>1. CASE s # r
    BY <1>5, <1>9, <1>17, <2>1 DEF RoutedInv, Second, Exhausted
  <2>2. CASE s = r
    <3>1. st = "ok" /\ given'[s] = reg[c].vec
      BY <1>4, <1>9, <2>2
    <3>2. Programmed(c)
      BY <1>6, <3>1
    <3>3. IsIoApic(r) => reg[c].line = HwLine(r)
      BY <1>3, <1>17, <3>2, IntrAssumption DEF TablesRight, Programmed
    <3>. QED  BY <1>3, <1>5, <2>2, <3>1, <3>2, <3>3 DEF Programmed, Second, Exhausted
  <2>. QED  BY <2>1, <2>2
<1>. QED  BY <1>16, <1>17

----------------------------------------------------------------------------
LEMMA IntrNext ==
    IntrInv /\ [Next]_vars => IntrInv' /\ (OneDriverPerMsi /\ TablesRight /\ RoutedInv => RoutedInv')
<1>. SUFFICES ASSUME IntrInv, [Next]_vars
             PROVE  IntrInv' /\ (OneDriverPerMsi /\ TablesRight /\ RoutedInv => RoutedInv')
  OBVIOUS
<1>1. CASE BootStep
  BY <1>1, BootInv
<1>2. ASSUME NEW c \in Cpus, CpuStep(c)
      PROVE  IntrInv' /\ (OneDriverPerMsi /\ TablesRight /\ RoutedInv => RoutedInv')
  BY <1>2, LookupInv, ChooseVectorInv, InstallHandlerInv, ProgramSourceInv, RegisterDoneInv, RunHandlersInv
     DEF CpuStep, RegisterStep
<1>3. ASSUME NEW c \in Cpus, NEW r \in R, IomuRegisterInterrupt(c, r) \/ Deliver(c, r)
      PROVE  IntrInv' /\ (RoutedInv => RoutedInv')
  BY <1>3, IomuRegisterInterruptInv, DeliverInv
<1>4. ASSUME NEW r \in R, Raise(r) PROVE IntrInv' /\ (RoutedInv => RoutedInv')
  BY <1>4, RaiseInv
<1>5. ASSUME NEW c \in Cpus, NEW v \in PicSpurious, DeliverSpurious(c, v)
      PROVE  IntrInv' /\ (RoutedInv => RoutedInv')
  BY <1>5, DeliverSpuriousInv
<1>6. CASE UNCHANGED vars
  <2>1. /\ UNCHANGED <<phase, pciVars, tables, regVars, pending, cpu, irql, inService, panic>>
    BY <1>6 DEF vars, cpuVars
  <2>2. ServiceInv' /\ pending' \in SUBSET R /\ panic' # "exclusive"
    BY <2>1 DEF IntrInv, ServiceInv, TableTypes
  <2>. QED  BY <2>1, <2>2, CpuSteps
<1>. QED  BY <1>1, <1>2, <1>3, <1>4, <1>5, <1>6 DEF Next, R

(* The inductive invariant holds of every reachable state.                 *)
THEOREM IntrInvariance == Spec => []IntrInv
  BY IntrInit, IntrNext, PTL DEF Spec

(* No line is unmasked before IoApicSystemEnableRegisteredInterrupts, and  *)
(* every interrupt of a local APIC is acknowledged once: _IsrInterrupt-    *)
(* Handler leaves a CPU with nothing in service, at IRQL 0, for spurious   *)
(* interrupts of the PICs too.                                             *)
THEOREM InterruptsMatched == Spec => [](QuietAtBoot /\ ServiceMatched)
<1>1. IntrInv => QuietAtBoot /\ ServiceMatched
  BY DEF IntrInv, MaskInv, ServiceInv, QuietAtBoot, ServiceMatched
<1>. QED  BY <1>1, IntrInvariance, PTL

LEMMA TypesFollow == IntrInv => IntrTypeOK
<1>. SUFFICES ASSUME IntrInv PROVE IntrTypeOK
  OBVIOUS
<1>1. TableTypes /\ RegTypes /\ MaskInv /\ ServiceInv /\ VectorInv
  BY DEF IntrInv
<1>2. \A v \in Vectors : ToSet(handlers[v]) \subseteq DOMAIN Requests
  BY <1>1, EmptyList DEF RegTypes, R
<1>3. \A l \in Lines : redir[l].vec \in Vectors \cup {None} /\ redir[l].masked \in BOOLEAN
  BY <1>1 DEF RegTypes
<1>4. /\ phase \in {"lapic", "mcfg", "ioapic", "overrides", "pci", "legacy", "acpi", "late", "enable", "up",
           "failed"}
      /\ DOMAIN parent \subseteq DOMAIN devices
      /\ nOverrides \in Nat /\ nPrt \in 0 .. Len(Prt) /\ pending \subseteq DOMAIN Requests
  BY <1>1 DEF TableTypes, Phases, R
<1>5. maskInterrupts \in BOOLEAN
  BY <1>1 DEF MaskInv
<1>6. /\ isr \subseteq taken /\ taken \subseteq Vectors /\ gLock \in Cpus \cup {None}
      /\ \A r \in DOMAIN Requests : result[r] \in Statuses /\ given[r] \in Vectors \cup {None}
  BY <1>1 DEF VectorInv, RegTypes, R
<1>7. \A c \in Cpus : irql[c] \in Irqls \cup {0} /\ inService[c] \subseteq Vectors
  BY <1>1 DEF ServiceInv
<1>. QED  BY <1>2, <1>3, <1>4, <1>5, <1>6, <1>7 DEF IntrTypeOK

LEMMA ListsFollow == IntrInv => FailedNotCalled /\ PrioritiesAgree /\ ExclusiveFirst
<1>. SUFFICES ASSUME IntrInv PROVE FailedNotCalled /\ PrioritiesAgree /\ ExclusiveFirst
  OBVIOUS
<1>1. FailedNotCalled
  BY DEF IntrInv, ResultInv, Unlisted, FailedNotCalled, R
<1>2. PrioritiesAgree
  BY DEF IntrInv, ListInv, PrioritiesAgree, ToSet
<1>3. ExclusiveFirst
  BY DEF IntrInv, ListInv, ExclusiveFirst
<1>. QED  BY <1>1, <1>2, <1>3

(* Whatever the tables say and whatever runs beside it, a registration is  *)
(* of the right type and priority, an exclusive handler comes first, the   *)
(* ASSERT of IomuRegisterInterrupt on its list holds, and the routine of   *)
(* a driver that was told of a failure is not called.                      *)
THEOREM HandlersCorrect == Spec => [](IntrTypeOK /\ FailedNotCalled /\ PrioritiesAgree /\ ExclusiveFirst)
  BY TypesFollow, ListsFollow, IntrInvariance, PTL

(* The registration on c has listed r and is about to route its line.      *)
Routing(c, r, v) == reg[c].step = "program" /\ reg[c].setup /\ reg[c].r = r /\ reg[c].vec = v

(* The first handler of a list has its line routed to the vector, or is    *)
(* alone in the list and about to route it.                                *)
FirstInv ==
    \A v \in Vectors, h \in R : handlers[v] # << >> /\ handlers[v][1] = h /\ IsIoApic(h) =>
        \/ HwLine(h) \in Lines /\ redir[HwLine(h)].vec = v
        \/ Len(handlers[v]) = 1 /\ \E c \in Cpus : Routing(c, h, v)

LEMMA FirstInit == Init => FirstInv
  BY DEF Init, FirstInv

(* Steps that list and route nothing.                                      *)
LEMMA FirstFrame ==
    ASSUME FirstInv, UNCHANGED handlers,
           \A l \in Lines : redir'[l].vec = redir[l].vec,
           \A c \in Cpus : reg[c].step = "program" /\ reg[c].setup => reg'[c] = reg[c]
    PROVE  FirstInv'
<1>1. \A c \in Cpus : \A r, v : Routing(c, r, v) => Routing(c, r, v)'
  BY DEF Routing
<1>. QED  BY <1>1 DEF FirstInv

(* A handler that finds the list empty is about to route its line.         *)
LEMMA FirstInstall ==
    ASSUME IntrInv, FirstInv, NEW c \in Cpus, InstallHandler(c)
    PROVE  FirstInv'
<1>. RegTypes /\ VectorInv
  BY DEF IntrInv
<1>1. reg[c].step = "install" /\ UNCHANGED redir
  BY DEF InstallHandler
<1>2. /\ reg[c] \in RegRec /\ RegInv(c) /\ reg[c].r \in R
      /\ \A d \in Cpus \ {c} : reg[d] = NoReg
  BY <1>1, Alone
<1>3. LineKnown(c) /\ VectorKnown(c)
  BY <1>1, <1>2 DEF RegInv
<1>4. PICK v \in Vectors, r \in R : v = reg[c].vec /\ r = reg[c].r
  BY <1>2, <1>3 DEF VectorKnown, RegTypes
<1>5. ~(Requests[r].exclusive /\ handlers[v] # << >>)
  BY <1>3, <1>4 DEF VectorKnown
<1>6. CASE UNCHANGED handlers
  BY <1>1, <1>2, <1>6, FirstFrame, NoRegType
<1>7. CASE handlers' # handlers
  <2>1. ~(handlers[v] = << >> /\ v \in isr)
    BY <1>4, <1>5, <1>7 DEF InstallHandler
  <2>2. /\ handlers' = [handlers EXCEPT ![v] = Append(@, r)]
        /\ reg' = [reg EXCEPT ![c].step = "program",
                              ![c].setup = handlers[v] = << >> /\ IsIoApic(r) /\ ~reg[c].shared]
    BY <1>4, <1>5, <1>7, <2>1 DEF InstallHandler
  <2>3. PICK g : g = [reg[c] EXCEPT !.step = "program",
                                    !.setup = handlers[v] = << >> /\ IsIoApic(r) /\ ~reg[c].shared]
    OBVIOUS
  <2>4. /\ reg' = [reg EXCEPT ![c] = g] /\ g.step = "program" /\ g.vec = v /\ g.r = r
        /\ g.setup <=> handlers[v] = << >> /\ IsIoApic(r) /\ ~reg[c].shared
    BY <1>2, <1>4, <2>2, <2>3 DEF RegRec
  <2>5. reg'[c] = g
    BY <2>4 DEF RegTypes
  <2>6. /\ handlers[v] \in Seq(R) /\ handlers'[v] = Append(handlers[v], r)
        /\ \A w \in Vectors \ {v} : handlers'[w] = handlers[w]
    BY <2>2 DEF RegTypes
  <2>7. /\ Len(handlers'[v]) = Len(handlers[v]) + 1 /\ Len(handlers[v]) \in Nat
        /\ \A i \in 1 .. Len(handlers[v]) : handlers'[v][i] = handlers[v][i]
        /\ handlers'[v][Len(handlers[v]) + 1] = r
    BY <2>6, AppendFacts
  <2>8. \A d \in Cpus : reg[d].step # "program"
    BY <1>1, <1>2, NoRegType
  <2>. SUFFICES ASSUME NEW w \in Vectors, NEW h \in R,
                       handlers'[w] # << >>, handlers'[w][1] = h, IsIoApic(h)
                PROVE  \/ HwLine(h) \in Lines /\ redir'[HwLine(h)].vec = w
                       \/ Len(handlers'[w]) = 1 /\ Routing(c, h, w)'
    BY DEF FirstInv
  <2>9. CASE w # v
    BY <1>1, <2>6, <2>8, <2>9 DEF FirstInv, Routing
  <2>10. CASE w = v /\ handlers[v] # << >>
    <3>1. Len(handlers[v]) >= 1
      BY <2>6, <2>10, EmptyList
    <3>2. handlers'[v][1] = handlers[v][1]
      BY <2>7, <3>1
    <3>. QED  BY <1>1, <2>8, <2>10, <3>2 DEF FirstInv, Routing
  <2>11. CASE w = v /\ handlers[v] = << >>
    <3>1. Len(handlers'[v]) = 1 /\ handlers'[v][1] = r
      BY <2>7, <2>11
    <3>2. v \notin isr
      BY <2>1, <2>11
    <3>3. ~reg[c].shared
      BY <1>3, <1>4, <2>11, <3>1, <3>2 DEF LineKnown, VectorKnown, VectorInv
    <3>. QED  BY <2>4, <2>5, <2>11, <3>1, <3>3 DEF Routing
  <2>. QED  BY <2>9, <2>10, <2>11
<1>. QED  BY <1>6, <1>7

(* The line of the first handler gets the vector.                          *)
LEMMA FirstProgram ==
    ASSUME IntrInv, FirstInv, TablesRight, NEW c \in Cpus, ProgramSource(c)
    PROVE  FirstInv'
<1>. RegTypes
  BY DEF IntrInv
<1>1. reg[c].step = "program" /\ UNCHANGED handlers
  BY DEF ProgramSource
<1>2. /\ reg[c] \in RegRec /\ RegInv(c) /\ reg[c].r \in R
      /\ \A d \in Cpus \ {c} : reg[d] = NoReg
  BY <1>1, Alone
<1>3. InList(c) /\ LineKnown(c) /\ (reg[c].setup => IsIoApic(reg[c].r) /\ ~reg[c].shared)
  BY <1>1, <1>2 DEF RegInv
<1>4. PICK v \in Vectors, r \in R : v = reg[c].vec /\ r = reg[c].r
  BY <1>2, <1>3 DEF InList, IntrInv, VectorInv, RegTypes
<1>5. CASE ~reg[c].setup
  <2>1. \A l \in Lines : redir'[l].vec = redir[l].vec
    BY <1>5 DEF ProgramSource
  <2>. QED  BY <1>1, <1>2, <1>5, <2>1, FirstFrame, NoRegType
<1>6. CASE reg[c].setup
  <2>1. IsIoApic(r) /\ ~MsiCapable(r) /\ reg[c].line \in Lines /\ redir[reg[c].line].vec = None
    BY <1>3, <1>4, <1>6, RequestFacts DEF LineKnown
  <2>2. PICK h \in Lines : h = HwLine(r) /\ h = reg[c].line
    BY <1>4, <2>1, IntrAssumption DEF TablesRight
  <2>3. redir' = [redir EXCEPT ![h] = [vec |-> v, masked |-> maskInterrupts]]
    BY <1>4, <1>6, <2>1, <2>2 DEF ProgramSource, IoApicSystemSetInterrupt
  <2>4. redir'[h].vec = v /\ \A l \in Lines \ {h} : redir'[l] = redir[l]
    BY <2>2, <2>3 DEF RegTypes
  <2>5. \A d \in Cpus : \A s, w : Routing(d, s, w) => s = r /\ w = v
    BY <1>2, <1>4, NoRegType DEF Routing
  <2>6. ASSUME NEW l \in Lines, NEW w \in Vectors, redir[l].vec = w PROVE redir'[l].vec = w
    BY <2>1, <2>2, <2>4, <2>6, VectorFacts
  <2>. SUFFICES ASSUME NEW w \in Vectors, NEW s \in R, handlers[w] # << >>, handlers[w][1] = s, IsIoApic(s)
                PROVE  HwLine(s) \in Lines /\ redir'[HwLine(s)].vec = w
    BY <1>1 DEF FirstInv
  <2>7. CASE HwLine(s) \in Lines /\ redir[HwLine(s)].vec = w
    BY <2>6, <2>7
  <2>8. CASE \E d \in Cpus : Routing(d, s, w)
    BY <2>2, <2>4, <2>5, <2>8
  <2>. QED  BY <2>7, <2>8 DEF FirstInv
<1>. QED  BY <1>5, <1>6

LEMMA FirstNext ==
    ASSUME IntrInv, FirstInv, TablesRight, [Next]_vars
    PROVE  FirstInv'
<1>1. CASE BootStep
  <2>1. UNCHANGED <<handlers, reg>>
    BY <1>1 DEF BootStep, LapicSystemInit, PciSystemInit, IoApicSystemRetrieveIoApics,
                IoApicSystemRetrieveInterruptOverrides, RetrievePciDevices, LegacyInit, AcpiInterfaceLateInit,
                IoApicSystemRetrievePrtEntries, IoApicSystemEnableRegisteredInterrupts, BootTo, regVars
  <2>2. redir' = redir \/ redir' = [l \in Lines |-> [redir[l] EXCEPT !.masked = redir[l].vec = None]]
    BY <1>1 DEF BootStep, LapicSystemInit, PciSystemInit, IoApicSystemRetrieveIoApics,
                IoApicSystemRetrieveInterruptOverrides, RetrievePciDevices, LegacyInit, AcpiInterfaceLateInit,
                IoApicSystemRetrievePrtEntries, IoApicSystemEnableRegisteredInterrupts, BootTo, regVars
  <2>3. \A l \in Lines : redir'[l].vec = redir[l].vec
    BY <2>2 DEF IntrInv, RegTypes
  <2>. QED  BY <2>1, <2>3, FirstFrame
<1>2. ASSUME NEW c \in Cpus, Lookup(c) \/ ChooseVector(c) \/ RegisterDone(c) PROVE FirstInv'
  <2>1. reg[c].step # "program" /\ UNCHANGED <<handlers, redir>>
    BY <1>2 DEF Lookup, ChooseVector, RegisterDone
  <2>2. \A d \in Cpus \ {c} : reg'[d] = reg[d]
    <3>1. reg \in [Cpus -> RegRec]
      BY DEF IntrInv, RegTypes
    <3>2. CASE Lookup(c)
      BY <3>1, <3>2 DEF Lookup, LookupLine, Leave
    <3>3. CASE ChooseVector(c)
      BY <3>1, <3>3 DEF ChooseVector, Leave
    <3>4. CASE RegisterDone(c)
      BY <3>1, <3>4 DEF RegisterDone
    <3>. QED  BY <1>2, <3>2, <3>3, <3>4
  <2>. QED  BY <2>1, <2>2, FirstFrame
<1>3. ASSUME NEW c \in Cpus, NEW r \in R, IomuRegisterInterrupt(c, r) PROVE FirstInv'
  <2>1. reg[c].step = "none" /\ UNCHANGED <<handlers, redir>> /\ \A d \in Cpus \ {c} : reg'[d] = reg[d]
    BY <1>3 DEF IomuRegisterInterrupt, IntrInv, RegTypes
  <2>. QED  BY <2>1, FirstFrame
<1>4. CASE UNCHANGED regVars
  BY <1>4, FirstFrame DEF regVars
<1>5. ASSUME NEW c \in Cpus, RunHandlers(c) PROVE UNCHANGED regVars
  BY <1>5 DEF RunHandlers
<1>6. ASSUME NEW c \in Cpus, NEW r \in R, Deliver(c, r) PROVE UNCHANGED regVars
  BY <1>6 DEF Deliver
<1>7. ASSUME NEW r \in R, Raise(r) PROVE UNCHANGED regVars
  BY <1>7 DEF Raise
<1>8. ASSUME NEW c \in Cpus, NEW v \in PicSpurious, DeliverSpurious(c, v) PROVE UNCHANGED regVars
  BY <1>8 DEF DeliverSpurious
<1>9. UNCHANGED vars => UNCHANGED regVars
  BY DEF vars
<1>. QED
  BY <1>1, <1>2, <1>3, <1>4, <1>5, <1>6, <1>7, <1>8, <1>9, FirstInstall, FirstProgram
     DEF Next, CpuStep, RegisterStep, R

(* On a machine that its tables describe, and with one driver for a device *)
(* with MSI, a registration that returned success is complete: its handler *)
(* is listed and its line or device sends the vector it was given, the     *)
(* first of its list or not.  The line of a handler may lack its vector    *)
(* only when every vector of its IRQL is taken and the list of the first   *)
(* of them begins with the handler of another line.                        *)
THEOREM RegistrationCorrect ==
    ASSUME OneDriverPerMsi
    PROVE  Spec /\ []TablesRight => []RegistrationSound
<1>1. IntrInv /\ TablesRight /\ RoutedInv /\ FirstInv /\ [Next]_vars => IntrInv' /\ RoutedInv' /\ FirstInv'
  BY IntrNext, FirstNext
<1>2. IntrInv /\ RoutedInv /\ FirstInv => RegistrationSound
  <2>. SUFFICES ASSUME IntrInv, RoutedInv, FirstInv PROVE RegistrationSound
    OBVIOUS
  <2>1. RegisteredIsRouted
    <3>. SUFFICES ASSUME NEW r \in R, result[r] = "ok"
                  PROVE  /\ r \in ToSet(handlers[given[r]])
                         /\ MsiCapable(r) => msi[Requests[r].dev] = given[r]
                         /\ IsIoApic(r) => (redir[HwLine(r)].vec = given[r]) \/ Squeezed(r)
      BY DEF RegisteredIsRouted, R
    <3>1. given[r] \in Vectors /\ r \in ToSet(handlers[given[r]])
      BY DEF IntrInv, ResultInv
    <3>2. ASSUME IsIoApic(r), redir[HwLine(r)].vec # given[r] PROVE Squeezed(r)
      <4>1. PICK v \in Vectors : v = given[r]
        BY <3>1
      <4>2. Second(r, v)
        BY <3>2, <4>1 DEF RoutedInv
      <4>3. FreeVectors(Requests[r].irql) = {} /\ v = IrqlToVector(Requests[r].irql)
        BY <4>2 DEF Second, Exhausted, FreeVectors
      <4>4. PICK h \in R : Len(handlers[v]) # 1 /\ handlers[v] # << >> /\ h = handlers[v][1]
        <5>1. PICK q \in Seq(R) : q = handlers[v]
          BY DEF IntrInv, RegTypes
        <5>2. Len(q) > 1 /\ Len(q) \in Nat
          BY <4>2, <5>1 DEF Second
        <5>3. Len(q) # 1 /\ q # << >>
          <6>1. PICK n \in Nat : n = Len(q) /\ n > 1
            BY <5>2
          <6>2. n # 1 /\ n # 0
            BY <6>1
          <6>3. q = << >> => Len(q) = 0
            OBVIOUS
          <6>. QED  BY <6>1, <6>2, <6>3
        <5>4. DOMAIN q = 1 .. Len(q) /\ \A i \in 1 .. Len(q) : q[i] \in R
          OBVIOUS
        <5>5. q[1] \in R
          BY <5>2, <5>4
        <5>. QED  BY <5>1, <5>3, <5>5
      <4>5. ASSUME IsIoApic(h) PROVE HwLine(h) # HwLine(r)
        <5>1. redir[HwLine(h)].vec = v
          BY <4>4, <4>5 DEF FirstInv
        <5>. QED  BY <3>2, <4>1, <5>1
      <4>. QED  BY <3>2, <4>1, <4>3, <4>4, <4>5 DEF Squeezed
    <3>. QED  BY <3>1, <3>2 DEF RoutedInv
  <2>. QED  BY <2>1, TypesFollow, ListsFollow DEF RegistrationSound
<1>. QED  BY <1>1, <1>2, IntrInit, FirstInit, PTL DEF Spec
----------------------------------------------------------------------------
(***************************************************************************)
(* Interrupts are claimed as long as no IRQL runs out of vectors: then     *)
(* handlers share a vector only if their devices share a line.             *)
(***************************************************************************)
VectorsLeft ==
    \A c \in Cpus : reg[c].step = "vector" /\ ~reg[c].shared => FreeVectors(Requests[reg[c].r].irql) # {}

(* r is in the list of v alone, which its line sends or, for a vector of   *)
(* its own, no line.                                                       *)
Own(r, v) ==
    /\ \A w \in Vectors : r \in ToSet(handlers[w]) => w = v
    /\ IF IsIoApic(r) THEN HwLine(r) \in Lines /\ redir[HwLine(r)].vec = v
       ELSE (\A s \in ToSet(handlers[v]) : s = r) /\ (\A l \in Lines : redir[l].vec # v)

OwnInv ==
    /\ \A l, m \in Lines : redir[l].vec # None /\ redir[l].vec = redir[m].vec => l = m
    /\ \A v \in Vectors : \A r \in ToSet(handlers[v]) : Own(r, v) \/ \E c \in Cpus : Routing(c, r, v)

(* The vector of a registration is new, unless its line had one.           *)
NewInv(c) ==
    /\ reg[c].step = "install" => reg[c].shared \/ reg[c].vec \notin isr
    /\ reg[c].step = "program" /\ reg[c].setup =>
          /\ \A w \in Vectors : reg[c].r \in ToSet(handlers[w]) => w = reg[c].vec
          /\ \A s \in ToSet(handlers[reg[c].vec]) : s = reg[c].r
          /\ \A l \in Lines : redir[l].vec # reg[c].vec

OwnPart == OwnInv /\ \A c \in Cpus : NewInv(c)

(* A CPU serves a device that still waits, by the device's own vector, and *)
(* no two serve one device or one line.                                    *)
SameSource(r, s) == r = s \/ (IsIoApic(r) /\ IsIoApic(s) /\ HwLine(r) = HwLine(s))

ServedInv ==
    /\ \A r \in pending : result[r] = "ok"
    /\ \A c \in Cpus :
        /\ cpu[c].src # None => /\ cpu[c].src \in pending
                                /\ cpu[c].mode = "isr" /\ cpu[c].vec = given[cpu[c].src]
        /\ cpu[c].src = None /\ cpu[c].mode = "isr" => cpu[c].vec \in PicSpurious /\ inService[c] = {}
    /\ \A c, d \in Cpus : c # d /\ cpu[c].src # None /\ cpu[d].src # None => ~SameSource(cpu[c].src, cpu[d].src)
    /\ panic # "unhandled"

(* The vectors at which the legacy PICs raise spurious interrupts are of   *)
(* an IRQL that nothing is registered for.                                 *)
PicVectorsUnused == \A v \in PicSpurious : \A r \in R : Requests[r].irql # VectorToIrql(v)

(* Only a registration that is not over is about to route a line.          *)
LEMMA ListedOwn ==
    ASSUME IntrInv, OwnInv, NEW v \in Vectors, NEW r \in ToSet(handlers[v]), result[r] # "none"
    PROVE  Own(r, v)
<1>1. \A c \in Cpus : ~Routing(c, r, v)
  BY DEF IntrInv, RegInv, Routing
<1>. QED  BY <1>1 DEF OwnInv

LEMMA ClaimInit == Init => OwnPart /\ ServedInv
<1>. SUFFICES ASSUME Init PROVE OwnPart /\ ServedInv
  OBVIOUS
<1>1. \A v \in Vectors : ToSet(handlers[v]) = {}
  BY EmptyList DEF Init
<1>2. \A l \in Lines : redir[l].vec = None
  BY DEF Init
<1>3. OwnInv
  BY <1>1, <1>2 DEF OwnInv
<1>4. \A c \in Cpus : NewInv(c)
  BY NoRegType DEF Init, NewInv
<1>5. ServedInv
  BY DEF Init, ServedInv, NoService
<1>. QED  BY <1>3, <1>4, <1>5 DEF OwnPart

----------------------------------------------------------------------------
(* Steps that leave the registrations alone, but for masks.                *)
LEMMA OwnFrame ==
    ASSUME OwnPart, UNCHANGED <<isr, handlers, reg>>,
           \A l \in Lines : redir'[l].vec = redir[l].vec
    PROVE  OwnPart'
<1>1. \A r, v : Own(r, v) => Own(r, v)'
  BY DEF Own
<1>2. \A c, r, v : Routing(c, r, v) => Routing(c, r, v)'
  BY DEF Routing
<1>3. OwnInv'
  BY <1>1, <1>2 DEF OwnPart, OwnInv
<1>4. \A c \in Cpus : NewInv(c)'
  BY DEF OwnPart, NewInv
<1>. QED  BY <1>3, <1>4 DEF OwnPart

(* Stages of a registration that list and route nothing.                   *)
LEMMA OwnStage ==
    ASSUME OwnInv, UNCHANGED handlers,
           \A l \in Lines : redir'[l].vec = redir[l].vec,
           \A c \in Cpus : ~(reg[c].step = "program" /\ reg[c].setup),
           \A c \in Cpus : reg'[c].step \notin {"install", "program"}
    PROVE  OwnPart'
<1>1. \A r, v : Own(r, v) => Own(r, v)'
  BY DEF Own
<1>2. OwnInv'
  BY <1>1 DEF OwnInv, Routing
<1>. QED  BY <1>2 DEF OwnPart, NewInv

LEMMA OwnRegister ==
    ASSUME IntrInv, OwnPart, NEW c \in Cpus, NEW r \in R, IomuRegisterInterrupt(c, r)
    PROVE  OwnPart'
<1>1. /\ gLock = None /\ UNCHANGED <<handlers, redir>>
      /\ reg' = [reg EXCEPT ![c] = [NoReg EXCEPT !.step = "lookup", !.r = r]]
  BY DEF IomuRegisterInterrupt
<1>2. \A d \in Cpus : reg[d] = NoReg
  BY <1>1, IntrAssumption DEF IntrInv, LockInv
<1>3. reg'[c].step = "lookup" /\ \A d \in Cpus \ {c} : reg'[d] = NoReg
  BY <1>1, <1>2 DEF IntrInv, RegTypes, NoReg
<1>. QED  BY <1>1, <1>2, <1>3, OwnStage, NoRegType DEF OwnPart

(* What a stage on c does to the locals of others.                         *)
LEMMA OthersIdle ==
    ASSUME IntrInv, NEW c \in Cpus, reg[c].step # "none", NEW g, reg' = [reg EXCEPT ![c] = g]
    PROVE  /\ reg'[c] = g
           /\ \A d \in Cpus \ {c} : reg[d] = NoReg /\ reg'[d] = NoReg /\ NewInv(d)'
<1>1. reg'[c] = g /\ \A d \in Cpus \ {c} : reg[d] = NoReg /\ reg'[d] = NoReg
  BY Alone DEF IntrInv, RegTypes
<1>. QED  BY <1>1, NoRegType DEF NewInv

LEMMA LeaveOwn ==
    ASSUME IntrInv, OwnPart, NEW c \in Cpus, reg[c].step \in {"lookup", "vector", "install"},
           NEW why, Leave(c, why), UNCHANGED <<handlers, redir>>
    PROVE  OwnPart'
<1>1. PICK g : g = [reg[c] EXCEPT !.step = "done", !.status = why]
  OBVIOUS
<1>2. reg' = [reg EXCEPT ![c] = g]
  BY <1>1 DEF Leave
<1>3. g.step = "done"
  BY <1>1, Alone DEF RegRec
<1>. QED  BY <1>2, <1>3, OthersIdle, OwnStage, NoRegType DEF OwnPart
LEMMA LookupOwn ==
    ASSUME IntrInv, OwnPart, NEW c \in Cpus, Lookup(c)
    PROVE  OwnPart'
<1>1. reg[c].step = "lookup" /\ UNCHANGED <<isr, handlers, redir>>
  BY DEF Lookup
<1>2. reg[c] \in RegRec
  BY <1>1, Alone
<1>3. ASSUME NEW g, reg' = [reg EXCEPT ![c] = g], g.step = "vector" PROVE OwnPart'
  BY <1>1, <1>3, OthersIdle, OwnStage, NoRegType DEF OwnPart
<1>4. CASE reg' = reg
  BY <1>1, <1>4, OwnFrame
<1>5. CASE reg' = [reg EXCEPT ![c].step = "vector"]
  <2>1. PICK g : g = [reg[c] EXCEPT !.step = "vector"]
    OBVIOUS
  <2>2. reg' = [reg EXCEPT ![c] = g] /\ g.step = "vector"
    BY <1>2, <1>5, <2>1 DEF RegRec
  <2>. QED  BY <1>3, <2>2
<1>6. ASSUME NEW line, LookupLine(c, line) PROVE OwnPart'
  <2>1. CASE \E why : Leave(c, why)
    BY <1>1, <2>1, LeaveOwn
  <2>2. CASE reg' = [reg EXCEPT ![c].step = "vector", ![c].line = line]
    <3>1. PICK g : g = [reg[c] EXCEPT !.step = "vector", !.line = line]
      OBVIOUS
    <3>2. reg' = [reg EXCEPT ![c] = g] /\ g.step = "vector"
      BY <1>2, <2>2, <3>1 DEF RegRec
    <3>. QED  BY <1>3, <3>2
  <2>3. CASE reg' = [reg EXCEPT ![c].step = "vector", ![c].line = line, ![c].shared = TRUE]
    <3>1. PICK g : g = [reg[c] EXCEPT !.step = "vector", !.line = line, !.shared = TRUE]
      OBVIOUS
    <3>2. reg' = [reg EXCEPT ![c] = g] /\ g.step = "vector"
      BY <1>2, <2>3, <3>1 DEF RegRec
    <3>. QED  BY <1>3, <3>2
  <2>. QED  BY <1>6, <2>1, <2>2, <2>3 DEF LookupLine
<1>. QED  BY <1>4, <1>5, <1>6 DEF Lookup

(* A vector that was free has no routine yet.                              *)
LEMMA ChooseVectorOwn ==
    ASSUME IntrInv, OwnPart, VectorsLeft, NEW c \in Cpus, ChooseVector(c)
    PROVE  OwnPart'
<1>1. reg[c].step = "vector" /\ UNCHANGED <<isr, handlers, redir>>
  BY DEF ChooseVector
<1>2. reg[c] \in RegRec /\ reg[c].r \in R /\ \A d \in Cpus \ {c} : reg[d] = NoReg
  BY <1>1, Alone
<1>3. Requests[reg[c].r].irql \in Irqls
  BY <1>2, RequestFacts
<1>4. ASSUME NEW v, reg' = [reg EXCEPT ![c].step = "install", ![c].vec = v], reg[c].shared \/ v \notin isr
      PROVE  OwnPart'
  <2>1. PICK g : g = [reg[c] EXCEPT !.step = "install", !.vec = v]
    OBVIOUS
  <2>2. reg' = [reg EXCEPT ![c] = g] /\ g.step = "install" /\ g.vec = v /\ g.shared = reg[c].shared
    BY <1>2, <1>4, <2>1 DEF RegRec
  <2>3. reg'[c] = g /\ \A d \in Cpus \ {c} : NewInv(d)'
    BY <1>1, <2>2, OthersIdle
  <2>4. NewInv(c)'
    BY <1>1, <1>4, <2>2, <2>3 DEF NewInv
  <2>5. OwnInv'
    <3>1. \A r, w : Own(r, w) => Own(r, w)'
      BY <1>1 DEF Own
    <3>2. \A d \in Cpus : reg[d].step # "program"
      BY <1>1, <1>2, NoRegType
    <3>. QED  BY <1>1, <3>1, <3>2 DEF OwnPart, OwnInv, Routing
  <2>. QED  BY <2>3, <2>4, <2>5 DEF OwnPart
<1>5. CASE reg[c].shared
  <2>1. CASE Requests[reg[c].r].exclusive
    BY <1>1, <1>5, <2>1, LeaveOwn DEF ChooseVector
  <2>2. CASE ~Requests[reg[c].r].exclusive
    <3>1. PICK v : v = redir[reg[c].line].vec
      OBVIOUS
    <3>2. reg' = [reg EXCEPT ![c].step = "install", ![c].vec = v]
      BY <1>5, <2>2, <3>1 DEF ChooseVector
    <3>. QED  BY <1>4, <1>5, <3>2
  <2>. QED  BY <2>1, <2>2
<1>6. CASE ~reg[c].shared
  <2>1. FreeVectors(Requests[reg[c].r].irql) # {}
    BY <1>1, <1>6 DEF VectorsLeft
  <2>2. PICK v : v = Lowest(FreeVectors(Requests[reg[c].r].irql))
    OBVIOUS
  <2>3. reg' = [reg EXCEPT ![c].step = "install", ![c].vec = v]
    BY <1>6, <2>1, <2>2 DEF ChooseVector, Lowest
  <2>4. v \notin isr
    BY <1>3, <2>1, <2>2, LowestFree DEF FreeVectors, IntrInv, VectorInv
  <2>. QED  BY <1>4, <2>3, <2>4
<1>. QED  BY <1>5, <1>6

(* A handler joins a list only through a line that sends its vector.       *)
LEMMA InstallHandlerOwn ==
    ASSUME IntrInv, OwnPart, TablesRight, NEW c \in Cpus, InstallHandler(c)
    PROVE  OwnPart'
<1>. RegTypes /\ VectorInv /\ OwnInv
  BY DEF IntrInv, OwnPart
<1>1. reg[c].step = "install" /\ UNCHANGED redir
  BY DEF InstallHandler
<1>2. /\ reg[c] \in RegRec /\ RegInv(c) /\ reg[c].r \in R
      /\ \A d \in Cpus \ {c} : reg[d] = NoReg
  BY <1>1, Alone
<1>3. LineKnown(c) /\ VectorKnown(c) /\ Unlisted(reg[c].r)
  BY <1>1, <1>2 DEF RegInv
<1>4. PICK v \in Vectors, r \in R : v = reg[c].vec /\ r = reg[c].r
  BY <1>2, <1>3 DEF VectorKnown, RegTypes
<1>5. ~(Requests[r].exclusive /\ handlers[v] # << >>)
  BY <1>3, <1>4 DEF VectorKnown
<1>6. \/ \E why : Leave(c, why) /\ UNCHANGED handlers
      \/ /\ handlers' = [handlers EXCEPT ![v] = Append(@, r)]
         /\ reg' = [reg EXCEPT ![c].step = "program",
                               ![c].setup = handlers[v] = << >> /\ IsIoApic(r) /\ ~reg[c].shared]
  <2>1. CASE handlers[v] = << >> /\ v \in isr
    BY <1>4, <1>5, <2>1 DEF InstallHandler
  <2>2. CASE ~(handlers[v] = << >> /\ v \in isr)
    BY <1>4, <1>5, <2>2 DEF InstallHandler
  <2>. QED  BY <2>1, <2>2
<1>7. CASE \E why : Leave(c, why) /\ UNCHANGED handlers
  BY <1>1, <1>7, LeaveOwn
<1>8. CASE /\ handlers' = [handlers EXCEPT ![v] = Append(@, r)]
           /\ reg' = [reg EXCEPT ![c].step = "program",
                                 ![c].setup = handlers[v] = << >> /\ IsIoApic(r) /\ ~reg[c].shared]
  <2>1. PICK g : g = [reg[c] EXCEPT !.step = "program",
                                    !.setup = handlers[v] = << >> /\ IsIoApic(r) /\ ~reg[c].shared]
    OBVIOUS
  <2>2. /\ reg' = [reg EXCEPT ![c] = g] /\ g.step = "program" /\ g.vec = v /\ g.r = r
        /\ g.setup <=> handlers[v] = << >> /\ IsIoApic(r) /\ ~reg[c].shared
    BY <1>2, <1>4, <1>8, <2>1 DEF RegRec
  <2>3. reg'[c] = g /\ \A d \in Cpus \ {c} : NewInv(d)'
    BY <1>1, <2>2, OthersIdle
  <2>4. /\ ToSet(handlers'[v]) = ToSet(handlers[v]) \cup {r}
        /\ \A w \in Vectors \ {v} : handlers'[w] = handlers[w]
    <3>1. handlers[v] \in Seq(R) /\ handlers'[v] = Append(handlers[v], r)
      BY <1>8 DEF RegTypes
    <3>. QED  BY <1>8, <3>1, AppendFacts DEF RegTypes
  <2>5. \A w \in Vectors : /\ r \in ToSet(handlers'[w]) <=> w = v
                           /\ \A s : s # r => (s \in ToSet(handlers'[w]) <=> s \in ToSet(handlers[w]))
    BY <1>3, <1>4, <2>4 DEF Unlisted
  <2>6. \A w \in Vectors : \A s \in ToSet(handlers[w]) : Own(s, w)
    <3>1. \A d \in Cpus : reg[d].step # "program"
      BY <1>1, <1>2, NoRegType
    <3>. QED  BY <3>1 DEF OwnInv, Routing
  <2>7. \A l, m \in Lines : redir'[l].vec # None /\ redir'[l].vec = redir'[m].vec => l = m
    BY <1>1 DEF OwnInv
  <2>8. CASE reg[c].shared
    <3>1. IsIoApic(r) /\ reg[c].line \in Lines /\ redir[reg[c].line].vec = v /\ ~g.setup
      BY <1>3, <1>4, <2>2, <2>8 DEF LineKnown, VectorKnown
    <3>2. HwLine(r) \in Lines /\ redir[HwLine(r)].vec = v
      BY <1>4, <3>1, IntrAssumption DEF TablesRight
    <3>3. Own(r, v)'
      BY <1>1, <2>5, <3>1, <3>2 DEF Own
    <3>4. ASSUME NEW w \in Vectors, NEW s \in ToSet(handlers'[w]), s # r PROVE Own(s, w)'
      <4>1. s \in ToSet(handlers[w]) /\ Own(s, w)
        BY <2>5, <2>6, <3>4
      <4>2. \A x \in Vectors : s \in ToSet(handlers'[x]) => x = w
        BY <2>5, <3>4, <4>1 DEF Own
      <4>3. ~IsIoApic(s) => w # v
        BY <3>2, <4>1 DEF Own
      <4>. QED  BY <1>1, <2>4, <4>1, <4>2, <4>3 DEF Own
    <3>5. OwnInv'
      BY <2>5, <2>7, <3>3, <3>4 DEF OwnInv
    <3>6. NewInv(c)'
      BY <2>2, <2>3, <3>1 DEF NewInv
    <3>. QED  BY <2>3, <3>5, <3>6 DEF OwnPart
  <2>9. CASE ~reg[c].shared
    <3>1. v \notin isr
      BY <1>1, <1>4, <2>9 DEF OwnPart, NewInv
    <3>2. handlers[v] = << >> /\ ToSet(handlers[v]) = {} /\ \A l \in Lines : redir[l].vec # v
      BY <3>1, EmptyList, VectorFacts DEF VectorInv
    <3>3. g.setup <=> IsIoApic(r)
      BY <2>2, <2>9, <3>2
    <3>4. IsIoApic(r) => Routing(c, r, v)'
      BY <2>2, <2>3, <3>3 DEF Routing
    <3>5. ~IsIoApic(r) => Own(r, v)'
      BY <1>1, <2>4, <2>5, <3>2 DEF Own
    <3>6. ASSUME NEW w \in Vectors, NEW s \in ToSet(handlers'[w]), s # r PROVE Own(s, w)'
      <4>1. s \in ToSet(handlers[w]) /\ Own(s, w) /\ w # v
        BY <2>5, <2>6, <3>2, <3>6
      <4>2. \A x \in Vectors : s \in ToSet(handlers'[x]) => x = w
        BY <2>5, <3>6, <4>1 DEF Own
      <4>. QED  BY <1>1, <2>4, <4>1, <4>2 DEF Own
    <3>7. OwnInv'
      BY <2>5, <2>7, <3>4, <3>5, <3>6 DEF OwnInv
    <3>8. NewInv(c)'
      BY <1>1, <2>2, <2>3, <2>4, <2>5, <3>2 DEF NewInv
    <3>. QED  BY <2>3, <3>7, <3>8 DEF OwnPart
  <2>. QED  BY <2>8, <2>9
<1>. QED  BY <1>6, <1>7, <1>8
(* The line of a handler that found its list empty gets the vector.        *)
LEMMA ProgramSourceOwn ==
    ASSUME IntrInv, OwnPart, TablesRight, NEW c \in Cpus, ProgramSource(c)
    PROVE  OwnPart'
<1>. RegTypes /\ OwnInv
  BY DEF IntrInv, OwnPart
<1>1. reg[c].step = "program" /\ UNCHANGED handlers
  BY DEF ProgramSource
<1>2. /\ reg[c] \in RegRec /\ RegInv(c) /\ reg[c].r \in R
      /\ \A d \in Cpus \ {c} : reg[d] = NoReg
  BY <1>1, Alone
<1>3. InList(c) /\ LineKnown(c) /\ (reg[c].setup => IsIoApic(reg[c].r) /\ ~reg[c].shared)
  BY <1>1, <1>2 DEF RegInv
<1>4. PICK v \in Vectors, r \in R : v = reg[c].vec /\ r = reg[c].r
  BY <1>2, <1>3 DEF InList, IntrInv, VectorInv, RegTypes
<1>5. \A d \in Cpus : reg'[d].step \notin {"install", "program"}
  <2>1. \/ reg' = [reg EXCEPT ![c].step = "done"]
        \/ \E why : reg' = [reg EXCEPT ![c].step = "done", ![c].status = why]
    BY DEF ProgramSource, ProgramMsi, IoApicSystemSetInterrupt, Finished, Leave
  <2>2. reg'[c].step = "done" /\ \A d \in Cpus \ {c} : reg'[d] = reg[d]
    BY <1>2, <2>1 DEF RegTypes, RegRec
  <2>. QED  BY <1>2, <2>2, NoRegType
<1>6. CASE ~reg[c].setup
  <2>1. \A l \in Lines : redir'[l].vec = redir[l].vec
    BY <1>6 DEF ProgramSource
  <2>2. \A d \in Cpus : ~(reg[d].step = "program" /\ reg[d].setup)
    BY <1>2, <1>6, NoRegType
  <2>. QED  BY <1>1, <1>5, <2>1, <2>2, OwnStage
<1>7. CASE reg[c].setup
  <2>1. IsIoApic(r) /\ ~MsiCapable(r) /\ reg[c].line \in Lines /\ redir[reg[c].line].vec = None
    BY <1>3, <1>4, <1>7, RequestFacts DEF LineKnown
  <2>2. PICK h \in Lines : h = HwLine(r) /\ h = reg[c].line
    BY <1>4, <2>1, IntrAssumption DEF TablesRight
  <2>3. redir' = [redir EXCEPT ![h] = [vec |-> v, masked |-> maskInterrupts]]
    BY <1>4, <1>7, <2>1, <2>2 DEF ProgramSource, IoApicSystemSetInterrupt
  <2>4. redir'[h].vec = v /\ \A l \in Lines \ {h} : redir'[l] = redir[l]
    BY <2>2, <2>3 DEF RegTypes
  <2>5. /\ \A w \in Vectors : r \in ToSet(handlers[w]) => w = v
        /\ \A s \in ToSet(handlers[v]) : s = r
        /\ \A l \in Lines : redir[l].vec # v
    BY <1>1, <1>4, <1>7 DEF OwnPart, NewInv
  <2>6. \A l, m \in Lines : redir'[l].vec # None /\ redir'[l].vec = redir'[m].vec => l = m
    BY <2>4, <2>5 DEF OwnInv
  <2>7. Own(r, v)'
    BY <1>1, <2>1, <2>2, <2>4, <2>5 DEF Own
  <2>8. ASSUME NEW w \in Vectors, NEW s \in ToSet(handlers[w]) PROVE Own(s, w)'
    <3>1. CASE s = r \/ w = v
      <4>1. s = r /\ w = v
        BY <2>5, <2>8, <3>1
      <4>. QED  BY <2>7, <4>1
    <3>2. CASE s # r /\ w # v
      <4>1. Own(s, w)
        <5>1. \A d \in Cpus : ~Routing(d, s, w)
          BY <1>2, <1>4, <3>2, NoRegType DEF Routing
        <5>. QED  BY <2>8, <5>1 DEF OwnInv
      <4>2. IsIoApic(s) => HwLine(s) # h
        BY <2>1, <2>2, <4>1, VectorFacts DEF Own
      <4>3. ~IsIoApic(s) => \A l \in Lines : redir'[l].vec # w
        BY <2>4, <3>2, <4>1 DEF Own
      <4>. QED  BY <1>1, <2>4, <4>1, <4>2, <4>3 DEF Own
    <3>. QED  BY <3>1, <3>2
  <2>9. OwnInv'
    BY <1>1, <2>6, <2>8 DEF OwnInv
  <2>. QED  BY <1>5, <2>9 DEF OwnPart, NewInv
<1>. QED  BY <1>6, <1>7

LEMMA RegisterDoneOwn ==
    ASSUME IntrInv, OwnPart, NEW c \in Cpus, RegisterDone(c)
    PROVE  OwnPart'
<1>1. /\ reg[c].step = "done" /\ UNCHANGED <<handlers, redir>>
      /\ reg' = [reg EXCEPT ![c] = NoReg]
  BY DEF RegisterDone
<1>. QED  BY <1>1, OthersIdle, OwnStage, NoRegType DEF OwnPart

LEMMA OwnNext ==
    ASSUME IntrInv, OwnPart, TablesRight, VectorsLeft, [Next]_vars
    PROVE  OwnPart'
<1>1. CASE BootStep
  <2>1. UNCHANGED <<isr, handlers, reg>>
    BY <1>1 DEF BootStep, LapicSystemInit, PciSystemInit, IoApicSystemRetrieveIoApics,
                IoApicSystemRetrieveInterruptOverrides, RetrievePciDevices, LegacyInit, AcpiInterfaceLateInit,
                IoApicSystemRetrievePrtEntries, IoApicSystemEnableRegisteredInterrupts, BootTo, regVars
  <2>2. redir' = redir \/ redir' = [l \in Lines |-> [redir[l] EXCEPT !.masked = redir[l].vec = None]]
    BY <1>1 DEF BootStep, LapicSystemInit, PciSystemInit, IoApicSystemRetrieveIoApics,
                IoApicSystemRetrieveInterruptOverrides, RetrievePciDevices, LegacyInit, AcpiInterfaceLateInit,
                IoApicSystemRetrievePrtEntries, IoApicSystemEnableRegisteredInterrupts, BootTo, regVars
  <2>3. \A l \in Lines : redir'[l].vec = redir[l].vec
    BY <2>2 DEF IntrInv, RegTypes
  <2>. QED  BY <2>1, <2>3, OwnFrame
<1>2. ASSUME NEW c \in Cpus, RegisterStep(c) PROVE OwnPart'
  BY <1>2, LookupOwn, ChooseVectorOwn, InstallHandlerOwn, ProgramSourceOwn, RegisterDoneOwn DEF RegisterStep
<1>3. ASSUME NEW c \in Cpus, NEW r \in R, IomuRegisterInterrupt(c, r) PROVE OwnPart'
  BY <1>3, OwnRegister
<1>4. CASE UNCHANGED regVars
  BY <1>4, OwnFrame DEF regVars
<1>5. ASSUME NEW c \in Cpus, RunHandlers(c) PROVE UNCHANGED regVars
  BY <1>5 DEF RunHandlers
<1>6. ASSUME NEW c \in Cpus, NEW r \in R, Deliver(c, r) PROVE UNCHANGED regVars
  BY <1>6 DEF Deliver
<1>7. ASSUME NEW r \in R, Raise(r) PROVE UNCHANGED regVars
  BY <1>7 DEF Raise
<1>8. ASSUME NEW c \in Cpus, NEW v \in PicSpurious, DeliverSpurious(c, v) PROVE UNCHANGED regVars
  BY <1>8 DEF DeliverSpurious
<1>9. UNCHANGED vars => UNCHANGED regVars
  BY DEF vars
<1>. QED  BY <1>1, <1>2, <1>3, <1>4, <1>5, <1>6, <1>7, <1>8, <1>9 DEF Next, CpuStep, R
----------------------------------------------------------------------------
(* _IomuGenericInterrupt calls a handler of the vector, and some handler   *)
(* if one of them claims.                                                  *)
LEMMA FirstClaim ==
    ASSUME IntrInv, NEW v \in Vectors
    PROVE  /\ GenericInterrupt(v) # 0 => handlers[v][GenericInterrupt(v)] \in ToSet(handlers[v])
           /\ (\E h \in ToSet(handlers[v]) : Claims(h)) => GenericInterrupt(v) # 0
<1>1. PICK I : I = {i \in 1 .. Len(handlers[v]) : Claims(handlers[v][i])}
  OBVIOUS
<1>2. handlers[v] \in Seq(R) /\ Len(handlers[v]) \in Nat /\ DOMAIN handlers[v] = 1 .. Len(handlers[v])
  BY DEF IntrInv, RegTypes
<1>3. SelectInSeq(handlers[v], Claims) = IF I # {} THEN Min(I) ELSE 0
  BY <1>1 DEF SelectInSeq
<1>4. ASSUME I # {} PROVE Min(I) \in I /\ Min(I) # 0
  <2>1. I \subseteq Nat
    BY <1>1, <1>2
  <2>2. \E x \in I : \A y \in I : x <= y
    BY <1>4, <2>1, LeastNumber
  <2>3. Min(I) \in I
    BY <2>2 DEF Min
  <2>4. 0 \notin I
    BY <1>1, <1>2
  <2>. QED  BY <2>3, <2>4
<1>5. GenericInterrupt(v) # 0 => handlers[v][GenericInterrupt(v)] \in ToSet(handlers[v])
  BY <1>1, <1>2, <1>3, <1>4 DEF GenericInterrupt, ToSet
<1>6. ASSUME NEW h \in ToSet(handlers[v]), Claims(h) PROVE GenericInterrupt(v) # 0
  <2>1. PICK i \in DOMAIN handlers[v] : handlers[v][i] = h
    BY DEF ToSet
  <2>2. I # {}
    BY <1>1, <1>2, <1>6, <2>1
  <2>3. handlers[v] # << >>
    BY <2>1
  <2>4. v \in isr
    BY <2>3 DEF IntrInv, VectorInv
  <2>. QED  BY <1>3, <1>4, <2>2, <2>4 DEF GenericInterrupt
<1>. QED  BY <1>5, <1>6

(* An interrupt arrives at the vector its registration was given.          *)
LEMMA RouteGiven ==
    ASSUME IntrInv, RoutedInv, OwnInv, NEW r \in R, result[r] = "ok", Route(r) # None
    PROVE  Route(r) = given[r] /\ given[r] \in Vectors /\ Own(r, given[r])
<1>1. given[r] \in Vectors /\ r \in ToSet(handlers[given[r]])
  BY DEF IntrInv, ResultInv
<1>2. Own(r, given[r])
  BY <1>1, ListedOwn
<1>3. CASE Requests[r].type = "lapic"
  BY <1>1, <1>2, <1>3 DEF Route, MsiCapable
<1>4. CASE MsiCapable(r)
  BY <1>1, <1>2, <1>4 DEF Route, RoutedInv, MsiCapable
<1>5. CASE ~MsiCapable(r) /\ Requests[r].type # "lapic"
  <2>1. IsIoApic(r)
    BY <1>5, IntrAssumption DEF IsIoApic, R, RequestRec
  <2>2. Route(r) = redir[HwLine(r)].vec
    BY <1>5 DEF Route
  <2>. QED  BY <1>1, <1>2, <2>1, <2>2 DEF Own
<1>. QED  BY <1>3, <1>4, <1>5

LEMMA DeliverServed ==
    ASSUME IntrInv, RoutedInv, OwnInv, ServedInv, NEW c \in Cpus, NEW r \in R, Deliver(c, r)
    PROVE  ServedInv'
<1>1. /\ r \in pending /\ Route(r) # None /\ ~Delivered(r)
      /\ cpu' = [cpu EXCEPT ![c] = [mode |-> "isr", src |-> r, vec |-> Route(r)]]
      /\ inService' = [inService EXCEPT ![c] = @ \cup {Route(r)}]
      /\ UNCHANGED <<pending, panic, result, given>>
  BY DEF Deliver, regVars
<1>2. Route(r) = given[r]
  BY <1>1, RouteGiven DEF ServedInv
<1>3. /\ cpu'[c] = [mode |-> "isr", src |-> r, vec |-> given[r]]
      /\ \A d \in Cpus \ {c} : cpu'[d] = cpu[d] /\ inService'[d] = inService[d]
  BY <1>1, <1>2 DEF IntrInv, ServiceInv
<1>4. cpu'[c].src = r /\ cpu'[c].mode = "isr" /\ cpu'[c].vec = given[r] /\ r # None
  BY <1>3, RequestFacts
<1>5. \A d \in Cpus \ {c} : cpu[d].src # None => ~SameSource(r, cpu[d].src) /\ ~SameSource(cpu[d].src, r)
  BY <1>1 DEF Delivered, SameSource
<1>6. \A d, e \in Cpus : d # e /\ cpu'[d].src # None /\ cpu'[e].src # None => ~SameSource(cpu'[d].src, cpu'[e].src)
  BY <1>3, <1>4, <1>5 DEF ServedInv
<1>7. \A d \in Cpus :
        /\ cpu'[d].src # None => cpu'[d].src \in pending /\ cpu'[d].mode = "isr" /\ cpu'[d].vec = given[cpu'[d].src]
        /\ cpu'[d].src = None /\ cpu'[d].mode = "isr" => cpu'[d].vec \in PicSpurious /\ inService'[d] = {}
  BY <1>1, <1>3, <1>4 DEF ServedInv
<1>. QED  BY <1>1, <1>6, <1>7 DEF ServedInv, SameSource

LEMMA DeliverSpuriousServed ==
    ASSUME IntrInv, ServedInv, NEW c \in Cpus, NEW v \in PicSpurious, DeliverSpurious(c, v)
    PROVE  ServedInv'
<1>1. /\ cpu[c].mode = "run"
      /\ cpu' = [cpu EXCEPT ![c] = [mode |-> "isr", src |-> None, vec |-> v]]
      /\ UNCHANGED <<pending, panic, result, given, inService>>
  BY DEF DeliverSpurious, regVars
<1>2. /\ cpu'[c] = [mode |-> "isr", src |-> None, vec |-> v] /\ inService[c] = {}
      /\ \A d \in Cpus \ {c} : cpu'[d] = cpu[d]
  BY <1>1 DEF IntrInv, ServiceInv
<1>3. cpu'[c].src = None /\ cpu'[c].vec = v
  BY <1>2
<1>4. \A d, e \in Cpus : d # e /\ cpu'[d].src # None /\ cpu'[e].src # None => ~SameSource(cpu'[d].src, cpu'[e].src)
  BY <1>2, <1>3 DEF ServedInv
<1>5. \A d \in Cpus :
        /\ cpu'[d].src # None => cpu'[d].src \in pending /\ cpu'[d].mode = "isr" /\ cpu'[d].vec = given[cpu'[d].src]
        /\ cpu'[d].src = None /\ cpu'[d].mode = "isr" => cpu'[d].vec \in PicSpurious /\ inService[d] = {}
  BY <1>1, <1>2, <1>3 DEF ServedInv
<1>. QED  BY <1>1, <1>4, <1>5 DEF ServedInv, SameSource
(* CPUs that serve different devices at one vector share no handler.       *)
LEMMA ServedApart ==
    ASSUME IntrInv, OwnInv, ServedInv, NEW c \in Cpus, NEW d \in Cpus, c # d,
           cpu[c].src # None, cpu[d].src # None
    PROVE  cpu[d].src \notin ToSet(handlers[cpu[c].vec])
<1>. SUFFICES ASSUME cpu[d].src \in ToSet(handlers[cpu[c].vec]) PROVE FALSE
  OBVIOUS
<1>1. PICK r \in R, s \in R, v \in Vectors : r = cpu[c].src /\ s = cpu[d].src /\ v = cpu[c].vec
  <2>1. cpu[c] \in ServiceRec /\ cpu[d] \in ServiceRec /\ cpu[c].vec \in Vectors
    BY DEF IntrInv, ServiceInv, ServedInv
  <2>. QED  BY <2>1 DEF ServiceRec
<1>2. result[r] = "ok" /\ result[s] = "ok" /\ given[r] = v /\ ~SameSource(r, s)
  BY <1>1 DEF ServedInv
<1>3. r \in ToSet(handlers[v]) /\ s \in ToSet(handlers[v])
  BY <1>1, <1>2 DEF IntrInv, ResultInv
<1>4. Own(r, v) /\ Own(s, v)
  BY <1>2, <1>3, ListedOwn
<1>5. r # s /\ IsIoApic(r) /\ IsIoApic(s)
  BY <1>2, <1>3, <1>4 DEF Own, SameSource
<1>6. HwLine(r) \in Lines /\ HwLine(s) \in Lines /\ redir[HwLine(r)].vec = v /\ redir[HwLine(s)].vec = v
  BY <1>4, <1>5 DEF Own
<1>7. HwLine(r) = HwLine(s)
  BY <1>6, VectorFacts DEF OwnInv
<1>. QED  BY <1>2, <1>5, <1>7 DEF SameSource

(* The handler of the device that interrupts claims, unless it never does. *)
LEMMA RunHandlersServed ==
    ASSUME IntrInv, OwnInv, ServedInv, PicVectorsUnused, NEW c \in Cpus, RunHandlers(c)
    PROVE  ServedInv'
<1>1. PICK v \in Vectors : v = cpu[c].vec
  BY DEF IntrInv, ServiceInv, RunHandlers
<1>2. cpu[c].mode = "isr" /\ panic = "none" /\ UNCHANGED <<result, given>>
  BY DEF RunHandlers, regVars
<1>3. ASSUME cpu[c].src = None PROVE GenericInterrupt(v) = 0 /\ IsSpurious(c)
  <2>1. v \in PicSpurious /\ inService[c] = {}
    BY <1>1, <1>2, <1>3 DEF ServedInv
  <2>2. ToSet(handlers[v]) = {}
    <3>1. \A h \in ToSet(handlers[v]) : h \in R /\ Requests[h].irql = VectorToIrql(v)
      BY DEF IntrInv, RegTypes, ListInv, ToSet
    <3>. QED  BY <2>1, <3>1 DEF PicVectorsUnused
  <2>. QED  BY <1>1, <2>1, <2>2, FirstClaim DEF IsSpurious
<1>4. ASSUME cpu[c].src # None, ~Requests[cpu[c].src].declines PROVE GenericInterrupt(v) # 0
  <2>1. PICK r \in R : r = cpu[c].src
    BY <1>4 DEF IntrInv, ServiceInv, ServiceRec
  <2>2. r \in pending /\ result[r] = "ok" /\ given[r] = v
    BY <1>1, <1>4, <2>1 DEF ServedInv
  <2>3. r \in ToSet(handlers[v]) /\ Claims(r)
    BY <1>4, <2>1, <2>2 DEF IntrInv, ResultInv, Claims
  <2>. QED  BY <2>3, FirstClaim
<1>5. panic' # "unhandled"
  BY <1>1, <1>2, <1>3, <1>4 DEF RunHandlers
<1>6. CASE UNCHANGED <<pending, cpu, inService>>
  BY <1>2, <1>5, <1>6 DEF ServedInv, SameSource
<1>7. ASSUME NEW p \in BOOLEAN, ReturnFromInterrupt(c, p), pending' \subseteq pending,
             \A h \in pending \ pending' : cpu[c].src # None /\ h \in ToSet(handlers[v])
      PROVE  ServedInv'
  <2>1. /\ cpu'[c] = NoService
        /\ \A d \in Cpus \ {c} : cpu'[d] = cpu[d] /\ inService'[d] = inService[d]
    BY <1>7 DEF ReturnFromInterrupt, IntrInv, ServiceInv
  <2>2. cpu'[c].src = None /\ cpu'[c].mode = "run"
    BY <2>1 DEF NoService
  <2>3. \A d \in Cpus \ {c} : cpu[d].src # None => cpu[d].src \in pending'
    BY <1>1, <1>7, ServedApart DEF ServedInv
  <2>4. \A d \in Cpus :
          /\ cpu'[d].src # None => cpu'[d].src \in pending' /\ cpu'[d].mode = "isr" /\ cpu'[d].vec = given[cpu'[d].src]
          /\ cpu'[d].src = None /\ cpu'[d].mode = "isr" => cpu'[d].vec \in PicSpurious /\ inService'[d] = {}
    BY <2>1, <2>2, <2>3 DEF ServedInv
  <2>5. \A d, e \in Cpus : d # e /\ cpu'[d].src # None /\ cpu'[e].src # None => ~SameSource(cpu'[d].src, cpu'[e].src)
    BY <2>1, <2>2 DEF ServedInv
  <2>6. \A r \in pending' : result[r] = "ok"
    BY <1>7 DEF ServedInv
  <2>. QED  BY <1>2, <1>5, <2>4, <2>5, <2>6 DEF ServedInv, SameSource
<1>8. CASE GenericInterrupt(v) # 0
  <2>1. pending' = pending \ {handlers[v][GenericInterrupt(v)]} /\ ReturnFromInterrupt(c, FALSE)
    BY <1>1, <1>8 DEF RunHandlers
  <2>2. handlers[v][GenericInterrupt(v)] \in ToSet(handlers[v]) /\ cpu[c].src # None
    BY <1>3, <1>8, FirstClaim
  <2>. QED  BY <1>7, <2>1, <2>2
<1>9. CASE GenericInterrupt(v) = 0 /\ IsSpurious(c)
  <2>1. pending' = pending /\ ReturnFromInterrupt(c, TRUE)
    BY <1>1, <1>9 DEF RunHandlers
  <2>. QED  BY <1>7, <2>1
<1>10. CASE GenericInterrupt(v) = 0 /\ ~IsSpurious(c)
  BY <1>1, <1>6, <1>10 DEF RunHandlers
<1>. QED  BY <1>8, <1>9, <1>10

(* A registration that returns concerns no interrupt that is served.       *)
LEMMA RegisterDoneServed ==
    ASSUME IntrInv, ServedInv, NEW c \in Cpus, RegisterDone(c)
    PROVE  ServedInv'
<1>1. PICK r \in R : r = reg[c].r /\ result[r] = "none"
  BY DEF IntrInv, RegInv, RegisterDone
<1>2. /\ result' = [result EXCEPT ![r] = reg[c].status]
      /\ given' = [given EXCEPT ![r] = IF reg[c].status = "ok" THEN reg[c].vec ELSE None]
      /\ UNCHANGED <<pending, cpu, inService, panic>>
  BY <1>1 DEF RegisterDone, cpuVars
<1>3. \A s \in R \ {r} : result'[s] = result[s] /\ given'[s] = given[s]
  BY <1>2 DEF IntrInv, RegTypes
<1>4. \A s \in pending : s \in R /\ s # r
  BY <1>1 DEF ServedInv, IntrInv, TableTypes
<1>. QED  BY <1>2, <1>3, <1>4 DEF ServedInv, SameSource

LEMMA ServedNext ==
    ASSUME IntrInv, RoutedInv, OwnInv, ServedInv, PicVectorsUnused, [Next]_vars
    PROVE  ServedInv'
<1>1. CASE UNCHANGED <<pending, cpu, inService, result, given>> /\ panic' # "unhandled"
  BY <1>1 DEF ServedInv, SameSource
<1>2. panic # "unhandled"
  BY DEF ServedInv
<1>3. CASE BootStep
  <2>1. UNCHANGED <<pending, cpu, inService, result, given>> /\ panic' # "unhandled"
    BY <1>2, <1>3 DEF BootStep, LapicSystemInit, PciSystemInit, IoApicSystemRetrieveIoApics,
                IoApicSystemRetrieveInterruptOverrides, RetrievePciDevices, LegacyInit, AcpiInterfaceLateInit,
                IoApicSystemRetrievePrtEntries, IoApicSystemEnableRegisteredInterrupts, BootTo, regVars, cpuVars
  <2>. QED  BY <1>1, <2>1
<1>4. ASSUME NEW c \in Cpus, CpuStep(c) PROVE ServedInv'
  <2>1. CASE Lookup(c) \/ ChooseVector(c) \/ InstallHandler(c) \/ ProgramSource(c)
    <3>1. UNCHANGED <<cpuVars, result, given>> /\ panic' # "unhandled"
      BY <1>2, <2>1 DEF Lookup, ChooseVector, InstallHandler, ProgramSource
    <3>. QED  BY <1>1, <3>1 DEF cpuVars
  <2>. QED  BY <1>4, <2>1, RegisterDoneServed, RunHandlersServed DEF CpuStep, RegisterStep
<1>5. ASSUME NEW c \in Cpus, NEW r \in R, IomuRegisterInterrupt(c, r) PROVE ServedInv'
  BY <1>1, <1>2, <1>5 DEF IomuRegisterInterrupt, cpuVars
<1>6. ASSUME NEW r \in R, Raise(r) PROVE ServedInv'
  <2>1. /\ result[r] = "ok" /\ pending' = pending \cup {r}
        /\ UNCHANGED <<cpu, inService, panic, result, given>>
    BY <1>6 DEF Raise, regVars
  <2>. QED  BY <2>1 DEF ServedInv, SameSource
<1>7. CASE UNCHANGED vars
  BY <1>1, <1>2, <1>7 DEF vars, cpuVars, regVars
<1>. QED
  BY <1>3, <1>4, <1>5, <1>6, <1>7, DeliverServed, DeliverSpuriousServed DEF Next, R

(* As long as no IRQL runs out of vectors, on a machine that its tables    *)
(* describe, whose devices with MSI have one driver each, and nothing is   *)
(* registered at the IRQL of the legacy PICs: lines are quiet during the   *)
(* boot, an interrupt is acknowledged once, and the assertion of           *)
(* _IsrInterruptHandler that some handler of the vector claimed holds,     *)
(* whatever CPUs serve the vector at once.                                 *)
THEOREM DeliveryCorrect ==
    ASSUME OneDriverPerMsi, PicVectorsUnused
    PROVE  Spec /\ []TablesRight /\ []VectorsLeft => []DeliverySound
<1>1. Init => IntrInv /\ RoutedInv /\ OwnPart /\ ServedInv
  BY IntrInit, ClaimInit
<1>2. IntrInv /\ RoutedInv /\ OwnPart /\ ServedInv /\ TablesRight /\ VectorsLeft /\ [Next]_vars
        => IntrInv' /\ RoutedInv' /\ OwnPart' /\ ServedInv'
  BY IntrNext, OwnNext, ServedNext DEF OwnPart
<1>3. IntrInv /\ ServedInv => DeliverySound
  BY DEF IntrInv, MaskInv, ServiceInv, ServedInv, QuietAtBoot, ServiceMatched, NoUnclaimedInterrupt, DeliverySound
<1>. QED  BY <1>1, <1>2, <1>3, PTL DEF Spec
----------------------------------------------------------------------------
Aligned(reg0, width) == reg0 \in 0 .. Space - 1 /\ width \in {1, 2, 4, 8} /\ reg0 % width = 0

(* Where an aligned register lies in its DWORD.                            *)
LEMMA DwordFacts ==
    ASSUME NEW reg0 \in Nat, NEW width \in 1 .. 8, Aligned(reg0, width)
    PROVE  /\ width \in {1, 2, 4, 8}
           /\ \E d \in Nat, s \in 0 .. 3 :
                /\ d = Dword(reg0) /\ s = reg0 - d /\ reg0 = d + s /\ d + 4 <= Space /\ reg0 + width <= Space
                /\ width < 8 => s + width <= 4
                /\ width >= 4 => s = 0
<1>. USE DEF Aligned
<1>1. Space \in Nat /\ Space % 8 = 0
  BY PciAssumption
<1>2. PICK q \in Int, s \in 0 .. 3 : reg0 = 4 * q + s /\ q = reg0 \div 4
  BY <1>1
<1>3. Dword(reg0) = 4 * q /\ Dword(reg0) \in Nat /\ reg0 - Dword(reg0) = s
  BY <1>1, <1>2 DEF Dword
<1>4. PICK n \in Nat : Space = 8 * n
  BY <1>1
<1>5. 4 * q + 4 <= Space
  BY <1>2, <1>4
<1>6. CASE width = 1
  BY <1>1, <1>2, <1>3, <1>5, <1>6
<1>7. CASE width = 2
  <2>1. PICK k \in Int : reg0 = 2 * k
    BY <1>1, <1>7
  <2>2. s \in {0, 2}
    BY <1>2, <2>1
  <2>. QED  BY <1>1, <1>2, <1>3, <1>4, <1>5, <1>7, <2>1, <2>2
<1>8. CASE width = 4
  <2>1. s = 0
    BY <1>2, <1>8
  <2>. QED  BY <1>1, <1>2, <1>3, <1>5, <1>8, <2>1
<1>9. CASE width = 8
  <2>1. PICK k \in Int : reg0 = 8 * k
    BY <1>1, <1>9
  <2>2. s = 0 /\ reg0 + 8 <= Space
    BY <1>1, <1>2, <1>4, <2>1
  <2>. QED  BY <1>1, <1>2, <1>3, <1>5, <1>9, <2>2
<1>. QED  BY <1>6, <1>7, <1>8, <1>9

(* PciSystemWriteConfigurationSpaceGeneric writes the addressed bytes of   *)
(* any contents, at any width and alignment, and no other.                 *)
LEMMA WriteExact ==
    ASSUME NEW cfg, DOMAIN cfg = 1 .. Space, NEW reg0 \in Nat, NEW width \in 1 .. 8, Aligned(reg0, width), NEW val
    PROVE  \A b \in 1 .. Space : PciSystemWriteConfigurationSpaceGeneric(cfg, reg0, width, val)[b]
                                   = IF b \in reg0 + 1 .. reg0 + width THEN val[b - reg0] ELSE cfg[b]
<1>1. PICK d \in Nat, s \in 0 .. 3 :
        /\ d = Dword(reg0) /\ s = reg0 - d /\ reg0 = d + s /\ d + 4 <= Space /\ reg0 + width <= Space
        /\ width < 8 => s + width <= 4
        /\ width >= 4 => s = 0
  BY DwordFacts
<1>a. d = Dword(reg0) /\ s = reg0 - Dword(reg0)
  BY <1>1, Zenon
<1>b. reg0 = d + s /\ reg0 + width <= Space /\ (width < 8 => s + width <= 4) /\ (width >= 4 => s = 0)
  BY <1>1, Zenon
<1>c. d + 4 <= Space /\ width \in {1, 2, 4, 8}
  BY <1>1, Zenon DEF Aligned
<1>0. Space \in Nat
  BY PciAssumption
<1>2. PICK low : low = [b \in 1 .. 4 |-> IF width >= 4 THEN val[b]
                                         ELSE IF b \in s + 1 .. s + width THEN val[b - s]
                                         ELSE ReadDword(cfg, d)[b]]
  OBVIOUS
<1>3. CASE width < 8
  <2>1. PciSystemWriteConfigurationSpaceGeneric(cfg, reg0, width, val) = WriteDword(cfg, d, low)
    BY <1>a, <1>b, <1>2, <1>3 DEF PciSystemWriteConfigurationSpaceGeneric
  <2>2. width \in 1 .. 4 /\ s + width <= 4
    BY <1>0, <1>b, <1>c, <1>3
  <2>3. WriteDword(cfg, d, low)
          = [b \in 1 .. Space |-> IF b \in d + s + 1 .. d + s + width THEN val[b - (d + s)] ELSE cfg[b]]
    <3>1. Space \in Nat
      BY PciAssumption
    <3>3. \A b \in 1 .. 4 : ReadDword(cfg, d)[b] = cfg[d + b]
      BY DEF ReadDword
    <3>4. ASSUME NEW b \in 1 .. 4
          PROVE  low[b] = IF b \in s + 1 .. s + width THEN val[b - s] ELSE cfg[d + b]
      <4>1. CASE width >= 4
        BY <1>2, <1>b, <2>2, <4>1
      <4>2. CASE width < 4
        BY <1>2, <1>b, <2>2, <3>3, <4>2
      <4>. QED  BY <4>1, <4>2
    <3>5. WriteDword(cfg, d, low) = [b \in 1 .. Space |-> IF b \in d + 1 .. d + 4 THEN low[b - d] ELSE cfg[b]]
      BY DEF WriteDword
    <3>6. ASSUME NEW b \in 1 .. Space
          PROVE  (IF b \in d + 1 .. d + 4 THEN low[b - d] ELSE cfg[b])
                   = IF b \in d + s + 1 .. d + s + width THEN val[b - (d + s)] ELSE cfg[b]
      <4>1. CASE b \in d + 1 .. d + 4
        <5>1. /\ b - d \in 1 .. 4 /\ d + (b - d) = b /\ (b - d) - s = b - (d + s)
              /\ b - d \in s + 1 .. s + width <=> b \in d + s + 1 .. d + s + width
          BY <3>1, <4>1
        <5>. QED  BY <3>4, <4>1, <5>1
      <4>2. CASE b \notin d + 1 .. d + 4
        <5>1. b \notin d + s + 1 .. d + s + width
          BY <2>2, <3>1, <4>2
        <5>. QED  BY <4>2, <5>1
      <4>. QED  BY <4>1, <4>2
    <3>. QED  BY <3>5, <3>6
  <2>. QED  BY <1>b, <2>1, <2>3
<1>4. CASE width = 8
  <2>1. PciSystemWriteConfigurationSpaceGeneric(cfg, reg0, width, val)
          = WriteDword(WriteDword(cfg, d, low), d + 4, SubSeq(val, 5, 8))
    BY <1>a, <1>b, <1>2, <1>4 DEF PciSystemWriteConfigurationSpaceGeneric
  <2>2. \A b \in 1 .. 4 : low[b] = val[b]
    BY <1>2, <1>4
  <2>3. reg0 = d /\ d + 8 <= Space
    BY <1>0, <1>b, <1>4
  <2>4. WriteDword(WriteDword(cfg, d, low), d + 4, SubSeq(val, 5, 8))
          = [b \in 1 .. Space |-> IF b \in d + 1 .. d + 8 THEN val[b - d] ELSE cfg[b]]
    <3>1. Space \in Nat
      BY PciAssumption
    <3>2. PICK high : high = SubSeq(val, 5, 8)
      OBVIOUS
    <3>3. high = [b \in 1 .. 8 - 5 + 1 |-> val[5 + b - 1]]
      BY <3>2
    <3>4. \A b \in 1 .. 4 : high[b] = val[b + 4]
      BY <3>3
    <3>5. PICK first : first = [b \in 1 .. Space |-> IF b \in d + 1 .. d + 4 THEN low[b - d] ELSE cfg[b]]
      OBVIOUS
    <3>6. WriteDword(cfg, d, low) = first
      BY <3>5 DEF WriteDword
    <3>7. WriteDword(first, d + 4, high)
            = [b \in 1 .. Space |-> IF b \in d + 4 + 1 .. d + 4 + 4 THEN high[b - (d + 4)] ELSE first[b]]
      BY <3>5 DEF WriteDword
    <3>8. ASSUME NEW b \in 1 .. Space
          PROVE  (IF b \in d + 4 + 1 .. d + 4 + 4 THEN high[b - (d + 4)] ELSE first[b])
                   = IF b \in d + 1 .. d + 8 THEN val[b - d] ELSE cfg[b]
      <4>1. CASE b \in d + 4 + 1 .. d + 4 + 4
        <5>1. b - (d + 4) \in 1 .. 4 /\ (b - (d + 4)) + 4 = b - d /\ b \in d + 1 .. d + 8
          BY <3>1, <4>1
        <5>. QED  BY <3>4, <4>1, <5>1
      <4>2. CASE b \in d + 1 .. d + 4
        <5>1. b - d \in 1 .. 4 /\ b \in d + 1 .. d + 8 /\ b \notin d + 4 + 1 .. d + 4 + 4
          BY <3>1, <4>2
        <5>. QED  BY <2>2, <3>5, <4>2, <5>1
      <4>3. CASE b \notin d + 1 .. d + 4 /\ b \notin d + 4 + 1 .. d + 4 + 4
        <5>1. b \notin d + 1 .. d + 8
          BY <3>1, <4>3
        <5>. QED  BY <3>5, <4>3, <5>1
      <4>. QED  BY <4>1, <4>2, <4>3
    <3>. QED  BY <3>2, <3>6, <3>7, <3>8
  <2>. QED  BY <1>4, <2>1, <2>3, <2>4, Zenon
<1>. QED  BY <1>3, <1>4

(* PciSystemReadConfigurationSpaceGeneric returns the addressed bytes.     *)
LEMMA ReadExact ==
    ASSUME NEW cfg, NEW reg0 \in Nat, NEW width \in 1 .. 8, Aligned(reg0, width)
    PROVE  PciSystemReadConfigurationSpaceGeneric(cfg, reg0, width) = [b \in 1 .. width |-> cfg[reg0 + b]]
<1>1. PICK d \in Nat, s \in 0 .. 3 :
        /\ d = Dword(reg0) /\ s = reg0 - d /\ reg0 = d + s
        /\ width < 8 => s + width <= 4
        /\ width >= 4 => s = 0
  BY DwordFacts
<1>a. d = Dword(reg0) /\ s = reg0 - Dword(reg0)
  BY <1>1, Zenon
<1>b. reg0 = d + s /\ (width < 8 => s + width <= 4) /\ (width >= 4 => s = 0)
  BY <1>1, Zenon
<1>2. PICK low, high : low = [b \in 1 .. 4 |-> cfg[d + b]] /\ high = [b \in 1 .. 4 |-> cfg[d + 4 + b]]
  OBVIOUS
<1>3. ReadDword(cfg, d) = low /\ ReadDword(cfg, d + 4) = high
  BY <1>2 DEF ReadDword
<1>4. CASE width < 8
  <2>1. PciSystemReadConfigurationSpaceGeneric(cfg, reg0, width) = SubSeq(low, s + 1, s + width)
    BY <1>a, <1>3, <1>4 DEF PciSystemReadConfigurationSpaceGeneric
  <2>2. SubSeq(low, s + 1, s + width) = [b \in 1 .. (s + width) - (s + 1) + 1 |-> low[(s + 1) + b - 1]]
    OBVIOUS
  <2>3. (s + width) - (s + 1) + 1 = width
    OBVIOUS
  <2>4. \A b \in 1 .. width : low[(s + 1) + b - 1] = cfg[reg0 + b]
    <3>. SUFFICES ASSUME NEW b \in 1 .. width PROVE low[(s + 1) + b - 1] = cfg[reg0 + b]
      OBVIOUS
    <3>1. (s + 1) + b - 1 \in 1 .. 4 /\ d + ((s + 1) + b - 1) = reg0 + b
      BY <1>b, <1>4
    <3>. QED  BY <1>2, <3>1
  <2>. QED  BY <2>1, <2>2, <2>3, <2>4
<1>5. CASE width = 8
  <2>0. d = reg0 /\ ~(width < 8)
    BY <1>b, <1>5
  <2>1. PciSystemReadConfigurationSpaceGeneric(cfg, reg0, width) = low \o high
    BY <1>a, <1>3, <2>0, Zenon DEF PciSystemReadConfigurationSpaceGeneric
  <2>2. low \o high = [b \in 1 .. 8 |-> cfg[d + b]]
    BY <1>2
  <2>. QED  BY <1>5, <2>0, <2>1, <2>2
<1>. QED  BY <1>4, <1>5
(***************************************************************************)
(* THEOREM.  PciSystemWriteConfigurationSpaceGeneric and                   *)
(* PciSystemReadConfigurationSpaceGeneric, which access the space one      *)
(* DWORD at a time and merge narrower values into it, change exactly the   *)
(* addressed bytes and return them, at every width and aligned register.   *)
(***************************************************************************)
THEOREM ConfigurationExact == Spec => []ConfigExact
<1>1. ASSUME NEW width \in {1, 2, 4, 8}, NEW reg0 \in 0 .. Space - 1, reg0 % width = 0
      PROVE  LET cfg == [b \in 1 .. Space |-> b]
                 val == [b \in 1 .. width |-> Space + b]
                 after == PciSystemWriteConfigurationSpaceGeneric(cfg, reg0, width, val)
             IN  /\ PciSystemReadConfigurationSpaceGeneric(after, reg0, width) = val
                 /\ \A b \in 1 .. Space : after[b] # cfg[b] => b \in reg0 + 1 .. reg0 + width
  <2>. DEFINE cfg == [b \in 1 .. Space |-> b]
              val == [b \in 1 .. width |-> Space + b]
              after == PciSystemWriteConfigurationSpaceGeneric(cfg, reg0, width, val)
  <2>1. /\ Space \in Nat /\ reg0 \in Nat /\ width \in 1 .. 8 /\ DOMAIN cfg = 1 .. Space
        /\ Aligned(reg0, width)
    BY <1>1, PciAssumption DEF Aligned
  <2>2. val = [b \in 1 .. width |-> val[b]]
    OBVIOUS
  <2>. HIDE DEF cfg, val
  <2>3. \A b \in 1 .. Space : after[b] = IF b \in reg0 + 1 .. reg0 + width THEN val[b - reg0] ELSE cfg[b]
    BY <2>1, WriteExact
  <2>. HIDE DEF after
  <2>4. PciSystemReadConfigurationSpaceGeneric(after, reg0, width) = [b \in 1 .. width |-> after[reg0 + b]]
    BY <2>1, ReadExact
  <2>5. reg0 + width <= Space
    BY <2>1, DwordFacts
  <2>6. ASSUME NEW b \in 1 .. width
        PROVE  after[reg0 + b] = val[b]
    <3>1. reg0 + b \in 1 .. Space /\ reg0 + b \in reg0 + 1 .. reg0 + width /\ (reg0 + b) - reg0 = b
      BY <2>1, <2>5
    <3>. QED  BY <2>3, <3>1
  <2>7. [b \in 1 .. width |-> after[reg0 + b]] = val
    BY <2>2, <2>6
  <2>8. /\ PciSystemReadConfigurationSpaceGeneric(after, reg0, width) = val
        /\ \A b \in 1 .. Space : after[b] # cfg[b] => b \in reg0 + 1 .. reg0 + width
    BY <2>3, <2>4, <2>7
  <2>. QED  BY <2>8, Zenon DEF after, cfg, val
<1>2. ConfigExact
  BY <1>1, Zenon DEF ConfigExact
<1>. QED  BY <1>2, PTL
=============================================================================
