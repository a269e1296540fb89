--------------------------------- MODULE Pci ---------------------------------
(***************************************************************************)
(* The PCI functions of the machine (pci_system.c and the lookups of       *)
(* io_devices.c): the root complexes of the MCFG table, the list of        *)
(* functions built at boot, the bridges above them, and the reads and      *)
(* writes of the configuration space.                                      *)
(*                                                                         *)
(* A location is <<bus, device, function>>.  The registers of a function   *)
(* are a sequence of bytes; a DWORD is four of them, the low byte first.   *)
(***************************************************************************)
EXTENDS Integers, Sequences, FiniteSets, SequencesExt

CONSTANTS
    Complexes,      \* bus ranges of the MCFG table, empty for plain PCI
    Hardware,       \* the functions of the machine, in the order a scan meets them
    Space           \* bytes of configuration space of a function

ASSUME PciAssumption ==
    /\ \A c \in ToSet(Complexes) : c.first \in Nat /\ c.last \in Nat
    /\ \A f \in ToSet(Hardware) :
        f.loc \in Nat \X Nat \X Nat /\ Len(f.id) = 4 /\ f.secondary \in Nat /\ f.pin \in 0 .. 4 /\ f.msi \in BOOLEAN
    /\ Space \in Nat /\ Space % 8 = 0

Bus(loc) == loc[1]

NoParent == 0

\* The scan of one root complex, or of all the buses with plain PCI.
Scan(k) == IF Complexes = << >>
           THEN Hardware
           ELSE SelectSeq(Hardware, LAMBDA f : Complexes[k].first <= Bus(f.loc) /\ Bus(f.loc) <= Complexes[k].last)

Scans == IF Complexes = << >> THEN {1} ELSE DOMAIN Complexes

----------------------------------------------------------------------------
(***************************************************************************)
(* Enumeration.  got[k] functions of scan k were retrieved before a        *)
(* retrieval failed.  A later scan that succeeds overwrites the status.    *)
(***************************************************************************)

PciSystemRetrieveDevices(got) ==
    [devices |-> FlattenSeq([k \in 1 .. Cardinality(Scans) |-> SubSeq(Scan(k), 1, got[k])]),
     ok |-> got[Cardinality(Scans)] = Len(Scan(Cardinality(Scans)))]

Retrievals == {g \in [Scans -> 0 .. Len(Hardware)] : \A k \in Scans : g[k] <= Len(Scan(k))}

IsBridge(f) == f.secondary # 0


(***************************************************************************)
(* The parent of device i: the first bridge met up to i, i included, whose *)
(* secondary bus is the bus of i; bus 0 has no parent.                     *)
(***************************************************************************)
PciSystemRetrieveParentForDevice(devs, i) ==
    SelectInSeq(SubSeq(devs, 1, i), LAMBDA f : IsBridge(f) /\ f.secondary = Bus(devs[i].loc))

PciSystemEstablishHierarchy(devs) ==
    [i \in DOMAIN devs |->
        IF Bus(devs[i].loc) = 0 THEN NoParent ELSE PciSystemRetrieveParentForDevice(devs, i)]

\* NOT_REACHED in PciSystemEstablishHierarchy: a function whose bridge is not in the list before it.
Orphans(devs) ==
    {i \in DOMAIN devs : Bus(devs[i].loc) # 0 /\ PciSystemRetrieveParentForDevice(devs, i) = NoParent}

----------------------------------------------------------------------------
(***************************************************************************)
(* Lookups by location or by <<class, subclass, vendor, device>>.  A       *)
(* pattern gives, for each part, a number or the Wildcard.  Functions      *)
(* are written to the buffer unless there is none; size is what            *)
(* *NumberOfDevices says the buffer holds.                                 *)
(***************************************************************************)

Wildcard == -1

NoBuffer == -1

Matches(parts, pattern) == \A p \in DOMAIN pattern : pattern[p] \in {Wildcard, parts[p]}

\* The entry with index size is still written: the code compares with >.
FindDevices(found, size) ==
    LET full == size # NoBuffer /\ Len(found) > size + 1
    IN  [status |-> IF full THEN "small" ELSE IF found = << >> THEN "none" ELSE "ok",
         count |-> IF full THEN size ELSE Len(found),
         written |-> IF size = NoBuffer THEN << >> ELSE IF full THEN SubSeq(found, 1, size + 1) ELSE found]

PciSystemFindDevicesMatchingSpecification(devs, pattern, size) ==
    FindDevices(SelectSeq(devs, LAMBDA f : Matches(f.id, pattern)), size)

PciSystemFindDevicesMatchingLocation(devs, pattern, size) ==
    FindDevices(SelectSeq(devs, LAMBDA f : Matches(f.loc, pattern)), size)

\* The callers count, allocate, and look again.
TwoPass(counted, second) ==
    IF counted.status # "ok" THEN [status |-> counted.status, allocated |-> 0, written |-> << >>]
    ELSE [status |-> second.status, allocated |-> counted.count, written |-> second.written]

IoGetPciDevicesMatchingSpecification(devs, pattern) ==
    LET counted == PciSystemFindDevicesMatchingSpecification(devs, pattern, NoBuffer)
    IN  TwoPass(counted, PciSystemFindDevicesMatchingSpecification(devs, pattern, counted.count))

\* IoGetPciSecondaryBusForBridge passes a buffer of one entry and, as its size, 0.
IoGetPciSecondaryBusForBridge(devs, loc) ==
    LET r == PciSystemFindDevicesMatchingLocation(devs, loc, 0)
    IN  CASE r.status # "ok" -> [status |-> r.status, bus |-> 0]
          [] r.status = "ok" /\ ~IsBridge(r.written[1]) -> [status |-> "type", bus |-> 0]
          [] OTHER -> [status |-> "ok", bus |-> r.written[1].secondary]

----------------------------------------------------------------------------
(***************************************************************************)
(* Configuration space: registers are read and written as aligned DWORDs.  *)
(* reg is a byte offset, width a number of bytes; a value is a sequence of *)
(* width bytes.                                                            *)
(***************************************************************************)

Dword(reg) == (reg \div 4) * 4

ReadDword(cfg, reg) == [b \in 1 .. 4 |-> cfg[reg + b]]

WriteDword(cfg, reg, val) == [b \in DOMAIN cfg |-> IF b \in reg + 1 .. reg + 4 THEN val[b - reg] ELSE cfg[b]]

\* _PciSystemReadConfigurationSpace refuses what lies past the space or behind no root complex.
Reachable(loc, reg) ==
    /\ reg < Space
    /\ Complexes # << >> => \E c \in ToSet(Complexes) : c.first <= Bus(loc) /\ Bus(loc) <= c.last

PciSystemReadConfigurationSpaceGeneric(cfg, reg, width) ==
    LET shift == reg - Dword(reg)
        low == ReadDword(cfg, Dword(reg))
    IN  IF width < 8 THEN SubSeq(low, shift + 1, shift + width) ELSE low \o ReadDword(cfg, reg + 4)

\* A BYTE or a WORD is merged into the DWORD read before; wider values need no reading.
PciSystemWriteConfigurationSpaceGeneric(cfg, reg, width, val) ==
    LET shift == reg - Dword(reg)
        old == ReadDword(cfg, Dword(reg))
        low == [b \in 1 .. 4 |-> IF width >= 4 THEN val[b]
                                 ELSE IF b \in shift + 1 .. shift + width THEN val[b - shift]
                                 ELSE old[b]]
        first == WriteDword(cfg, Dword(reg), low)
    IN  IF width < 8 THEN first ELSE WriteDword(first, reg + 4, SubSeq(val, 5, 8))

=============================================================================
