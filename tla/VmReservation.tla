--------------------------- MODULE VmReservation ---------------------------
(***************************************************************************)
(* A virtual address reservation space (vm_reservation_space.c): the array *)
(* of reservations, the pointer that hands out fresh addresses and the     *)
(* pointer that hands out pages for the commit bitmaps.  Addresses and     *)
(* sizes count pages.  The operators are pure; Vmm runs them under the     *)
(* locks the code takes.                                                   *)
(***************************************************************************)
EXTENDS Integers, Sequences, FiniteSets

CONSTANTS
    StartVa,        \* StartOfVirtualAddressSpace
    MaxBitmaps,     \* pages for commit bitmaps in the metadata area
    NoFile          \* a NULL BackingFile

ASSUME VmReservationAssumption ==
    /\ StartVa \in Nat /\ StartVa > 0
    /\ MaxBitmaps \in Nat /\ MaxBitmaps > 0

PageRun(va, n) == va .. va + n - 1

\* A zeroed VMM_RESERVATION in one of the states Free and Last.
EmptyEntry(state) ==
    [state |-> state, start |-> 0, size |-> 0, attr |-> "none",
     file |-> NoFile, commit |-> {}, bitmap |-> 0]

\* A space after VmReservationSpaceInit and VmReservationSpaceFinishInit.
VmReservationSpaceInit ==
    [list |-> <<EmptyEntry("Last")>>, next |-> StartVa, bitmaps |-> 0]

\* Slots that _VmFindReservation visits: up to the Last entry, or to the end of
\* the array when there is none.
Visited(sp) ==
    {i \in DOMAIN sp.list : \A j \in 1 .. i : sp.list[j].state # "Last"}

Used(sp) == {i \in Visited(sp) : sp.list[i].state = "Used"}

\* Used entries that contain the whole range.
Containing(sp, va, n) ==
    {i \in Used(sp) : PageRun(va, n) \subseteq
                         PageRun(sp.list[i].start, sp.list[i].size)}

\* The first of them, or 0 for STATUS_ELEMENT_NOT_FOUND.
VmFindReservation(sp, va, n) ==
    LET found == Containing(sp, va, n)
    IN  IF found = {} THEN 0
        ELSE CHOOSE i \in found : \A j \in found : i <= j

\* The first slot that is Free or Last; the Last mark moves one further.
VmFindFirstFreeReservation(sp) ==
    CHOOSE i \in DOMAIN sp.list :
        /\ sp.list[i].state # "Used"
        /\ \A j \in 1 .. i - 1 : sp.list[j].state = "Used"

\* The VMM_RESERVATION of a fresh reservation; its commit bitmap takes the next
\* bitmap page, which is never given out again.
VmInitializeReservation(sp, va, n, attr, file) ==
    [state |-> "Used", start |-> va, size |-> n, attr |-> attr,
     file |-> file, commit |-> {}, bitmap |-> sp.bitmaps + 1]

\* _VmChangeVaReservationState with VMM_ALLOC_TYPE_RESERVE.
CanReserve(sp, va, n) == VmFindReservation(sp, va, n) = 0

ReserveIn(sp, va, n, attr, file) ==
    LET i     == VmFindFirstFreeReservation(sp)
        entry == VmInitializeReservation(sp, va, n, attr, file)
        list  == [sp.list EXCEPT ![i] = entry]
    IN  [sp EXCEPT !.bitmaps = @ + 1,
                   !.list = IF sp.list[i].state = "Last"
                            THEN Append(list, EmptyEntry("Last")) ELSE list]

\* _VmChangeVaReservationState with VMM_ALLOC_TYPE_COMMIT: the rights and the
\* caching asked for must be those of the reservation.
CanCommit(sp, va, n, attr) ==
    LET i == VmFindReservation(sp, va, n)
    IN  i # 0 /\ sp.list[i].attr = attr

VmCommitReservation(sp, va, n) ==
    [sp EXCEPT !.list[VmFindReservation(sp, va, n)].commit = @ \cup PageRun(va, n)]
\* The reservation is looked up by the first page alone.
VmDecommitReservation(sp, va, n) ==
    [sp EXCEPT !.list[VmFindReservation(sp, va, 1)].commit = @ \ PageRun(va, n)]
\* VMM_FREE_TYPE_RELEASE: the entry is copied, zeroed and marked Free.
RemoveReservation(sp, va) ==
    [sp EXCEPT !.list[VmFindReservation(sp, va, 1)] = EmptyEntry("Free")]

VmIsVaCommited(entry, va) == va \in entry.commit

RightsOf(attr) ==
    CASE attr = "rw" -> {"read", "write"}
      [] attr = "ro" -> {"read"}
      [] OTHER       -> {}

\* VmReservationCanAddressBeAccessed for an address outside the metadata: it
\* must be committed with at least the rights the access needs.
VmReservationCanAddressBeAccessed(sp, va, rights) ==
    LET i == VmFindReservation(sp, va, 1)
    IN  /\ i # 0
        /\ VmIsVaCommited(sp.list[i], va)
        /\ rights \subseteq RightsOf(sp.list[i].attr)
\* VmReservationReturnRightsForAddress for a buffer of `size' bytes at the byte
\* address `addr', with `page' bytes to a page: the reservation must contain the
\* buffer and the bytes addr, addr + page, ... below its end must be committed.
\* {} stands for the statuses that refuse.
VmReservationReturnRightsForAddress(sp, addr, size, page) ==
    LET first == addr \div page
        last  == (addr + size - 1) \div page
        i     == VmFindReservation(sp, first, last - first + 1)
        probed == {(addr + k * page) \div page : k \in {j \in 0 .. size : j * page < size}}
    IN  IF i # 0 /\ \A p \in probed : VmIsVaCommited(sp.list[i], p)
        THEN RightsOf(sp.list[i].attr) ELSE {}

\* VmmIsBufferValid for a buffer of the kernel: all the rights asked for.
VmmIsBufferValid(sp, addr, size, page, rights) ==
    LET granted == VmReservationReturnRightsForAddress(sp, addr, size, page)
    IN  granted # {} /\ rights \subseteq granted

\* Two entries that describe a common page.
Overlap(e1, e2) == PageRun(e1.start, e1.size) \cap PageRun(e2.start, e2.size) # {}
=============================================================================
