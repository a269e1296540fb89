-------------------------------- MODULE Vmm --------------------------------
(***************************************************************************)
(* The virtual memory manager at work (vmm.c, mmu.c, with the reservation  *)
(* space of vm_reservation_space.c and the frames of pmm.c): kernel        *)
(* threads on several processors allocate, free, decommit and touch        *)
(* regions of the kernel's address space, and the page zeroer gives        *)
(* released frames back.                                                   *)
(*                                                                         *)
(* A step is what happens under one lock or one interlocked operation;     *)
(* what happens under the paging lock is one step, since nothing else      *)
(* reads or writes the page tables.  A thread holding a spinlock, or       *)
(* inside the page fault handler, runs with interrupts off and stays on    *)
(* its processor; otherwise it may be preempted and resume on another one. *)
(*                                                                         *)
(* Clients keep the discipline the kernel's own clients keep: a region is  *)
(* freed, decommitted or committed again only while nobody else uses it.   *)
(* A caller that chooses an address itself may choose any, also one the    *)
(* manager hands out or has handed out.                                    *)
(***************************************************************************)
EXTENDS Pmm, VmReservation

CONSTANTS
    Threads, Cpus,
    Files,          \* files that can back a region
    MaxVa,          \* bound: last page FreeVirtualAddressPointer may hand out
    FixedBases,     \* base addresses callers choose themselves
    MaxPages,       \* bound: pages per region
    Nobody          \* no thread, no processor

ASSUME VmmAssumption ==
    /\ MaxVa \in Nat /\ MaxVa >= StartVa
    /\ MaxPages \in Nat /\ MaxPages > 0
    /\ FixedBases \subseteq Nat \ {0}
    /\ Nobody \notin Threads \cup Cpus
    /\ IsFiniteSet(Threads) /\ Cardinality(Threads) <= Cardinality(Cpus)
    /\ NoFile \notin Files

VARIABLES
    space,          \* m_vmmData.VmmReservationSpace
    reslock,        \* holder of ReservationLock, exclusively
    pt,             \* page tables: the frame each page maps, or NoFrame
    access,         \* VmmMemoryAccess of each processor
    on,             \* the processor that runs each thread
    pc, op,         \* where each thread is, and its arguments and locals
    zlist,          \* PagesToZeroList, whose order is left out
    newPages,       \* NewPagesEvent is signaled
    zpc, zitem,     \* the page zeroer thread
    open,           \* files opened and not yet closed
    dirty,          \* frames mapped since they were last zeroed: their user may
                    \* have written them
    lost,           \* ghost: frames whose mapping was overwritten by another
    given,          \* ghost: frames left reserved for a process (Release = FALSE)
    met,            \* ghost: pages on which two faults were open at once
    moved,          \* ghost: a thread changed processor with VmmMemoryAccess set
    crossed,        \* ghost: a reservation was asked for over pages of another
                    \* one or of an operation under way
    panic           \* the assertion that stopped the system

vars == <<bitmap, space, reslock, pt, access, on, pc, op, zlist,
          newPages, zpc, zitem, open, dirty, lost, given, met, moved, crossed,
          panic>>

zvars   == <<zlist, newPages, zpc, zitem>>
ghosts  == <<lost, given, met, moved, crossed>>

\* Pages of regions, and below zero the pages of the commit bitmaps.
RegionPages == (StartVa .. MaxVa) \cup UNION {PageRun(b, MaxPages) : b \in FixedBases}
BitmapPages == {-k : k \in 1 .. MaxBitmaps}
Pages == RegionPages \cup BitmapPages

\* addr is the address the caller gave, va and n the pages concerned.
NoOp == [kind |-> "none", addr |-> 0, va |-> 0, n |-> 0, type |-> {}, attr |-> "none",
         file |-> NoFile, frame |-> NoFrame, cpu |-> Nobody, bitmap |-> 0,
         release |-> FALSE]

Init ==
    /\ bitmap = {0}
    /\ space = VmReservationSpaceInit
    /\ reslock = Nobody
    /\ pt = [p \in Pages |-> NoFrame]
    /\ access = [c \in Cpus |-> FALSE]
    /\ on = [t \in Threads |-> Nobody]
    /\ pc = [t \in Threads |-> "idle"]
    /\ op = [t \in Threads |-> NoOp]
    /\ zlist = {} /\ newPages = FALSE /\ zpc = "wait" /\ zitem = NoFrame
    /\ open = {} /\ dirty = {}
    /\ lost = {} /\ given = {} /\ met = {} /\ moved = FALSE /\ crossed = FALSE
    /\ panic = "none"

At(t, label) == on[t] # Nobody /\ pc[t] = label /\ panic = "none"

Goto(t, label) == pc' = [pc EXCEPT ![t] = label]

\* A thread begins an operation on a processor that is free for it.
CanBegin(t, c) == panic = "none" /\ pc[t] = "idle" /\ \A u \in Threads : on[u] # c

Begin(t, c, label, o) ==
    /\ on' = [on EXCEPT ![t] = c]
    /\ op' = [op EXCEPT ![t] = o]
    /\ Goto(t, label)

\* The operation is over: its locals go out of scope.
Return(t) ==
    /\ Goto(t, "idle")
    /\ op' = [op EXCEPT ![t] = NoOp]
    /\ on' = [on EXCEPT ![t] = Nobody]

Proceed(t, label, o) ==
    /\ Goto(t, label)
    /\ op' = [op EXCEPT ![t] = o]
    /\ UNCHANGED on

Panic(what) == panic' = what /\ UNCHANGED <<pc, op, on>>

\* Labels at which the thread runs with interrupts off.
Uninterruptible == {"aChange", "pCheck", "pFrame", "pMap", "pFill"}

\* Pages the operation of t concerns.
Concerns(t) == PageRun(op[t].va, op[t].n)

\* Nobody is in the middle of an operation on any of these pages.
Quiet(pages) == \A t \in Threads : Concerns(t) \cap pages = {}

-----------------------------------------------------------------------------
(* Scheduling: preemption may move a thread to another processor, in       *)
(* exchange for the thread that runs there.  A thread that has been        *)
(* preempted and waits for a processor is one that takes no step.          *)

Migrate(t, c) ==
    LET moving == {u \in Threads : u = t \/ on[u] = c}
    IN  /\ panic = "none"
        /\ on[t] \notin {Nobody, c}
        /\ \A u \in moving : pc[u] \notin Uninterruptible
        /\ on' = [u \in Threads |-> IF u = t THEN c
                                    ELSE IF on[u] = c THEN on[t] ELSE on[u]]
        /\ moved' = (moved \/ \E u \in moving : op[u].cpu # Nobody)
        /\ UNCHANGED <<bitmap, space, reslock, pt, access, pc, op, zvars,
                       open, dirty, lost, given, met, crossed, panic>>

-----------------------------------------------------------------------------
(* VmmAllocRegionEx.                                                       *)

\* Bound: the reservations made and under way fit in MaxBitmaps pages.
BitmapLeft ==
    LET reserving == {t \in Threads : pc[t] \in {"aLock", "aChange"}
                                        /\ "reserve" \in op[t].type}
    IN  space.bitmaps + Cardinality(reserving) < MaxBitmaps

\* The pages belong to a reservation, or to one on its way in or out.
Crosses(pages) ==
    \/ \E i \in Used(space) :
          PageRun(space.list[i].start, space.list[i].size) \cap pages # {}
    \/ ~Quiet(pages)

\* The checks and VmReservationSpaceDetermineNextFreeVirtualAddress, which
\* takes the address with one interlocked add and skips nothing.
AllocFresh(t, c, n, type, attr, file) ==
    /\ space.next + n - 1 <= MaxVa
    /\ BitmapLeft
    /\ space' = [space EXCEPT !.next = @ + n]
    /\ Begin(t, c, "aLock", [NoOp EXCEPT !.kind = "alloc", !.va = space.next,
                                !.n = n, !.type = type, !.attr = attr, !.file = file])
    /\ open' = open \cup ({file} \ {NoFile})
    /\ crossed' = (crossed \/ Crosses(PageRun(space.next, n)))
    /\ UNCHANGED <<bitmap, reslock, pt, access, zvars, dirty, lost, given, met,
                   moved, panic>>

\* A region at an address the caller chose, which is only checked not to lie
\* below the start of the space; pages committed again are the caller's own.
AllocAt(t, c, va, n, type, attr) ==
    /\ va >= StartVa
    /\ "reserve" \in type => BitmapLeft
    /\ "reserve" \notin type => Quiet(PageRun(va, n))
    /\ Begin(t, c, "aLock", [NoOp EXCEPT !.kind = "alloc", !.va = va, !.n = n,
                                !.type = type, !.attr = attr])
    /\ crossed' = (crossed \/ ("reserve" \in type /\ Crosses(PageRun(va, n))))
    /\ UNCHANGED <<bitmap, space, reslock, pt, access, zvars, open, dirty, lost,
                   given, met, moved, panic>>

\* ReservationLock is taken exclusively, then this processor announces that it
\* is going to touch the metadata.
AllocLock(t) ==
    /\ At(t, "aLock")
    /\ reslock = Nobody
    /\ reslock' = t
    /\ access' = [access EXCEPT ![on[t]] = TRUE]
    /\ Proceed(t, "aChange", [op[t] EXCEPT !.cpu = on[t]])
    /\ UNCHANGED <<bitmap, space, pt, zvars, open, dirty, ghosts, panic>>

\* The flag of the processor the section was entered on is cleared and the lock
\* given back.
DropReservationLock(t) ==
    /\ reslock' = Nobody
    /\ access' = [access EXCEPT ![op[t].cpu] = FALSE]

\* The state of the space once the range is also committed, when that was asked.
Committed(sp, o) ==
    IF "commit" \in o.type THEN VmCommitReservation(sp, o.va, o.n) ELSE sp

\* What follows the change: frames for an eager allocation, nothing otherwise.
AfterChange(t) ==
    IF "eager" \in op[t].type
    THEN Proceed(t, "aFrames", [op[t] EXCEPT !.cpu = Nobody]) ELSE Return(t)

\* VmReservationSpaceAllocRegion refuses: the range is inside a reservation that
\* exists, or, for a commit alone, is not, or has other rights.
AllocRefused(t) ==
    /\ At(t, "aChange")
    /\ IF "reserve" \in op[t].type THEN ~CanReserve(space, op[t].va, op[t].n)
       ELSE ~CanCommit(space, op[t].va, op[t].n, op[t].attr)
    /\ DropReservationLock(t)
    /\ Return(t)
    /\ UNCHANGED <<bitmap, space, pt, zvars, open, dirty, ghosts, panic>>

\* The reservation is written down.  BitmapInit touches a bitmap page nobody
\* has touched before: the fault is solved only if this processor has
\* VmmMemoryAccess set, with a frame of its own.
AllocReserve(t) ==
    LET o == op[t]
        f == PmmReserveMemoryEx(bitmap, 1, 0)
    IN  /\ At(t, "aChange")
        /\ "reserve" \in o.type
        /\ CanReserve(space, o.va, o.n)
        /\ IF access[on[t]] /\ f # NoFrame
           THEN /\ space' = Committed(ReserveIn(space, o.va, o.n, o.attr, o.file), o)
                /\ bitmap' = PmmReserved(bitmap, f, 1)
                /\ pt' = [pt EXCEPT ![-(space.bitmaps + 1)] = f]
                /\ dirty' = dirty \cup {f}
                /\ DropReservationLock(t)
                /\ AfterChange(t)
                /\ UNCHANGED panic
           ELSE /\ Panic(IF access[on[t]] THEN "frames" ELSE "metadata")
                /\ UNCHANGED <<bitmap, space, pt, dirty, reslock, access>>
        /\ UNCHANGED <<zvars, open, ghosts>>

\* A range of a reservation that exists is committed.
AllocCommit(t) ==
    /\ At(t, "aChange")
    /\ "reserve" \notin op[t].type
    /\ CanCommit(space, op[t].va, op[t].n, op[t].attr)
    /\ space' = VmCommitReservation(space, op[t].va, op[t].n)
    /\ DropReservationLock(t)
    /\ AfterChange(t)
    /\ UNCHANGED <<bitmap, pt, zvars, open, dirty, ghosts, panic>>

\* VMM_ALLOC_TYPE_NOT_LAZY: contiguous frames for the whole region.  When there
\* are none the function leaves with STATUS_SUCCESS and nothing mapped.
AllocFrames(t) ==
    LET f == PmmReserveMemoryEx(bitmap, op[t].n, 0)
    IN  /\ At(t, "aFrames")
        /\ bitmap' = PmmReserved(bitmap, f, op[t].n)
        /\ IF f = NoFrame THEN Return(t) ELSE Proceed(t, "aMap", [op[t] EXCEPT !.frame = f])
        /\ UNCHANGED <<space, reslock, pt, access, zvars, open, dirty, ghosts, panic>>
\* Mutant: the frames are mapped in reverse order.
AllocMapReversed(t) ==
    LET va == op[t].va
        pages == PageRun(va, op[t].n)
    IN  /\ At(t, "aMap")
        /\ pt' = [p \in Pages |-> IF p \in pages THEN op[t].frame + op[t].n - 1 - (p - va) ELSE pt[p]]
        /\ lost' = lost \cup ({pt[p] : p \in pages} \ {NoFrame})
        /\ dirty' = dirty \cup FrameRun(op[t].frame, op[t].n)
        /\ IF op[t].file = NoFile THEN Return(t) ELSE Proceed(t, "aRead", op[t])
        /\ UNCHANGED <<bitmap, space, reslock, access, zvars, open, given, met,
                       moved, crossed, panic>>

\* MmuMapMemoryInternal maps the whole range under the paging lock, over what
\* was there before (Invalidate is TRUE).
AllocMap(t) ==
    LET va == op[t].va
        pages == PageRun(va, op[t].n)
    IN  /\ At(t, "aMap")
        /\ pt' = [p \in Pages |-> IF p \in pages THEN op[t].frame + (p - va) ELSE pt[p]]
        /\ lost' = lost \cup ({pt[p] : p \in pages} \ {NoFrame})
        /\ dirty' = dirty \cup FrameRun(op[t].frame, op[t].n)
        /\ IF op[t].file = NoFile THEN Return(t) ELSE Proceed(t, "aRead", op[t])
        /\ UNCHANGED <<bitmap, space, reslock, access, zvars, open, given, met,
                       moved, crossed, panic>>

\* A region backed by a file is read eagerly and the rest of it zeroed; after a
\* failed read the region at its address is released, which also closes its file.
AllocRead(t) ==
    /\ At(t, "aRead")
    /\ \/ Return(t)
       \/ Proceed(t, "fLock", [op[t] EXCEPT !.kind = "free", !.addr = op[t].va,
                                  !.type = {"release", "undo"}, !.release = TRUE])
    /\ UNCHANGED <<bitmap, space, reslock, pt, access, zvars, open, dirty, ghosts, panic>>

-----------------------------------------------------------------------------
(* VmmFreeRegionEx.                                                        *)

\* Release the region that contains va, which nobody else uses; Release = FALSE
\* keeps its frames.
FreeRelease(t, c, va, release) ==
    LET i == VmFindReservation(space, va, 1)
        e == space.list[i]
    IN  /\ i # 0
        /\ Quiet(PageRun(e.start, e.size))
        /\ Begin(t, c, "fLock", [NoOp EXCEPT !.kind = "free", !.addr = va,
                    !.va = e.start, !.n = e.size, !.type = {"release"}, !.release = release])
        /\ UNCHANGED <<bitmap, space, reslock, pt, access, zvars, open, dirty,
                       ghosts, panic>>

\* Decommit n pages of a region from va.
FreeDecommit(t, c, va, n) ==
    /\ VmFindReservation(space, va, n) # 0
    /\ Quiet(PageRun(va, n))
    /\ Begin(t, c, "fLock", [NoOp EXCEPT !.kind = "free", !.addr = va, !.va = va,
                                !.n = n, !.type = {"decommit"}, !.release = TRUE])
    /\ UNCHANGED <<bitmap, space, reslock, pt, access, zvars, open, dirty, ghosts, panic>>
\* Mutant: a decommit closes the file as well.
FreeChangeClosesFile(t) ==
    LET o == op[t]
        i == VmFindReservation(space, o.addr, 1)
        e == space.list[i]
    IN  /\ At(t, "fLock")
        /\ reslock = Nobody
        /\ \/ /\ i = 0
              /\ Panic("free") /\ UNCHANGED <<space, access, open>>
           \/ /\ i # 0 /\ "release" \in o.type
              /\ space' = RemoveReservation(space, o.addr)
              /\ access' = [access EXCEPT ![on[t]] = TRUE]
              /\ Proceed(t, "fBitmap", [o EXCEPT !.va = e.start, !.n = e.size, !.file = e.file,
                                                 !.bitmap = e.bitmap, !.cpu = on[t]])
              /\ UNCHANGED <<open, panic>>
           \/ /\ i # 0 /\ "decommit" \in o.type
              /\ space' = VmDecommitReservation(space, o.va, o.n)
              /\ access' = [access EXCEPT ![on[t]] = FALSE]
              /\ Proceed(t, "fUnmap", o)
              /\ open' = open \ {e.file} /\ UNCHANGED panic
        /\ UNCHANGED <<bitmap, reslock, pt, zvars, dirty, ghosts>>

\* Under the lock, the region is looked up by the address given; that there is
\* one is an assertion.  A release takes the entry out and leaves with
\* VmmMemoryAccess still set; a decommit clears the bits and the flag.
FreeChange(t) ==
    LET o == op[t]
        i == VmFindReservation(space, o.addr, 1)
        e == space.list[i]
    IN  /\ At(t, "fLock")
        /\ reslock = Nobody
        /\ \/ /\ i = 0
              /\ Panic("free") /\ UNCHANGED <<space, access>>
           \/ /\ i # 0 /\ "release" \in o.type
              /\ space' = RemoveReservation(space, o.addr)
              /\ access' = [access EXCEPT ![on[t]] = TRUE]
              /\ Proceed(t, "fBitmap", [o EXCEPT !.va = e.start, !.n = e.size, !.file = e.file,
                                                 !.bitmap = e.bitmap, !.cpu = on[t]])
              /\ UNCHANGED panic
           \/ /\ i # 0 /\ "decommit" \in o.type
              /\ space' = VmDecommitReservation(space, o.va, o.n)
              /\ access' = [access EXCEPT ![on[t]] = FALSE]
              /\ Proceed(t, "fUnmap", o)
              /\ UNCHANGED panic
        /\ UNCHANGED <<bitmap, reslock, pt, zvars, open, dirty, ghosts>>
\* Mutant: frames are released and the pages stay mapped.
UnmapMemoryKeep(pages, release) ==
    LET present == {p \in pages : pt[p] # NoFrame}
        frames  == {pt[p] : p \in present}
    IN  /\ UNCHANGED pt
        /\ IF release
           THEN /\ zlist' = zlist \cup frames
                /\ newPages' = (newPages \/ frames # {})
                /\ UNCHANGED given
           ELSE given' = given \cup frames /\ UNCHANGED <<zlist, newPages>>

\* MmuUnmapMemoryEx on these pages: absent ones are skipped, present ones are
\* unmapped and, when asked, their frames queued for the zeroer and signaled
\* (MmuReleaseMemory).
UnmapMemory(pages, release) ==
    LET present == {p \in pages : pt[p] # NoFrame}
        frames  == {pt[p] : p \in present}
    IN  /\ pt' = [p \in Pages |-> IF p \in pages THEN NoFrame ELSE pt[p]]
        /\ IF release
           THEN /\ zlist' = zlist \cup frames
                /\ newPages' = (newPages \/ frames # {})
                /\ UNCHANGED given
           ELSE given' = given \cup frames /\ UNCHANGED <<zlist, newPages>>
\* _VmUninitializeReservation gives the frame of the commit bitmap back.
FreeBitmap(t) ==
    /\ At(t, "fBitmap")
    /\ UnmapMemory({-op[t].bitmap}, TRUE)
    /\ Proceed(t, "fClose", op[t])
    /\ UNCHANGED <<bitmap, space, reslock, access, zpc, zitem, open, dirty, lost,
                   met, moved, crossed, panic>>

\* It then closes the file, and the flag of the processor the call began on is
\* cleared.  After a failed read, the region must be the one allocated.
FreeClose(t) ==
    /\ At(t, "fClose")
    /\ open' = open \ {op[t].file}
    /\ access' = [access EXCEPT ![op[t].cpu] = FALSE]
    /\ Proceed(t, "fUnmap", [op[t] EXCEPT !.cpu = Nobody])
    /\ panic' = IF "undo" \in op[t].type /\ op[t].va # op[t].addr THEN "undo" ELSE panic
    /\ UNCHANGED <<bitmap, space, reslock, pt, zvars, dirty, ghosts>>

\* Mutant: the last page stays mapped.
FreeUnmapShort(t) ==
    /\ At(t, "fUnmap")
    /\ UnmapMemory(PageRun(op[t].va, op[t].n - 1), op[t].release)
    /\ Return(t)
    /\ UNCHANGED <<bitmap, space, reslock, access, zpc, zitem, open, dirty, lost,
                   met, moved, crossed, panic>>

\* The region itself is unmapped last.
FreeUnmap(t) ==
    /\ At(t, "fUnmap")
    /\ UnmapMemory(Concerns(t), op[t].release)
    /\ Return(t)
    /\ UNCHANGED <<bitmap, space, reslock, access, zpc, zitem, open, dirty, lost,
                   met, moved, crossed, panic>>

-----------------------------------------------------------------------------
(* Memory accesses and VmmSolvePageFault.                                  *)

Needs(write) == IF write THEN {"read", "write"} ELSE {"read"}

\* A client touches a committed page of a region nobody is changing, and the
\* page is not mapped.
Fault(t, c, va, write) ==
    /\ VmReservationCanAddressBeAccessed(space, va, Needs(write))
    /\ \A u \in Threads : va \in Concerns(u) => op[u].kind = "fault"
    /\ pt[va] = NoFrame
    /\ Begin(t, c, "pCheck", [NoOp EXCEPT !.kind = "fault", !.va = va, !.n = 1,
                                 !.type = Needs(write)])
    /\ met' = IF Quiet({va}) THEN met ELSE met \cup {va}
    /\ UNCHANGED <<bitmap, space, reslock, pt, access, zvars, open, dirty,
                   lost, given, moved, crossed, panic>>

\* The address is looked up under the shared lock, which is then released.
FaultCheck(t) ==
    LET i == VmFindReservation(space, op[t].va, 1)
    IN  /\ At(t, "pCheck")
        /\ reslock = Nobody
        /\ IF VmReservationCanAddressBeAccessed(space, op[t].va, op[t].type)
           THEN /\ Proceed(t, "pFrame", [op[t] EXCEPT !.file = space.list[i].file])
                /\ UNCHANGED panic
           ELSE Panic("fault")
        /\ UNCHANGED <<bitmap, space, reslock, pt, access, zvars, open, dirty, ghosts>>

FaultFrame(t) ==
    LET f == PmmReserveMemoryEx(bitmap, 1, 0)
    IN  /\ At(t, "pFrame")
        /\ bitmap' = PmmReserved(bitmap, f, 1)
        /\ IF f = NoFrame THEN Panic("frames")
           ELSE Proceed(t, "pMap", [op[t] EXCEPT !.frame = f]) /\ UNCHANGED panic
        /\ UNCHANGED <<space, reslock, pt, access, zvars, open, dirty, ghosts>>

\* The page is mapped whether or not another processor has mapped it meanwhile.
FaultMap(t) ==
    /\ At(t, "pMap")
    /\ pt' = [pt EXCEPT ![op[t].va] = op[t].frame]
    /\ lost' = lost \cup ({pt[op[t].va]} \ {NoFrame})
    /\ dirty' = dirty \cup {op[t].frame}
    /\ Proceed(t, "pFill", op[t])
    /\ UNCHANGED <<bitmap, space, reslock, access, zvars, open, given, met, moved,
                       crossed, panic>>
\* Mutant: the fault is reported unsolved and handled again.
FaultFillRetry(t) ==
    /\ At(t, "pFill")
    /\ \/ Proceed(t, "pFrame", op[t]) /\ UNCHANGED panic
       \/ op[t].file # NoFile /\ Panic("fault")
    /\ UNCHANGED <<bitmap, space, reslock, pt, access, zvars, open, dirty, ghosts>>

\* The page is filled through its address: from the file, which may fail and
\* leave the fault unsolved, and with zeroes.
FaultFill(t) ==
    /\ At(t, "pFill")
    /\ \/ Return(t) /\ UNCHANGED panic
       \/ op[t].file # NoFile /\ Panic("fault")
    /\ UNCHANGED <<bitmap, space, reslock, pt, access, zvars, open, dirty, ghosts>>

-----------------------------------------------------------------------------
(* _MmuZeroWorkerThreadFunction.  Its temporary mapping takes a fresh      *)
(* address every time and is left out of pt.                               *)

others == <<space, reslock, pt, access, on, pc, op, open, ghosts, panic>>

ZeroerWait ==
    /\ panic = "none" /\ zpc = "wait" /\ newPages
    /\ zpc' = "take"
    /\ UNCHANGED <<bitmap, zlist, newPages, zitem, dirty, others>>
\* RemoveHeadList under PagesLock.
ZeroerTake ==
    /\ panic = "none" /\ zpc = "take"
    /\ \/ /\ zlist = {}
          /\ zpc' = "clear"
          /\ UNCHANGED <<zlist, zitem>>
       \/ \E f \in zlist : zpc' = "zero" /\ zitem' = f /\ zlist' = zlist \ {f}
    /\ UNCHANGED <<bitmap, newPages, dirty, others>>

\* The list was empty: ExEventClearSignal.
ZeroerClear ==
    /\ panic = "none" /\ zpc = "clear"
    /\ newPages' = FALSE /\ zpc' = "wait"
    /\ UNCHANGED <<bitmap, zlist, zitem, dirty, others>>

\* The frame is zeroed through its temporary mapping.
ZeroerZero ==
    /\ panic = "none" /\ zpc = "zero"
    /\ dirty' = dirty \ {zitem}
    /\ zpc' = "release"
    /\ UNCHANGED <<bitmap, zlist, newPages, zitem, others>>

\* It is released, and the temporary mapping with it.
ZeroerRelease ==
    /\ panic = "none" /\ zpc = "release"
    /\ bitmap' = PmmReleaseMemory(bitmap, zitem, 1)
    /\ zpc' = "wait" /\ zitem' = NoFrame
    /\ UNCHANGED <<zlist, newPages, dirty, others>>

Zeroer == ZeroerWait \/ ZeroerTake \/ ZeroerClear \/ ZeroerZero \/ ZeroerRelease

-----------------------------------------------------------------------------
\* A failed assertion halts every processor.
Halted == panic # "none" /\ UNCHANGED vars

AllocTypes == {{"reserve"}, {"reserve", "commit"}, {"reserve", "commit", "eager"}}
CommitTypes == {{"commit"}, {"commit", "eager"}}

Request(t, c) ==
    \/ \E n \in 1 .. MaxPages, type \in AllocTypes : AllocFresh(t, c, n, type, "rw", NoFile)
    \/ AllocFresh(t, c, 1, {"reserve", "commit"}, "ro", NoFile)
    \/ \E n \in 1 .. MaxPages, file \in Files \ open :
            AllocFresh(t, c, n, {"reserve", "commit", "eager"}, "rw", file)
    \/ \E va \in FixedBases, n \in 1 .. MaxPages :
            AllocAt(t, c, va, n, {"reserve"}, "rw")
    \/ \E va \in RegionPages, n \in 1 .. MaxPages, type \in CommitTypes :
            /\ VmFindReservation(space, va, n) # 0
            /\ PageRun(va, n) \cap space.list[VmFindReservation(space, va, n)].commit = {}
            /\ AllocAt(t, c, va, n, type, "rw")
    \/ \E va \in RegionPages, release \in BOOLEAN : FreeRelease(t, c, va, release)
    \/ \E va \in RegionPages, n \in 1 .. MaxPages : FreeDecommit(t, c, va, n)
    \/ \E va \in RegionPages, write \in BOOLEAN : Fault(t, c, va, write)

Continue(t) ==
    \/ AllocLock(t) \/ AllocRefused(t) \/ AllocReserve(t) \/ AllocCommit(t)
    \/ AllocFrames(t) \/ AllocMap(t) \/ AllocRead(t)
    \/ FreeChange(t) \/ FreeBitmap(t) \/ FreeClose(t) \/ FreeUnmap(t)
    \/ FaultCheck(t) \/ FaultFrame(t) \/ FaultMap(t) \/ FaultFill(t)

Next ==
    \/ \E t \in Threads, c \in Cpus : CanBegin(t, c) /\ Request(t, c)
    \/ \E t \in Threads, c \in Cpus : Migrate(t, c)
    \/ \E t \in Threads : Continue(t)
    \/ Zeroer
    \/ Halted

Spec == Init /\ [][Next]_vars

-----------------------------------------------------------------------------
(* Who holds a frame.                                                      *)

\* A thread has reserved the frame and not mapped it yet.
InFlight(t, f) ==
    \/ pc[t] = "aMap" /\ f \in FrameRun(op[t].frame, op[t].n)
    \/ pc[t] = "pMap" /\ f = op[t].frame

Holders(f) ==
    {<<"page", p>> : p \in {q \in Pages : pt[q] = f}}
    \cup {<<"thread", t>> : t \in {u \in Threads : InFlight(u, f)}}
    \cup {<<"queue", x>> : x \in zlist \cap {f}}
    \cup {<<"zeroer", x>> : x \in {zitem} \cap {f}}

CommittedPages == UNION {space.list[i].commit : i \in Used(space)}

TypeOK ==
    /\ bitmap \subseteq Frames /\ 0 \in bitmap
    /\ \A i \in DOMAIN space.list :
          LET e == space.list[i]
          IN  /\ e.state \in {"Free", "Used", "Last"}
              /\ (e.state = "Last") = (i = Len(space.list))
              /\ e.commit \subseteq PageRun(e.start, e.size)
    /\ pt \in [Pages -> Frames \cup {NoFrame}]
    /\ reslock \in Threads \cup {Nobody}
    /\ access \in [Cpus -> BOOLEAN]
    /\ on \in [Threads -> Cpus \cup {Nobody}]
    /\ open \subseteq Files
    /\ dirty \subseteq Frames \ {0}
    /\ crossed \in BOOLEAN
    /\ panic \in {"none", "frames", "metadata", "fault", "free", "undo"}

\* A frame that a page, a thread, the queue or the zeroer holds has one holder
\* and is reserved: PmmReserveMemory cannot hand it out a second time.
FrameHeldOnce ==
    \A f \in Frames \ {0} :
        Cardinality(Holders(f)) = 0 \/ (Cardinality(Holders(f)) = 1 /\ f \in bitmap)

\* Every reserved frame has a holder, apart from those a process was given and
\* those lost by overwriting a mapping: commit bitmaps, failed reads, decommits
\* and releases all give their frames back.
NoFrameLeak ==
    \A f \in bitmap \ {0} : Holders(f) = {} => f \in lost \cup given

\* A mapping is overwritten, and the data behind it lost, only where two
\* processors faulted on the page at the same time.
LostOnlyWhenFaultsMeet ==
    [][lost' # lost => \E t \in Threads : pc[t] = "pMap" /\ op[t].va \in met]_vars

\* A page of a region is mapped only while it is committed or while a thread is
\* still unmapping it.
MappedIsCommitted ==
    \A p \in RegionPages :
        pt[p] # NoFrame =>
            \/ p \in CommittedPages
            \/ \E t \in Threads : op[t].kind = "free" /\ p \in Concerns(t)

\* A frame in the free pool carries nothing of its last user.
FreeFramesClean == dirty \subseteq bitmap

\* A client that touches committed memory is never refused: the lookup repeated
\* by the fault handler, after others may have changed the list, still succeeds.
CommittedAccessSolved ==
    \A t \in Threads :
        pc[t] = "pCheck" =>
            VmReservationCanAddressBeAccessed(space, op[t].va, op[t].type)

\* Reservations share no page unless a caller chose the address of one of them:
\* the check that refuses a reservation only looks for one that contains it, and
\* the pointer that hands out addresses skips none that callers chose.
ReservationsDisjoint ==
    \A i, j \in Used(space) :
        i # j /\ Overlap(space.list[i], space.list[j]) =>
            {space.list[i].start, space.list[j].start} \cap FixedBases # {}

\* A free finds the region it is about, and a failed allocation gives back its own
\* region ("Cannot free reservation at address", vm_reservation_space.c:916, and
\* the assertion at vmm.c:662), as long as no reservation crossed another.
FreesFindRegion == panic \in {"free", "undo"} => crossed

\* A buffer that VmmIsBufferValid accepts lies in committed pages with the rights
\* asked for, as long as reservations are disjoint.  The loop probes a byte in
\* every page length from the buffer's first byte on, so that the last page of a
\* buffer that does not begin at a page boundary may go unchecked; it is the only
\* page that does.  Pages of two bytes tell the two apart.
BufferCheckSound ==
    (\A i, j \in Used(space) : i # j => ~Overlap(space.list[i], space.list[j])) =>
    \A va \in RegionPages, offset \in {0, 1}, size \in 1 .. 2 * MaxPages :
        LET addr == 2 * va + offset
            last == (addr + size - 1) \div 2
        IN  VmmIsBufferValid(space, addr, size, 2, {"read", "write"}) =>
                \A p \in va .. last :
                    \/ VmReservationCanAddressBeAccessed(space, p, {"read", "write"})
                    \/ offset # 0 /\ p = last /\ p # va

\* "Checks if the buffer described by Buffer and BufferSize is committed"
\* (vmm.h:292), all of it.  Does not hold.
BufferFullyChecked ==
    (\A i, j \in Used(space) : i # j => ~Overlap(space.list[i], space.list[j])) =>
    \A va \in RegionPages, offset \in {0, 1}, size \in 1 .. 2 * MaxPages :
        LET addr == 2 * va + offset
        IN  VmmIsBufferValid(space, addr, size, 2, {"read", "write"}) =>
                \A p \in va .. (addr + size - 1) \div 2 :
                    VmReservationCanAddressBeAccessed(space, p, {"read", "write"})

\* An eager allocation that succeeds has mapped its region, in order and to
\* contiguous frames, unless the frames had run out; where reservations crossed,
\* the owner of the other region may have unmapped pages again.
EagerIsMapped ==
    [][\A t \in Threads :
          pc[t] \in {"aFrames", "aMap", "aRead"} /\ pc'[t] = "idle" =>
              \/ \A p \in PageRun(op[t].va, op[t].n) :
                    pt'[p] # NoFrame /\ pt'[p] = pt'[op[t].va] + (p - op[t].va)
              \/ pc[t] = "aFrames" /\ ClearRuns(bitmap, 0, op[t].n) = {}
              \/ crossed]_vars

\* The metadata of the reservations stays accessible to the thread that holds
\* their lock, as long as no thread is moved to another processor while it has
\* VmmMemoryAccess set.
MetadataAccessible == panic = "metadata" => moved

\* "Check that the CPU is knowing what it's doing when accessing the reservation
\* metadata": a thread that holds ReservationLock exclusively has announced it.
MetadataAlwaysAccessible == panic # "metadata"

\* A region's file is open while the region exists and, unless reservations
\* crossed, while it may still be read from.
FileOpenWhileMapped ==
    /\ \A i \in Used(space) : space.list[i].file \in open \cup {NoFile}
    /\ ~crossed => \A t \in Threads :
          pc[t] \in {"aRead", "pFill"} => op[t].file \in open \cup {NoFile}

-----------------------------------------------------------------------------
(* Fairness: a processor that runs a thread makes progress, runnable       *)
(* threads are given a processor again, and the zeroer thread is scheduled.*)

Fairness ==
    /\ WF_vars(Zeroer)
    /\ \A t \in Threads : WF_vars(Continue(t))

FairSpec == Spec /\ Fairness

\* "the worker thread responsible for zeroing each physical frame of memory after
\* it was released": a frame queued for zeroing is given back in the end.
\* Does not hold: the zeroer clears NewPagesEvent after it found the list empty.
ReleasedFramesReturn ==
    \A f \in Frames :
        (f \in zlist) ~> (f \notin bitmap \/ panic # "none")

(* Every frame is free and clean, or reserved with exactly one holder; the *)
(* exceptions are frames given to a process and frames lost where two      *)
(* faults met.                                                             *)
FramesAccounted ==
    /\ TypeOK
    /\ FrameHeldOnce
    /\ NoFrameLeak
    /\ FreeFramesClean

(* What is committed can be used and nothing else is mapped, also while    *)
(* another CPU allocates or frees: lookups by a fault handler succeed and  *)
(* the bitmaps behind them can be read.                                    *)
CommitmentsKept ==
    /\ MappedIsCommitted
    /\ CommittedAccessSolved
    /\ MetadataAccessible

(* Regions with files and with addresses chosen by callers: no page in two *)
(* of them unless an address was chosen, no frame of theirs lost when a    *)
(* read fails, no file closed under a region, no free that misses its      *)
(* region, and buffers checked against what is committed.                  *)
RegionsSound ==
    /\ FramesAccounted
    /\ ReservationsDisjoint
    /\ FreesFindRegion
    /\ FileOpenWhileMapped
    /\ BufferCheckSound
=============================================================================
