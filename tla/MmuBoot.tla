------------------------------ MODULE MmuBoot ------------------------------
(***************************************************************************)
(* The memory managers from the first instruction of MmuInitSystem to the  *)
(* address spaces of processes (mmu.c, pmm.c, vmm.c).  Until the kernel's  *)
(* own page tables are loaded, everything is reached through the boot      *)
(* loader's, which map all of memory at PA2VA; afterwards the paging code  *)
(* reaches a paging structure only if the kernel's tables map it there.    *)
(*                                                                         *)
(* The bootstrap processor runs alone until "ready" and every later        *)
(* operation is under the paging lock, so an operation is one step; the    *)
(* page zeroer takes the lock twice and the bitmap's lock in between, so   *)
(* it takes three.                                                         *)
(*                                                                         *)
(* Fresh kernel addresses come from a pointer that only moves up.  The     *)
(* model stops ("reused") where the pointer hands out a page that is       *)
(* already mapped, which FreshIsUnmapped allows for one cause only.        *)
(***************************************************************************)
EXTENDS PageTables, PeImage, Mdl, FiniteSets

CONSTANTS
    Boots,          \* inputs of the boot: memory map, kernel image, IA32_PAT
    AppImages,      \* images of applications
    Processes,
    LowFrames,      \* frames below 1 MB
    FrameUnits,     \* units of the memory map to a frame
    StackFrames, GuardFrames,   \* TEMP_STACK_SIZE, STACK_GUARD_SIZE
    BitmapFrames,   \* frames the allocation bitmap takes
    PagingBase,     \* PAGING_STRUCTURES_BASE_MEMORY, in units
    PagingPercent,  \* PAGING_STRUCTURES_PERCENTAGE, hundredths of a percent
    ReserveUnits,   \* reservations are rounded up to this (2 MB)
    MetadataPages,  \* VA_METADATA_SIZE_FOR_UM_PROCESS
    WindowVa, MaxWindow,        \* bound: addresses of later kernel mappings
    MapWindow,      \* bound: addresses that MmuMapMemoryEx may be given
    MaxBuffers,     \* bound: user buffers mapped at a time
    Mappings,       \* frames below 1 MB that are mapped, each with Uncacheable
    UserBuffers     \* user buffers: offset from the image's base, and size

VARIABLES
    phase,          \* how far MmuInitSystem has come
    in,             \* the inputs of this boot
    limits,         \* PhysicalMemorySize and the two highest addresses
    ram, kpd,       \* memory, and the kernel's paging data
    cr3,            \* whose tables the processor uses
    identity,       \* the identity mapping of the kernel and the stack exist
    procs,          \* paging data of each process
    vaSpace,        \* first page of each process's reservation metadata
    image,          \* the image each process has loaded, and its first frame
    buffers,        \* user buffers the kernel has mapped
    zero, zeroer,   \* PagesToZeroList, and the locals of the thread that serves it
    nextVa, tlb,    \* fresh kernel addresses, and the translations cached
    written,        \* ghost: pages written since their dirty bit was cleared
    leaked,         \* ghost: frames of processes that no longer exist
    spilled         \* ghost: pages mapped past the end of a user buffer's region

bvars == <<bitmap, phase, in, limits, ram, kpd, cr3, identity, procs, vaSpace, image,
           buffers, zero, zeroer, nextVa, tlb, written, leaked, spilled>>

KernelHalf == Fan ^ Levels \div 2
PA2VA(frame) == KernelHalf + frame

KernelFrame == LowFrames
UserBase == Fan ^ (Levels - 1)

None == [base |-> NoFrame]
Idle == [pc |-> "wait", frame |-> NoFrame, va |-> 0]
\* What memory holds at first: anything, so an entry a user could use.
Junk == 0 :> [frame |-> 0, rights |-> {"read", "write"}, user |-> TRUE,
              uc |-> FALSE, acc |-> FALSE, dirty |-> FALSE]

ImageFrames(im) == AlignUpper(im.size, PageBytes) \div PageBytes
StackBase == KernelFrame + ImageFrames(in.image) + GuardFrames
PmmBase == StackBase + StackFrames

BInit ==
    /\ bitmap = Frames
    /\ phase = "start"
    /\ in \in Boots
    /\ limits = [size |-> 0, present |-> 0, available |-> 0]
    /\ ram = [f \in Frames |-> Junk]
    /\ kpd = None /\ cr3 = "loader" /\ identity = FALSE
    /\ procs = [p \in Processes |-> None]
    /\ vaSpace = [p \in Processes |-> 0]
    /\ image = [p \in Processes |-> << >>]
    /\ buffers = {} /\ zero = << >> /\ zeroer = Idle
    /\ nextVa = WindowVa /\ tlb = << >> /\ written = {} /\ leaked = {}
    /\ spilled = {}

spaces == <<procs, vaSpace, image, buffers>>
zeroing == <<zero, zeroer>>
ghosts == <<written, leaked, spilled>>
later == <<spaces, zeroing, nextVa, tlb, ghosts>>

\* One step of the boot; a failed assertion stops the system.
Step(from, to) == phase = from /\ phase' = to
StepIf(ok, from, to) == Step(from, IF ok THEN to ELSE "panic")

Fail(from) ==
    /\ Step(from, "failed")
    /\ UNCHANGED <<bitmap, in, limits, ram, kpd, cr3, identity, later>>

-----------------------------------------------------------------------------
(* MmuInitSystem.                                                          *)

\* _MmuRetrieveKernelInfoAndValidate.
KernelInfoValid(im) ==
    /\ im.parses
    /\ im.loaded >= im.size
    /\ im.amd64 /\ im.native /\ ~im.relocations

RetrieveKernelInfo ==
    \/ ~KernelInfoValid(in.image) /\ Fail("start")
    \/ /\ KernelInfoValid(in.image)
       /\ Step("start", "pmm")
       /\ UNCHANGED <<bitmap, in, limits, ram, kpd, cr3, identity, later>>

\* _PmmDetermineMemoryLimits: the highest address present counts every entry,
\* the others only usable RAM in entries that are not to be ignored.
MaxOf(S) == CHOOSE x \in S : \A y \in S : y <= x
EntryEnd(e) == e.base + e.length
Usable(e) == e.valid /\ e.type = "ram"

PmmDetermineMemoryLimits(map) ==
    LET entries == {map[i] : i \in DOMAIN map}
        usable  == {i \in DOMAIN map : Usable(map[i])}
    IN  [size      |-> FoldLeft(LAMBDA n, e : n + (IF Usable(e) THEN e.length ELSE 0), 0, map),
         present   |-> MaxOf({EntryEnd(e) : e \in entries} \cup {0}),
         available |-> MaxOf({EntryEnd(map[i]) : i \in usable} \cup {0})]
\* _PmmInitializeAllocationBitmap: everything is reserved, then the frames of
\* each usable entry that begins above 1 MB are released.
EntryFrames(e) ==
    IF Usable(e) /\ e.base >= LowFrames * FrameUnits
    THEN FrameRun(AlignUpper(e.base, FrameUnits) \div FrameUnits, e.length \div FrameUnits)
    ELSE {}

PmmInitializeAllocationBitmap(map) ==
    Frames \ UNION {EntryFrames(map[i]) : i \in DOMAIN map}

PmmInitSystem ==
    /\ Step("pmm", "paging")
    /\ limits' = PmmDetermineMemoryLimits(in.map)
    /\ bitmap' = PmmInitializeAllocationBitmap(in.map)
    /\ UNCHANGED <<in, ram, kpd, cr3, identity, later>>

\* _MmuCalculateReservedFrames.
MmuCalculateReservedFrames(base, percent, total) ==
    AlignUpper(base + (percent * total) \div 10000, ReserveUnits) \div FrameUnits

PagingFrames == MmuCalculateReservedFrames(PagingBase, PagingPercent, limits.size)

\* A reservation at exactly this frame, or none.
ReservesAt(f, n) == PmmReserveMemoryEx(bitmap, n, f) = f

\* _MmuInitPagingSystem: the kernel's tables, right after the bitmap.
PagingFrame == PmmBase + BitmapFrames

MmuInitPagingSystem ==
    LET zeroed == [ram EXCEPT ![PagingFrame] = ZeroTable]
        t == VmmSetupPageTables([ram |-> zeroed], PagingFrame, PagingFrames, TRUE, TRUE,
                                KernelHalf)
    IN  IF VmDeterminePatIndices(in.pat) /\ ReservesAt(PagingFrame, PagingFrames)
        THEN /\ StepIf(t.ok, "paging", "vmm")
             /\ bitmap' = PmmReserved(bitmap, PagingFrame, PagingFrames)
             /\ ram' = t.ram
             /\ kpd' = t.pd
             /\ UNCHANGED <<in, limits, cr3, identity, later>>
        ELSE Fail("paging")

\* _MmuReserveAndMapMemory, at PA2VA of the frame.
MmuReserveAndMapMemory(from, to, f, n) ==
    LET w == VmmMapMemoryInternal(Walk(ram, kpd), PA2VA(f), f, n, {"read", "write"}, TRUE, FALSE)
    IN  IF ReservesAt(f, n)
        THEN /\ StepIf(w.ok, from, to)
             /\ bitmap' = PmmReserved(bitmap, f, n)
             /\ ram' = w.ram
             /\ kpd' = w.pd
             /\ UNCHANGED <<in, limits, cr3, identity, later>>
        ELSE Fail(from)

\* VmmInit puts the reservation metadata in the last page of available memory.
VmmFrame == limits.available \div FrameUnits - 1

\* PmmReserveMemoryEx refuses an address that is not page aligned.
MapVmmPage ==
    IF limits.available % FrameUnits = 0
    THEN MmuReserveAndMapMemory("vmm", "pmmMap", VmmFrame, 1)
    ELSE Fail("vmm")

MapPmmBitmap == MmuReserveAndMapMemory("pmmMap", "kernel", PmmBase, BitmapFrames)

\* The calls of _MmuMapPeInMemory, one after the other, for the image in the
\* frames from f, at the page va.
MapPe(w, im, va, f) ==
    FoldLeft(LAMBDA v, m : VmmMapMemoryInternal(v, va + m.page, f + m.page, 1, m.rights,
                                               TRUE, FALSE),
             w, MmuMapPeInMemory(im))

\* _MmuMapKernelMemory: at its own address, and identity mapped for the
\* application processors.
MmuMapKernelMemory ==
    LET n    == ImageFrames(in.image)
        high == MapPe(Walk(ram, kpd), in.image, PA2VA(KernelFrame), KernelFrame)
        both == MapPe(high, in.image, KernelFrame, KernelFrame)
    IN  IF ReservesAt(KernelFrame, n) /\ PeSupported(in.image)
        THEN /\ StepIf(both.ok, "kernel", "stack")
             /\ bitmap' = PmmReserved(bitmap, KernelFrame, n)
             /\ ram' = both.ram
             /\ kpd' = both.pd
             /\ identity' = TRUE
             /\ UNCHANGED <<in, limits, cr3, later>>
        ELSE Fail("kernel")

MmuRemapStack == MmuReserveAndMapMemory("stack", "display", StackBase, StackFrames)

\* _MmuRemapDisplay: memory below 1 MB is never handed out, so it is mapped
\* without being reserved.
MmuRemapDisplay ==
    LET w == VmmMapMemoryInternal(Walk(ram, kpd), PA2VA(0), 0, 1, {"read", "write"}, TRUE, FALSE)
    IN  /\ StepIf(w.ok, "display", "cr3")
        /\ ram' = w.ram
        /\ kpd' = w.pd
        /\ UNCHANGED <<bitmap, in, limits, cr3, identity, later>>

\* The new tables are loaded; the heaps are the first memory to be touched
\* through page faults (_MmuInitializeHeap, and VmmSolvePageFault for it).
LoadCr3 ==
    LET f == PmmReserveMemoryEx(bitmap, 1, 0)
        w == VmmMapMemoryInternal(Walk(ram, kpd), nextVa, f, 1, {"read", "write"}, TRUE, FALSE)
    IN  /\ StepIf(f # NoFrame /\ w.ok, "cr3", "ready")
        /\ cr3' = "kernel"
        /\ bitmap' = PmmReserved(bitmap, f, 1)
        /\ ram' = w.ram
        /\ kpd' = w.pd
        /\ nextVa' = nextVa + 1
        /\ UNCHANGED <<in, limits, identity, spaces, zeroing, tlb, ghosts>>

Boot ==
    \/ RetrieveKernelInfo \/ PmmInitSystem \/ MmuInitPagingSystem \/ MapVmmPage
    \/ MapPmmBitmap \/ MmuMapKernelMemory \/ MmuRemapStack \/ MmuRemapDisplay \/ LoadCr3

-----------------------------------------------------------------------------
(* After the boot.                                                         *)

ReadyIf(ok) ==
    /\ phase = "ready"
    /\ phase' = IF ok THEN "ready" ELSE "panic"
    /\ UNCHANGED <<in, limits, cr3>>

Ready == ReadyIf(TRUE)

\* VmReservationSpaceDetermineNextFreeVirtualAddress for n pages.
TakeFresh(n, ok) ==
    LET fresh == nextVa .. nextVa + n - 1
    IN  /\ nextVa + n <= WindowVa + MaxWindow
        /\ nextVa' = nextVa + n
        /\ phase = "ready"
        /\ phase' = IF \E va \in fresh : IsMapped(ram, kpd.base, va) THEN "reused"
                    ELSE IF ok THEN "ready" ELSE "panic"
        /\ UNCHANGED <<in, limits, cr3>>

\* MmuDiscardIdentityMappings: the kernel's frames stay, those of the temporary
\* stack go to the zeroer.
MmuDiscardIdentityMappings ==
    LET low == VmmUnmapMemoryEx(ram, kpd.base, KernelFrame, ImageFrames(in.image))
        va  == PA2VA(StackBase)
    IN  /\ Ready /\ identity
        /\ identity' = FALSE
        /\ ram' = VmmUnmapMemoryEx(low, kpd.base, va, StackFrames)
        /\ zero' = zero \o UnmappedFrames(low, kpd.base, va, StackFrames)
        /\ UNCHANGED <<bitmap, kpd, spaces, zeroer, nextVa, tlb, ghosts>>

\* The assertion of MmuMapMemoryEx on the physical range.
MapsPresent(f, n) == (f + n) * FrameUnits < limits.present

\* Mutant: the frame is released before it is zeroed.
ZeroFrameReleased ==
    LET f == Head(zero)
        w == VmmMapMemoryInternal(Walk(ram, kpd), nextVa, f, 1, {"read", "write"}, FALSE, FALSE)
    IN  /\ zero # << >> /\ zeroer.pc = "wait"
        /\ TakeFresh(1, w.ok /\ MapsPresent(f, 1))
        /\ zero' = Tail(zero)
        /\ zeroer' = [pc |-> "release", frame |-> f, va |-> nextVa]
        /\ bitmap' = PmmReleaseMemory(bitmap, f, 1)
        /\ ram' = [w.ram EXCEPT ![f] = ZeroTable]
        /\ kpd' = w.pd
        /\ UNCHANGED <<identity, spaces, tlb, ghosts>>

\* The page zeroer maps the next frame at a fresh address and zeroes it there,
\* releases it, and only then gives up the mapping.
ZeroFrame ==
    LET f == Head(zero)
        w == VmmMapMemoryInternal(Walk(ram, kpd), nextVa, f, 1, {"read", "write"}, FALSE, FALSE)
    IN  /\ zero # << >> /\ zeroer.pc = "wait"
        /\ TakeFresh(1, w.ok /\ MapsPresent(f, 1))
        /\ zero' = Tail(zero)
        /\ zeroer' = [pc |-> "release", frame |-> f, va |-> nextVa]
        /\ ram' = [w.ram EXCEPT ![f] = ZeroTable]
        /\ kpd' = w.pd
        /\ UNCHANGED <<bitmap, identity, spaces, tlb, ghosts>>

ZeroRelease ==
    /\ Ready /\ zeroer.pc = "release"
    /\ zeroer' = [zeroer EXCEPT !.pc = "unmap"]
    /\ bitmap' = PmmReleaseMemory(bitmap, zeroer.frame, 1)
    /\ UNCHANGED <<ram, kpd, identity, spaces, zero, nextVa, tlb, ghosts>>

ZeroUnmap ==
    /\ Ready /\ zeroer.pc = "unmap"
    /\ zeroer' = Idle
    /\ ram' = VmUnmapPage(ram, kpd.base, zeroer.va)
    /\ UNCHANGED <<bitmap, kpd, identity, spaces, zero, nextVa, tlb, ghosts>>

\* _MmuCreatePagingTables: the kernel half of the root is copied.
CreatePagingTables(f) ==
    LET t == VmmSetupPageTables(Walk(ram, kpd), f, PagingFrames, FALSE, FALSE, KernelHalf)
        kernelEntries == {i \in DOMAIN t.ram[kpd.base] : i >= Fan \div 2}
    IN  [t EXCEPT !.ram[f] = [i \in kernelEntries |-> t.ram[kpd.base][i]]]

\* VmmCreateVirtualAddressSpace: the metadata of the process's reservations is at
\* the next kernel addresses, and its first page is touched.
VmmCreateVirtualAddressSpace(t, b) ==
    LET g == PmmReserveMemoryEx(b, 1, 0)
        w == VmmMapMemoryInternal(Walk(t.ram, t.where), nextVa, g, 1, {"read", "write"}, TRUE, FALSE)
    IN  /\ TakeFresh(MetadataPages, t.ok /\ g # NoFrame /\ w.ok)
        /\ bitmap' = PmmReserved(b, g, 1)
        /\ ram' = w.ram /\ kpd' = w.pd

\* The kernel's entries are copied before the kernel takes these addresses.
MmuCreateAddressSpaceForProcess(p) ==
    LET f == PmmReserveMemoryEx(bitmap, PagingFrames, 0)
        t == CreatePagingTables(f)
    IN  /\ procs[p] = None
        /\ f # NoFrame
        /\ VmmCreateVirtualAddressSpace(t, PmmReserved(bitmap, f, PagingFrames))
        /\ procs' = [procs EXCEPT ![p] = t.pd]
        /\ vaSpace' = [vaSpace EXCEPT ![p] = nextVa]
        /\ UNCHANGED <<identity, image, buffers, zeroing, tlb, ghosts>>

\* MmuLoadPe: the frames that hold the file become the pages of the process.
MmuLoadPe(p, im) ==
    LET n == ImageFrames(im)
        f == PmmReserveMemoryEx(bitmap, n, 0)
        w == MapPe(Walk(ram, procs[p]), im, UserBase, f)
    IN  /\ phase = "ready" /\ procs[p] # None /\ image[p] = << >>
        /\ PeSupported(im) /\ im.parses /\ f # NoFrame
        /\ ReadyIf(w.ok)
        /\ bitmap' = PmmReserved(bitmap, f, n)
        /\ ram' = w.ram
        /\ procs' = [procs EXCEPT ![p] = w.pd]
        /\ image' = [image EXCEPT ![p] = <<im, f>>]
        /\ UNCHANGED <<kpd, identity, vaSpace, buffers, zeroing, nextVa, tlb, ghosts>>

\* MmuDestroyAddressSpaceForProcess: unmapping the metadata and then the tables
\* from the kernel releases their frames; those of the process's memory are left
\* behind.
MmuDestroyAddressSpaceForProcess(p) ==
    LET va   == PA2VA(procs[p].base)
        n    == procs[p].frames
        meta == VmmUnmapMemoryEx(ram, kpd.base, vaSpace[p], MetadataPages)
    IN  /\ Ready /\ procs[p] # None
        /\ ram' = VmmUnmapMemoryEx(meta, kpd.base, va, n)
        /\ zero' = zero \o UnmappedFrames(ram, kpd.base, vaSpace[p], MetadataPages)
                        \o UnmappedFrames(meta, kpd.base, va, n)
        /\ procs' = [procs EXCEPT ![p] = None]
        /\ vaSpace' = [vaSpace EXCEPT ![p] = 0]
        /\ leaked' = IF image[p] = << >> THEN leaked
                     ELSE leaked \cup FrameRun(image[p][2], ImageFrames(image[p][1]))
        /\ image' = [image EXCEPT ![p] = << >>]
        /\ buffers' = {[b EXCEPT !.alive = @ /\ b.proc # p] : b \in buffers}
        /\ UNCHANGED <<bitmap, kpd, identity, zeroer, nextVa, tlb, written, spilled>>

\* PageInvalidateTlb, on this processor.
PageInvalidateTlb(va) == tlb' = [v \in DOMAIN tlb \ {va} |-> tlb[v]]

\* The kernel pages that stand for a user buffer, and those mapped by
\* MmuMapMemoryEx.
Region(b) == b.va .. b.va + AlignUpper(b.size, PageBytes) \div PageBytes - 1
Window ==
    {va \in WindowVa .. nextVa - 1 : /\ IsMapped(ram, kpd.base, va)
                                     /\ Pte(ram, kpd.base, va).frame < LowFrames
                                     /\ \A b \in buffers : va \notin Region(b)}

\* MmuMapMemoryEx of a frame below 1 MB at a fresh address.
MmuMapMemoryEx(f, uc) ==
    LET w == VmmMapMemoryInternal(Walk(ram, kpd), nextVa, f, 1, {"read", "write"}, FALSE, uc)
    IN  /\ nextVa < WindowVa + MapWindow
        /\ TakeFresh(1, w.ok /\ MapsPresent(f, 1))
        /\ ram' = w.ram /\ kpd' = w.pd
        /\ PageInvalidateTlb(nextVa)
        /\ UNCHANGED <<bitmap, identity, spaces, zeroing, ghosts>>

MmuUnmapMemoryEx(va) ==
    /\ Ready /\ va \in Window
    /\ ram' = VmUnmapPage(ram, kpd.base, va)
    /\ PageInvalidateTlb(va)
    /\ written' = written \ {va}
    /\ UNCHANGED <<bitmap, kpd, identity, spaces, zeroing, nextVa, leaked, spilled>>

\* VmmGetPhysicalAddressEx with the bits to hand back and clear.
QueryPage(va, clear) ==
    /\ Ready /\ va \in Window
    /\ ram' = VmRetrievePhyAccess(ram, kpd.base, va, clear)
    /\ IF clear = {} THEN UNCHANGED tlb ELSE PageInvalidateTlb(va)
    /\ written' = IF "dirty" \in clear THEN written \ {va} ELSE written
    /\ UNCHANGED <<bitmap, kpd, identity, spaces, zeroing, nextVa, leaked, spilled>>

\* What the tables at base make of the pages of S.
Translation(base, S) == [va \in S |-> VmmGetPhysicalAddressEx(ram, base, va)]

\* _VmmMapDescribedRegion: the pairs one after the other, without disturbing what
\* is already mapped.
VmmMapDescribedRegion(w, va, pairs) ==
    FoldLeft(LAMBDA s, pair :
                 LET n == PageCount(pair.pa, pair.bytes, PageBytes)
                 IN  [at |-> s.at + n,
                      w  |-> VmmMapMemoryInternal(s.w, s.at, pair.pa \div PageBytes, n,
                                                 {"read", "write"}, FALSE, FALSE)],
             [at |-> va, w |-> w], pairs)

\* The pages of a process that user buffers are taken from.
UserPages == UserBase .. UserBase + MaxWindow

\* MmuGetSystemVirtualAddressForUserBuffer: `size' bytes at `addr' of a process are
\* mapped into a fresh region of the kernel, which is as long as the buffer.
MmuGetSystemVirtualAddressForUserBuffer(p, addr, size) ==
    LET n == AlignUpper(size, PageBytes) \div PageBytes
    IN  /\ phase = "ready" /\ procs[p] # None /\ image[p] # << >>
        /\ Cardinality(buffers) < MaxBuffers
        /\ \E tr \in {Translation(procs[p].base, UserPages)} :
             LET pairs == MdlAllocateEx(tr, addr, size, PageBytes)
                 m     == VmmMapDescribedRegion(Walk(ram, kpd), nextVa, pairs)
             IN  /\ pairs # << >>
                 /\ TakeFresh(n, m.w.ok /\ MdlAsserts(tr, addr, size, PageBytes))
                 /\ ram' = m.w.ram /\ kpd' = m.w.pd
                 /\ spilled' = spilled \cup (nextVa + n .. m.at - 1)
        /\ buffers' = buffers \cup {[proc |-> p, addr |-> addr, size |-> size,
                                     va |-> nextVa, alive |-> TRUE]}
        /\ UNCHANGED <<bitmap, identity, procs, vaSpace, image, zeroing, tlb, written, leaked>>

\* MmuFreeSystemVirtualAddressForUserBuffer unmaps the region, and only it.
MmuFreeSystemVirtualAddressForUserBuffer(b) ==
    /\ Ready
    /\ ram' = VmmUnmapMemoryEx(ram, kpd.base, b.va, Cardinality(Region(b)))
    /\ buffers' = buffers \ {b}
    /\ UNCHANGED <<bitmap, kpd, identity, procs, vaSpace, image, zeroing, nextVa, tlb, ghosts>>

\* The processor writes to a page: it sets the dirty bit only when the cached
\* translation does not already say so.
WritePage(va) ==
    LET t == LeafTable(ram, kpd.base, va)
        i == Index(va, Levels)
    IN  /\ Ready /\ va \in Window
        /\ ram' = IF va \in DOMAIN tlb THEN ram
                  ELSE [ram EXCEPT ![t][i].acc = TRUE, ![t][i].dirty = TRUE]
        /\ tlb' = tlb @@ (va :> Pte(ram, kpd.base, va).frame)
        /\ written' = written \cup {va}
        /\ UNCHANGED <<bitmap, kpd, identity, spaces, zeroing, nextVa, leaked, spilled>>

AfterBoot ==
    /\ phase = "ready"
    /\ \/ MmuDiscardIdentityMappings
       \/ ZeroFrame \/ ZeroRelease \/ ZeroUnmap
       \/ \E p \in Processes : \/ MmuCreateAddressSpaceForProcess(p)
                               \/ MmuDestroyAddressSpaceForProcess(p)
       \/ \E p \in Processes, im \in AppImages : MmuLoadPe(p, im)
       \/ \E m \in Mappings : MmuMapMemoryEx(m[1], m[2])
       \/ \E va \in Window : MmuUnmapMemoryEx(va) \/ WritePage(va)
       \/ \E p \in Processes, u \in UserBuffers :
               MmuGetSystemVirtualAddressForUserBuffer(p, UserBase * PageBytes + u[1], u[2])
       \/ \E b \in buffers : MmuFreeSystemVirtualAddressForUserBuffer(b)
       \/ \E va \in Window, clear \in {{}, {"acc"}, {"acc", "dirty"}} : QueryPage(va, clear)

BNext == Boot \/ AfterBoot

BSpec == BInit /\ [][BNext]_bvars
-----------------------------------------------------------------------------
(* Properties.                                                             *)

BTypeOK ==
    /\ bitmap \subseteq Frames
    /\ phase \in {"start", "pmm", "paging", "vmm", "pmmMap", "kernel", "stack",
                  "display", "cr3", "ready", "failed", "panic", "reused"}
    /\ \A f \in Frames : DOMAIN ram[f] \subseteq 0 .. Fan - 1
    /\ zero \in Seq(Frames) /\ zeroer.pc \in {"wait", "release", "unmap"}
    /\ Cardinality(written) <= MapWindow /\ Cardinality(buffers) <= MaxBuffers

Live == {p \in Processes : procs[p] # None}
Loaded == {p \in Live : image[p] # << >>}
Structures(pd) == FrameRun(pd.base, pd.current)
ImageRun(p) == FrameRun(image[p][2], ImageFrames(image[p][1]))

\* What the frame of an entry may reach past its end: as much as its base was
\* rounded up.
Rounding(e) == AlignUpper(e.base, FrameUnits) - e.base

\* A frame that can be handed out is above 1 MB and lies in an entry of usable
\* RAM, past whose end it reaches by no more than the entry's base was rounded up.
FreeFramesAreRam ==
    phase \notin {"start", "pmm"} =>
        \A f \in Frames \ bitmap : \E i \in DOMAIN in.map :
            LET e == in.map[i]
            IN  /\ Usable(e) /\ f >= LowFrames
                /\ f * FrameUnits >= e.base
                /\ (f + 1) * FrameUnits <= EntryEnd(e) + Rounding(e)

\* pmm.c: "in-existent and reserved system memory will never be used".  Does not
\* hold: _PmmInitializeAllocationBitmap rounds an entry's base up and leaves its
\* length as it is.
FreeFramesAllRam ==
    phase \notin {"start", "pmm"} =>
        \A f \in Frames \ bitmap : \E i \in DOMAIN in.map :
            /\ Usable(in.map[i])
            /\ f * FrameUnits >= in.map[i].base
            /\ (f + 1) * FrameUnits <= EntryEnd(in.map[i])

\* Every paging structure in use, of the kernel and of every process, is mapped
\* at PA2VA by the kernel's tables, where the walks read and write it.
TablesReachable ==
    cr3 = "kernel" =>
        \A pd \in {kpd} \cup {procs[p] : p \in Live} : \A f \in Structures(pd) :
            VmmGetPhysicalAddressEx(ram, kpd.base, PA2VA(f)) = f

UserHalf == 0 .. Fan \div 2 - 1
SystemHalf == Fan \div 2 .. Fan - 1

\* Entries of the root table of the kernel's half.
SystemEntries(base) == DOMAIN ram[base] \cap SystemHalf

\* The kernel's half of a process's root agrees with the kernel's, which may have
\* gained entries since the copy, all of them above those that were copied.
KernelHalfShared ==
    \A p \in Live :
        /\ \A i \in SystemEntries(procs[p].base) :
              i \in SystemEntries(kpd.base) /\ ram[procs[p].base][i] = ram[kpd.base][i]
        /\ \A i \in SystemEntries(kpd.base) \ SystemEntries(procs[p].base) :
              \A j \in SystemEntries(procs[p].base) : i > j

\* mmu.c: "The kernel portion of the tables will be identical".  Does not hold:
\* the addresses the kernel hands out later, those of the process's own metadata
\* first, can begin another entry of the root, which no process gets.
KernelHalfIdentical ==
    \A p \in Live : SystemEntries(procs[p].base) = SystemEntries(kpd.base)

\* What a walk of a half of the tables at base can end in, in the memory r.
Entries(r, base, half) ==
    LET at[l \in 1 .. Levels] ==
            IF l = 1 THEN {r[base][i] : i \in DOMAIN r[base] \cap half}
            ELSE UNION {{r[e.frame][i] : i \in DOMAIN r[e.frame]} : e \in at[l - 1]}
    IN  at[Levels]

\* A process reaches its own image and nothing else in user mode: no junk left
\* in a paging structure, no frame of the kernel and none of another process.
UserIsolation ==
    /\ \A p \in Live :
          /\ \A e \in Entries(ram, procs[p].base, UserHalf) :
                p \in Loaded /\ e.frame \in ImageRun(p)
          /\ \A e \in Entries(ram, procs[p].base, SystemHalf) : ~e.user
    /\ \A p, q \in Live : p # q =>
          /\ FrameRun(procs[p].base, procs[p].frames) \cap FrameRun(procs[q].base, procs[q].frames) = {}
          /\ {p, q} \subseteq Loaded => ImageRun(p) \cap ImageRun(q) = {}
    /\ \A p \in Loaded : ImageRun(p) \cap Structures(kpd) = {}

\* Frames that wait for the zeroer, or that it has not released yet.
Zeroing == {zero[k] : k \in DOMAIN zero}
               \cup (IF zeroer.pc = "release" THEN {zeroer.frame} ELSE {})

\* A frame that is mapped is neither free nor to be zeroed, except where the
\* zeroer itself maps it: there the mapping outlives the release.
MappedFramesReserved ==
    cr3 = "kernel" =>
        \A r \in {IF zeroer.pc = "wait" THEN ram ELSE VmUnmapPage(ram, kpd.base, zeroer.va)} :
            \A base \in {kpd.base} \cup {procs[p].base : p \in Live} :
                \A e \in Entries(r, base, 0 .. Fan - 1) :
                    e.frame >= LowFrames => e.frame \in bitmap \ Zeroing

\* The frames of the heap's first page, and of the metadata of processes.
HeapFrames == {Pte(ram, kpd.base, WindowVa).frame}
MetadataFrames == {Pte(ram, kpd.base, vaSpace[p]).frame : p \in Live}

\* Every frame taken from the free pool has an owner: the boot gives back what it
\* only needed for a while, and a process its tables.
ReservedAccounted ==
    phase = "ready" =>
        bitmap \ PmmInitializeAllocationBitmap(in.map) =
            FrameRun(KernelFrame, ImageFrames(in.image))
            \cup (IF identity THEN FrameRun(StackBase, StackFrames) ELSE {})
            \cup FrameRun(PmmBase, BitmapFrames) \cup {VmmFrame} \cup HeapFrames
            \cup FrameRun(kpd.base, kpd.frames)
            \cup UNION {FrameRun(procs[p].base, procs[p].frames) : p \in Live}
            \cup MetadataFrames
            \cup UNION {ImageRun(p) : p \in Loaded}
            \cup Zeroing \cup leaked

\* Pages of the image that must be mapped: those of its sections, except the one
\* that only holds the unaligned end of the last.
RequiredPages(im, k) ==
    LET sec == im.sections[k]
        end == sec.base + sec.size
    IN  SectionPages(sec) \ (IF k = Len(im.sections) /\ end % PageBytes # 0
                             THEN {end \div PageBytes} ELSE {})

SectionsAt(base, im, va, f) ==
    \A k \in DOMAIN im.sections : \A page \in RequiredPages(im, k) :
        /\ VmmGetPhysicalAddressEx(ram, base, va + page) = f + page
        /\ im.sections[k].rights \subseteq Pte(ram, base, va + page).rights

\* Every section of the kernel, and of each process, is mapped to the frames the
\* image was loaded in with the rights it asks for, pages shared by two sections
\* included.
SectionsMapped ==
    /\ cr3 = "kernel" => SectionsAt(kpd.base, in.image, PA2VA(KernelFrame), KernelFrame)
    /\ identity => SectionsAt(kpd.base, in.image, KernelFrame, KernelFrame)
    /\ \A p \in Loaded : SectionsAt(procs[p].base, image[p][1], UserBase, image[p][2])

\* On one processor a cached translation is never stale, and a write is never
\* hidden from the dirty bit by one.
TlbCoherent ==
    /\ \A va \in DOMAIN tlb : VmmGetPhysicalAddressEx(ram, kpd.base, va) = tlb[va]
    /\ \A va \in written : Pte(ram, kpd.base, va).dirty

\* The list built for any range of the pages of tr that are all mapped stands for
\* exactly the bytes a translation of each address gives.
ListsExact(tr) ==
    \A first \in DOMAIN tr : \A last \in {q \in DOMAIN tr : q >= first} :
        (\A va \in first .. last : va \in DOMAIN tr /\ tr[va] > 0) =>
            \A from, to \in 0 .. PageBytes - 1 :
                LET addr == first * PageBytes + from
                    len  == last * PageBytes + to - addr + 1
                    d    == Described(MdlAllocateEx(tr, addr, len, PageBytes))
                IN  len > 0 =>
                        /\ Len(d) >= len
                        /\ \A k \in 1 .. len :
                              d[k] = MmuGetPhysicalAddressEx(tr, addr + k - 1, PageBytes)

\* What the kernel reaches through the address it was given for a user buffer is
\* the buffer, byte for byte.  A buffer whose first page is not mapped is refused
\* if it begins that page; otherwise the kernel is given the same offset in
\* physical page 0.
BufferIsUsers(b) ==
    LET user   == Translation(procs[b.proc].base, UserPages)
        kernel == Translation(kpd.base, b.va .. b.va + MaxWindow)
        offset == b.addr % PageBytes
        there(k) == MmuGetPhysicalAddressEx(kernel, b.va * PageBytes + offset + k, PageBytes)
        here(k)  == MmuGetPhysicalAddressEx(user, b.addr + k, PageBytes)
    IN  IF user[b.addr \div PageBytes] # NoFrame
        THEN \A k \in 0 .. b.size - 1 :
                /\ user[(b.addr + k) \div PageBytes] # NoFrame
                /\ there(k) = here(k)
        ELSE offset # 0 /\ there(0) = offset

\* Descriptor lists describe the memory they were built for, whatever the pages
\* are, contiguous or not, and the kernel's view of a user buffer is that buffer.
MdlDescribesRange ==
    phase = "ready" =>
        /\ ListsExact(Translation(kpd.base, {va \in WindowVa .. nextVa - 1 :
                                                IsMapped(ram, kpd.base, va)}))
        /\ \A p \in Loaded : ListsExact(Translation(procs[p].base, UserBase .. UserBase + 2))
        /\ \A b \in buffers : b.alive => BufferIsUsers(b)

\* An address that has not been handed out yet is not mapped, unless a user
\* buffer that crosses a page boundary was mapped just below it.
FreshIsUnmapped ==
    phase \in {"ready", "reused"} =>
        /\ \A va \in nextVa .. WindowVa + MaxWindow : IsMapped(ram, kpd.base, va) => va \in spilled
        /\ phase = "reused" => spilled # {}

(* Frames from the memory map to the last process: only RAM is handed out, *)
(* what is mapped is not free, and what is not free has an owner.          *)
BootFramesSound ==
    /\ BTypeOK
    /\ FreeFramesAreRam
    /\ MappedFramesReserved
    /\ ReservedAccounted

(* The address spaces of the kernel and of processes: paging structures    *)
(* can be walked, what a process has of the kernel's half is the kernel's, *)
(* the user's half is private, images are mapped as they ask, fresh        *)
(* addresses are free and no cached translation is stale.                  *)
AddressSpacesSound ==
    /\ TablesReachable
    /\ KernelHalfShared
    /\ UserIsolation
    /\ SectionsMapped
    /\ TlbCoherent
    /\ FreshIsUnmapped
=============================================================================
