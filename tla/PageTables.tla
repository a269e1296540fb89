----------------------------- MODULE PageTables -----------------------------
(***************************************************************************)
(* The paging structures vmm.c builds and walks.  A paging structure is a  *)
(* frame of ram, seen as a partial function from indices to entries: an    *)
(* index outside its domain is an entry that is not present.  The frames   *)
(* of a set of tables come from one contiguous reservation (PAGING_DATA),  *)
(* in order, and are never handed back one by one.                         *)
(*                                                                         *)
(* The operators work on a walk [ram, pd, at, ok]: the memory, the paging  *)
(* data, the structure the walk has reached, and whether every assertion   *)
(* has held so far.  Addresses count pages.                                *)
(***************************************************************************)
EXTENDS Pmm, SequencesExt, TLC

CONSTANTS
    Levels,         \* PAGING_TABLES_LAST_LEVEL
    Fan             \* entries of a paging structure

ASSUME PageTablesAssumption ==
    /\ Levels \in Nat /\ Levels > 1
    /\ Fan \in Nat /\ Fan > 1 /\ Fan % 2 = 0

Vas == 0 .. Fan ^ Levels - 1

\* Addresses with VA_HIGHEST_VALID_BIT set belong to the kernel.
VmIsKernelAddress(va) == va >= Fan ^ Levels \div 2

\* _VmIsKernelRange checks the two ends.
VmIsKernelRange(va, n) == VmIsKernelAddress(va) \/ VmIsKernelAddress(va + n - 1)

\* MASK_PML4_OFFSET ... MASK_PTE_OFFSET.
Index(va, level) == (va \div Fan ^ (Levels - level)) % Fan

ZeroTable == << >>

\* An entry that refers to a paging structure, and one that maps a page.
StructureEntry(frame, user) ==
    [frame |-> frame, rights |-> {"read", "write", "execute"}, user |-> user,
     uc |-> FALSE, acc |-> FALSE, dirty |-> FALSE]

PageEntry(m, pd) ==
    [frame |-> m.pa, rights |-> m.rights, user |-> ~pd.kernel, uc |-> m.uc,
     acc |-> FALSE, dirty |-> FALSE]

Present(ram, at, i) == i \in DOMAIN ram[at]

SetEntry(ram, at, i, entry) == [ram EXCEPT ![at] = (i :> entry) @@ @]

\* Mutant: the structure keeps what its frame held.
VmSetupPagingStructureDirty(w, i) ==
    LET f == w.pd.base + w.pd.current
    IN  IF w.pd.current < w.pd.frames
        THEN [w EXCEPT !.ram = SetEntry(@, w.at, i, StructureEntry(f, ~w.pd.kernel)),
                       !.pd.current = @ + 1,
                       !.at = f]
        ELSE [w EXCEPT !.ok = FALSE]

\* _VmSetupPagingStructure: the next frame of the reservation becomes a zeroed
\* structure; there must be one left.
VmSetupPagingStructure(w, i) ==
    LET f == w.pd.base + w.pd.current
    IN  IF w.pd.current < w.pd.frames
        THEN [w EXCEPT !.ram = [SetEntry(@, w.at, i, StructureEntry(f, ~w.pd.kernel))
                                   EXCEPT ![f] = ZeroTable],
                       !.pd.current = @ + 1,
                       !.at = f]
        ELSE [w EXCEPT !.ok = FALSE]

\* _VmMapPage at one level.  A present entry is kept, except that of the page
\* itself when the caller asked to invalidate.
VmMapPage(w, level, m) ==
    LET i == Index(m.va, level)
        present == Present(w.ram, w.at, i)
    IN  CASE ~w.ok -> w
          [] w.ok /\ level < Levels /\ present -> [w EXCEPT !.at = w.ram[w.at][i].frame]
          [] w.ok /\ level < Levels /\ ~present -> VmSetupPagingStructure(w, i)
          [] w.ok /\ level = Levels /\ present /\ ~m.invalidate -> w
          [] w.ok /\ level = Levels /\ (~present \/ m.invalidate) ->
                [w EXCEPT !.ram = SetEntry(@, w.at, i, PageEntry(m, w.pd))]

\* _VmWalkPagingTables for one page, from the root down.
VmWalkMap(w, m) ==
    LET walk[l \in 0 .. Levels] ==
            IF l = 0 THEN [w EXCEPT !.at = w.pd.base] ELSE VmMapPage(walk[l - 1], l, m)
    IN  walk[Levels]

\* VmmMapMemoryInternal: n pages from va to n frames from pa.
VmmMapMemoryInternal(w, va, pa, n, rights, invalidate, uc) ==
    LET map[k \in 0 .. n] ==
            IF k = 0 THEN w
            ELSE VmWalkMap(map[k - 1], [va |-> va + k - 1, pa |-> pa + k - 1,
                    rights |-> rights, invalidate |-> invalidate, uc |-> uc])
    IN  map[n]

Walk(ram, pd) == [ram |-> ram, pd |-> pd, at |-> pd.base, ok |-> TRUE]

\* The structure that holds the page's entry, or NoFrame when an entry on the
\* way is not present: where the unmap and retrieve walks end.
LeafTable(ram, base, va) ==
    LET walk[l \in 1 .. Levels] ==
            IF l = 1 THEN base
            ELSE IF walk[l - 1] # NoFrame /\ Present(ram, walk[l - 1], Index(va, l - 1))
                 THEN ram[walk[l - 1]][Index(va, l - 1)].frame ELSE NoFrame
    IN  walk[Levels]

IsMapped(ram, base, va) ==
    LET t == LeafTable(ram, base, va)
    IN  t # NoFrame /\ Present(ram, t, Index(va, Levels))

Pte(ram, base, va) == ram[LeafTable(ram, base, va)][Index(va, Levels)]

\* _VmUnmapPage on one page; the structures above it stay.
VmUnmapPage(ram, base, va) ==
    IF ~IsMapped(ram, base, va) THEN ram
    ELSE LET t == LeafTable(ram, base, va)
         IN  [ram EXCEPT ![t] = [i \in DOMAIN @ \ {Index(va, Levels)} |-> @[i]]]

\* VmmUnmapMemoryEx on n pages, and the frames it hands to MmuReleaseMemory, in
\* order.
VmmUnmapMemoryEx(ram, base, va, n) ==
    LET unmap[k \in 0 .. n] ==
            IF k = 0 THEN ram ELSE VmUnmapPage(unmap[k - 1], base, va + k - 1)
    IN  unmap[n]

UnmappedFrames(ram, base, va, n) ==
    FoldLeft(LAMBDA s, k : IF IsMapped(ram, base, va + k - 1)
                           THEN Append(s, Pte(ram, base, va + k - 1).frame) ELSE s,
             << >>, [k \in 1 .. n |-> k])

\* VmmGetPhysicalAddressEx: the frame of a page, or NULL.
VmmGetPhysicalAddressEx(ram, base, va) ==
    IF IsMapped(ram, base, va) THEN Pte(ram, base, va).frame ELSE NoFrame

\* _VmRetrievePhyAccess hands back the A and D bits of a mapped page and clears
\* the ones it was asked for.
VmRetrievePhyAccess(ram, base, va, clear) ==
    IF ~IsMapped(ram, base, va) THEN ram
    ELSE LET t == LeafTable(ram, base, va)
             i == Index(va, Levels)
         IN  [ram EXCEPT ![t][i].acc = @ /\ "acc" \notin clear,
                         ![t][i].dirty = @ /\ "dirty" \notin clear]

\* VmmSetupPageTables: fresh paging data for the frames at pa, which become
\* visible at PA2VA in the tables `where' (the new ones themselves, or those of
\* the kernel, and then the new root is zeroed through that mapping).
VmmSetupPageTables(where, pa, frames, kernel, self, pa2va) ==
    LET pd == [base |-> pa, current |-> 1, frames |-> frames, kernel |-> kernel]
        w  == IF self THEN Walk(where.ram, pd) ELSE where
        v  == VmmMapMemoryInternal(w, pa2va + pa, pa, frames, {"read", "write"}, TRUE, FALSE)
    IN  [ram |-> IF self THEN v.ram ELSE [v.ram EXCEPT ![pa] = ZeroTable],
         where |-> v.pd,
         pd |-> IF self THEN v.pd ELSE pd,
         ok |-> v.ok]

\* _VmDeterminePatIndices: the first slot of each kind; both must exist.
PatSlots(pat, kind) == {i \in DOMAIN pat : pat[i] = kind}

VmDeterminePatIndices(pat) == PatSlots(pat, "WB") # {} /\ PatSlots(pat, "UC") # {}
=============================================================================
