-------------------------------- MODULE Mdl --------------------------------
(***************************************************************************)
(* Memory descriptor lists (mdl.c): the runs of physically contiguous      *)
(* bytes behind a range of virtual addresses.  Addresses count bytes, tr   *)
(* gives the frame of a page or NoFrame, and pages have P bytes.           *)
(***************************************************************************)
EXTENDS Integers, Sequences, SequencesExt

\* MmuGetPhysicalAddressEx adds the offset in the page to whatever the walk
\* returned: for a page that is not mapped that is NULL (0) plus the offset.
MmuGetPhysicalAddressEx(tr, addr, P) ==
    LET f == tr[addr \div P] IN (IF f < 0 THEN 0 ELSE f * P) + (addr % P)

PageCount(addr, len, P) == ((addr % P) + len + P - 1) \div P

\* Mutant: every page extends the current run.
AddPageMerge(pairs, pa, P) == [pairs EXCEPT ![Len(pairs)].bytes = @ + P]

\* Each further page extends the current run when it continues it, and closes
\* it and begins another one otherwise.
AddPage(pairs, pa, P) ==
    LET cur == pairs[Len(pairs)]
    IN  IF cur.pa + cur.bytes = pa
        THEN [pairs EXCEPT ![Len(pairs)].bytes = @ + P]
        ELSE Append(pairs, [pa |-> pa, bytes |-> P])

\* The translation pairs of MdlAllocateEx; << >> when it refuses, because the
\* first address translates to NULL.
MdlAllocateEx(tr, addr, len, P) ==
    LET first == MmuGetPhysicalAddressEx(tr, addr, P)
        base  == addr \div P
    IN  IF first = 0 THEN << >>
        ELSE FoldLeft(LAMBDA pairs, k : AddPage(pairs, MmuGetPhysicalAddressEx(tr, (base + k) * P, P), P),
                      << [pa |-> first, bytes |-> P - (addr % P)] >>,
                      [k \in 1 .. PageCount(addr, len, P) - 1 |-> k])

\* The assertions of the two passes: no later page may be unmapped.
MdlAsserts(tr, addr, len, P) ==
    \A k \in 1 .. PageCount(addr, len, P) - 1 :
        MmuGetPhysicalAddressEx(tr, ((addr \div P) + k) * P, P) # 0

\* Reference definition: the physical addresses a list stands for, in order.
Described(pairs) ==
    FoldLeft(LAMBDA s, p : s \o [k \in 1 .. p.bytes |-> p.pa + k - 1], << >>, pairs)
=============================================================================
