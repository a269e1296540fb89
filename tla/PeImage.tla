------------------------------ MODULE PeImage ------------------------------
(***************************************************************************)
(* How _MmuMapPeInMemory (mmu.c) lays a PE image out in pages.  Sections   *)
(* need not start on a page boundary, so a page can hold the end of one    *)
(* section and the start of the next.  Offsets and sizes count bytes of a  *)
(* page of PageBytes bytes; the result is the sequence of pages mapped     *)
(* (relative to the base of the image) with the rights of each call.       *)
(***************************************************************************)
EXTENDS Integers, Sequences, SequencesExt

CONSTANT PageBytes

ASSUME PageBytesAssumption == PageBytes \in Nat /\ PageBytes > 0

AlignUpper(x, a) == ((x + a - 1) \div a) * a
\* A section that does not reach the end of the page it starts in waits for the
\* next one; any other maps its first page, with the rights of what the page
\* already holds, and then the pages it fills.
MapSection(s, sec, align) ==
    LET size  == AlignUpper(sec.size, align)
        first == sec.base \div PageBytes
        rest  == size - s.remaining
    IN  IF size < s.remaining
        THEN [s EXCEPT !.remaining = @ - size, !.size = size, !.prev = @ \cup sec.rights]
        ELSE [maps |-> s.maps \o <<[page |-> first, rights |-> s.prev \cup sec.rights]>>
                        \o [k \in 1 .. rest \div PageBytes |->
                                [page |-> first + k, rights |-> sec.rights]],
              at |-> first + 1,
              size |-> rest,
              remaining |-> PageBytes - (rest % PageBytes),
              prev |-> sec.rights]

\* Header pages, except the last one.
HeaderMaps(image) ==
    LET pages == AlignUpper(image.headers, PageBytes) \div PageBytes
    IN  [k \in 1 .. (IF pages > 0 THEN pages - 1 ELSE 0) |->
            [page |-> k - 1, rights |-> {"read"}]]

\* After the last section, its rest is mapped where the last whole page began.
MmuMapPeInMemory(image) ==
    LET start == [maps |-> HeaderMaps(image), at |-> 0, size |-> 0, prev |-> {"read"},
                  remaining |-> PageBytes - (image.headers % PageBytes)]
        end   == FoldLeft(LAMBDA s, sec : MapSection(s, sec, image.align), start,
                          image.sections)
    IN  IF end.size = 0 THEN end.maps
        ELSE Append(end.maps, [page |-> end.at, rights |-> end.prev])

\* Images whose file layout differs from the memory layout are refused.
PeSupported(image) == image.fileAlign = image.align

\* Reference definition: the pages a section's bytes lie in.
SectionPages(sec) ==
    {p \in 0 .. (sec.base + sec.size) \div PageBytes :
        p * PageBytes < sec.base + sec.size /\ (p + 1) * PageBytes > sec.base}
=============================================================================
