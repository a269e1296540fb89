----------------------------- MODULE MCMmuBoot -----------------------------
(***************************************************************************)
(* Instances of MmuBoot: 46 frames of two units, memory maps with holes,   *)
(* ignored, reserved and unaligned entries, and images whose sections      *)
(* share pages, fill them or end inside one.  One boot succeeds, the others *)
(* each meet one of the errors.                                            *)
(***************************************************************************)
EXTENDS MmuBoot

CONSTANTS p1, p2

Entry(base, length, type, valid) ==
    [base |-> base, length |-> length, type |-> type, valid |-> valid]

Plain == << Entry(0, 2, "ram", TRUE), Entry(2, 2, "reserved", TRUE), Entry(4, 88, "ram", TRUE),
            Entry(92, 4, "ram", FALSE) >>

\* An entry whose base is not aligned and that ends in the middle of a frame.
Unaligned == << Entry(0, 4, "ram", TRUE), Entry(4, 83, "ram", TRUE), Entry(87, 2, "ram", TRUE),
                Entry(89, 1, "reserved", TRUE), Entry(90, 2, "ram", TRUE) >>
UnalignedEnd == << Entry(4, 87, "ram", TRUE) >>
Small == << Entry(4, 30, "ram", TRUE) >>

Section(base, size, rights) ==
    [base |-> base, size |-> size, rights |-> {"read"} \cup rights]

Image(size, headers, align, sections) ==
    [parses |-> TRUE, amd64 |-> TRUE, native |-> TRUE, relocations |-> FALSE,
     size |-> size, loaded |-> size, headers |-> headers, align |-> align,
     fileAlign |-> align, sections |-> sections]

Aligned == Image(12, 4, 4, << Section(4, 4, {"execute"}), Section(8, 4, {"write"}) >>)
Shared == Image(12, 2, 2, << Section(2, 4, {"execute"}), Section(6, 2, {}), Section(8, 4, {"write"}) >>)
Ragged == Image(10, 2, 2, << Section(2, 2, {}), Section(4, 6, {"write"}) >>)

Pat == <<"WB", "WT", "UC">>

Inputs(map, im, pat) == [map |-> map, image |-> im, pat |-> pat]

MCBoots ==
    { Inputs(Unaligned, Shared, Pat),
      Inputs(UnalignedEnd, Aligned, Pat), Inputs(Small, Shared, Pat),
      Inputs(Plain, Aligned, <<"WT", "UC">>),
      Inputs(Plain, [Aligned EXCEPT !.fileAlign = 2], Pat),
      Inputs(Plain, [Aligned EXCEPT !.loaded = 8], Pat),
      Inputs(Plain, [Aligned EXCEPT !.parses = FALSE], Pat) }

MCAppImages == {Aligned, Ragged}

MCMappings == {<<0, FALSE>>, <<1, TRUE>>}

\* Two pages, across a boundary, past the end of the image, and both.
MCUserBuffers == {<<4, 8>>, <<7, 2>>, <<13, 2>>, <<7, 8>>}

MCSymmetry == Permutations(Processes)
=============================================================================
