----------------------------- MODULE VmmProofs -----------------------------
(***************************************************************************)
(* Proofs about Vmm, for any number of threads, processors, frames and     *)
(* pages.                                                                  *)
(***************************************************************************)
EXTENDS Vmm, FiniteSetTheorems, WellFoundedInduction, TLAPS

AllocLabels == {"aLock", "aChange", "aFrames", "aMap", "aRead"}
FreeLabels  == {"fLock", "fBitmap", "fClose", "fUnmap"}
FaultLabels == {"pCheck", "pFrame", "pMap", "pFill"}
Labels      == {"idle"} \cup AllocLabels \cup FreeLabels \cup FaultLabels

\* Labels at which a thread has a file that no region refers to, and those at
\* which a fault handler has the file of a region.
Filing  == {"aLock", "aChange", "fBitmap", "fClose"}
Filling == {"pFrame", "pMap", "pFill"}

Kinds == {"none", "alloc", "free", "fault"}
Attrs == {"none", "rw", "ro"}
Flags == {"reserve", "commit", "eager", "release", "undo", "decommit", "read", "write"}

Ops == [kind : Kinds, addr : Nat, va : Nat, n : Nat, type : SUBSET Flags, attr : Attrs,
        file : Files \cup {NoFile}, frame : Frames \cup {NoFrame},
        cpu : Cpus \cup {Nobody}, bitmap : Nat, release : BOOLEAN]

Entry == [state : {"Free", "Used", "Last"}, start : Nat, size : Nat,
          attr : Attrs, file : Files \cup {NoFile}, commit : SUBSET Int,
          bitmap : Nat]

Spaces == [list : Seq(Entry), next : Nat, bitmaps : Nat]

-----------------------------------------------------------------------------
(* The inductive invariant, part by part.                                  *)

\* The types of all variables but the space.
TypeInv ==
    /\ bitmap \subseteq Frames /\ 0 \in bitmap
    /\ pt \in [Pages -> Frames \cup {NoFrame}]
    /\ reslock \in Threads \cup {Nobody}
    /\ access \in [Cpus -> BOOLEAN]
    /\ on \in [Threads -> Cpus \cup {Nobody}]
    /\ open \subseteq Files
    /\ dirty \subseteq Frames \ {0}
    /\ crossed \in BOOLEAN /\ (FixedBases = {} => ~crossed)
    /\ panic \in {"none", "frames", "metadata", "fault", "free", "undo"}
    /\ pc \in [Threads -> Labels]
    /\ op \in [Threads -> Ops]
    /\ zlist \subseteq Frames
    /\ zpc \in {"wait", "take", "clear", "zero", "release"}
    /\ zitem \in Frames \cup {NoFrame}

\* Only the last entry of the array is marked Last, and entries that are not in
\* use have nothing committed.
Shape(sp) ==
    /\ sp \in Spaces
    /\ \A i \in DOMAIN sp.list : (sp.list[i].state = "Last") = (i = Len(sp.list))
    /\ \A i \in DOMAIN sp.list : sp.list[i].state # "Used" => sp.list[i].commit = {}
    /\ Len(sp.list) > 0

\* The run of pages lies in what was handed out, or at a chosen address.
InSpace(va, n) ==
    /\ n > 0
    /\ \/ StartVa <= va /\ va + n <= space.next
       \/ \E b \in FixedBases : b <= va /\ va + n <= b + MaxPages

EntryInv(e) ==
    /\ e.size > 0
    /\ \/ StartVa <= e.start /\ e.start + e.size <= space.next
       \/ e.start \in FixedBases /\ e.size <= MaxPages /\ e.file = NoFile
    /\ e.commit \subseteq PageRun(e.start, e.size)
    /\ e.bitmap \in 1 .. space.bitmaps

Reserving == {t \in Threads : pc[t] \in {"aLock", "aChange"} /\ "reserve" \in op[t].type}

SpaceInv ==
    /\ Shape(space)
    /\ StartVa <= space.next /\ space.next <= MaxVa + 1
    /\ \A i \in Used(space) : EntryInv(space.list[i])
    /\ space.bitmaps + Cardinality(Reserving) <= MaxBitmaps
    /\ ReservationsDisjoint
    /\ ~crossed => \A i, j \in Used(space) : i # j => ~Overlap(space.list[i], space.list[j])

\* What the locals of a thread are at each of its labels.
OpInv(t) ==
    /\ pc[t] = "idle" => on[t] = Nobody /\ op[t] = NoOp
    /\ pc[t] # "idle" => on[t] # Nobody /\ InSpace(op[t].va, op[t].n)
    /\ pc[t] \in AllocLabels => op[t].kind = "alloc"
    /\ pc[t] \in FreeLabels => op[t].kind = "free"
    /\ pc[t] \in FaultLabels => op[t].kind = "fault" /\ op[t].n = 1
    /\ pc[t] \in {"aLock", "aChange"} =>
          /\ op[t].type \in AllocTypes \cup CommitTypes
          /\ "reserve" \notin op[t].type => op[t].file = NoFile
          /\ "reserve" \in op[t].type =>
                \/ StartVa <= op[t].va /\ op[t].va + op[t].n <= space.next
                \/ op[t].va \in FixedBases /\ op[t].n <= MaxPages /\ op[t].file = NoFile
    /\ pc[t] = "fLock" => op[t].type \in {{"release"}, {"release", "undo"}, {"decommit"}}
    /\ pc[t] = "fLock" /\ "undo" \in op[t].type => op[t].addr = op[t].va
    /\ pc[t] \in {"fBitmap", "fClose"} /\ "undo" \in op[t].type /\ ~crossed =>
          op[t].addr = op[t].va
    /\ pc[t] = "fBitmap" => op[t].bitmap \in 1 .. MaxBitmaps
    /\ pc[t] = "aChange" => op[t].cpu = on[t]
    /\ pc[t] \in {"fBitmap", "fClose"} => op[t].cpu # Nobody
    /\ op[t].cpu # Nobody => pc[t] \in {"aChange", "fBitmap", "fClose"}
    /\ pc[t] = "aMap" => op[t].frame # NoFrame /\ op[t].frame + op[t].n <= NumFrames
    /\ pc[t] = "aRead" => op[t].file # NoFile
    /\ pc[t] = "aRead" /\ ~crossed =>
          \A p \in Concerns(t) : op[t].frame # NoFrame /\ pt[p] = op[t].frame + (p - op[t].va)
    /\ pc[t] = "pMap" => op[t].frame # NoFrame

\* Whatever crosses, reservations under way at addresses the manager handed out
\* share no page with each other or with those that were made.
FreshInv ==
    \A t \in Reserving : op[t].va \notin FixedBases =>
        /\ \A i \in Used(space) :
              space.list[i].start \notin FixedBases =>
                  PageRun(space.list[i].start, space.list[i].size) \cap Concerns(t) = {}
        /\ \A u \in Reserving :
              u # t /\ op[u].va \notin FixedBases => Concerns(u) \cap Concerns(t) = {}

\* Two operations on one page are two faults.
DisjointInv ==
    /\ FreshInv
    /\ ~crossed => \A t, u \in Threads :
          t # u /\ Concerns(t) \cap Concerns(u) # {} =>
              op[t].kind = "fault" /\ op[u].kind = "fault"

\* The region a thread is about to release, to decommit pages of, or to give up
\* again is there, and the pages of one it is about to reserve are free.
RegionInv(t) ==
    /\ pc[t] = "fLock" /\ "release" \in op[t].type /\ ~crossed =>
          \E i \in Used(space) : /\ space.list[i].start = op[t].va
                                 /\ space.list[i].size = op[t].n
                                 /\ op[t].addr \in Concerns(t)
    /\ pc[t] = "fLock" /\ "decommit" \in op[t].type /\ ~crossed =>
          /\ op[t].addr = op[t].va
          /\ \E i \in Used(space) :
                Concerns(t) \subseteq PageRun(space.list[i].start, space.list[i].size)
    /\ pc[t] \in {"aFrames", "aMap", "aRead"} /\ op[t].file # NoFile /\ ~crossed =>
          \E i \in Used(space) : /\ space.list[i].start = op[t].va
                                 /\ space.list[i].size = op[t].n
                                 /\ space.list[i].file = op[t].file
    /\ pc[t] \in {"aLock", "aChange"} /\ "reserve" \in op[t].type /\ ~crossed =>
          \A i \in Used(space) :
              PageRun(space.list[i].start, space.list[i].size) \cap Concerns(t) = {}

\* Who holds a frame holds it alone and has it reserved.
FrameInv ==
    /\ \A p, q \in Pages : pt[p] # NoFrame /\ pt[p] = pt[q] => p = q
    /\ \A p \in Pages : pt[p] # NoFrame => pt[p] \in bitmap \ (zlist \cup {zitem, 0})
    /\ \A t \in Threads, f \in Frames :
          InFlight(t, f) =>
              /\ f \in bitmap \ (zlist \cup {zitem, 0})
              /\ \A p \in Pages : pt[p] # f
              /\ \A u \in Threads : InFlight(u, f) => u = t
    /\ zlist \subseteq bitmap \ {zitem, 0}
    /\ zitem # NoFrame => zitem \in bitmap \ {0}
    /\ (zitem # NoFrame) = (zpc \in {"zero", "release"})
    /\ dirty \subseteq bitmap
    /\ zpc = "release" => zitem \notin dirty
    /\ \A k \in 1 .. MaxBitmaps : k > space.bitmaps => pt[-k] = NoFrame

\* A reserved frame is held, or lost, or given away.
Held(f) ==
    \/ f \in zlist \cup {zitem}
    \/ \E p \in Pages : pt[p] = f
    \/ \E t \in Threads : InFlight(t, f)

LeakInv == \A f \in bitmap \ {0} : Held(f) \/ f \in lost \cup given

\* Processors run one thread at a time and ReservationLock has one holder,
\* whose processor has announced that it accesses the metadata.
CpuInv ==
    /\ \A t, u \in Threads : on[t] = on[u] /\ on[t] # Nobody => t = u
    /\ \A t \in Threads : (pc[t] = "aChange") = (reslock = t)
    /\ ~moved => \A t \in Threads : op[t].cpu # Nobody => op[t].cpu = on[t]
    /\ ~moved => \A t \in Threads : pc[t] = "aChange" => access[on[t]]
    /\ MetadataAccessible
    /\ FreesFindRegion

\* The threads that need a file open that no entry of the space refers to.
FileInv ==
    /\ \A i \in Used(space) : space.list[i].file \in open \cup {NoFile}
    /\ \A i, j \in Used(space) :
          space.list[i].file = space.list[j].file /\ space.list[i].file # NoFile => i = j
    /\ \A t \in Threads :
          pc[t] \in Filing /\ op[t].file # NoFile =>
              /\ op[t].file \in open
              /\ \A i \in Used(space) : space.list[i].file # op[t].file
              /\ \A u \in Threads :
                    u # t /\ pc[u] \in Filing =>
                        op[u].file # op[t].file
    /\ \A t \in Threads :
          pc[t] \in Filling /\ op[t].file # NoFile /\ ~crossed =>
              \E i \in Used(space) :
                  /\ op[t].va \in PageRun(space.list[i].start, space.list[i].size)
                  /\ space.list[i].file = op[t].file

VmmInv ==
    /\ TypeInv
    /\ SpaceInv
    /\ \A t \in Threads : OpInv(t) /\ RegionInv(t)
    /\ DisjointInv
    /\ FrameInv
    /\ LeakInv
    /\ CpuInv
    /\ FileInv

\* The page is committed, with these rights.
Backed(sp, p, rights) ==
    \E i \in Used(sp) : p \in sp.list[i].commit /\ rights \subseteq RightsOf(sp.list[i].attr)

\* The rest is about runs in which no caller chooses addresses.  What a thread
\* knows about the pages it works on: they are committed once the reservation
\* was changed, and unmapped until it maps them, unless two faults met.
CommitOp(t) ==
    /\ pc[t] = "pCheck" => Backed(space, op[t].va, op[t].type)
    /\ pc[t] \in {"aLock", "aChange", "aFrames", "aMap"} =>
          \A p \in Concerns(t) : pt[p] = NoFrame
    /\ pc[t] \in {"aFrames", "aMap", "aRead", "pFrame", "pMap", "pFill"} =>
          \A p \in Concerns(t) : Backed(space, p, {})
    /\ pc[t] \in {"pCheck", "pFrame", "pMap"} /\ pt[op[t].va] # NoFrame => op[t].va \in met

\* What is mapped was committed, or is being unmapped.
MappedInv ==
    \A p \in RegionPages :
        pt[p] # NoFrame =>
            \/ Backed(space, p, {})
            \/ \E t \in Threads : op[t].kind = "free" /\ p \in Concerns(t)

MetInv ==
    \A t, u \in Threads :
        t # u /\ op[t].kind = "fault" /\ op[u].kind = "fault" /\ op[t].va = op[u].va =>
            op[t].va \in met

CommitInv ==
    /\ MappedInv
    /\ MetInv
    /\ \A t \in Threads : CommitOp(t)
-----------------------------------------------------------------------------
(* Facts about the operators of Pmm and VmReservation.                     *)

(* A nonempty set of natural numbers has a least element.                  *)
LEMMA LeastElement ==
    ASSUME NEW S, S \subseteq Nat, S # {}
    PROVE  \E x \in S : \A y \in S : x <= y
<1> DEFINE R == OpToRel(<, Nat)
<1>1. IsWellFoundedOn(R, Nat)
  BY NatLessThanWellFounded
<1>2. \A x, y \in Nat : x < y => <<x, y>> \in R
  BY DEF OpToRel
<1> HIDE DEF R
<1>3. PICK x \in S : \A y \in S : ~(<<y, x>> \in R)
  BY <1>1, WFMin, Zenon
<1>4. \A y \in S : ~(y < x)
  BY <1>2, <1>3, Zenon
<1> QED BY <1>4

(* PmmReserveMemoryEx returns a clear run, or says that there is none.     *)
LEMMA ReserveMemory ==
    ASSUME NEW b, NEW n \in Nat, n > 0
    PROVE  /\ PmmReserveMemoryEx(b, n, 0) # NoFrame =>
                /\ PmmReserveMemoryEx(b, n, 0) \in Frames
                /\ PmmReserveMemoryEx(b, n, 0) + n <= NumFrames
                /\ FrameRun(PmmReserveMemoryEx(b, n, 0), n) \cap b = {}
           /\ PmmReserveMemoryEx(b, n, 0) = NoFrame => ClearRuns(b, 0, n) = {}
<1> DEFINE S == ClearRuns(b, 0, n)
<1>1. CASE S = {}
  BY <1>1 DEF PmmReserveMemoryEx, BitmapScanFrom
<1>2. CASE S # {}
  <2>1. S \subseteq Nat
    BY NumFramesAssumption DEF ClearRuns, Frames
  <2>2. \E i \in S : \A j \in S : i <= j
    BY <2>1, <1>2, LeastElement
  <2>3. PmmReserveMemoryEx(b, n, 0) \in S
    BY <2>2, <1>2 DEF PmmReserveMemoryEx, BitmapScanFrom
  <2> QED BY <2>3, NumFramesAssumption DEF ClearRuns, Frames, NoFrame
<1> QED BY <1>1, <1>2

(* The slots in use are those marked Used: none is behind the Last one.    *)
LEMMA UsedSlots ==
    ASSUME NEW sp, Shape(sp)
    PROVE  Used(sp) = {i \in DOMAIN sp.list : sp.list[i].state = "Used"}
<1>1. /\ sp.list \in Seq(Entry)
      /\ \A i \in DOMAIN sp.list : (sp.list[i].state = "Last") = (i = Len(sp.list))
      /\ DOMAIN sp.list = 1 .. Len(sp.list) /\ Len(sp.list) \in Nat
  BY DEF Shape, Spaces
<1>2. \A i \in DOMAIN sp.list : sp.list[i].state = "Used" =>
          \A j \in 1 .. i : sp.list[j].state # "Last"
  BY <1>1
<1> QED BY <1>2 DEF Used, Visited

(* VmFindReservation returns the first entry in use that contains a run.   *)
LEMMA FindReservation ==
    ASSUME NEW sp, Shape(sp), NEW va \in Int, NEW n \in Int
    PROVE  /\ Containing(sp, va, n) = {} => VmFindReservation(sp, va, n) = 0
           /\ Containing(sp, va, n) # {} =>
                 VmFindReservation(sp, va, n) \in Containing(sp, va, n)
           /\ VmFindReservation(sp, va, n) # 0 =>
                 /\ VmFindReservation(sp, va, n) \in Used(sp)
                 /\ PageRun(va, n) \subseteq
                      PageRun(sp.list[VmFindReservation(sp, va, n)].start,
                              sp.list[VmFindReservation(sp, va, n)].size)
<1> DEFINE S == Containing(sp, va, n)
<1>1. S \subseteq Nat
  BY UsedSlots DEF Containing, Shape, Spaces
<1>2. S # {} => \E i \in S : \A j \in S : i <= j
  BY <1>1, LeastElement
<1>3. S # {} => VmFindReservation(sp, va, n) \in S
  BY <1>2 DEF VmFindReservation
<1>4. S = {} => VmFindReservation(sp, va, n) = 0
  BY DEF VmFindReservation
<1>5. 0 \notin S
  BY UsedSlots DEF Containing, Shape, Spaces
<1> QED BY <1>3, <1>4, <1>5 DEF Containing

(* There is always a slot for a reservation.                               *)
LEMMA FreeSlot ==
    ASSUME NEW sp, Shape(sp)
    PROVE  /\ VmFindFirstFreeReservation(sp) \in DOMAIN sp.list
           /\ sp.list[VmFindFirstFreeReservation(sp)].state # "Used"
<1> DEFINE S == {i \in DOMAIN sp.list : sp.list[i].state # "Used"}
<1>1. /\ DOMAIN sp.list = 1 .. Len(sp.list) /\ Len(sp.list) \in Nat /\ Len(sp.list) > 0
      /\ sp.list[Len(sp.list)].state = "Last"
  BY DEF Shape, Spaces
<1>2. S \subseteq Nat /\ S # {}
  BY <1>1
<1>3. PICK i \in S : \A j \in S : i <= j
  BY <1>2, LeastElement
<1>4. \A j \in 1 .. i - 1 : sp.list[j].state = "Used"
  BY <1>1, <1>3
<1> QED BY <1>3, <1>4 DEF VmFindFirstFreeReservation

LEMMA SpaceRecord ==
    ASSUME NEW sp \in Spaces, NEW k, NEW l
    PROVE  [[sp EXCEPT !.bitmaps = k] EXCEPT !.list = l]
               = [list |-> l, next |-> sp.next, bitmaps |-> k]
<1>1. sp = [list |-> sp.list, next |-> sp.next, bitmaps |-> sp.bitmaps]
  BY DEF Spaces
<1>2. [sp EXCEPT !.bitmaps = k] = [list |-> sp.list, next |-> sp.next, bitmaps |-> k]
  BY <1>1
<1>3. [[list |-> sp.list, next |-> sp.next, bitmaps |-> k] EXCEPT !.list = l]
         = [list |-> l, next |-> sp.next, bitmaps |-> k]
  OBVIOUS
<1> QED BY <1>2, <1>3

(* A reservation takes a slot that was not in use and leaves the others.   *)
LEMMA ReserveFacts ==
    ASSUME NEW sp, Shape(sp), NEW va \in Nat, NEW n \in Nat, NEW attr \in Attrs,
           NEW file \in Files \cup {NoFile}, NEW new, new = ReserveIn(sp, va, n, attr, file)
    PROVE  /\ Shape(new)
           /\ new.next = sp.next /\ new.bitmaps = sp.bitmaps + 1
           /\ \E i : /\ i \notin Used(sp) /\ Used(new) = Used(sp) \cup {i}
                     /\ new.list[i] = VmInitializeReservation(sp, va, n, attr, file)
                     /\ \A j \in Used(sp) : new.list[j] = sp.list[j]
<1> DEFINE i     == VmFindFirstFreeReservation(sp)
           entry == VmInitializeReservation(sp, va, n, attr, file)
           list  == [sp.list EXCEPT ![i] = entry]
<1>1. /\ sp \in Spaces /\ sp.list \in Seq(Entry)
      /\ DOMAIN sp.list = 1 .. Len(sp.list) /\ Len(sp.list) \in Nat
      /\ \A j \in DOMAIN sp.list : (sp.list[j].state = "Last") = (j = Len(sp.list))
  BY DEF Shape, Spaces
<1>2. i \in DOMAIN sp.list /\ sp.list[i].state # "Used"
  BY FreeSlot
<1>3. entry \in Entry /\ EmptyEntry("Last") \in Entry
  BY <1>1 DEF VmInitializeReservation, Entry, EmptyEntry, Attrs, Spaces
<1>4. /\ entry.state = "Used"
      /\ EmptyEntry("Last").state = "Last" /\ EmptyEntry("Last").commit = {}
  BY DEF VmInitializeReservation, EmptyEntry
<1>c. \A j \in DOMAIN sp.list : sp.list[j].state # "Used" => sp.list[j].commit = {}
  BY DEF Shape
<1> HIDE DEF i, entry
<1>5. list \in Seq(Entry) /\ Len(list) = Len(sp.list)
  BY <1>1, <1>2, <1>3
<1>6. \A j \in DOMAIN sp.list : list[j] = IF j = i THEN entry ELSE sp.list[j]
  BY <1>1, <1>2
<1>7. /\ new.next = sp.next /\ new.bitmaps = sp.bitmaps + 1
      /\ new.list = IF sp.list[i].state = "Last" THEN Append(list, EmptyEntry("Last")) ELSE list
      /\ new = [list |-> new.list, next |-> new.next, bitmaps |-> new.bitmaps]
  <2> DEFINE l == IF sp.list[i].state = "Last" THEN Append(list, EmptyEntry("Last")) ELSE list
  <2>1. new = [[sp EXCEPT !.bitmaps = sp.bitmaps + 1] EXCEPT !.list = l]
    BY DEF ReserveIn, i, entry
  <2> HIDE DEF l
  <2>2. new = [list |-> l, next |-> sp.next, bitmaps |-> sp.bitmaps + 1]
    BY <2>1, <1>1, SpaceRecord
  <2>3. new.list = l
    BY <2>2
  <2> QED BY <2>2, <2>3 DEF l
<1> HIDE DEF list
<1>8. CASE sp.list[i].state = "Last"
  <2>1. i = Len(sp.list)
    BY <1>8, <1>1, <1>2
  <2>2. /\ new.list \in Seq(Entry) /\ Len(new.list) = Len(sp.list) + 1
        /\ \A j \in 1 .. Len(sp.list) : new.list[j] = list[j]
        /\ new.list[Len(sp.list) + 1] = EmptyEntry("Last")
    BY SMTT(40), <1>8, <1>7, <1>5, <1>3
  <2>3. Shape(new)
    <3>1. \A j \in DOMAIN new.list : new.list[j].state = "Last" <=> j = Len(new.list)
      <4> SUFFICES ASSUME NEW j \in DOMAIN new.list
                   PROVE  new.list[j].state = "Last" <=> j = Len(new.list)
        OBVIOUS
      <4>1. j \in 1 .. Len(sp.list) \/ j = Len(sp.list) + 1
        BY <2>2, <1>1
      <4>2. j \in 1 .. Len(sp.list) => new.list[j].state # "Last"
        BY SMTT(40), <2>1, <2>2, <1>1, <1>4, <1>6
      <4> QED BY <4>1, <4>2, <2>2, <1>1, <1>4
    <3>2. new \in Spaces
      <4>1. new.next \in Nat /\ new.bitmaps \in Nat
        BY <1>1, <1>7 DEF Spaces
      <4> QED BY <4>1, <2>2, <1>7 DEF Spaces
    <3>3. \A j \in DOMAIN new.list : new.list[j].state # "Used" => new.list[j].commit = {}
      <4> SUFFICES ASSUME NEW j \in DOMAIN new.list, new.list[j].state # "Used"
                   PROVE  new.list[j].commit = {}
        OBVIOUS
      <4>1. j \in 1 .. Len(sp.list) \/ j = Len(sp.list) + 1
        BY <2>2, <1>1
      <4> QED BY SMTT(40), <4>1, <2>2, <1>1, <1>4, <1>6, <1>c
    <3> QED BY <3>1, <3>2, <3>3, <2>2, <1>1 DEF Shape
  <2>4. Used(new) = {j \in DOMAIN new.list : new.list[j].state = "Used"}
    BY <2>3, UsedSlots
  <2>5. Used(sp) = {j \in DOMAIN sp.list : sp.list[j].state = "Used"}
    BY UsedSlots
  <2>6. DOMAIN new.list = 1 .. Len(sp.list) + 1
    BY <2>2
  <2>7. Used(new) = Used(sp) \cup {i}
    <3>1. \A j \in 1 .. Len(sp.list) : new.list[j] = IF j = i THEN entry ELSE sp.list[j]
      BY <2>2, <1>1, <1>6
    <3>2. \A j \in 1 .. Len(sp.list) :
              new.list[j].state = "Used" <=> j = i \/ sp.list[j].state = "Used"
      BY <3>1, <1>4
    <3>3. new.list[Len(sp.list) + 1].state # "Used"
      BY <2>2, <1>4
    <3> QED BY <3>2, <3>3, <2>4, <2>5, <2>6, <1>1, <1>2
  <2>8. i \notin Used(sp) /\ new.list[i] = entry
    BY <2>5, <2>2, <1>1, <1>2, <1>6
  <2>9. \A j \in Used(sp) : new.list[j] = sp.list[j]
    BY <2>2, <2>5, <1>1, <1>2, <1>6
  <2> QED BY <2>3, <2>7, <2>8, <2>9, <1>7 DEF entry
<1>9. CASE sp.list[i].state # "Last"
  <2>1. i # Len(sp.list)
    BY <1>9, <1>1, <1>2
  <2>2. new.list = list
    BY <1>9, <1>7
  <2>3. Shape(new)
    <3>1. new \in Spaces
      <4>1. new.next \in Nat /\ new.bitmaps \in Nat
        BY <1>1, <1>7 DEF Spaces
      <4> QED BY <4>1, <2>2, <1>5, <1>7 DEF Spaces
    <3>2. \A j \in DOMAIN list : list[j].state = "Last" <=> j = Len(list)
      BY <2>1, <1>1, <1>4, <1>5, <1>6
    <3>3. \A j \in DOMAIN list : list[j].state # "Used" => list[j].commit = {}
      BY <1>1, <1>4, <1>5, <1>6, <1>c
    <3>4. Len(list) > 0
      BY <1>1, <1>2, <1>5
    <3> QED BY <3>1, <3>2, <3>3, <3>4, <2>2 DEF Shape
  <2>4. Used(new) = {j \in DOMAIN new.list : new.list[j].state = "Used"}
    BY <2>3, UsedSlots
  <2>5. Used(sp) = {j \in DOMAIN sp.list : sp.list[j].state = "Used"}
    BY UsedSlots
  <2>6. DOMAIN new.list = DOMAIN sp.list
    BY <2>2, <1>5, <1>1
  <2>7. Used(new) = Used(sp) \cup {i}
    BY <2>2, <2>4, <2>5, <2>6, <1>2, <1>4, <1>6
  <2>8. i \notin Used(sp) /\ new.list[i] = entry
    BY <2>5, <2>2, <1>2, <1>6
  <2>9. \A j \in Used(sp) : new.list[j] = sp.list[j]
    BY <2>2, <2>5, <1>2, <1>6
  <2> QED BY <2>3, <2>7, <2>8, <2>9, <1>7 DEF entry
<1> QED BY <1>8, <1>9
LEMMA SpaceList ==
    ASSUME NEW sp \in Spaces, NEW l
    PROVE  [sp EXCEPT !.list = l] = [list |-> l, next |-> sp.next, bitmaps |-> sp.bitmaps]
<1>1. sp = [list |-> sp.list, next |-> sp.next, bitmaps |-> sp.bitmaps]
  BY DEF Spaces
<1> QED BY <1>1

\* The entry i of the space sp becomes e.
Changed(sp, i, e, new) == new = [sp EXCEPT !.list = [sp.list EXCEPT ![i] = e]]

(* A change of one entry in use that leaves it in use, or frees it.        *)
LEMMA ChangeEntry ==
    ASSUME NEW sp, Shape(sp), NEW i \in Used(sp), NEW e \in Entry, e.state # "Last",
           e.state # "Used" => e.commit = {}, NEW new, Changed(sp, i, e, new)
    PROVE  /\ Shape(new)
           /\ new.next = sp.next /\ new.bitmaps = sp.bitmaps
           /\ \A j : j \in Used(new) <=> j \in Used(sp) /\ (j = i => e.state = "Used")
           /\ new.list[i] = e
           /\ \A j \in Used(sp) : j # i => new.list[j] = sp.list[j]
<1> DEFINE list == [sp.list EXCEPT ![i] = e]
<1>1. /\ sp \in Spaces /\ sp.list \in Seq(Entry)
      /\ DOMAIN sp.list = 1 .. Len(sp.list) /\ Len(sp.list) \in Nat /\ Len(sp.list) > 0
      /\ \A j \in DOMAIN sp.list : (sp.list[j].state = "Last") = (j = Len(sp.list))
  BY DEF Shape, Spaces
<1>2. Used(sp) = {j \in DOMAIN sp.list : sp.list[j].state = "Used"}
  BY UsedSlots
<1>3. list \in Seq(Entry) /\ Len(list) = Len(sp.list) /\ DOMAIN list = DOMAIN sp.list
  BY <1>1, <1>2
<1>4. \A j \in DOMAIN sp.list : list[j] = IF j = i THEN e ELSE sp.list[j]
  BY <1>1, <1>2
<1>5. new = [list |-> list, next |-> sp.next, bitmaps |-> sp.bitmaps]
  BY <1>1, SpaceList DEF Changed
<1> HIDE DEF list
<1>6. new.list = list /\ new.next = sp.next /\ new.bitmaps = sp.bitmaps
  BY <1>5
<1>7. Shape(new)
  <2>1. new \in Spaces
    BY <1>1, <1>3, <1>5 DEF Spaces
  <2>2. \A j \in DOMAIN list : list[j].state = "Last" <=> j = Len(list)
    BY <1>1, <1>2, <1>3, <1>4
  <2>3. \A j \in DOMAIN list : list[j].state # "Used" => list[j].commit = {}
    BY <1>3, <1>4 DEF Shape
  <2> QED BY <2>1, <2>2, <2>3, <1>1, <1>3, <1>6 DEF Shape
<1>8. Used(new) = {j \in DOMAIN list : list[j].state = "Used"}
  BY <1>6, <1>7, UsedSlots
<1>9. \A j : j \in Used(new) <=> j \in Used(sp) /\ (j = i => e.state = "Used")
  BY <1>2, <1>3, <1>4, <1>8
<1> QED BY <1>2, <1>4, <1>6, <1>7, <1>9

(* What a commit, a decommit and a release change.                         *)
LEMMA CommitFacts ==
    ASSUME NEW sp, Shape(sp), NEW va \in Nat, NEW n \in Nat,
           VmFindReservation(sp, va, n) # 0, NEW new, new = VmCommitReservation(sp, va, n)
    PROVE  /\ Shape(new)
           /\ new.next = sp.next /\ new.bitmaps = sp.bitmaps /\ Used(new) = Used(sp)
           /\ \E i \in Used(sp) :
                 /\ i = VmFindReservation(sp, va, n)
                 /\ PageRun(va, n) \subseteq PageRun(sp.list[i].start, sp.list[i].size)
                 /\ new.list[i].commit = sp.list[i].commit \cup PageRun(va, n)
                 /\ new.list[i].start = sp.list[i].start /\ new.list[i].size = sp.list[i].size
                 /\ new.list[i].file = sp.list[i].file /\ new.list[i].bitmap = sp.list[i].bitmap
                 /\ new.list[i].attr = sp.list[i].attr
                 /\ \A j \in Used(sp) : j # i => new.list[j] = sp.list[j]
<1>1. PICK i \in Used(sp) :
          /\ i = VmFindReservation(sp, va, n)
          /\ PageRun(va, n) \subseteq PageRun(sp.list[i].start, sp.list[i].size)
  BY FindReservation
<1>2. PICK e : e = [sp.list[i] EXCEPT !.commit = @ \cup PageRun(va, n)]
  OBVIOUS
<1>3. Changed(sp, i, e, new)
  BY <1>1, <1>2 DEF Changed, VmCommitReservation
<1>4. sp.list[i] \in Entry /\ sp.list[i].state = "Used"
  BY UsedSlots DEF Shape, Spaces
<1>5. PageRun(va, n) \subseteq Int
  BY DEF PageRun
<1>6. /\ e \in Entry /\ e.state = "Used" /\ e.commit = sp.list[i].commit \cup PageRun(va, n)
      /\ e.start = sp.list[i].start /\ e.size = sp.list[i].size
      /\ e.file = sp.list[i].file /\ e.bitmap = sp.list[i].bitmap /\ e.attr = sp.list[i].attr
  BY <1>2, <1>4, <1>5 DEF Entry
<1>7. /\ Shape(new)
      /\ new.next = sp.next /\ new.bitmaps = sp.bitmaps
      /\ \A j : j \in Used(new) <=> j \in Used(sp) /\ (j = i => e.state = "Used")
      /\ new.list[i] = e
      /\ \A j \in Used(sp) : j # i => new.list[j] = sp.list[j]
  <2>1. e \in Entry /\ e.state # "Last" /\ (e.state # "Used" => e.commit = {})
    BY <1>6
  <2> QED BY <2>1, <1>3, ChangeEntry
<1>8. Used(new) = Used(sp)
  BY <1>6, <1>7
<1> QED BY <1>1, <1>6, <1>7, <1>8

LEMMA DecommitFacts ==
    ASSUME NEW sp, Shape(sp), NEW va \in Nat, NEW n \in Nat,
           NEW new, new = VmDecommitReservation(sp, va, n)
    PROVE  /\ Shape(new)
           /\ new.next = sp.next /\ new.bitmaps = sp.bitmaps /\ Used(new) = Used(sp)
           /\ \A i \in Used(sp) :
                 /\ new.list[i].commit \subseteq sp.list[i].commit
                 /\ sp.list[i].commit \subseteq new.list[i].commit \cup PageRun(va, n)
                 /\ new.list[i].start = sp.list[i].start /\ new.list[i].size = sp.list[i].size
                 /\ new.list[i].file = sp.list[i].file /\ new.list[i].bitmap = sp.list[i].bitmap
                 /\ new.list[i].attr = sp.list[i].attr
<1>1. CASE VmFindReservation(sp, va, 1) = 0
  <2>1. 0 \notin DOMAIN sp.list /\ sp \in Spaces
    BY DEF Shape, Spaces
  <2>2. new = [sp EXCEPT !.list = [sp.list EXCEPT ![0].commit = @ \ PageRun(va, n)]]
    BY <1>1 DEF VmDecommitReservation
  <2>3. PICK l : l = [sp.list EXCEPT ![0].commit = @ \ PageRun(va, n)]
    OBVIOUS
  <2>4. l = sp.list
    BY <2>1, <2>3 DEF Spaces
  <2>5. new = [list |-> sp.list, next |-> sp.next, bitmaps |-> sp.bitmaps]
    BY <2>1, <2>2, <2>3, <2>4, SpaceList
  <2>6. new = sp
    BY <2>1, <2>5 DEF Spaces
  <2> QED BY <2>6
<1>2. CASE VmFindReservation(sp, va, 1) # 0
  <2>1. PICK i \in Used(sp) : i = VmFindReservation(sp, va, 1)
    BY <1>2, FindReservation
  <2>2. PICK e : e = [sp.list[i] EXCEPT !.commit = @ \ PageRun(va, n)]
    OBVIOUS
  <2>3. Changed(sp, i, e, new)
    BY <2>1, <2>2 DEF Changed, VmDecommitReservation
  <2>4. sp.list[i] \in Entry /\ sp.list[i].state = "Used"
    BY UsedSlots DEF Shape, Spaces
  <2>5. /\ e \in Entry /\ e.state = "Used" /\ e.commit = sp.list[i].commit \ PageRun(va, n)
        /\ e.start = sp.list[i].start /\ e.size = sp.list[i].size
        /\ e.file = sp.list[i].file /\ e.bitmap = sp.list[i].bitmap /\ e.attr = sp.list[i].attr
    BY <2>2, <2>4 DEF Entry
  <2>6. /\ Shape(new)
        /\ new.next = sp.next /\ new.bitmaps = sp.bitmaps
        /\ \A j : j \in Used(new) <=> j \in Used(sp) /\ (j = i => e.state = "Used")
        /\ new.list[i] = e
        /\ \A j \in Used(sp) : j # i => new.list[j] = sp.list[j]
    <3>1. e \in Entry /\ e.state # "Last" /\ (e.state # "Used" => e.commit = {})
      BY <2>5
    <3> QED BY <3>1, <2>3, ChangeEntry
  <2>7. Used(new) = Used(sp)
    BY <2>5, <2>6
  <2>8. \A j \in Used(sp) : j # i => new.list[j] = sp.list[j]
    BY <2>6
  <2> QED BY <2>5, <2>6, <2>7, <2>8
<1> QED BY <1>1, <1>2

LEMMA RemoveFacts ==
    ASSUME NEW sp, Shape(sp), NEW va \in Nat, VmFindReservation(sp, va, 1) # 0,
           NEW new, new = RemoveReservation(sp, va)
    PROVE  /\ Shape(new)
           /\ new.next = sp.next /\ new.bitmaps = sp.bitmaps
           /\ \E i \in Used(sp) :
                 /\ i = VmFindReservation(sp, va, 1)
                 /\ va \in PageRun(sp.list[i].start, sp.list[i].size)
                 /\ Used(new) = Used(sp) \ {i}
           /\ \A j \in Used(new) : new.list[j] = sp.list[j]
<1>1. PICK i \in Used(sp) :
          /\ i = VmFindReservation(sp, va, 1)
          /\ PageRun(va, 1) \subseteq PageRun(sp.list[i].start, sp.list[i].size)
  BY FindReservation
<1>2. va \in PageRun(va, 1)
  BY DEF PageRun
<1>3. Changed(sp, i, EmptyEntry("Free"), new)
  BY <1>1 DEF Changed, RemoveReservation
<1>4. /\ EmptyEntry("Free") \in Entry
      /\ EmptyEntry("Free").state = "Free" /\ EmptyEntry("Free").commit = {}
  BY DEF Entry, EmptyEntry, Attrs
<1>5. /\ Shape(new)
      /\ new.next = sp.next /\ new.bitmaps = sp.bitmaps
      /\ \A j : j \in Used(new) <=> j \in Used(sp) /\ (j = i => EmptyEntry("Free").state = "Used")
      /\ \A j \in Used(sp) : j # i => new.list[j] = sp.list[j]
  BY <1>3, <1>4, ChangeEntry
<1>6. Used(new) = Used(sp) \ {i}
  BY <1>4, <1>5
<1> QED BY <1>1, <1>2, <1>5, <1>6
-----------------------------------------------------------------------------
(* What steps that touch nothing of a part of the invariant leave of it.   *)

\* No thread but t takes part in the step.
Local(t) ==
    \A u \in Threads \ {t} : pc'[u] = pc[u] /\ op'[u] = op[u] /\ on'[u] = on[u]

\* The entries agree on everything but the pages that are committed.
Alike(d, e) ==
    /\ d.start = e.start /\ d.size = e.size
    /\ d.file = e.file /\ d.bitmap = e.bitmap

\* The step leaves every region where it is, and what has crossed stays crossed.
SameRegions ==
    /\ crossed => crossed'
    /\ Shape(space')
    /\ space.next <= space'.next /\ space'.next <= MaxVa + 1
    /\ space'.bitmaps = space.bitmaps
    /\ Used(space') = Used(space)
    /\ \A i \in Used(space) :
          /\ Alike(space'.list[i], space.list[i])
          /\ space'.list[i].commit \subseteq PageRun(space.list[i].start, space.list[i].size)

LEMMA SpaceTypes ==
    ASSUME NEW sp, Shape(sp)
    PROVE  /\ sp.next \in Nat /\ sp.bitmaps \in Nat
           /\ \A i \in Used(sp) :
                 /\ sp.list[i] \in Entry
                 /\ sp.list[i].start \in Nat /\ sp.list[i].size \in Nat
                 /\ sp.list[i].bitmap \in Nat
                 /\ sp.list[i].file \in Files \cup {NoFile}
<1>1. \A i \in Used(sp) : sp.list[i] \in Entry
  BY UsedSlots DEF Shape, Spaces
<1> QED BY <1>1 DEF Shape, Spaces, Entry

LEMMA OpTypes ==
    ASSUME TypeInv, NEW t \in Threads
    PROVE  /\ op[t] \in Ops
           /\ op[t].va \in Nat /\ op[t].n \in Nat /\ op[t].bitmap \in Nat
           /\ op[t].addr \in Nat
           /\ op[t].frame \in Frames \cup {NoFrame} /\ op[t].cpu \in Cpus \cup {Nobody}
           /\ op[t].file \in Files \cup {NoFile} /\ op[t].type \subseteq Flags
           /\ op[t].attr \in Attrs
<1>1. op[t] \in Ops
  BY DEF TypeInv
<1> QED BY <1>1 DEF Ops

LEMMA ConcernsIdle ==
    ASSUME NEW t, op[t] = NoOp
    PROVE  Concerns(t) = {} /\ op[t].kind # "fault" /\ op[t].cpu = Nobody /\ op[t].file = NoFile
  BY DEF NoOp, Concerns, PageRun

(* The pages of a region are pages of the model, and no bitmap pages.      *)
LEMMA RunsArePages ==
    ASSUME space.next \in Nat, space.next <= MaxVa + 1, NEW va \in Nat, NEW n \in Nat,
           InSpace(va, n)
    PROVE  /\ PageRun(va, n) \subseteq RegionPages
           /\ va \in PageRun(va, n)
           /\ \A p \in PageRun(va, n) : p \in Nat
<1>1. CASE StartVa <= va /\ va + n <= space.next
  BY <1>1, VmmAssumption, VmReservationAssumption DEF PageRun, RegionPages, InSpace
<1>2. CASE \E b \in FixedBases : b <= va /\ va + n <= b + MaxPages
  <2>1. PICK b \in FixedBases : b <= va /\ va + n <= b + MaxPages
    BY <1>2
  <2>2. b \in Nat /\ MaxPages \in Nat
    BY VmmAssumption
  <2>3. PageRun(va, n) \subseteq PageRun(b, MaxPages)
    BY <2>1, <2>2 DEF PageRun
  <2> QED BY <2>3 DEF RegionPages, InSpace, PageRun
<1> QED BY <1>1, <1>2 DEF InSpace

LEMMA PageNumbers ==
    /\ \A p \in RegionPages : p \in Nat /\ p > 0 /\ p \in Pages
    /\ \A k \in 1 .. MaxBitmaps : -k \in Pages /\ -k \notin RegionPages
    /\ \A p \in Pages : p \in Int
<1>1. \A p \in RegionPages : p \in Nat /\ p > 0
  <2> SUFFICES ASSUME NEW p \in RegionPages
               PROVE  p \in Nat /\ p > 0
    OBVIOUS
  <2>1. CASE p \in StartVa .. MaxVa
    BY <2>1, VmmAssumption, VmReservationAssumption
  <2>2. CASE \E b \in FixedBases : p \in PageRun(b, MaxPages)
    BY <2>2, VmmAssumption, VmReservationAssumption DEF PageRun
  <2> QED BY <2>1, <2>2 DEF RegionPages
<1>2. \A p \in BitmapPages : p \in Int
  BY VmReservationAssumption DEF BitmapPages
<1>3. \A k \in 1 .. MaxBitmaps : -k \in Pages /\ -k \notin RegionPages
  BY <1>1, VmReservationAssumption DEF Pages, BitmapPages
<1> QED BY <1>1, <1>2, <1>3 DEF Pages

LEMMA RegionsUnchanged ==
    ASSUME SpaceInv, space' = space, crossed => crossed'
    PROVE  SameRegions
  BY SpaceTypes DEF SpaceInv, SameRegions, EntryInv, Alike

(* The bound on bitmap pages, when the reservations under way become no    *)
(* more, and when one that BitmapLeft admits joins them.                   *)
LEMMA BitmapsBounded ==
    ASSUME SpaceInv, NEW t, NEW R, R \subseteq Threads,
           R \subseteq Reserving \/ (BitmapLeft /\ R \subseteq Reserving \cup {t})
    PROVE  space.bitmaps + Cardinality(R) <= MaxBitmaps
<1>1. IsFiniteSet(Reserving)
  BY VmmAssumption, FS_Subset DEF Reserving
<1>2. Cardinality(Reserving) \in Nat /\ space.bitmaps \in Nat
  BY <1>1, FS_CardinalityType, SpaceTypes DEF SpaceInv
<1>3. CASE R \subseteq Reserving
  <2>1. Cardinality(R) <= Cardinality(Reserving) /\ Cardinality(R) \in Nat
    BY <1>1, <1>3, FS_Subset, FS_CardinalityType
  <2> QED BY <2>1, <1>2, VmReservationAssumption DEF SpaceInv
<1>4. CASE BitmapLeft /\ R \subseteq Reserving \cup {t}
  <2>1. /\ IsFiniteSet(Reserving \cup {t})
        /\ Cardinality(Reserving \cup {t}) <= Cardinality(Reserving) + 1
        /\ Cardinality(Reserving \cup {t}) \in Nat
    <3>1. /\ IsFiniteSet(Reserving \cup {t})
          /\ Cardinality(Reserving \cup {t}) =
                IF t \in Reserving THEN Cardinality(Reserving) ELSE Cardinality(Reserving) + 1
      BY <1>1, FS_AddElement, Zenon
    <3> QED BY <3>1, <1>2
  <2>2. Cardinality(R) <= Cardinality(Reserving \cup {t}) /\ Cardinality(R) \in Nat
    BY <2>1, <1>4, FS_Subset, FS_CardinalityType
  <2>3. space.bitmaps + Cardinality(Reserving) < MaxBitmaps
    BY <1>4 DEF BitmapLeft, Reserving
  <2> QED BY <2>1, <2>2, <2>3, <1>2, VmReservationAssumption
<1> QED BY <1>3, <1>4

LEMMA RegionsKept ==
    ASSUME SpaceInv, SameRegions, NEW t,
           Reserving' \subseteq Reserving \/ (BitmapLeft /\ Reserving' \subseteq Reserving \cup {t})
    PROVE  SpaceInv'
<1>1. \A i \in Used(space') : EntryInv(space.list[i])
  BY DEF SpaceInv, SameRegions
<1>2. \A i \in Used(space') : EntryInv(space.list[i])'
  <2> SUFFICES ASSUME NEW i \in Used(space')
               PROVE  EntryInv(space.list[i])'
    BY Zenon
  <2>1. space.next \in Nat /\ space'.next \in Nat /\ space.list[i] \in Entry
    BY SpaceTypes DEF SpaceInv, SameRegions
  <2> QED BY <2>1, <1>1 DEF EntryInv, SameRegions, Alike, Entry
<1>3. ReservationsDisjoint'
  BY DEF SpaceInv, ReservationsDisjoint, SameRegions, Alike, Overlap
<1>4. space'.bitmaps + Cardinality(Reserving') <= MaxBitmaps
  <2>1. Reserving' \subseteq Threads
    BY DEF Reserving
  <2>2. space.bitmaps + Cardinality(Reserving') <= MaxBitmaps
    BY <2>1, BitmapsBounded
  <2> QED BY <2>2 DEF SameRegions
<1>5. StartVa <= space'.next /\ space'.next <= MaxVa + 1 /\ Shape(space')
  BY SpaceTypes, VmReservationAssumption, VmmAssumption DEF SpaceInv, SameRegions
<1>6. ~crossed' => \A i, j \in Used(space') : i # j => ~Overlap(space'.list[i], space'.list[j])
  BY DEF SpaceInv, SameRegions, Alike, Overlap
<1> QED BY <1>2, <1>3, <1>4, <1>5, <1>6 DEF SpaceInv

LEMMA OtherOps ==
    ASSUME TypeInv, SpaceInv, NEW t, Local(t), space'.next \in Nat, space.next <= space'.next,
           NEW u \in Threads \ {t}, OpInv(u),
           crossed => crossed',
           pc[u] = "aRead" /\ ~crossed' => \A p \in Concerns(u) : pt'[p] = pt[p]
    PROVE  OpInv(u)'
<1>1. pc'[u] = pc[u] /\ op'[u] = op[u] /\ on'[u] = on[u]
  BY DEF Local
<1>2. Concerns(u)' = Concerns(u)
  BY <1>1 DEF Concerns
<1>3. space.next \in Nat /\ op[u].va \in Nat /\ op[u].n \in Nat
  BY SpaceTypes, OpTypes DEF SpaceInv
<1>4. InSpace(op[u].va, op[u].n) => InSpace(op[u].va, op[u].n)'
  BY <1>1, <1>3, VmReservationAssumption DEF InSpace
<1>5. /\ pc[u] = "aRead" /\ ~crossed' =>
          \A p \in Concerns(u) : op[u].frame # NoFrame /\ pt'[p] = op[u].frame + (p - op[u].va)
  BY <1>1 DEF OpInv
<1>6. pc[u] \in {"aLock", "aChange"} =>
        (StartVa <= op[u].va /\ op[u].va + op[u].n <= space.next =>
            StartVa <= op[u].va /\ op[u].va + op[u].n <= space'.next)
  BY <1>3, VmReservationAssumption
<1> QED BY <1>1, <1>2, <1>4, <1>5, <1>6 DEF OpInv

LEMMA OtherRegions ==
    ASSUME NEW t, Local(t), SameRegions, NEW u \in Threads \ {t}, RegionInv(u)
    PROVE  RegionInv(u)'
<1>1. pc'[u] = pc[u] /\ op'[u] = op[u] /\ Concerns(u)' = Concerns(u)
  BY DEF Local, Concerns
<1> QED BY <1>1 DEF RegionInv, SameRegions, Alike

LEMMA FreshKept ==
    ASSUME FreshInv, NEW t \in Threads, Local(t), SameRegions,
           t \in Reserving' => /\ t \in Reserving /\ op'[t].va = op[t].va
                               /\ Concerns(t)' \subseteq Concerns(t)
    PROVE  FreshInv'
<1>1. \A u \in Reserving' : /\ u \in Reserving /\ op'[u].va = op[u].va
                            /\ Concerns(u)' \subseteq Concerns(u)
  BY DEF Local, Reserving, Concerns
<1>2. /\ Used(space') = Used(space)
      /\ \A i \in Used(space) : /\ space'.list[i].start = space.list[i].start
                                /\ space'.list[i].size = space.list[i].size
  BY DEF SameRegions, Alike
<1> QED BY <1>1, <1>2 DEF FreshInv

LEMMA DisjointKept ==
    ASSUME DisjointInv, NEW t \in Threads, Local(t), Concerns(t)' \subseteq Concerns(t),
           op[t].kind = "fault" => op'[t].kind = "fault" \/ Concerns(t)' = {},
           crossed => crossed', FreshInv'
    PROVE  DisjointInv'
<1> SUFFICES ASSUME ~crossed', NEW u \in Threads, NEW v \in Threads, u # v,
                    Concerns(u)' \cap Concerns(v)' # {}
             PROVE  op'[u].kind = "fault" /\ op'[v].kind = "fault"
  BY DEF DisjointInv
<1>1. \A w \in Threads : w # t => Concerns(w)' = Concerns(w) /\ op'[w] = op[w]
  BY DEF Local, Concerns
<1>2. \A w \in Threads : Concerns(w)' \subseteq Concerns(w)
  BY <1>1
<1>3. op[u].kind = "fault" /\ op[v].kind = "fault"
  BY <1>2 DEF DisjointInv
<1>4. \A w \in Threads : op[w].kind = "fault" /\ Concerns(w)' # {} => op'[w].kind = "fault"
  BY <1>1
<1> QED BY <1>3, <1>4
LEMMA FramesKept ==
    ASSUME TypeInv, SpaceInv, FrameInv, LeakInv, NEW t, Local(t),
           UNCHANGED <<bitmap, pt, zlist, zitem, zpc, dirty, lost, given>>,
           space'.bitmaps \in Nat, space.bitmaps <= space'.bitmaps,
           pc[t] \notin {"aMap", "pMap"}, pc'[t] \notin {"aMap", "pMap"}
    PROVE  FrameInv' /\ LeakInv'
<1>1. \A u \in Threads, f \in Frames : InFlight(u, f)' <=> InFlight(u, f)
  BY DEF Local, InFlight
<1>2. space.bitmaps \in Nat
  BY SpaceTypes DEF SpaceInv
<1>3. FrameInv'
  BY <1>1, <1>2, VmReservationAssumption DEF FrameInv
<1>4. \A f \in Frames : Held(f) => Held(f)'
  BY <1>1 DEF Held
<1>5. LeakInv'
  BY <1>4 DEF LeakInv, TypeInv
<1> QED BY <1>3, <1>5

LEMMA CpuKept ==
    ASSUME CpuInv, NEW t \in Threads, Local(t), UNCHANGED <<reslock, access, moved>>,
           pc[t] # "aChange", pc'[t] # "aChange", crossed => crossed',
           panic' = panic \/ (panic' # "metadata" /\ (panic' \in {"free", "undo"} => crossed')),
           op'[t].cpu = Nobody \/ (op'[t].cpu = op[t].cpu /\ on'[t] = on[t]),
           on'[t] \in {on[t], Nobody} \/ \A u \in Threads : on[u] # on'[t]
    PROVE  CpuInv'
<1>1. \A u \in Threads : u # t => pc'[u] = pc[u] /\ op'[u] = op[u] /\ on'[u] = on[u]
  BY DEF Local
<1>2. \A u, v \in Threads : on'[u] = on'[v] /\ on'[u] # Nobody => u = v
  BY <1>1 DEF CpuInv
<1>3. \A u \in Threads : (pc'[u] = "aChange") = (reslock' = u)
  BY <1>1 DEF CpuInv
<1>4. ~moved' => \A u \in Threads : op'[u].cpu # Nobody => op'[u].cpu = on'[u]
  BY <1>1 DEF CpuInv
<1>5. ~moved' => \A u \in Threads : pc'[u] = "aChange" => access'[on'[u]]
  BY <1>1 DEF CpuInv
<1>6. MetadataAccessible' /\ FreesFindRegion'
  BY DEF CpuInv, MetadataAccessible, FreesFindRegion
<1> QED BY <1>2, <1>3, <1>4, <1>5, <1>6 DEF CpuInv

LEMMA FilesKept ==
    ASSUME FileInv, NEW t \in Threads, Local(t), SameRegions, open' = open,
           pc'[t] \in Filing => op'[t].file = NoFile \/ (pc[t] \in Filing /\ op'[t].file = op[t].file),
           pc'[t] \in Filling => \/ op'[t].file = NoFile
                                 \/ /\ pc[t] \in Filling /\ op'[t].file = op[t].file
                                    /\ op'[t].va = op[t].va
    PROVE  FileInv'
<1>1. \A u \in Threads : u # t => pc'[u] = pc[u] /\ op'[u] = op[u]
  BY DEF Local
<1>2. /\ Used(space') = Used(space)
      /\ \A i \in Used(space) : /\ space'.list[i].file = space.list[i].file
                                /\ space'.list[i].start = space.list[i].start
                                /\ space'.list[i].size = space.list[i].size
  BY DEF SameRegions, Alike
<1>3. \A u \in Threads : pc'[u] \in Filing /\ op'[u].file # NoFile =>
          pc[u] \in Filing /\ op'[u].file = op[u].file
  BY <1>1
<1>4. \A u \in Threads : pc'[u] \in Filling /\ op'[u].file # NoFile =>
          pc[u] \in Filling /\ op'[u].file = op[u].file /\ op'[u].va = op[u].va
  BY <1>1
<1>5. /\ \A i \in Used(space') : space'.list[i].file \in open' \cup {NoFile}
      /\ \A i, j \in Used(space') :
            space'.list[i].file = space'.list[j].file /\ space'.list[i].file # NoFile => i = j
  BY <1>2 DEF FileInv
<1>6. \A u \in Threads :
        pc'[u] \in Filing /\ op'[u].file # NoFile =>
          /\ op'[u].file \in open'
          /\ \A i \in Used(space') : space'.list[i].file # op'[u].file
          /\ \A v \in Threads :
                v # u /\ pc'[v] \in Filing => op'[v].file # op'[u].file
  BY <1>2, <1>3 DEF FileInv
<1>7. \A u \in Threads :
        pc'[u] \in Filling /\ op'[u].file # NoFile /\ ~crossed' =>
            \E i \in Used(space') :
                /\ op'[u].va \in PageRun(space'.list[i].start, space'.list[i].size)
                /\ space'.list[i].file = op'[u].file
  BY <1>2, <1>4 DEF FileInv, SameRegions
<1> QED BY <1>5, <1>6, <1>7 DEF FileInv
-----------------------------------------------------------------------------
(* The initial state.                                                      *)

LEMMA InitInv == Init => VmmInv
<1> SUFFICES ASSUME Init PROVE VmmInv
  OBVIOUS
<1>1. NoOp \in Ops
  BY NumFramesAssumption DEF NoOp, Ops, Kinds, Attrs, Frames
<1>2. space \in Spaces /\ space.list = <<EmptyEntry("Last")>> /\ space.next = StartVa /\ space.bitmaps = 0
  <2>1. EmptyEntry("Last") \in Entry
    BY DEF EmptyEntry, Entry, Attrs
  <2> QED BY <2>1, VmReservationAssumption DEF Init, VmReservationSpaceInit, Spaces
<1>3. EmptyEntry("Last").state = "Last" /\ EmptyEntry("Last").commit = {}
  BY DEF EmptyEntry
<1>4. Shape(space)
  <2>1. \A i \in DOMAIN space.list : i = 1 /\ Len(space.list) = 1 /\ space.list[i] = EmptyEntry("Last")
    BY <1>2
  <2>2. Len(space.list) > 0
    BY <1>2
  <2> QED BY <2>1, <2>2, <1>2, <1>3 DEF Shape
<1>5. Used(space) = {}
  BY <1>2, <1>3, <1>4, UsedSlots
<1>6. Reserving = {}
  BY DEF Init, Reserving
<1>7. SpaceInv
  <2>1. Cardinality(Reserving) = 0
    BY <1>6, FS_EmptySet
  <2> QED BY <2>1, <1>2, <1>4, <1>5, VmmAssumption, VmReservationAssumption
          DEF SpaceInv, ReservationsDisjoint
<1>8. TypeInv
  <2>1. access \in [Cpus -> BOOLEAN]
    BY DEF Init
  <2>2. 0 \in Frames
    BY NumFramesAssumption DEF Frames
  <2>3. "idle" \in Labels
    BY DEF Labels
  <2>4. /\ pt \in [Pages -> Frames \cup {NoFrame}] /\ on \in [Threads -> Cpus \cup {Nobody}]
        /\ pc \in [Threads -> Labels] /\ op \in [Threads -> Ops]
    BY <2>3, <1>1 DEF Init
  <2> QED BY <2>1, <2>2, <2>4 DEF Init, TypeInv
<1>9. \A t \in Threads : pc[t] = "idle" /\ on[t] = Nobody /\ op[t] = NoOp
  BY DEF Init
<1>10. \A t \in Threads : Concerns(t) = {} /\ op[t].cpu = Nobody
  BY <1>9, ConcernsIdle
<1>11. \A t \in Threads : OpInv(t) /\ RegionInv(t)
  BY <1>9, <1>10 DEF OpInv, RegionInv, AllocLabels, FreeLabels, FaultLabels
<1>12. DisjointInv
  BY <1>6, <1>10 DEF DisjointInv, FreshInv
<1>13. FrameInv /\ LeakInv
  <2>1. \A t \in Threads, f \in Frames : ~InFlight(t, f)
    BY <1>9 DEF InFlight
  <2>2. \A p \in Pages : pt[p] = NoFrame
    BY DEF Init
  <2>3. \A k \in 1 .. MaxBitmaps : pt[-k] = NoFrame
    BY <2>2, PageNumbers
  <2> QED BY <2>1, <2>2, <2>3 DEF Init, FrameInv, LeakInv
<1>14. CpuInv
  BY <1>9, <1>10, VmmAssumption DEF Init, CpuInv, MetadataAccessible, FreesFindRegion
<1>15. FileInv
  BY <1>5, <1>9 DEF FileInv, Filing, Filling
<1> QED BY <1>7, <1>8, <1>11, <1>12, <1>13, <1>14, <1>15 DEF VmmInv
-----------------------------------------------------------------------------
(* A thread begins an operation.                                           *)

LEMMA BeginFacts ==
    ASSUME VmmInv, NEW t \in Threads, NEW c \in Cpus, CanBegin(t, c),
           NEW l \in {"aLock", "fLock", "pCheck"}, NEW o \in Ops, Begin(t, c, l, o)
    PROVE  /\ Local(t) /\ pc'[t] = l /\ op'[t] = o /\ on'[t] = c
           /\ pc[t] = "idle" /\ Concerns(t)' = PageRun(o.va, o.n)
           /\ pc' \in [Threads -> Labels] /\ op' \in [Threads -> Ops]
           /\ on' \in [Threads -> Cpus \cup {Nobody}]
           /\ on'[t] # Nobody /\ panic = "none"
<1>1. /\ pc \in [Threads -> Labels] /\ op \in [Threads -> Ops]
      /\ on \in [Threads -> Cpus \cup {Nobody}]
  BY DEF VmmInv, TypeInv
<1>2. l \in Labels
  BY DEF Labels, AllocLabels, FreeLabels, FaultLabels
<1>3. /\ pc' = [pc EXCEPT ![t] = l] /\ op' = [op EXCEPT ![t] = o] /\ on' = [on EXCEPT ![t] = c]
  BY DEF Begin, Goto
<1>4. /\ Local(t) /\ pc'[t] = l /\ op'[t] = o /\ on'[t] = c
      /\ pc' \in [Threads -> Labels] /\ op' \in [Threads -> Ops]
      /\ on' \in [Threads -> Cpus \cup {Nobody}]
  BY <1>1, <1>2, <1>3 DEF Local
<1>5. c # Nobody
  BY VmmAssumption
<1> QED BY <1>4, <1>5 DEF CanBegin, Concerns

LEMMA BeginInv ==
    ASSUME VmmInv, NEW t \in Threads, NEW c \in Cpus, CanBegin(t, c),
           NEW l \in {"aLock", "fLock", "pCheck"}, NEW o \in Ops, Begin(t, c, l, o),
           UNCHANGED <<bitmap, reslock, pt, access, zlist, zpc, zitem, dirty,
                       lost, given, moved, panic>>,
           crossed' \in BOOLEAN, FixedBases = {} => ~crossed',
           o.cpu = Nobody, open' \subseteq Files, SameRegions, SpaceInv', FileInv', OpInv(t)', RegionInv(t)',
           FreshInv',
           ~crossed' => \A u \in Threads \ {t} : Concerns(u) \cap PageRun(o.va, o.n) # {} =>
                                       o.kind = "fault" /\ op[u].kind = "fault"
    PROVE  VmmInv'
<1>1. /\ Local(t) /\ pc'[t] = l /\ op'[t] = o /\ on'[t] = c
      /\ pc[t] = "idle" /\ Concerns(t)' = PageRun(o.va, o.n)
      /\ pc' \in [Threads -> Labels] /\ op' \in [Threads -> Ops]
      /\ on' \in [Threads -> Cpus \cup {Nobody}]
  BY BeginFacts
<1>2. TypeInv'
  BY <1>1 DEF VmmInv, TypeInv
<1>3. space'.next \in Nat /\ space.next <= space'.next /\ (crossed => crossed')
  BY SpaceTypes DEF SameRegions
<1>4. \A u \in Threads : OpInv(u)'
  <2> SUFFICES ASSUME NEW u \in Threads \ {t} PROVE OpInv(u)'
    OBVIOUS
  <2> QED BY <1>1, <1>3, OtherOps DEF VmmInv
<1>5. \A u \in Threads : RegionInv(u)'
  <2> SUFFICES ASSUME NEW u \in Threads \ {t} PROVE RegionInv(u)'
    OBVIOUS
  <2> QED BY <1>1, OtherRegions DEF VmmInv
<1>6. DisjointInv'
  <2>1. \A u \in Threads \ {t} : Concerns(u)' = Concerns(u) /\ op'[u] = op[u]
    BY <1>1 DEF Local, Concerns
  <2> QED BY <2>1, <1>1, <1>3 DEF VmmInv, DisjointInv
<1>7. FrameInv' /\ LeakInv'
  <2>1. pc[t] \notin {"aMap", "pMap"} /\ pc'[t] \notin {"aMap", "pMap"}
    BY <1>1
  <2>2. space'.bitmaps \in Nat /\ space.bitmaps <= space'.bitmaps
    BY SpaceTypes DEF SameRegions
  <2> QED BY <2>1, <2>2, <1>1, FramesKept DEF VmmInv
<1>8. CpuInv'
  <2>1. pc[t] # "aChange" /\ pc'[t] # "aChange" /\ op'[t].cpu = Nobody
    BY <1>1
  <2>2. \A u \in Threads : on[u] # on'[t]
    BY <1>1 DEF CanBegin
  <2> QED BY <2>1, <2>2, <1>1, <1>3, CpuKept DEF VmmInv
<1> QED BY <1>2, <1>4, <1>5, <1>6, <1>7, <1>8 DEF VmmInv

LEMMA SpaceNext ==
    ASSUME NEW sp, Shape(sp), NEW k \in Nat
    PROVE  LET new == [sp EXCEPT !.next = k]
           IN  /\ Shape(new) /\ new.next = k /\ new.bitmaps = sp.bitmaps
               /\ new.list = sp.list /\ Used(new) = Used(sp)
<1> DEFINE new == [sp EXCEPT !.next = k]
<1>1. sp = [list |-> sp.list, next |-> sp.next, bitmaps |-> sp.bitmaps] /\ sp \in Spaces
  BY DEF Shape, Spaces
<1>2. new = [list |-> sp.list, next |-> k, bitmaps |-> sp.bitmaps]
  BY <1>1
<1> HIDE DEF new
<1>3. new.list = sp.list /\ new.next = k /\ new.bitmaps = sp.bitmaps /\ new \in Spaces
  BY <1>1, <1>2 DEF Spaces
<1>4. Shape(new)
  BY <1>3 DEF Shape
<1>5. Used(new) = Used(sp)
  BY <1>3 DEF Used, Visited
<1> QED BY <1>3, <1>4, <1>5 DEF new

\* The locals of a call of VmmAllocRegionEx.
AllocLocals(va, n, type, attr, file) ==
    [NoOp EXCEPT !.kind = "alloc", !.va = va, !.n = n, !.type = type,
                 !.attr = attr, !.file = file]

LEMMA AllocOp ==
    ASSUME NEW va \in Nat, NEW n \in Nat, NEW type \in AllocTypes \cup CommitTypes,
           NEW attr \in {"rw", "ro"}, NEW file \in Files \cup {NoFile}, NEW o,
           o = AllocLocals(va, n, type, attr, file)
    PROVE  /\ o \in Ops /\ o.kind = "alloc" /\ o.va = va /\ o.n = n /\ o.type = type
           /\ o.attr = attr /\ o.file = file /\ o.cpu = Nobody
<1>1. type \in SUBSET Flags
  BY DEF AllocTypes, CommitTypes, Flags
<1>2. o = [kind |-> "alloc", addr |-> 0, va |-> va, n |-> n, type |-> type, attr |-> attr,
           file |-> file, frame |-> NoFrame, cpu |-> Nobody, bitmap |-> 0, release |-> FALSE]
  BY DEF NoOp, AllocLocals
<1>3. attr \in Attrs /\ "alloc" \in Kinds
  BY DEF Attrs, Kinds
<1> QED BY <1>1, <1>2, <1>3 DEF Ops

(* The addresses handed out so far are below the next one: only what a     *)
(* caller chose can lie beyond.                                            *)
LEMMA FreshRun ==
    ASSUME VmmInv, NEW n \in Nat
    PROVE  /\ \A i \in Used(space) : space.list[i].start \notin FixedBases =>
                 PageRun(space.list[i].start, space.list[i].size) \cap PageRun(space.next, n) = {}
           /\ \A u \in Reserving : op[u].va \notin FixedBases =>
                 Concerns(u) \cap PageRun(space.next, n) = {}
           /\ FixedBases = {} => ~Crosses(PageRun(space.next, n))
<1>1. space.next \in Nat
  BY SpaceTypes DEF VmmInv, SpaceInv
<1>2. ASSUME NEW i \in Used(space), space.list[i].start \notin FixedBases
      PROVE  PageRun(space.list[i].start, space.list[i].size) \cap PageRun(space.next, n) = {}
  <2>1. /\ EntryInv(space.list[i])
        /\ space.list[i].start \in Nat /\ space.list[i].size \in Nat
    BY SpaceTypes DEF VmmInv, SpaceInv
  <2> QED BY <2>1, <1>1, <1>2 DEF EntryInv, PageRun
<1>3. ASSUME NEW u \in Reserving, op[u].va \notin FixedBases
      PROVE  Concerns(u) \cap PageRun(space.next, n) = {}
  <2>1. /\ op[u].va \in Nat /\ op[u].n \in Nat
        /\ op[u].va + op[u].n <= space.next
    BY <1>3, OpTypes DEF VmmInv, OpInv, Reserving
  <2> QED BY <2>1, <1>1 DEF Concerns, PageRun
<1>4. ASSUME FixedBases = {}, NEW u \in Threads
      PROVE  Concerns(u) \cap PageRun(space.next, n) = {}
  <2>1. CASE pc[u] = "idle"
    BY <2>1, ConcernsIdle DEF VmmInv, OpInv
  <2>2. CASE pc[u] # "idle"
    <3>1. InSpace(op[u].va, op[u].n) /\ op[u].va \in Nat /\ op[u].n \in Nat
      BY <2>2, OpTypes DEF VmmInv, OpInv
    <3> QED BY <3>1, <1>1, <1>4 DEF InSpace, Concerns, PageRun
  <2> QED BY <2>1, <2>2
<1> QED BY <1>2, <1>3, <1>4 DEF Crosses, Quiet

LEMMA AllocFreshInv ==
    ASSUME VmmInv, NEW t \in Threads, NEW c \in Cpus, CanBegin(t, c),
           NEW n \in Nat, n > 0, NEW type \in AllocTypes, NEW attr \in {"rw", "ro"},
           NEW file \in (Files \ open) \cup {NoFile},
           AllocFresh(t, c, n, type, attr, file)
    PROVE  VmmInv'
<1>1. PICK va \in Nat : va = space.next
  BY SpaceTypes DEF VmmInv, SpaceInv
<1>2. PICK o : o = AllocLocals(va, n, type, attr, file)
  OBVIOUS
<1>3. Begin(t, c, "aLock", o)
  BY <1>1, <1>2 DEF AllocFresh, AllocLocals
<1>4. /\ o \in Ops /\ o.kind = "alloc" /\ o.va = va /\ o.n = n /\ o.type = type
      /\ o.attr = attr /\ o.file = file /\ o.cpu = Nobody
  BY <1>2, AllocOp
<1>5. /\ Local(t) /\ pc'[t] = "aLock" /\ op'[t] = o /\ on'[t] = c
      /\ pc[t] = "idle" /\ Concerns(t)' = PageRun(o.va, o.n) /\ on'[t] # Nobody
  BY <1>3, <1>4, BeginFacts
<1>6. /\ va + n - 1 <= MaxVa /\ BitmapLeft
      /\ space' = [space EXCEPT !.next = va + n]
      /\ open' = open \cup ({file} \ {NoFile})
      /\ UNCHANGED <<bitmap, reslock, pt, access, zlist, zpc, zitem, dirty,
                     lost, given, moved, panic>>
  BY <1>1 DEF AllocFresh, zvars, ghosts
<1>c. crossed' = (crossed \/ Crosses(PageRun(va, n)))
  BY <1>1 DEF AllocFresh
<1>d. crossed => crossed'
  BY <1>c
<1>7. /\ Shape(space') /\ space'.next = va + n /\ space'.bitmaps = space.bitmaps
      /\ space'.list = space.list /\ Used(space') = Used(space)
  <2>1. Shape(space)
    BY DEF VmmInv, SpaceInv
  <2> QED BY <2>1, <1>6, SpaceNext
<1>8. SameRegions
  BY <1>1, <1>6, <1>7, <1>d, VmmAssumption DEF SameRegions, Alike, VmmInv, SpaceInv, EntryInv
<1>9. SpaceInv'
  <2>1. Reserving' \subseteq Reserving \cup {t}
    BY <1>5 DEF Reserving, Local
  <2> QED BY <2>1, <1>6, <1>8, RegionsKept DEF VmmInv
<1>10. ~crossed' => /\ \A u \in Threads : Concerns(u) \cap PageRun(va, n) = {}
                    /\ \A i \in Used(space) :
                          PageRun(space.list[i].start, space.list[i].size) \cap PageRun(va, n) = {}
  BY <1>c DEF Crosses, Quiet
<1>11. OpInv(t)'
  <2>1. InSpace(op[t].va, op[t].n)'
    BY <1>1, <1>4, <1>5, <1>7 DEF InSpace, VmmInv, SpaceInv
  <2>2. StartVa <= op'[t].va /\ op'[t].va + op'[t].n <= space'.next
    BY <1>1, <1>4, <1>5, <1>7 DEF VmmInv, SpaceInv
  <2>3. "reserve" \in op'[t].type
    BY <1>4, <1>5 DEF AllocTypes
  <2> QED BY <2>1, <2>2, <2>3, <1>4, <1>5 DEF OpInv, AllocLabels, FreeLabels, FaultLabels
<1>12. RegionInv(t)'
  BY <1>4, <1>5, <1>7, <1>10 DEF RegionInv
<1>13. FileInv'
  <2>1. \A u \in Threads : u # t => pc'[u] = pc[u] /\ op'[u] = op[u]
    BY <1>5 DEF Local
  <2>2. open' = open \cup ({file} \ {NoFile}) /\ (file # NoFile => file \notin open)
    BY <1>6
  <2>3. op'[t].file = file /\ pc'[t] \in Filing /\ pc'[t] \notin Filling
    BY <1>4, <1>5 DEF Filing, Filling
  <2>4. \A i \in Used(space') : space'.list[i].file \in open \cup {NoFile}
    BY <1>7 DEF VmmInv, FileInv
  <2>5. \A i, j \in Used(space') :
            space'.list[i].file = space'.list[j].file /\ space'.list[i].file # NoFile => i = j
    BY <1>7 DEF VmmInv, FileInv
  <2>6. ASSUME NEW u \in Threads, pc'[u] \in Filing, op'[u].file # NoFile
        PROVE  /\ op'[u].file \in open'
               /\ \A i \in Used(space') : space'.list[i].file # op'[u].file
               /\ \A v \in Threads : v # u /\ pc'[v] \in Filing => op'[v].file # op'[u].file
    <3>1. \A v \in Threads \ {t} : pc[v] \in Filing => op[v].file \in open \cup {NoFile}
      BY DEF VmmInv, FileInv
    <3>2. CASE u = t
      BY <3>1, <3>2, <2>1, <2>2, <2>3, <2>4, <2>6
    <3>3. CASE u # t
      <4>1. /\ op[u].file \in open
            /\ \A i \in Used(space) : space.list[i].file # op[u].file
            /\ \A v \in Threads : v # u /\ pc[v] \in Filing => op[v].file # op[u].file
        BY <3>3, <2>1, <2>6 DEF VmmInv, FileInv
      <4> QED BY <4>1, <3>3, <2>1, <2>2, <2>3, <2>6, <1>7
    <3> QED BY <3>2, <3>3
  <2>7. \A u \in Threads :
          pc'[u] \in Filling /\ op'[u].file # NoFile /\ ~crossed' =>
              \E i \in Used(space') :
                  /\ op'[u].va \in PageRun(space'.list[i].start, space'.list[i].size)
                  /\ space'.list[i].file = op'[u].file
    BY <2>1, <2>3, <1>d, <1>7 DEF VmmInv, FileInv
  <2> QED BY <2>2, <2>4, <2>5, <2>6, <2>7 DEF FileInv
<1>14. open' \subseteq Files
  BY <1>6 DEF VmmInv, TypeInv
<1>15. ~crossed' => \A u \in Threads \ {t} : Concerns(u) \cap PageRun(o.va, o.n) = {}
  BY <1>4, <1>10
<1>16. FreshInv'
  <2>1. /\ \A i \in Used(space) : space.list[i].start \notin FixedBases =>
              PageRun(space.list[i].start, space.list[i].size) \cap PageRun(va, n) = {}
        /\ \A u \in Reserving : op[u].va \notin FixedBases =>
              Concerns(u) \cap PageRun(va, n) = {}
    BY <1>1, FreshRun
  <2>2. /\ Concerns(t)' = PageRun(va, n) /\ Reserving' \subseteq Reserving \cup {t}
        /\ \A u \in Threads \ {t} : Concerns(u)' = Concerns(u) /\ op'[u].va = op[u].va
    BY <1>4, <1>5 DEF Reserving, Local, Concerns
  <2> QED BY <2>1, <2>2, <1>7 DEF FreshInv, VmmInv, DisjointInv, Reserving
<1>17. crossed' \in BOOLEAN /\ (FixedBases = {} => ~crossed')
  BY <1>1, <1>c, FreshRun DEF VmmInv, TypeInv
<1> QED BY <1>3, <1>4, <1>6, <1>8, <1>9, <1>11, <1>12, <1>13, <1>14, <1>15, <1>16, <1>17, BeginInv

LEMMA AllocAtInv ==
    ASSUME VmmInv, NEW t \in Threads, NEW c \in Cpus, CanBegin(t, c), NEW va \in Nat,
           NEW n \in Nat, NEW type \in AllocTypes \cup CommitTypes, NEW attr \in {"rw", "ro"},
           InSpace(va, n), "reserve" \in type => va \in FixedBases /\ n <= MaxPages,
           AllocAt(t, c, va, n, type, attr)
    PROVE  VmmInv'
<1>1. PICK o : o = AllocLocals(va, n, type, attr, NoFile)
  OBVIOUS
<1>2. /\ o \in Ops /\ o.kind = "alloc" /\ o.va = va /\ o.n = n /\ o.type = type
      /\ o.attr = attr /\ o.file = NoFile /\ o.cpu = Nobody
  BY <1>1, AllocOp
<1>3. o = [NoOp EXCEPT !.kind = "alloc", !.va = va, !.n = n, !.type = type, !.attr = attr]
  <2>1. PICK d : d = [NoOp EXCEPT !.kind = "alloc", !.va = va, !.n = n, !.type = type, !.attr = attr]
    OBVIOUS
  <2>2. d = [kind |-> "alloc", addr |-> 0, va |-> va, n |-> n, type |-> type, attr |-> attr, file |-> NoFile,
             frame |-> NoFrame, cpu |-> Nobody, bitmap |-> 0, release |-> FALSE]
    BY <2>1 DEF NoOp
  <2>3. o = [kind |-> "alloc", addr |-> 0, va |-> va, n |-> n, type |-> type, attr |-> attr, file |-> NoFile,
             frame |-> NoFrame, cpu |-> Nobody, bitmap |-> 0, release |-> FALSE]
    BY <1>1 DEF NoOp, AllocLocals
  <2>4. o = d
    BY <2>2, <2>3, Zenon
  <2> QED BY <2>1, <2>4, Zenon
<1>4. /\ Begin(t, c, "aLock", o)
      /\ IF "reserve" \in type THEN BitmapLeft ELSE Quiet(PageRun(va, n))
      /\ crossed' = (crossed \/ ("reserve" \in type /\ Crosses(PageRun(va, n))))
      /\ UNCHANGED <<bitmap, space, reslock, pt, access, zlist, zpc, zitem, open, dirty,
                     lost, given, moved, panic>>
  BY <1>3 DEF AllocAt, zvars, ghosts
<1>5. /\ Local(t) /\ pc'[t] = "aLock" /\ op'[t] = o /\ on'[t] = c
      /\ pc[t] = "idle" /\ Concerns(t)' = PageRun(o.va, o.n) /\ on'[t] # Nobody
  BY <1>2, <1>4, BeginFacts
<1>6. SameRegions
  BY <1>4, RegionsUnchanged DEF VmmInv
<1>7. SpaceInv'
  <2>1. Reserving' \subseteq Reserving \cup {t}
    BY <1>5 DEF Reserving, Local
  <2>2. "reserve" \notin type => Reserving' \subseteq Reserving
    BY <1>2, <1>5 DEF Reserving, Local
  <2> QED BY <2>1, <2>2, <1>4, <1>6, RegionsKept DEF VmmInv
<1>8. OpInv(t)'
  <2>1. InSpace(op[t].va, op[t].n)'
    BY <1>2, <1>4, <1>5 DEF InSpace
  <2> QED BY <2>1, <1>2, <1>5 DEF OpInv, AllocLabels, FreeLabels, FaultLabels
<1>9. RegionInv(t)'
  <2>1. "reserve" \in type /\ ~crossed' => \A i \in Used(space) :
            PageRun(space.list[i].start, space.list[i].size) \cap PageRun(va, n) = {}
    BY <1>4 DEF Crosses
  <2> QED BY <2>1, <1>2, <1>4, <1>5 DEF RegionInv
<1>10. FileInv'
  BY <1>2, <1>4, <1>5, <1>6, FilesKept DEF VmmInv
<1>11. ~crossed' => \A u \in Threads : Concerns(u) \cap PageRun(o.va, o.n) = {}
  BY <1>2, <1>4 DEF Quiet, Crosses
<1>12. open' \subseteq Files
  BY <1>4 DEF VmmInv, TypeInv
<1>13. FreshInv'
  <2>1. t \in Reserving' => op'[t].va \in FixedBases
    BY <1>2, <1>5 DEF Reserving
  <2>2. /\ Reserving' \subseteq Reserving \cup {t}
        /\ \A u \in Threads \ {t} : Concerns(u)' = Concerns(u) /\ op'[u].va = op[u].va
    BY <1>5 DEF Reserving, Local, Concerns
  <2> QED BY <2>1, <2>2, <1>4 DEF FreshInv, VmmInv, DisjointInv, Reserving
<1>14. crossed' \in BOOLEAN /\ (FixedBases = {} => ~crossed')
  BY <1>4 DEF VmmInv, TypeInv
<1> QED BY <1>2, <1>4, <1>6, <1>7, <1>8, <1>9, <1>10, <1>11, <1>12, <1>13, <1>14, BeginInv

\* The locals of a call of VmmFreeRegionEx and of a fault.
FreeLocals(addr, va, n, type, release) ==
    [NoOp EXCEPT !.kind = "free", !.addr = addr, !.va = va, !.n = n, !.type = type,
                 !.release = release]

FaultLocals(va, type) ==
    [NoOp EXCEPT !.kind = "fault", !.va = va, !.n = 1, !.type = type]

LEMMA FreeOp ==
    ASSUME NEW addr \in Nat, NEW va \in Nat, NEW n \in Nat,
           NEW type, type = {"release"} \/ type = {"decommit"}, NEW release \in BOOLEAN,
           NEW o, o = FreeLocals(addr, va, n, type, release)
    PROVE  /\ o \in Ops /\ o.kind = "free" /\ o.addr = addr /\ o.va = va /\ o.n = n /\ o.type = type
           /\ o.file = NoFile /\ o.cpu = Nobody
<1>1. type \in SUBSET Flags /\ "none" \in Attrs /\ "free" \in Kinds
  BY DEF Flags, Attrs, Kinds
<1>2. o = [kind |-> "free", addr |-> addr, va |-> va, n |-> n, type |-> type, attr |-> "none",
           file |-> NoFile, frame |-> NoFrame, cpu |-> Nobody, bitmap |-> 0, release |-> release]
  BY DEF NoOp, FreeLocals
<1> QED BY <1>1, <1>2 DEF Ops

LEMMA FaultOp ==
    ASSUME NEW va \in Nat, NEW type \in SUBSET {"read", "write"}, NEW o, o = FaultLocals(va, type)
    PROVE  /\ o \in Ops /\ o.kind = "fault" /\ o.va = va /\ o.n = 1 /\ o.type = type
           /\ o.file = NoFile /\ o.cpu = Nobody
<1>1. type \in SUBSET Flags /\ "none" \in Attrs /\ "fault" \in Kinds
  BY DEF Flags, Attrs, Kinds
<1>2. o = [kind |-> "fault", addr |-> 0, va |-> va, n |-> 1, type |-> type, attr |-> "none",
           file |-> NoFile, frame |-> NoFrame, cpu |-> Nobody, bitmap |-> 0, release |-> FALSE]
  BY DEF NoOp, FaultLocals
<1> QED BY <1>1, <1>2 DEF Ops

(* What every request but an allocation has in common.                     *)
LEMMA BeginOther ==
    ASSUME VmmInv, NEW t \in Threads, NEW c \in Cpus, CanBegin(t, c),
           NEW l \in {"fLock", "pCheck"}, NEW o \in Ops, Begin(t, c, l, o),
           UNCHANGED <<bitmap, space, reslock, pt, access, zlist, zpc, zitem, open, dirty,
                       lost, given, moved, crossed, panic>>,
           o.cpu = Nobody, o.file = NoFile, InSpace(o.va, o.n),
           l = "fLock" => o.kind = "free" /\ o.type \in {{"release"}, {"decommit"}},
           l = "pCheck" => o.kind = "fault" /\ o.n = 1,
           l = "fLock" /\ "release" \in o.type =>
               /\ \E i \in Used(space) : space.list[i].start = o.va /\ space.list[i].size = o.n
               /\ o.addr \in PageRun(o.va, o.n),
           l = "fLock" /\ "decommit" \in o.type =>
               /\ o.addr = o.va
               /\ \E i \in Used(space) :
                     PageRun(o.va, o.n) \subseteq PageRun(space.list[i].start, space.list[i].size),
           \A u \in Threads \ {t} : Concerns(u) \cap PageRun(o.va, o.n) # {} =>
                                       o.kind = "fault" /\ op[u].kind = "fault"
    PROVE  VmmInv'
<1>1. /\ Local(t) /\ pc'[t] = l /\ op'[t] = o /\ on'[t] = c
      /\ pc[t] = "idle" /\ Concerns(t)' = PageRun(o.va, o.n) /\ on'[t] # Nobody
  BY BeginFacts
<1>2. SameRegions
  BY RegionsUnchanged DEF VmmInv
<1>3. SpaceInv'
  <2>1. Reserving' \subseteq Reserving
    BY <1>1 DEF Reserving, Local
  <2> QED BY <2>1, <1>2, RegionsKept DEF VmmInv
<1>4. OpInv(t)'
  <2>1. InSpace(op[t].va, op[t].n)'
    BY <1>1 DEF InSpace
  <2> QED BY <2>1, <1>1 DEF OpInv, AllocLabels, FreeLabels, FaultLabels
<1>5. RegionInv(t)'
  BY <1>1 DEF RegionInv
<1>6. FileInv'
  BY <1>1, <1>2, FilesKept DEF VmmInv
<1>7. open' \subseteq Files /\ crossed' \in BOOLEAN /\ (FixedBases = {} => ~crossed')
  BY DEF VmmInv, TypeInv
<1>8. FreshInv'
  <2>1. t \notin Reserving'
    BY <1>1 DEF Reserving
  <2> QED BY <2>1, <1>1, <1>2, FreshKept DEF VmmInv, DisjointInv
<1> QED BY <1>2, <1>3, <1>4, <1>5, <1>6, <1>7, <1>8, BeginInv

(* The run of an entry in use, or of a part of one, is in the space.       *)
LEMMA EntryRuns ==
    ASSUME VmmInv, NEW i \in Used(space), NEW va \in Nat, NEW n \in Nat, n > 0,
           PageRun(va, n) \subseteq PageRun(space.list[i].start, space.list[i].size)
    PROVE  InSpace(va, n)
<1>1. /\ EntryInv(space.list[i]) /\ space.next \in Nat
      /\ space.list[i].start \in Nat /\ space.list[i].size \in Nat
  BY SpaceTypes DEF VmmInv, SpaceInv
<1>2. va \in PageRun(va, n) /\ va + n - 1 \in PageRun(va, n)
  BY DEF PageRun
<1>3. space.list[i].start <= va /\ va + n <= space.list[i].start + space.list[i].size
  BY <1>1, <1>2 DEF PageRun
<1>4. CASE StartVa <= space.list[i].start /\ space.list[i].start + space.list[i].size <= space.next
  BY <1>1, <1>3, <1>4, VmReservationAssumption DEF InSpace
<1>5. CASE space.list[i].start \in FixedBases /\ space.list[i].size <= MaxPages
  BY <1>1, <1>3, <1>5, VmmAssumption DEF InSpace
<1> QED BY <1>1, <1>4, <1>5 DEF EntryInv

LEMMA FreeReleaseInv ==
    ASSUME VmmInv, NEW t \in Threads, NEW c \in Cpus, CanBegin(t, c), NEW va \in Nat,
           NEW release \in BOOLEAN, FreeRelease(t, c, va, release)
    PROVE  VmmInv'
<1>1. PICK i \in Used(space) : i = VmFindReservation(space, va, 1)
  BY FindReservation DEF FreeRelease, VmmInv, SpaceInv
<1>2. PICK start \in Nat, size \in Nat :
          start = space.list[i].start /\ size = space.list[i].size /\ size > 0
  BY SpaceTypes DEF VmmInv, SpaceInv, EntryInv
<1>3. PICK o : o = FreeLocals(va, start, size, {"release"}, release)
  OBVIOUS
<1>4. /\ o \in Ops /\ o.kind = "free" /\ o.addr = va /\ o.va = start /\ o.n = size /\ o.type = {"release"}
      /\ o.file = NoFile /\ o.cpu = Nobody
  BY <1>3, FreeOp
<1>5. /\ Begin(t, c, "fLock", o) /\ Quiet(PageRun(start, size))
      /\ UNCHANGED <<bitmap, space, reslock, pt, access, zlist, zpc, zitem, open, dirty,
                     lost, given, moved, crossed, panic>>
  BY <1>1, <1>2, <1>3 DEF FreeRelease, FreeLocals, zvars, ghosts
<1>6. InSpace(o.va, o.n)
  BY <1>2, <1>4, EntryRuns
<1>7. \A u \in Threads : Concerns(u) \cap PageRun(o.va, o.n) = {}
  BY <1>4, <1>5 DEF Quiet
<1>8. \E j \in Used(space) : space.list[j].start = o.va /\ space.list[j].size = o.n
  BY <1>2, <1>4
<1>9. o.addr \in PageRun(o.va, o.n)
  <2>1. PageRun(va, 1) \subseteq PageRun(start, size)
    BY <1>1, <1>2, FindReservation DEF FreeRelease, VmmInv, SpaceInv
  <2> QED BY <2>1, <1>4 DEF PageRun
<1>10. "decommit" \notin o.type
  BY <1>4
<1> QED BY <1>4, <1>5, <1>6, <1>7, <1>8, <1>9, <1>10, BeginOther

LEMMA FreeDecommitInv ==
    ASSUME VmmInv, NEW t \in Threads, NEW c \in Cpus, CanBegin(t, c), NEW va \in Nat,
           NEW n \in Nat, n > 0, FreeDecommit(t, c, va, n)
    PROVE  VmmInv'
<1>1. PICK i \in Used(space) :
          PageRun(va, n) \subseteq PageRun(space.list[i].start, space.list[i].size)
  BY FindReservation DEF FreeDecommit, VmmInv, SpaceInv
<1>r. PICK release \in BOOLEAN : release = TRUE
  BY Zenon
<1>2. PICK o : o = FreeLocals(va, va, n, {"decommit"}, release)
  OBVIOUS
<1>3. /\ o \in Ops /\ o.kind = "free" /\ o.addr = va /\ o.va = va /\ o.n = n /\ o.type = {"decommit"}
      /\ o.file = NoFile /\ o.cpu = Nobody
  BY <1>2, FreeOp
<1>4. /\ Begin(t, c, "fLock", o) /\ Quiet(PageRun(va, n))
      /\ UNCHANGED <<bitmap, space, reslock, pt, access, zlist, zpc, zitem, open, dirty,
                     lost, given, moved, crossed, panic>>
  BY <1>2, <1>r DEF FreeDecommit, FreeLocals, zvars, ghosts
<1>5. InSpace(o.va, o.n)
  BY <1>1, <1>3, EntryRuns
<1>6. \A u \in Threads : Concerns(u) \cap PageRun(o.va, o.n) = {}
  BY <1>3, <1>4 DEF Quiet
<1>7. "release" \notin o.type
  BY <1>3
<1> QED BY <1>1, <1>3, <1>4, <1>5, <1>6, <1>7, BeginOther

LEMMA FaultInv ==
    ASSUME VmmInv, NEW t \in Threads, NEW c \in Cpus, CanBegin(t, c), NEW va \in Nat,
           NEW write, Fault(t, c, va, write)
    PROVE  VmmInv'
<1>1. VmFindReservation(space, va, 1) # 0
  BY DEF Fault, VmReservationCanAddressBeAccessed
<1>2. PICK i \in Used(space) :
          PageRun(va, 1) \subseteq PageRun(space.list[i].start, space.list[i].size)
  BY <1>1, FindReservation DEF VmmInv, SpaceInv
<1>3. PICK o : o = FaultLocals(va, Needs(write))
  OBVIOUS
<1>4. Needs(write) \in SUBSET {"read", "write"}
  BY DEF Needs
<1>5. /\ o \in Ops /\ o.kind = "fault" /\ o.va = va /\ o.n = 1 /\ o.file = NoFile /\ o.cpu = Nobody
  BY <1>3, <1>4, FaultOp
<1>6. /\ Begin(t, c, "pCheck", o)
      /\ \A u \in Threads : va \in Concerns(u) => op[u].kind = "fault"
      /\ UNCHANGED <<bitmap, space, reslock, pt, access, zlist, zpc, zitem, open, dirty,
                     lost, given, moved, crossed, panic>>
  BY <1>3 DEF Fault, FaultLocals, zvars
<1>7. InSpace(o.va, o.n)
  BY <1>2, <1>5, EntryRuns
<1>8. PageRun(o.va, o.n) = {va}
  BY <1>5 DEF PageRun
<1>9. \A u \in Threads : Concerns(u) \cap PageRun(o.va, o.n) # {} => op[u].kind = "fault"
  BY <1>6, <1>8
<1> QED BY <1>5, <1>6, <1>7, <1>9, BeginOther

(* Every request a client may make.                                        *)
LEMMA RequestInv ==
    ASSUME VmmInv, NEW t \in Threads, NEW c \in Cpus, CanBegin(t, c), Request(t, c)
    PROVE  VmmInv'
<1>n. \A n \in 1 .. MaxPages : n \in Nat /\ n > 0 /\ n <= MaxPages
  BY VmmAssumption
<1>p. \A p \in RegionPages : p \in Nat
  BY PageNumbers
<1>1. ASSUME NEW n \in 1 .. MaxPages, NEW type \in AllocTypes, AllocFresh(t, c, n, type, "rw", NoFile)
      PROVE  VmmInv'
  BY <1>1, <1>n, AllocFreshInv
<1>2. ASSUME AllocFresh(t, c, 1, {"reserve", "commit"}, "ro", NoFile)
      PROVE  VmmInv'
  <2>1. {"reserve", "commit"} \in AllocTypes
    BY DEF AllocTypes
  <2> QED BY <2>1, <1>2, AllocFreshInv
<1>3. ASSUME NEW n \in 1 .. MaxPages, NEW file \in Files \ open,
             AllocFresh(t, c, n, {"reserve", "commit", "eager"}, "rw", file)
      PROVE  VmmInv'
  <2>1. {"reserve", "commit", "eager"} \in AllocTypes
    BY DEF AllocTypes
  <2> QED BY <2>1, <1>3, <1>n, AllocFreshInv
<1>4. ASSUME NEW va \in FixedBases, NEW n \in 1 .. MaxPages, AllocAt(t, c, va, n, {"reserve"}, "rw")
      PROVE  VmmInv'
  <2>1. {"reserve"} \in AllocTypes \cup CommitTypes
    BY DEF AllocTypes
  <2>2. va \in Nat
    BY VmmAssumption
  <2>3. InSpace(va, n)
    BY <2>2, <1>n, VmmAssumption DEF InSpace
  <2> QED BY <2>1, <2>2, <2>3, <1>4, <1>n, AllocAtInv
<1>5. ASSUME NEW va \in RegionPages, NEW n \in 1 .. MaxPages, NEW type \in CommitTypes,
             VmFindReservation(space, va, n) # 0, AllocAt(t, c, va, n, type, "rw")
      PROVE  VmmInv'
  <2>1. type \in AllocTypes \cup CommitTypes /\ "reserve" \notin type
    BY DEF CommitTypes
  <2>2. PICK i \in Used(space) :
            PageRun(va, n) \subseteq PageRun(space.list[i].start, space.list[i].size)
    BY <1>5, <1>n, <1>p, FindReservation DEF VmmInv, SpaceInv
  <2>3. InSpace(va, n)
    BY <2>2, <1>n, <1>p, EntryRuns
  <2> QED BY <2>1, <2>3, <1>5, <1>n, <1>p, AllocAtInv
<1>6. ASSUME NEW va \in RegionPages, NEW release \in BOOLEAN, FreeRelease(t, c, va, release)
      PROVE  VmmInv'
  BY <1>6, <1>p, FreeReleaseInv
<1>7. ASSUME NEW va \in RegionPages, NEW n \in 1 .. MaxPages, FreeDecommit(t, c, va, n)
      PROVE  VmmInv'
  BY <1>7, <1>n, <1>p, FreeDecommitInv
<1>8. ASSUME NEW va \in RegionPages, NEW write \in BOOLEAN, Fault(t, c, va, write)
      PROVE  VmmInv'
  BY <1>8, <1>p, FaultInv
<1> QED BY <1>1, <1>2, <1>3, <1>4, <1>5, <1>6, <1>7, <1>8 DEF Request
-----------------------------------------------------------------------------
(* A thread continues its operation.                                       *)

LEMMA ProceedFacts ==
    ASSUME VmmInv, NEW t \in Threads, NEW l \in Labels, NEW o \in Ops, Proceed(t, l, o)
    PROVE  /\ Local(t) /\ pc'[t] = l /\ op'[t] = o /\ on' = on
           /\ Concerns(t)' = PageRun(o.va, o.n)
           /\ pc' \in [Threads -> Labels] /\ op' \in [Threads -> Ops]
           /\ on' \in [Threads -> Cpus \cup {Nobody}]
<1>1. /\ pc \in [Threads -> Labels] /\ op \in [Threads -> Ops]
      /\ on \in [Threads -> Cpus \cup {Nobody}]
  BY DEF VmmInv, TypeInv
<1>2. pc' = [pc EXCEPT ![t] = l] /\ op' = [op EXCEPT ![t] = o] /\ on' = on
  BY DEF Proceed, Goto
<1> QED BY <1>1, <1>2 DEF Local, Concerns

LEMMA ReturnFacts ==
    ASSUME VmmInv, NEW t \in Threads, Return(t)
    PROVE  /\ Local(t) /\ pc'[t] = "idle" /\ op'[t] = NoOp /\ on'[t] = Nobody
           /\ Concerns(t)' = {} /\ op'[t].cpu = Nobody /\ op'[t].file = NoFile
           /\ pc' \in [Threads -> Labels] /\ op' \in [Threads -> Ops]
           /\ on' \in [Threads -> Cpus \cup {Nobody}]
           /\ OpInv(t)' /\ RegionInv(t)'
<1>1. /\ pc \in [Threads -> Labels] /\ op \in [Threads -> Ops]
      /\ on \in [Threads -> Cpus \cup {Nobody}]
  BY DEF VmmInv, TypeInv
<1>2. /\ pc' = [pc EXCEPT ![t] = "idle"] /\ op' = [op EXCEPT ![t] = NoOp]
      /\ on' = [on EXCEPT ![t] = Nobody]
  BY DEF Return, Goto
<1>3. NoOp \in Ops /\ "idle" \in Labels
  BY DEF NoOp, Ops, Kinds, Attrs, Labels
<1>4. /\ Local(t) /\ pc'[t] = "idle" /\ op'[t] = NoOp /\ on'[t] = Nobody
      /\ pc' \in [Threads -> Labels] /\ op' \in [Threads -> Ops]
      /\ on' \in [Threads -> Cpus \cup {Nobody}]
  BY <1>1, <1>2, <1>3 DEF Local
<1>5. NoOp.cpu = Nobody /\ NoOp.file = NoFile /\ PageRun(NoOp.va, NoOp.n) = {}
  BY DEF NoOp, PageRun
<1>6. Concerns(t)' = {} /\ op'[t].cpu = Nobody /\ op'[t].file = NoFile
  BY <1>4, <1>5 DEF Concerns
<1>7. OpInv(t)' /\ RegionInv(t)'
  BY <1>4, <1>6 DEF OpInv, RegionInv, AllocLabels, FreeLabels, FaultLabels
<1> QED BY <1>4, <1>6, <1>7

LEMMA ControlKept ==
    ASSUME VmmInv, NEW t \in Threads, Local(t), SameRegions,
           ~crossed => \A u \in Threads \ {t} :
               pc[u] = "aRead" => \A p \in Concerns(u) : pt'[p] = pt[p],
           Concerns(t)' \subseteq Concerns(t),
           op[t].kind = "fault" => op'[t].kind = "fault" \/ Concerns(t)' = {},
           t \in Reserving' => t \in Reserving /\ op'[t].va = op[t].va,
           OpInv(t)', RegionInv(t)'
    PROVE  /\ SpaceInv' /\ DisjointInv'
           /\ \A u \in Threads : OpInv(u)' /\ RegionInv(u)'
<1>1. DisjointInv'
  <2>1. FreshInv'
    BY FreshKept DEF VmmInv, DisjointInv
  <2> QED BY <2>1, DisjointKept DEF VmmInv, SameRegions
<1>2. Reserving' \subseteq Reserving
  BY DEF Reserving, Local
<1>3. SpaceInv'
  BY <1>2, RegionsKept DEF VmmInv
<1>4. space'.next \in Nat /\ space.next <= space'.next /\ (crossed => crossed')
  BY SpaceTypes DEF SameRegions
<1>5. ASSUME NEW u \in Threads \ {t} PROVE OpInv(u)' /\ RegionInv(u)'
  <2>1. pc[u] = "aRead" /\ ~crossed => \A p \in Concerns(u) : pt'[p] = pt[p]
    OBVIOUS
  <2>2. OpInv(u)'
    BY <2>1, <1>4, OtherOps DEF VmmInv
  <2>3. RegionInv(u)'
    BY OtherRegions DEF VmmInv
  <2> QED BY <2>2, <2>3
<1> QED BY <1>1, <1>3, <1>5

(* ReservationLock is released, and the flag of the processor cleared.     *)
LEMMA CpuDrop ==
    ASSUME CpuInv, NEW t \in Threads, Local(t), pc[t] = "aChange", DropReservationLock(t),
           Nobody \notin Threads,
           pc'[t] # "aChange", op'[t].cpu = Nobody, on'[t] \in {on[t], Nobody},
           UNCHANGED <<moved, crossed, panic>>
    PROVE  CpuInv'
<1>1. \A u \in Threads : u # t => pc'[u] = pc[u] /\ op'[u] = op[u] /\ on'[u] = on[u]
  BY DEF Local
<1>2. \A u \in Threads : pc[u] = "aChange" => u = t
  BY DEF CpuInv
<1>3. \A u \in Threads : pc'[u] # "aChange"
  BY <1>1, <1>2
<1>4. reslock' = Nobody
  BY DEF DropReservationLock
<1>5. \A u, v \in Threads : on'[u] = on'[v] /\ on'[u] # Nobody => u = v
  BY <1>1 DEF CpuInv
<1>6. ~moved' => \A u \in Threads : op'[u].cpu # Nobody => op'[u].cpu = on'[u]
  BY <1>1 DEF CpuInv
<1>7. MetadataAccessible' /\ FreesFindRegion'
  BY DEF CpuInv, MetadataAccessible, FreesFindRegion
<1>8. \A u \in Threads : (pc'[u] = "aChange") = (reslock' = u)
  BY <1>3, <1>4
<1> QED BY <1>3, <1>5, <1>6, <1>7, <1>8 DEF CpuInv

(* A thread reserves a run of frames that it has still to map.             *)
LEMMA FramesTaken ==
    ASSUME VmmInv, NEW t \in Threads, Local(t), NEW f \in Frames, NEW n \in Nat, n > 0,
           f + n <= NumFrames, FrameRun(f, n) \cap bitmap = {},
           bitmap' = bitmap \cup FrameRun(f, n),
           UNCHANGED <<space, pt, zlist, zitem, zpc, dirty, lost, given>>,
           pc[t] \notin {"aMap", "pMap"},
           \A x \in Frames : InFlight(t, x)' <=> x \in FrameRun(f, n)
    PROVE  FrameInv' /\ LeakInv' /\ bitmap' \subseteq Frames
<1>1. FrameRun(f, n) \subseteq Frames
  BY NumFramesAssumption DEF FrameRun, Frames
<1>2. \A u \in Threads : u # t => \A x \in Frames : InFlight(u, x)' <=> InFlight(u, x)
  BY DEF Local, InFlight
<1>3. \A x \in Frames : ~InFlight(t, x)
  BY DEF InFlight
<1>4. \A x \in FrameRun(f, n) :
          /\ x \notin zlist /\ x # zitem /\ x # 0
          /\ \A p \in Pages : pt[p] # x
          /\ \A u \in Threads : ~InFlight(u, x)
  <2> SUFFICES ASSUME NEW x \in FrameRun(f, n)
               PROVE  /\ x \notin zlist /\ x # zitem /\ x # 0
                      /\ \A p \in Pages : pt[p] # x
                      /\ \A u \in Threads : ~InFlight(u, x)
    OBVIOUS
  <2>1. x \in Frames /\ x \notin bitmap /\ x # NoFrame
    BY <1>1 DEF NoFrame, Frames
  <2> QED BY <2>1 DEF VmmInv, FrameInv, TypeInv
<1>5. FrameInv'
  <2>1. \A p, q \in Pages : pt'[p] # NoFrame /\ pt'[p] = pt'[q] => p = q
    BY DEF VmmInv, FrameInv
  <2>2. \A p \in Pages : pt'[p] # NoFrame => pt'[p] \in bitmap' \ (zlist' \cup {zitem', 0})
    BY DEF VmmInv, FrameInv
  <2>3. ASSUME NEW u \in Threads, NEW x \in Frames, InFlight(u, x)'
        PROVE  /\ x \in bitmap' \ (zlist' \cup {zitem', 0})
               /\ \A p \in Pages : pt'[p] # x
               /\ \A v \in Threads : InFlight(v, x)' => v = u
    <3>1. CASE u = t
      <4>1. x \in FrameRun(f, n)
        BY <2>3, <3>1
      <4> QED BY <4>1, <3>1, <1>2, <1>4
    <3>2. CASE u # t
      <4>1. InFlight(u, x) /\ x \notin FrameRun(f, n)
        BY <2>3, <3>2, <1>2, <1>4
      <4> QED BY <4>1, <3>2, <1>2 DEF VmmInv, FrameInv
    <3> QED BY <3>1, <3>2
  <2> QED BY <2>1, <2>2, <2>3 DEF VmmInv, FrameInv
<1>6. LeakInv'
  <2> SUFFICES ASSUME NEW x \in bitmap' \ {0}, x \notin lost' \cup given'
               PROVE  Held(x)'
    BY DEF LeakInv
  <2>1. CASE x \in FrameRun(f, n)
    BY <2>1, <1>1 DEF Held
  <2>2. CASE x \in bitmap
    <3>1. Held(x) /\ x \in Frames
      BY <2>2 DEF VmmInv, LeakInv, TypeInv
    <3> QED BY <3>1, <1>2, <1>3 DEF Held
  <2> QED BY <2>1, <2>2
<1>7. bitmap' \subseteq Frames
  BY <1>1 DEF VmmInv, TypeInv
<1> QED BY <1>5, <1>6, <1>7
(* A thread maps the frames it has reserved, over whatever was mapped.     *)
LEMMA FramesMapped ==
    ASSUME VmmInv, NEW t \in Threads, Local(t), NEW f \in Frames, NEW va \in Nat, NEW n \in Nat,
           f + n <= NumFrames, PageRun(va, n) \subseteq RegionPages,
           \A x \in Frames : InFlight(t, x) <=> x \in FrameRun(f, n),
           pc'[t] \notin {"aMap", "pMap"},
           \A p \in Pages : pt'[p] = IF p \in PageRun(va, n) THEN f + (p - va) ELSE pt[p],
           lost' = lost \cup ({pt[p] : p \in PageRun(va, n)} \ {NoFrame}),
           dirty' = dirty \cup FrameRun(f, n),
           UNCHANGED <<bitmap, space, zlist, zitem, zpc, given>>
    PROVE  FrameInv' /\ LeakInv' /\ dirty' \subseteq Frames \ {0}
<1>1. f \in Nat /\ FrameRun(f, n) \subseteq Frames
  BY NumFramesAssumption DEF FrameRun, Frames
<1>2. \A u \in Threads : u # t => \A x \in Frames : InFlight(u, x)' <=> InFlight(u, x)
  BY DEF Local, InFlight
<1>3. \A x \in Frames : ~InFlight(t, x)'
  BY DEF InFlight
<1>4. \A x \in FrameRun(f, n) :
          /\ x \in bitmap \ (zlist \cup {zitem, 0}) /\ x # NoFrame
          /\ \A p \in Pages : pt[p] # x
          /\ \A u \in Threads \ {t} : ~InFlight(u, x)
  <2> SUFFICES ASSUME NEW x \in FrameRun(f, n)
               PROVE  /\ x \in bitmap \ (zlist \cup {zitem, 0}) /\ x # NoFrame
                      /\ \A p \in Pages : pt[p] # x
                      /\ \A u \in Threads \ {t} : ~InFlight(u, x)
    OBVIOUS
  <2>1. x \in Frames /\ InFlight(t, x) /\ x # NoFrame
    BY <1>1 DEF NoFrame, Frames
  <2> QED BY <2>1 DEF VmmInv, FrameInv
<1>5. \A p \in PageRun(va, n) : p \in Pages /\ p \in Int
  BY PageNumbers
<1>6. \A p \in PageRun(va, n) : f + (p - va) \in FrameRun(f, n)
  BY <1>1, <1>5 DEF PageRun, FrameRun
<1>7. \A x \in FrameRun(f, n) : va + (x - f) \in PageRun(va, n) /\ pt'[va + (x - f)] = x
  <2> SUFFICES ASSUME NEW x \in FrameRun(f, n)
               PROVE  va + (x - f) \in PageRun(va, n) /\ pt'[va + (x - f)] = x
    OBVIOUS
  <2>1. x \in Int /\ va + (x - f) \in PageRun(va, n)
    BY <1>1 DEF PageRun, FrameRun
  <2>2. pt'[va + (x - f)] = f + ((va + (x - f)) - va)
    BY <2>1, <1>5
  <2>3. f + ((va + (x - f)) - va) = x
    BY <2>1, <1>1
  <2> QED BY <2>1, <2>2, <2>3
<1>8. FrameInv'
  <2>1. ASSUME NEW p \in Pages, NEW q \in Pages, pt'[p] # NoFrame, pt'[p] = pt'[q]
        PROVE  p = q
    <3>1. CASE p \in PageRun(va, n) /\ q \in PageRun(va, n)
      <4>1. f + (p - va) = f + (q - va) /\ p \in Int /\ q \in Int
        BY <2>1, <3>1, <1>5
      <4> QED BY <4>1, <1>1
    <3>2. CASE p \in PageRun(va, n) /\ q \notin PageRun(va, n)
      BY <2>1, <3>2, <1>4, <1>6
    <3>3. CASE p \notin PageRun(va, n) /\ q \in PageRun(va, n)
      BY <2>1, <3>3, <1>4, <1>6
    <3>4. CASE p \notin PageRun(va, n) /\ q \notin PageRun(va, n)
      BY <2>1, <3>4 DEF VmmInv, FrameInv
    <3> QED BY <3>1, <3>2, <3>3, <3>4
  <2>2. ASSUME NEW p \in Pages, pt'[p] # NoFrame
        PROVE  pt'[p] \in bitmap' \ (zlist' \cup {zitem', 0})
    <3>1. CASE p \in PageRun(va, n)
      BY <3>1, <1>4, <1>6
    <3>2. CASE p \notin PageRun(va, n)
      BY <2>2, <3>2 DEF VmmInv, FrameInv
    <3> QED BY <3>1, <3>2
  <2>3. ASSUME NEW u \in Threads, NEW x \in Frames, InFlight(u, x)'
        PROVE  /\ x \in bitmap' \ (zlist' \cup {zitem', 0})
               /\ \A p \in Pages : pt'[p] # x
               /\ \A v \in Threads : InFlight(v, x)' => v = u
    <3>1. u # t /\ InFlight(u, x) /\ x \notin FrameRun(f, n)
      BY <2>3, <1>2, <1>3, <1>4
    <3>2. /\ x \in bitmap \ (zlist \cup {zitem, 0})
          /\ \A p \in Pages : pt[p] # x
          /\ \A v \in Threads : InFlight(v, x) => v = u
      BY <3>1 DEF VmmInv, FrameInv
    <3>3. \A p \in Pages : pt'[p] # x
      BY <3>1, <3>2, <1>6
    <3> QED BY <3>2, <3>3, <1>2, <1>3
  <2>4. dirty' \subseteq bitmap' /\ (zpc' = "release" => zitem' \notin dirty')
    BY <1>4 DEF VmmInv, FrameInv
  <2>5. \A k \in 1 .. MaxBitmaps : k > space'.bitmaps => pt'[-k] = NoFrame
    BY PageNumbers DEF VmmInv, FrameInv
  <2> QED BY <2>1, <2>2, <2>3, <2>4, <2>5 DEF VmmInv, FrameInv
<1>9. LeakInv'
  <2> SUFFICES ASSUME NEW x \in bitmap' \ {0}, x \notin lost' \cup given'
               PROVE  Held(x)'
    BY DEF LeakInv
  <2>1. x \in Frames /\ Held(x) /\ x # NoFrame
    BY NumFramesAssumption DEF VmmInv, LeakInv, TypeInv, Frames, NoFrame
  <2>2. CASE x \in zlist \cup {zitem}
    BY <2>2 DEF Held
  <2>3. CASE \E p \in Pages : pt[p] = x
    <3>1. PICK p \in Pages : pt[p] = x
      BY <2>3
    <3>2. p \notin PageRun(va, n)
      BY <2>1, <3>1
    <3> QED BY <3>1, <3>2 DEF Held
  <2>4. CASE \E u \in Threads : InFlight(u, x)
    <3>1. PICK u \in Threads : InFlight(u, x)
      BY <2>4
    <3>2. CASE u = t
      <4>1. x \in FrameRun(f, n)
        BY <2>1, <3>1, <3>2
      <4>2. va + (x - f) \in Pages /\ pt'[va + (x - f)] = x
        BY <4>1, <1>5, <1>7
      <4> QED BY <4>2 DEF Held
    <3>3. CASE u # t
      BY <2>1, <3>1, <3>3, <1>2 DEF Held
    <3> QED BY <3>2, <3>3
  <2> QED BY <2>1, <2>2, <2>3, <2>4 DEF Held
<1>10. dirty' \subseteq Frames \ {0}
  BY <1>1, <1>4 DEF VmmInv, TypeInv
<1> QED BY <1>8, <1>9, <1>10

(* Pages are unmapped and their frames queued for the zeroer, or given to  *)
(* a process.                                                              *)
LEMMA FramesUnmapped ==
    ASSUME VmmInv, NEW t \in Threads, Local(t), NEW P, P \subseteq Pages, NEW F,
           pc[t] \notin {"aMap", "pMap"}, pc'[t] \notin {"aMap", "pMap"},
           \A x : x \in F <=> x # NoFrame /\ \E p \in P : pt[p] = x,
           \A p \in Pages : pt'[p] = IF p \in P THEN NoFrame ELSE pt[p],
           \/ zlist' = zlist \cup F /\ given' = given
           \/ zlist' = zlist /\ given' = given \cup F,
           UNCHANGED <<bitmap, zitem, zpc, dirty, lost>>,
           space' = space
    PROVE  FrameInv' /\ LeakInv' /\ zlist' \subseteq Frames
<1>1. \A u \in Threads, x \in Frames : InFlight(u, x)' <=> InFlight(u, x)
  BY DEF Local, InFlight
<1>2. \A x \in F : x \in bitmap \ (zlist \cup {zitem, 0}) /\ x \in Frames
  BY DEF VmmInv, FrameInv, TypeInv
<1>3. \A p \in Pages : pt'[p] # NoFrame => pt'[p] = pt[p] /\ pt[p] \notin F
  BY DEF VmmInv, FrameInv
<1>4. \A x \in zlist' : x \in zlist \/ x \in F
  OBVIOUS
<1>5. FrameInv'
  <2>1. \A p, q \in Pages : pt'[p] # NoFrame /\ pt'[p] = pt'[q] => p = q
    BY <1>3 DEF VmmInv, FrameInv
  <2>2. \A p \in Pages : pt'[p] # NoFrame => pt'[p] \in bitmap' \ (zlist' \cup {zitem', 0})
    BY <1>3, <1>4 DEF VmmInv, FrameInv
  <2>3. ASSUME NEW u \in Threads, NEW x \in Frames, InFlight(u, x)'
        PROVE  /\ x \in bitmap' \ (zlist' \cup {zitem', 0})
               /\ \A p \in Pages : pt'[p] # x
               /\ \A v \in Threads : InFlight(v, x)' => v = u
    <3>1. InFlight(u, x) /\ x # NoFrame
      BY <2>3, <1>1, NumFramesAssumption DEF Frames, NoFrame
    <3>2. /\ x \in bitmap \ (zlist \cup {zitem, 0})
          /\ \A p \in Pages : pt[p] # x
          /\ \A v \in Threads : InFlight(v, x) => v = u
      BY <3>1 DEF VmmInv, FrameInv
    <3>3. x \notin F
      BY <3>2
    <3> QED BY <3>1, <3>2, <3>3, <1>1, <1>4
  <2>4. zlist' \subseteq bitmap' \ {zitem', 0}
    BY <1>2, <1>4 DEF VmmInv, FrameInv
  <2>5. \A k \in 1 .. MaxBitmaps : k > space'.bitmaps => pt'[-k] = NoFrame
    BY PageNumbers DEF VmmInv, FrameInv
  <2> QED BY <2>1, <2>2, <2>3, <2>4, <2>5 DEF VmmInv, FrameInv
<1>6. LeakInv'
  <2> SUFFICES ASSUME NEW x \in bitmap' \ {0}, x \notin lost' \cup given'
               PROVE  Held(x)'
    BY DEF LeakInv
  <2>1. x \in Frames /\ Held(x) /\ x # NoFrame
    BY NumFramesAssumption DEF VmmInv, LeakInv, TypeInv, Frames, NoFrame
  <2>2. CASE x \in zlist \cup {zitem}
    BY <2>2 DEF Held
  <2>3. CASE \E p \in Pages : pt[p] = x
    <3>1. PICK p \in Pages : pt[p] = x
      BY <2>3
    <3>2. CASE p \in P
      <4>1. x \in F
        BY <2>1, <3>1, <3>2
      <4> QED BY <4>1 DEF Held
    <3>3. CASE p \notin P
      BY <3>1, <3>3 DEF Held
    <3> QED BY <3>2, <3>3
  <2>4. CASE \E u \in Threads : InFlight(u, x)
    BY <2>1, <2>4, <1>1 DEF Held
  <2> QED BY <2>1, <2>2, <2>3, <2>4 DEF Held
<1>7. zlist' \subseteq Frames
  BY <1>2, <1>4 DEF VmmInv, TypeInv
<1> QED BY <1>5, <1>6, <1>7
LEMMA SetCpu ==
    ASSUME NEW o \in Ops, NEW c \in Cpus \cup {Nobody}, NEW d, d = [o EXCEPT !.cpu = c]
    PROVE  /\ d \in Ops /\ d.cpu = c
           /\ d.kind = o.kind /\ d.addr = o.addr /\ d.va = o.va /\ d.n = o.n
           /\ d.type = o.type /\ d.attr = o.attr
           /\ d.file = o.file /\ d.frame = o.frame /\ d.bitmap = o.bitmap
  BY DEF Ops

LEMMA SetFrame ==
    ASSUME NEW o \in Ops, NEW f \in Frames, NEW d, d = [o EXCEPT !.frame = f]
    PROVE  /\ d \in Ops /\ d.frame = f
           /\ d.kind = o.kind /\ d.addr = o.addr /\ d.va = o.va /\ d.n = o.n
           /\ d.type = o.type /\ d.attr = o.attr
           /\ d.file = o.file /\ d.cpu = o.cpu /\ d.bitmap = o.bitmap
  BY DEF Ops

LEMMA SetFile ==
    ASSUME NEW o \in Ops, NEW f \in Files \cup {NoFile}, NEW d, d = [o EXCEPT !.file = f]
    PROVE  /\ d \in Ops /\ d.file = f
           /\ d.kind = o.kind /\ d.addr = o.addr /\ d.va = o.va /\ d.n = o.n
           /\ d.type = o.type /\ d.attr = o.attr
           /\ d.frame = o.frame /\ d.cpu = o.cpu /\ d.bitmap = o.bitmap
  BY DEF Ops

LEMMA SetRelease ==
    ASSUME NEW o \in Ops, NEW d,
           d = [o EXCEPT !.kind = "free", !.addr = o.va, !.type = {"release", "undo"},
                         !.release = TRUE]
    PROVE  /\ d \in Ops /\ d.kind = "free" /\ d.type = {"release", "undo"} /\ d.addr = o.va
           /\ d.va = o.va /\ d.n = o.n /\ d.attr = o.attr /\ d.file = o.file
           /\ d.frame = o.frame /\ d.cpu = o.cpu /\ d.bitmap = o.bitmap
<1>1. "free" \in Kinds /\ {"release", "undo"} \in SUBSET Flags /\ o.va \in Nat
  BY DEF Kinds, Flags, Ops
<1> QED BY <1>1 DEF Ops

LEMMA AllocLockInv ==
    ASSUME VmmInv, NEW t \in Threads, AllocLock(t)
    PROVE  VmmInv'
<1>1. PICK d : d = [op[t] EXCEPT !.cpu = on[t]]
  OBVIOUS
<1>2. /\ on[t] # Nobody /\ pc[t] = "aLock" /\ reslock = Nobody /\ reslock' = t
      /\ access' = [access EXCEPT ![on[t]] = TRUE] /\ Proceed(t, "aChange", d)
      /\ UNCHANGED <<bitmap, space, pt, zlist, newPages, zpc, zitem, open, dirty,
                     lost, given, met, moved, crossed, panic>>
  BY <1>1 DEF AllocLock, At, zvars, ghosts
<1>3. op[t] \in Ops /\ on[t] \in Cpus
  BY <1>2, OpTypes DEF VmmInv, TypeInv
<1>4. /\ d \in Ops /\ d.cpu = on[t]
      /\ d.kind = op[t].kind /\ d.va = op[t].va /\ d.n = op[t].n /\ d.type = op[t].type
      /\ d.file = op[t].file
  BY <1>1, <1>3, SetCpu
<1>5. /\ Local(t) /\ pc'[t] = "aChange" /\ op'[t] = d /\ on' = on
      /\ Concerns(t)' = PageRun(d.va, d.n)
      /\ pc' \in [Threads -> Labels] /\ op' \in [Threads -> Ops]
      /\ on' \in [Threads -> Cpus \cup {Nobody}]
  <2>1. "aChange" \in Labels
    BY DEF Labels, AllocLabels
  <2> QED BY <2>1, <1>2, <1>4, ProceedFacts
<1>6. Concerns(t)' = Concerns(t)
  BY <1>4, <1>5 DEF Concerns
<1>7. SameRegions
  BY <1>2, RegionsUnchanged DEF VmmInv
<1>8. OpInv(t)'
  <2>1. OpInv(t)
    BY DEF VmmInv
  <2>2. InSpace(op[t].va, op[t].n)'
    BY <2>1, <1>2, <1>4, <1>5 DEF InSpace, OpInv
  <2> QED BY <2>1, <2>2, <1>2, <1>4, <1>5 DEF OpInv, AllocLabels, FreeLabels, FaultLabels
<1>9. RegionInv(t)'
  BY <1>2, <1>4, <1>5, <1>6 DEF VmmInv, RegionInv
<1>10. /\ SpaceInv' /\ DisjointInv' /\ \A u \in Threads : OpInv(u)' /\ RegionInv(u)'
  <2>1. t \in Reserving' => t \in Reserving /\ op'[t].va = op[t].va
    BY <1>2, <1>4, <1>5 DEF Reserving
  <2> QED BY <2>1, <1>2, <1>4, <1>5, <1>6, <1>7, <1>8, <1>9, ControlKept
<1>11. FrameInv' /\ LeakInv'
  <2>1. pc[t] \notin {"aMap", "pMap"} /\ pc'[t] \notin {"aMap", "pMap"}
    BY <1>2, <1>5
  <2>2. space'.bitmaps \in Nat /\ space.bitmaps <= space'.bitmaps
    BY <1>2, SpaceTypes DEF VmmInv, SpaceInv
  <2> QED BY <2>1, <2>2, <1>2, <1>5, FramesKept DEF VmmInv
<1>12. FileInv'
  <2>1. pc[t] \in Filing /\ pc'[t] \notin Filling
    BY <1>2, <1>5 DEF Filing, Filling
  <2> QED BY <2>1, <1>2, <1>4, <1>5, <1>7, FilesKept DEF VmmInv
<1>13. CpuInv'
  <2>1. \A u \in Threads : u # t => pc'[u] = pc[u] /\ op'[u] = op[u]
    BY <1>5 DEF Local
  <2>2. \A u \in Threads : pc[u] # "aChange"
    BY <1>2, VmmAssumption DEF VmmInv, CpuInv
  <2>3. \A u \in Threads : pc'[u] = "aChange" <=> u = t
    BY <2>1, <2>2, <1>5
  <2>4. \A u \in Threads : (pc'[u] = "aChange") = (reslock' = u)
    BY <2>3, <1>2
  <2>5. access'[on[t]]
    BY <1>2, <1>3 DEF VmmInv, TypeInv
  <2>6. \A u \in Threads : pc'[u] = "aChange" => access'[on'[u]]
    BY <2>3, <2>5, <1>5
  <2>7. ~moved' => \A u \in Threads : op'[u].cpu # Nobody => op'[u].cpu = on'[u]
    BY <2>1, <1>2, <1>4, <1>5 DEF VmmInv, CpuInv
  <2>8. MetadataAccessible' /\ FreesFindRegion'
    BY <1>2 DEF VmmInv, CpuInv, MetadataAccessible, FreesFindRegion
  <2> QED BY <2>4, <2>6, <2>7, <2>8, <1>5 DEF VmmInv, CpuInv
<1>14. TypeInv'
  <2>1. access' \in [Cpus -> BOOLEAN]
    BY <1>2 DEF VmmInv, TypeInv
  <2> QED BY <2>1, <1>2, <1>5 DEF VmmInv, TypeInv
<1> QED BY <1>10, <1>11, <1>12, <1>13, <1>14 DEF VmmInv

(* The flags of the processors stay flags.                                 *)
LEMMA DropTypes ==
    ASSUME TypeInv, NEW t \in Threads, DropReservationLock(t)
    PROVE  reslock' \in Threads \cup {Nobody} /\ access' \in [Cpus -> BOOLEAN]
  BY DEF TypeInv, DropReservationLock

LEMMA AllocRefusedInv ==
    ASSUME VmmInv, NEW t \in Threads, AllocRefused(t)
    PROVE  VmmInv'
<1>1. /\ pc[t] = "aChange" /\ DropReservationLock(t) /\ Return(t)
      /\ UNCHANGED <<bitmap, space, pt, zlist, newPages, zpc, zitem, open, dirty,
                     lost, given, met, moved, crossed, panic>>
  BY DEF AllocRefused, At, zvars, ghosts
<1>2. /\ Local(t) /\ pc'[t] = "idle" /\ op'[t] = NoOp /\ on'[t] = Nobody
      /\ Concerns(t)' = {} /\ op'[t].cpu = Nobody /\ op'[t].file = NoFile
      /\ pc' \in [Threads -> Labels] /\ op' \in [Threads -> Ops]
      /\ on' \in [Threads -> Cpus \cup {Nobody}]
      /\ OpInv(t)' /\ RegionInv(t)'
  BY <1>1, ReturnFacts
<1>3. SameRegions
  BY <1>1, RegionsUnchanged DEF VmmInv
<1>4. /\ SpaceInv' /\ DisjointInv' /\ \A u \in Threads : OpInv(u)' /\ RegionInv(u)'
  <2>1. t \notin Reserving'
    BY <1>2 DEF Reserving
  <2> QED BY <2>1, <1>1, <1>2, <1>3, ControlKept
<1>5. FrameInv' /\ LeakInv'
  <2>1. pc[t] \notin {"aMap", "pMap"} /\ pc'[t] \notin {"aMap", "pMap"}
    BY <1>1, <1>2
  <2>2. space'.bitmaps \in Nat /\ space.bitmaps <= space'.bitmaps
    BY <1>1, SpaceTypes DEF VmmInv, SpaceInv
  <2> QED BY <2>1, <2>2, <1>1, <1>2, FramesKept DEF VmmInv
<1>6. FileInv'
  BY <1>1, <1>2, <1>3, FilesKept DEF VmmInv
<1>7. CpuInv'
  BY <1>1, <1>2, CpuDrop, VmmAssumption DEF VmmInv
<1>8. TypeInv'
  <2>1. reslock' \in Threads \cup {Nobody} /\ access' \in [Cpus -> BOOLEAN]
    BY <1>1, DropTypes DEF VmmInv
  <2> QED BY <2>1, <1>1, <1>2 DEF VmmInv, TypeInv
<1> QED BY <1>4, <1>5, <1>6, <1>7, <1>8 DEF VmmInv

(* What AfterChange leads to: nothing is asked of the frames yet.          *)
LEMMA AfterChangeFacts ==
    ASSUME VmmInv, NEW t \in Threads, pc[t] = "aChange", AfterChange(t)
    PROVE  /\ Local(t) /\ pc'[t] \in {"idle", "aFrames"} /\ on'[t] \in {on[t], Nobody}
           /\ Concerns(t)' \subseteq Concerns(t) /\ op'[t].cpu = Nobody
           /\ pc' \in [Threads -> Labels] /\ op' \in [Threads -> Ops]
           /\ on' \in [Threads -> Cpus \cup {Nobody}]
           /\ pc'[t] = "aFrames" =>
                 /\ op'[t].va = op[t].va /\ op'[t].n = op[t].n /\ op'[t].file = op[t].file
                 /\ op'[t].type = op[t].type /\ "eager" \in op[t].type
           /\ space'.next \in Nat /\ space.next <= space'.next => OpInv(t)'
<1>1. CASE "eager" \in op[t].type
  <2>1. PICK d : d = [op[t] EXCEPT !.cpu = Nobody]
    OBVIOUS
  <2>2. op[t] \in Ops
    BY OpTypes DEF VmmInv
  <2>3. /\ d \in Ops /\ d.cpu = Nobody
        /\ d.kind = op[t].kind /\ d.va = op[t].va /\ d.n = op[t].n /\ d.type = op[t].type
        /\ d.file = op[t].file
    BY <2>1, <2>2, SetCpu
  <2>4. "aFrames" \in Labels
    BY DEF Labels, AllocLabels
  <2>5. Proceed(t, "aFrames", d)
    BY <2>1, <1>1 DEF AfterChange
  <2>6. /\ Local(t) /\ pc'[t] = "aFrames" /\ op'[t] = d /\ on' = on
        /\ Concerns(t)' = PageRun(d.va, d.n)
        /\ pc' \in [Threads -> Labels] /\ op' \in [Threads -> Ops]
        /\ on' \in [Threads -> Cpus \cup {Nobody}]
    BY <2>3, <2>4, <2>5, ProceedFacts
  <2>7. Concerns(t)' = Concerns(t)
    BY <2>3, <2>6 DEF Concerns
  <2>8. ASSUME space'.next \in Nat, space.next <= space'.next PROVE OpInv(t)'
    <3>1. OpInv(t) /\ space.next \in Nat /\ op[t].va \in Nat /\ op[t].n \in Nat
      BY OpTypes, SpaceTypes DEF VmmInv, SpaceInv
    <3>2. InSpace(op[t].va, op[t].n)'
      BY <3>1, <2>3, <2>6, <2>8, VmReservationAssumption DEF InSpace, OpInv
    <3> QED BY <3>1, <3>2, <2>3, <2>6 DEF OpInv, AllocLabels, FreeLabels, FaultLabels
  <2> QED BY <2>3, <2>6, <2>7, <2>8, <1>1
<1>2. CASE "eager" \notin op[t].type
  <2>1. Return(t)
    BY <1>2 DEF AfterChange
  <2> QED BY <2>1, ReturnFacts
<1> QED BY <1>1, <1>2

LEMMA AllocCommitInv ==
    ASSUME VmmInv, NEW t \in Threads, AllocCommit(t)
    PROVE  VmmInv'
<1>1. /\ pc[t] = "aChange" /\ DropReservationLock(t) /\ AfterChange(t)
      /\ "reserve" \notin op[t].type /\ CanCommit(space, op[t].va, op[t].n, op[t].attr)
      /\ space' = VmCommitReservation(space, op[t].va, op[t].n)
      /\ UNCHANGED <<bitmap, pt, zlist, newPages, zpc, zitem, open, dirty,
                     lost, given, met, moved, crossed, panic>>
  BY DEF AllocCommit, At, zvars, ghosts
<1>2. /\ Local(t) /\ pc'[t] \in {"idle", "aFrames"} /\ on'[t] \in {on[t], Nobody}
      /\ Concerns(t)' \subseteq Concerns(t) /\ op'[t].cpu = Nobody
      /\ pc' \in [Threads -> Labels] /\ op' \in [Threads -> Ops]
      /\ on' \in [Threads -> Cpus \cup {Nobody}]
      /\ pc'[t] = "aFrames" => op'[t].file = op[t].file
      /\ space'.next \in Nat /\ space.next <= space'.next => OpInv(t)'
  BY <1>1, AfterChangeFacts
<1>3. VmFindReservation(space, op[t].va, op[t].n) # 0 /\ op[t].va \in Nat /\ op[t].n \in Nat
  BY <1>1, OpTypes DEF CanCommit, VmmInv
<1>4. /\ Shape(space) /\ space.next \in Nat
      /\ \A i \in Used(space) : space.list[i].commit \subseteq PageRun(space.list[i].start, space.list[i].size)
  BY SpaceTypes DEF VmmInv, SpaceInv, EntryInv
<1>5. /\ Shape(space')
      /\ space'.next = space.next /\ space'.bitmaps = space.bitmaps /\ Used(space') = Used(space)
      /\ \E i \in Used(space) :
            /\ PageRun(op[t].va, op[t].n) \subseteq PageRun(space.list[i].start, space.list[i].size)
            /\ space'.list[i].commit = space.list[i].commit \cup PageRun(op[t].va, op[t].n)
            /\ Alike(space'.list[i], space.list[i])
            /\ \A j \in Used(space) : j # i => space'.list[j] = space.list[j]
  <2>1. PICK sp, new, va, n : sp = space /\ new = space' /\ va = op[t].va /\ n = op[t].n
    OBVIOUS
  <2>2. /\ Shape(new)
        /\ new.next = sp.next /\ new.bitmaps = sp.bitmaps /\ Used(new) = Used(sp)
        /\ \E i \in Used(sp) :
              /\ i = VmFindReservation(sp, va, n)
              /\ PageRun(va, n) \subseteq PageRun(sp.list[i].start, sp.list[i].size)
              /\ new.list[i].commit = sp.list[i].commit \cup PageRun(va, n)
              /\ new.list[i].start = sp.list[i].start /\ new.list[i].size = sp.list[i].size
              /\ new.list[i].file = sp.list[i].file /\ new.list[i].bitmap = sp.list[i].bitmap
              /\ new.list[i].attr = sp.list[i].attr
              /\ \A j \in Used(sp) : j # i => new.list[j] = sp.list[j]
    <3>1. Shape(sp) /\ va \in Nat /\ n \in Nat /\ VmFindReservation(sp, va, n) # 0
      BY <2>1, <1>3, <1>4
    <3>2. new = VmCommitReservation(sp, va, n)
      BY <2>1, <1>1
    <3> QED BY <3>1, <3>2, CommitFacts
  <2> QED BY <2>1, <2>2 DEF Alike
<1>6. SameRegions
  <2>1. space.next <= space'.next /\ space'.next <= MaxVa + 1
    BY <1>4, <1>5 DEF VmmInv, SpaceInv
  <2>2. \A i \in Used(space) :
          /\ Alike(space'.list[i], space.list[i])
          /\ space'.list[i].commit \subseteq PageRun(space.list[i].start, space.list[i].size)
    BY <1>4, <1>5 DEF Alike
  <2> QED BY <2>1, <2>2, <1>1, <1>5 DEF SameRegions
<1>7. OpInv(t)'
  BY <1>2, <1>4, <1>5
<1>8. op[t].file = NoFile /\ op[t].kind = "alloc"
  BY <1>1 DEF VmmInv, OpInv, AllocLabels
<1>9. RegionInv(t)'
  BY <1>2, <1>8 DEF RegionInv
<1>10. /\ SpaceInv' /\ DisjointInv' /\ \A u \in Threads : OpInv(u)' /\ RegionInv(u)'
  <2>1. t \notin Reserving'
    BY <1>2 DEF Reserving
  <2>2. op[t].kind # "fault"
    BY <1>8
  <2> QED BY <2>1, <2>2, <1>1, <1>2, <1>6, <1>7, <1>9, ControlKept
<1>11. FrameInv' /\ LeakInv'
  <2>1. pc[t] \notin {"aMap", "pMap"} /\ pc'[t] \notin {"aMap", "pMap"}
    BY <1>1, <1>2
  <2>2. space'.bitmaps \in Nat /\ space.bitmaps <= space'.bitmaps
    BY <1>5, SpaceTypes
  <2> QED BY <2>1, <2>2, <1>1, <1>2, FramesKept DEF VmmInv
<1>12. FileInv'
  <2>1. pc'[t] \notin Filing /\ pc'[t] \notin Filling
    BY <1>2 DEF Filing, Filling
  <2> QED BY <2>1, <1>1, <1>2, <1>6, FilesKept DEF VmmInv
<1>13. CpuInv'
  <2>1. pc'[t] # "aChange"
    BY <1>2
  <2> QED BY <2>1, <1>1, <1>2, CpuDrop, VmmAssumption DEF VmmInv
<1>14. TypeInv'
  <2>1. reslock' \in Threads \cup {Nobody} /\ access' \in [Cpus -> BOOLEAN]
    BY <1>1, DropTypes DEF VmmInv
  <2> QED BY <2>1, <1>1, <1>2 DEF VmmInv, TypeInv
<1> QED BY <1>10, <1>11, <1>12, <1>13, <1>14 DEF VmmInv
LEMMA AllocFramesInv ==
    ASSUME VmmInv, NEW t \in Threads, AllocFrames(t)
    PROVE  VmmInv'
<1>1. PICK f : f = PmmReserveMemoryEx(bitmap, op[t].n, 0)
  OBVIOUS
<1>2. /\ pc[t] = "aFrames" /\ bitmap' = PmmReserved(bitmap, f, op[t].n)
      /\ IF f = NoFrame THEN Return(t) ELSE Proceed(t, "aMap", [op[t] EXCEPT !.frame = f])
      /\ UNCHANGED <<space, reslock, pt, access, zlist, newPages, zpc, zitem, open, dirty,
                     lost, given, met, moved, crossed, panic>>
  BY <1>1 DEF AllocFrames, At, zvars, ghosts
<1>3. OpInv(t) /\ RegionInv(t) /\ op[t] \in Ops /\ op[t].va \in Nat /\ op[t].n \in Nat
  BY OpTypes DEF VmmInv
<1>4. op[t].n > 0 /\ op[t].kind = "alloc" /\ op[t].cpu = Nobody /\ InSpace(op[t].va, op[t].n)
  BY <1>2, <1>3 DEF OpInv, InSpace, AllocLabels
<1>5. SameRegions
  BY <1>2, RegionsUnchanged DEF VmmInv
<1>6. space'.bitmaps \in Nat /\ space.bitmaps <= space'.bitmaps
  BY <1>2, SpaceTypes DEF VmmInv, SpaceInv
<1>7. CASE f = NoFrame
  <2>1. bitmap' = bitmap /\ Return(t)
    BY <1>2, <1>7 DEF PmmReserved
  <2>2. /\ Local(t) /\ pc'[t] = "idle" /\ op'[t] = NoOp /\ on'[t] = Nobody
        /\ Concerns(t)' = {} /\ op'[t].cpu = Nobody /\ op'[t].file = NoFile
        /\ pc' \in [Threads -> Labels] /\ op' \in [Threads -> Ops]
        /\ on' \in [Threads -> Cpus \cup {Nobody}]
        /\ OpInv(t)' /\ RegionInv(t)'
    BY <2>1, ReturnFacts
  <2>3. /\ SpaceInv' /\ DisjointInv' /\ \A u \in Threads : OpInv(u)' /\ RegionInv(u)'
    <3>1. t \notin Reserving'
      BY <2>2 DEF Reserving
    <3> QED BY <3>1, <2>2, <1>2, <1>5, ControlKept
  <2>4. pc[t] \notin {"aMap", "pMap"} /\ pc'[t] \notin {"aMap", "pMap"}
    BY <2>2, <1>2
  <2>5. FrameInv' /\ LeakInv'
    BY <2>1, <2>2, <2>4, <1>2, <1>6, FramesKept DEF VmmInv
  <2>6. FileInv'
    BY <2>2, <1>2, <1>5, FilesKept DEF VmmInv
  <2>7. CpuInv'
    <3>1. pc[t] # "aChange" /\ pc'[t] # "aChange"
      BY <2>2, <1>2
    <3> QED BY <3>1, <2>2, <1>2, CpuKept DEF VmmInv
  <2>8. TypeInv'
    BY <2>1, <2>2, <1>2 DEF VmmInv, TypeInv
  <2> QED BY <2>3, <2>5, <2>6, <2>7, <2>8 DEF VmmInv
<1>8. CASE f # NoFrame
  <2>1. f \in Frames /\ f + op[t].n <= NumFrames /\ FrameRun(f, op[t].n) \cap bitmap = {}
    BY <1>1, <1>3, <1>4, <1>8, ReserveMemory
  <2>2. PICK d : d = [op[t] EXCEPT !.frame = f]
    OBVIOUS
  <2>3. /\ d \in Ops /\ d.frame = f
        /\ d.kind = op[t].kind /\ d.va = op[t].va /\ d.n = op[t].n /\ d.type = op[t].type
        /\ d.file = op[t].file /\ d.cpu = op[t].cpu
    BY <2>1, <2>2, <1>3, SetFrame
  <2>4. "aMap" \in Labels
    BY DEF Labels, AllocLabels
  <2>5. bitmap' = bitmap \cup FrameRun(f, op[t].n) /\ Proceed(t, "aMap", d)
    BY <2>2, <1>2, <1>8 DEF PmmReserved
  <2>6. /\ Local(t) /\ pc'[t] = "aMap" /\ op'[t] = d /\ on' = on
        /\ Concerns(t)' = PageRun(d.va, d.n)
        /\ pc' \in [Threads -> Labels] /\ op' \in [Threads -> Ops]
        /\ on' \in [Threads -> Cpus \cup {Nobody}]
    BY <2>3, <2>4, <2>5, ProceedFacts
  <2>7. Concerns(t)' = Concerns(t)
    BY <2>3, <2>6 DEF Concerns
  <2>8. OpInv(t)'
    <3>1. InSpace(op[t].va, op[t].n)'
      BY <2>3, <2>6, <1>2, <1>4 DEF InSpace
    <3> QED BY <3>1, <2>1, <2>3, <2>6, <1>2, <1>3, <1>4, <1>8
            DEF OpInv, AllocLabels, FreeLabels, FaultLabels
  <2>9. RegionInv(t)'
    BY <2>3, <2>6, <1>2, <1>3 DEF RegionInv
  <2>10. /\ SpaceInv' /\ DisjointInv' /\ \A u \in Threads : OpInv(u)' /\ RegionInv(u)'
    <3>1. t \notin Reserving'
      BY <2>6 DEF Reserving
    <3>2. op[t].kind # "fault"
      BY <1>4
    <3> QED BY <3>1, <3>2, <2>6, <2>7, <2>8, <2>9, <1>2, <1>5, ControlKept
  <2>11. FrameInv' /\ LeakInv' /\ bitmap' \subseteq Frames
    <3>1. \A x \in Frames : InFlight(t, x)' <=> x \in FrameRun(f, op[t].n)
      BY <2>3, <2>6 DEF InFlight
    <3>2. pc[t] \notin {"aMap", "pMap"}
      BY <1>2
    <3> QED BY <3>1, <3>2, <2>1, <2>5, <2>6, <1>2, <1>3, <1>4, FramesTaken
  <2>12. FileInv'
    <3>1. pc'[t] \notin Filing /\ pc'[t] \notin Filling
      BY <2>6 DEF Filing, Filling
    <3> QED BY <3>1, <2>6, <1>2, <1>5, FilesKept DEF VmmInv
  <2>13. CpuInv'
    <3>1. pc[t] # "aChange" /\ pc'[t] # "aChange" /\ op'[t].cpu = Nobody
      BY <2>3, <2>6, <1>2, <1>4
    <3> QED BY <3>1, <2>6, <1>2, CpuKept DEF VmmInv
  <2>14. TypeInv'
    BY <2>5, <2>6, <2>11, <1>2 DEF VmmInv, TypeInv
  <2> QED BY <2>10, <2>11, <2>12, <2>13, <2>14 DEF VmmInv
<1> QED BY <1>7, <1>8

LEMMA AllocMapInv ==
    ASSUME VmmInv, NEW t \in Threads, AllocMap(t)
    PROVE  VmmInv'
<1>1. /\ pc[t] = "aMap"
      /\ pt' = [p \in Pages |-> IF p \in PageRun(op[t].va, op[t].n)
                                THEN op[t].frame + (p - op[t].va) ELSE pt[p]]
      /\ lost' = lost \cup ({pt[p] : p \in PageRun(op[t].va, op[t].n)} \ {NoFrame})
      /\ dirty' = dirty \cup FrameRun(op[t].frame, op[t].n)
      /\ IF op[t].file = NoFile THEN Return(t) ELSE Proceed(t, "aRead", op[t])
      /\ UNCHANGED <<bitmap, space, reslock, access, zlist, newPages, zpc, zitem, open,
                     given, met, moved, crossed, panic>>
  BY DEF AllocMap, At, zvars
<1>2. /\ OpInv(t) /\ RegionInv(t) /\ op[t] \in Ops /\ op[t].va \in Nat /\ op[t].n \in Nat
      /\ op[t].frame \in Frames \cup {NoFrame}
  BY OpTypes DEF VmmInv
<1>3. /\ op[t].n > 0 /\ op[t].kind = "alloc" /\ op[t].cpu = Nobody /\ InSpace(op[t].va, op[t].n)
      /\ op[t].frame \in Frames /\ op[t].frame + op[t].n <= NumFrames /\ op[t].frame # NoFrame
      /\ on[t] # Nobody
  BY <1>1, <1>2 DEF OpInv, InSpace, AllocLabels
<1>4. SameRegions
  BY <1>1, RegionsUnchanged DEF VmmInv
<1>5. PageRun(op[t].va, op[t].n) \subseteq RegionPages
  BY <1>2, <1>3, RunsArePages, SpaceTypes DEF VmmInv, SpaceInv
<1>6. \A p \in Pages : pt'[p] = IF p \in PageRun(op[t].va, op[t].n)
                                THEN op[t].frame + (p - op[t].va) ELSE pt[p]
  BY <1>1
<1>7. \A p \in Concerns(t) : pt'[p] = op[t].frame + (p - op[t].va)
  BY <1>5, <1>6, PageNumbers DEF Concerns
<1>8. /\ Local(t) /\ pc'[t] \in {"idle", "aRead"} /\ Concerns(t)' \subseteq Concerns(t)
      /\ op'[t].cpu = Nobody /\ on'[t] \in {on[t], Nobody}
      /\ pc' \in [Threads -> Labels] /\ op' \in [Threads -> Ops]
      /\ on' \in [Threads -> Cpus \cup {Nobody}]
      /\ OpInv(t)' /\ RegionInv(t)'
  <2>1. CASE op[t].file = NoFile
    <3>1. Return(t)
      BY <1>1, <2>1
    <3> QED BY <3>1, ReturnFacts
  <2>2. CASE op[t].file # NoFile
    <3>1. Proceed(t, "aRead", op[t])
      BY <1>1, <2>2
    <3>2. "aRead" \in Labels
      BY DEF Labels, AllocLabels
    <3>3. /\ Local(t) /\ pc'[t] = "aRead" /\ op'[t] = op[t] /\ on' = on
          /\ Concerns(t)' = PageRun(op[t].va, op[t].n)
          /\ pc' \in [Threads -> Labels] /\ op' \in [Threads -> Ops]
          /\ on' \in [Threads -> Cpus \cup {Nobody}]
      BY <3>1, <3>2, <1>2, ProceedFacts
    <3>4. Concerns(t)' = Concerns(t)
      BY <3>3 DEF Concerns
    <3>5. OpInv(t)'
      <4>1. InSpace(op[t].va, op[t].n)'
        BY <3>3, <1>1, <1>3 DEF InSpace
      <4> QED BY <4>1, <3>3, <3>4, <2>2, <1>3, <1>7 DEF OpInv, AllocLabels, FreeLabels, FaultLabels
    <3>6. RegionInv(t)'
      BY <3>3, <3>4, <1>1, <1>2 DEF RegionInv
    <3> QED BY <3>3, <3>4, <3>5, <3>6, <1>3
  <2> QED BY <2>1, <2>2
<1>9. /\ SpaceInv' /\ DisjointInv' /\ \A u \in Threads : OpInv(u)' /\ RegionInv(u)'
  <2>1. t \notin Reserving'
    BY <1>8 DEF Reserving
  <2>2. op[t].kind # "fault"
    BY <1>3
  <2>3. ASSUME ~crossed, NEW u \in Threads \ {t}, pc[u] = "aRead", NEW p \in Concerns(u)
        PROVE  pt'[p] = pt[p]
    <3>1. p \notin Concerns(t)
      BY <2>2, <2>3 DEF VmmInv, DisjointInv
    <3>2. InSpace(op[u].va, op[u].n) /\ op[u].va \in Nat /\ op[u].n \in Nat
      BY <2>3, OpTypes DEF VmmInv, OpInv
    <3>3. p \in Pages
      BY <3>2, RunsArePages, SpaceTypes, PageNumbers DEF VmmInv, SpaceInv, Concerns
    <3> QED BY <3>1, <3>3, <1>6 DEF Concerns
  <2> QED BY <2>1, <2>2, <2>3, <1>4, <1>8, ControlKept
<1>10. FrameInv' /\ LeakInv' /\ dirty' \subseteq Frames \ {0}
  <2>1. \A x \in Frames : InFlight(t, x) <=> x \in FrameRun(op[t].frame, op[t].n)
    BY <1>1 DEF InFlight
  <2>2. pc'[t] \notin {"aMap", "pMap"}
    BY <1>8
  <2>3. PICK f \in Frames, va \in Nat, n \in Nat : f = op[t].frame /\ va = op[t].va /\ n = op[t].n
    BY <1>2, <1>3
  <2>4. /\ f + n <= NumFrames /\ PageRun(va, n) \subseteq RegionPages
        /\ \A x \in Frames : InFlight(t, x) <=> x \in FrameRun(f, n)
        /\ \A p \in Pages : pt'[p] = IF p \in PageRun(va, n) THEN f + (p - va) ELSE pt[p]
        /\ lost' = lost \cup ({pt[p] : p \in PageRun(va, n)} \ {NoFrame})
        /\ dirty' = dirty \cup FrameRun(f, n)
        /\ UNCHANGED <<bitmap, space, zlist, zitem, zpc, given>>
    BY <2>1, <2>3, <1>1, <1>3, <1>5, <1>6
  <2> QED BY <2>2, <2>4, <1>8, FramesMapped
<1>11. FileInv'
  <2>1. pc'[t] \notin Filing /\ pc'[t] \notin Filling
    BY <1>8 DEF Filing, Filling
  <2> QED BY <2>1, <1>1, <1>4, <1>8, FilesKept DEF VmmInv
<1>12. CpuInv'
  <2>1. pc[t] # "aChange" /\ pc'[t] # "aChange"
    BY <1>1, <1>8
  <2> QED BY <2>1, <1>1, <1>8, CpuKept DEF VmmInv
<1>13. TypeInv'
  <2>1. pt' \in [Pages -> Frames \cup {NoFrame}]
    <3>1. \A p \in PageRun(op[t].va, op[t].n) : op[t].frame + (p - op[t].va) \in Frames
      BY <1>2, <1>3, NumFramesAssumption DEF PageRun, Frames
    <3> QED BY <3>1, <1>1 DEF VmmInv, TypeInv
  <2> QED BY <2>1, <1>1, <1>8, <1>10 DEF VmmInv, TypeInv
<1> QED BY <1>9, <1>10, <1>11, <1>12, <1>13 DEF VmmInv
(* An operation ends with a step that changes nothing but the thread.      *)
LEMMA LeaveInv ==
    ASSUME VmmInv, NEW t \in Threads, Return(t), pc[t] \notin {"aChange", "aMap", "pMap"},
           UNCHANGED <<bitmap, space, reslock, pt, access, zlist, newPages, zpc, zitem, open,
                       dirty, lost, given, met, moved, crossed, panic>>
    PROVE  VmmInv'
<1>1. /\ Local(t) /\ pc'[t] = "idle" /\ op'[t] = NoOp /\ on'[t] = Nobody
      /\ Concerns(t)' = {} /\ op'[t].cpu = Nobody /\ op'[t].file = NoFile
      /\ pc' \in [Threads -> Labels] /\ op' \in [Threads -> Ops]
      /\ on' \in [Threads -> Cpus \cup {Nobody}]
      /\ OpInv(t)' /\ RegionInv(t)'
  BY ReturnFacts
<1>2. SameRegions
  BY RegionsUnchanged DEF VmmInv
<1>3. /\ SpaceInv' /\ DisjointInv' /\ \A u \in Threads : OpInv(u)' /\ RegionInv(u)'
  <2>1. t \notin Reserving'
    BY <1>1 DEF Reserving
  <2> QED BY <2>1, <1>1, <1>2, ControlKept
<1>4. FrameInv' /\ LeakInv'
  <2>1. pc[t] \notin {"aMap", "pMap"} /\ pc'[t] \notin {"aMap", "pMap"}
    BY <1>1
  <2>2. space'.bitmaps \in Nat /\ space.bitmaps <= space'.bitmaps
    BY SpaceTypes DEF VmmInv, SpaceInv
  <2> QED BY <2>1, <2>2, <1>1, FramesKept DEF VmmInv
<1>5. FileInv'
  BY <1>1, <1>2, FilesKept DEF VmmInv
<1>6. CpuInv'
  <2>1. pc[t] # "aChange" /\ pc'[t] # "aChange"
    BY <1>1
  <2> QED BY <2>1, <1>1, CpuKept DEF VmmInv
<1>7. TypeInv'
  BY <1>1 DEF VmmInv, TypeInv
<1> QED BY <1>3, <1>4, <1>5, <1>6, <1>7 DEF VmmInv

(* A failed assertion changes nothing but panic.                           *)
LEMMA StopInv ==
    ASSUME VmmInv, NEW what \in {"frames", "metadata", "fault", "free"}, Panic(what),
           what = "metadata" => moved, what = "free" => crossed,
           UNCHANGED <<bitmap, space, reslock, pt, access, zlist, zpc, zitem, open,
                       dirty, lost, given, moved, crossed>>
    PROVE  VmmInv'
<1>1. UNCHANGED <<pc, op, on>> /\ panic' = what
  BY DEF Panic
<1>2. TypeInv' /\ SpaceInv'
  BY <1>1 DEF VmmInv, TypeInv, SpaceInv, EntryInv, Reserving, ReservationsDisjoint
<1>3. ASSUME NEW t \in Threads PROVE OpInv(t)' /\ RegionInv(t)'
  <2>1. OpInv(t) /\ RegionInv(t)
    BY DEF VmmInv
  <2>2. OpInv(t)'
    BY <2>1, <1>1 DEF OpInv, InSpace, Concerns
  <2> QED BY <2>1, <2>2, <1>1 DEF RegionInv, Concerns
<1>4. DisjointInv'
  BY <1>1 DEF VmmInv, DisjointInv, FreshInv, Reserving, Concerns
<1>5. FrameInv' /\ LeakInv'
  BY <1>1 DEF VmmInv, FrameInv, LeakInv, Held, InFlight
<1>6. CpuInv'
  BY <1>1 DEF VmmInv, CpuInv, MetadataAccessible, FreesFindRegion
<1>7. FileInv'
  BY <1>1 DEF VmmInv, FileInv
<1> QED BY <1>2, <1>3, <1>4, <1>5, <1>6, <1>7 DEF VmmInv

(* The pages another thread works on are pages of regions.                 *)
LEMMA ConcernsPages ==
    ASSUME VmmInv, NEW t \in Threads, pc[t] # "idle"
    PROVE  /\ Concerns(t) \subseteq RegionPages /\ Concerns(t) \subseteq Pages
           /\ op[t].va \in Concerns(t)
<1>1. InSpace(op[t].va, op[t].n) /\ op[t].va \in Nat /\ op[t].n \in Nat
  BY OpTypes DEF VmmInv, OpInv
<1>2. space.next \in Nat /\ space.next <= MaxVa + 1
  BY SpaceTypes DEF VmmInv, SpaceInv
<1> QED BY <1>1, <1>2, RunsArePages, PageNumbers DEF Concerns

LEMMA AllocReadInv ==
    ASSUME VmmInv, NEW t \in Threads, AllocRead(t)
    PROVE  VmmInv'
<1>1. PICK d : d = [op[t] EXCEPT !.kind = "free", !.addr = op[t].va,
                           !.type = {"release", "undo"}, !.release = TRUE]
  OBVIOUS
<1>2. /\ pc[t] = "aRead"
      /\ Return(t) \/ Proceed(t, "fLock", d)
      /\ UNCHANGED <<bitmap, space, reslock, pt, access, zlist, newPages, zpc, zitem, open,
                     dirty, lost, given, met, moved, crossed, panic>>
  BY <1>1 DEF AllocRead, At, zvars, ghosts
<1>3. CASE Return(t)
  <2>1. pc[t] \notin {"aChange", "aMap", "pMap"}
    BY <1>2
  <2> QED BY <2>1, <1>2, <1>3, LeaveInv
<1>4. CASE Proceed(t, "fLock", d)
  <2>1. OpInv(t) /\ RegionInv(t) /\ op[t] \in Ops
    BY OpTypes DEF VmmInv
  <2>2. /\ d \in Ops /\ d.kind = "free" /\ d.type = {"release", "undo"} /\ d.addr = op[t].va
        /\ d.va = op[t].va /\ d.n = op[t].n /\ d.file = op[t].file /\ d.cpu = op[t].cpu
    BY <2>1, <1>1, SetRelease, ZenonT(40)
  <2>3. "fLock" \in Labels
    BY DEF Labels, FreeLabels
  <2>4. /\ Local(t) /\ pc'[t] = "fLock" /\ op'[t] = d /\ on' = on
        /\ Concerns(t)' = PageRun(d.va, d.n)
        /\ pc' \in [Threads -> Labels] /\ op' \in [Threads -> Ops]
        /\ on' \in [Threads -> Cpus \cup {Nobody}]
    BY <2>2, <2>3, <1>4, ProceedFacts
  <2>5. Concerns(t)' = Concerns(t)
    BY <2>2, <2>4 DEF Concerns
  <2>6. op[t].kind = "alloc" /\ op[t].cpu = Nobody /\ op[t].file # NoFile
        /\ InSpace(op[t].va, op[t].n) /\ on[t] # Nobody
    BY <2>1, <1>2 DEF OpInv, AllocLabels
  <2>7. OpInv(t)'
    <3>1. InSpace(op[t].va, op[t].n)'
      BY <2>2, <2>4, <2>6, <1>2 DEF InSpace
    <3> QED BY <3>1, <2>2, <2>4, <2>6 DEF OpInv, AllocLabels, FreeLabels, FaultLabels
  <2>8. RegionInv(t)'
    <3>1. op[t].va \in Concerns(t)
      BY <1>2, ConcernsPages
    <3> QED BY <3>1, <2>1, <2>2, <2>4, <2>5, <2>6, <1>2 DEF RegionInv
  <2>9. SameRegions
    BY <1>2, RegionsUnchanged DEF VmmInv
  <2>10. /\ SpaceInv' /\ DisjointInv' /\ \A u \in Threads : OpInv(u)' /\ RegionInv(u)'
    <3>1. t \notin Reserving'
      BY <2>4 DEF Reserving
    <3>2. op[t].kind # "fault"
      BY <2>6
    <3> QED BY <3>1, <3>2, <2>4, <2>5, <2>7, <2>8, <2>9, <1>2, ControlKept
  <2>11. FrameInv' /\ LeakInv'
    <3>1. pc[t] \notin {"aMap", "pMap"} /\ pc'[t] \notin {"aMap", "pMap"}
      BY <2>4, <1>2
    <3>2. space'.bitmaps \in Nat /\ space.bitmaps <= space'.bitmaps
      BY <1>2, SpaceTypes DEF VmmInv, SpaceInv
    <3> QED BY <3>1, <3>2, <2>4, <1>2, FramesKept DEF VmmInv
  <2>12. FileInv'
    <3>1. pc'[t] \notin Filing /\ pc'[t] \notin Filling
      BY <2>4 DEF Filing, Filling
    <3> QED BY <3>1, <2>4, <2>9, <1>2, FilesKept DEF VmmInv
  <2>13. CpuInv'
    <3>1. pc[t] # "aChange" /\ pc'[t] # "aChange" /\ op'[t].cpu = Nobody
      BY <2>2, <2>4, <2>6, <1>2
    <3> QED BY <3>1, <2>4, <1>2, CpuKept DEF VmmInv
  <2>14. TypeInv'
    BY <2>4, <1>2 DEF VmmInv, TypeInv
  <2> QED BY <2>10, <2>11, <2>12, <2>13, <2>14 DEF VmmInv
<1> QED BY <1>2, <1>3, <1>4
(* UnmapMemory on some pages, and what it leaves alone.                    *)
LEMMA UnmapFacts ==
    ASSUME VmmInv, NEW t \in Threads, Local(t), NEW P, P \subseteq Pages, NEW r,
           UnmapMemory(P, r), UNCHANGED <<bitmap, space, zitem, zpc, dirty, lost>>,
           pc[t] \notin {"aMap", "pMap"}, pc'[t] \notin {"aMap", "pMap"}
    PROVE  /\ FrameInv' /\ LeakInv' /\ zlist' \subseteq Frames
           /\ pt' \in [Pages -> Frames \cup {NoFrame}]
           /\ \A p \in Pages : p \notin P => pt'[p] = pt[p]
<1>1. PICK F : F = {pt[p] : p \in {q \in P : pt[q] # NoFrame}}
  OBVIOUS
<1>2. /\ pt' = [p \in Pages |-> IF p \in P THEN NoFrame ELSE pt[p]]
      /\ \/ zlist' = zlist \cup F /\ given' = given
         \/ zlist' = zlist /\ given' = given \cup F
  BY <1>1 DEF UnmapMemory
<1>3. \A p \in Pages : pt'[p] = IF p \in P THEN NoFrame ELSE pt[p]
  BY <1>2
<1>4. \A x : x \in F <=> x # NoFrame /\ \E p \in P : pt[p] = x
  BY <1>1
<1>5. FrameInv' /\ LeakInv' /\ zlist' \subseteq Frames
  BY <1>2, <1>3, <1>4, FramesUnmapped
<1>6. pt' \in [Pages -> Frames \cup {NoFrame}]
  BY <1>2 DEF VmmInv, TypeInv
<1> QED BY <1>3, <1>5, <1>6

LEMMA FreeBitmapInv ==
    ASSUME VmmInv, NEW t \in Threads, FreeBitmap(t)
    PROVE  VmmInv'
<1>1. /\ pc[t] = "fBitmap" /\ UnmapMemory({-op[t].bitmap}, TRUE) /\ Proceed(t, "fClose", op[t])
      /\ UNCHANGED <<bitmap, space, reslock, access, zpc, zitem, open, dirty, lost,
                     met, moved, crossed, panic>>
  BY DEF FreeBitmap, At
<1>2. OpInv(t) /\ RegionInv(t) /\ op[t] \in Ops
  BY OpTypes DEF VmmInv
<1>3. /\ op[t].bitmap \in 1 .. MaxBitmaps /\ op[t].kind = "free" /\ op[t].cpu # Nobody
      /\ on[t] # Nobody /\ InSpace(op[t].va, op[t].n)
  BY <1>1, <1>2 DEF OpInv, FreeLabels
<1>4. -op[t].bitmap \in Pages /\ -op[t].bitmap \notin RegionPages
  BY <1>3, PageNumbers
<1>5. /\ Local(t) /\ pc'[t] = "fClose" /\ op'[t] = op[t] /\ on' = on
      /\ Concerns(t)' = PageRun(op[t].va, op[t].n)
      /\ pc' \in [Threads -> Labels] /\ op' \in [Threads -> Ops]
      /\ on' \in [Threads -> Cpus \cup {Nobody}]
  <2>1. "fClose" \in Labels
    BY DEF Labels, FreeLabels
  <2> QED BY <2>1, <1>1, <1>2, ProceedFacts
<1>6. Concerns(t)' = Concerns(t)
  BY <1>5 DEF Concerns
<1>7. /\ FrameInv' /\ LeakInv' /\ zlist' \subseteq Frames
      /\ pt' \in [Pages -> Frames \cup {NoFrame}]
      /\ \A p \in Pages : p # -op[t].bitmap => pt'[p] = pt[p]
  <2>1. PICK P : P = {-op[t].bitmap}
    OBVIOUS
  <2>2. P \subseteq Pages /\ UnmapMemory(P, TRUE)
    BY <2>1, <1>1, <1>4
  <2>3. pc[t] \notin {"aMap", "pMap"} /\ pc'[t] \notin {"aMap", "pMap"}
    BY <1>1, <1>5
  <2>4. /\ FrameInv' /\ LeakInv' /\ zlist' \subseteq Frames
        /\ pt' \in [Pages -> Frames \cup {NoFrame}]
        /\ \A p \in Pages : p \notin P => pt'[p] = pt[p]
    BY <2>2, <2>3, <1>1, <1>5, UnmapFacts
  <2> QED BY <2>1, <2>4
<1>8. SameRegions
  BY <1>1, RegionsUnchanged DEF VmmInv
<1>9. OpInv(t)'
  <2>1. InSpace(op[t].va, op[t].n)'
    BY <1>1, <1>3, <1>5 DEF InSpace
  <2>2. "undo" \in op[t].type /\ ~crossed => op[t].addr = op[t].va
    BY <1>1, <1>2 DEF OpInv
  <2> QED BY <2>1, <2>2, <1>1, <1>3, <1>5 DEF OpInv, AllocLabels, FreeLabels, FaultLabels
<1>10. RegionInv(t)'
  BY <1>5 DEF RegionInv
<1>11. /\ SpaceInv' /\ DisjointInv' /\ \A u \in Threads : OpInv(u)' /\ RegionInv(u)'
  <2>1. t \notin Reserving'
    BY <1>5 DEF Reserving
  <2>2. op[t].kind # "fault"
    BY <1>3
  <2>3. \A u \in Threads \ {t} : pc[u] = "aRead" => \A p \in Concerns(u) : pt'[p] = pt[p]
    BY <1>4, <1>7, ConcernsPages
  <2> QED BY <2>1, <2>2, <2>3, <1>5, <1>6, <1>8, <1>9, <1>10, ControlKept
<1>12. FileInv'
  <2>1. pc[t] \in Filing /\ pc'[t] \notin Filling
    BY <1>1, <1>5 DEF Filing, Filling
  <2> QED BY <2>1, <1>1, <1>5, <1>8, FilesKept DEF VmmInv
<1>13. CpuInv'
  <2>1. pc[t] # "aChange" /\ pc'[t] # "aChange" /\ op'[t].cpu = op[t].cpu /\ on'[t] = on[t]
    BY <1>1, <1>5
  <2> QED BY <2>1, <1>1, <1>5, CpuKept DEF VmmInv
<1>14. TypeInv'
  BY <1>1, <1>5, <1>7 DEF VmmInv, TypeInv
<1> QED BY <1>7, <1>11, <1>12, <1>13, <1>14 DEF VmmInv

LEMMA FreeUnmapInv ==
    ASSUME VmmInv, NEW t \in Threads, FreeUnmap(t)
    PROVE  VmmInv'
<1>1. /\ pc[t] = "fUnmap" /\ UnmapMemory(Concerns(t), op[t].release) /\ Return(t)
      /\ UNCHANGED <<bitmap, space, reslock, access, zpc, zitem, open, dirty, lost,
                     met, moved, crossed, panic>>
  BY DEF FreeUnmap, At
<1>2. op[t].kind = "free"
  BY <1>1 DEF VmmInv, OpInv, FreeLabels
<1>3. Concerns(t) \subseteq Pages
  BY <1>1, ConcernsPages
<1>4. /\ Local(t) /\ pc'[t] = "idle" /\ op'[t] = NoOp /\ on'[t] = Nobody
      /\ Concerns(t)' = {} /\ op'[t].cpu = Nobody /\ op'[t].file = NoFile
      /\ pc' \in [Threads -> Labels] /\ op' \in [Threads -> Ops]
      /\ on' \in [Threads -> Cpus \cup {Nobody}]
      /\ OpInv(t)' /\ RegionInv(t)'
  BY <1>1, ReturnFacts
<1>5. pc[t] \notin {"aMap", "pMap"} /\ pc'[t] \notin {"aMap", "pMap"}
  BY <1>1, <1>4
<1>6. /\ FrameInv' /\ LeakInv' /\ zlist' \subseteq Frames
      /\ pt' \in [Pages -> Frames \cup {NoFrame}]
      /\ \A p \in Pages : p \notin Concerns(t) => pt'[p] = pt[p]
  <2>1. PICK P, r : P = Concerns(t) /\ r = op[t].release
    OBVIOUS
  <2>2. P \subseteq Pages /\ UnmapMemory(P, r)
    BY <2>1, <1>1, <1>3
  <2>3. /\ FrameInv' /\ LeakInv' /\ zlist' \subseteq Frames
        /\ pt' \in [Pages -> Frames \cup {NoFrame}]
        /\ \A p \in Pages : p \notin P => pt'[p] = pt[p]
    BY <2>2, <1>1, <1>4, <1>5, UnmapFacts
  <2> QED BY <2>1, <2>3
<1>7. SameRegions
  BY <1>1, RegionsUnchanged DEF VmmInv
<1>8. /\ SpaceInv' /\ DisjointInv' /\ \A u \in Threads : OpInv(u)' /\ RegionInv(u)'
  <2>1. t \notin Reserving'
    BY <1>4 DEF Reserving
  <2>2. ASSUME ~crossed, NEW u \in Threads \ {t}, pc[u] = "aRead", NEW p \in Concerns(u)
        PROVE  pt'[p] = pt[p]
    <3>1. p \notin Concerns(t)
      BY <2>2, <1>2 DEF VmmInv, DisjointInv
    <3>2. p \in Pages
      BY <2>2, ConcernsPages
    <3> QED BY <3>1, <3>2, <1>6
  <2> QED BY <2>1, <2>2, <1>4, <1>7, ControlKept
<1>9. FileInv'
  BY <1>1, <1>4, <1>7, FilesKept DEF VmmInv
<1>10. CpuInv'
  <2>1. pc[t] # "aChange" /\ pc'[t] # "aChange"
    BY <1>1, <1>4
  <2> QED BY <2>1, <1>1, <1>4, CpuKept DEF VmmInv
<1>11. TypeInv'
  BY <1>1, <1>4, <1>6 DEF VmmInv, TypeInv
<1> QED BY <1>6, <1>8, <1>9, <1>10, <1>11 DEF VmmInv

LEMMA FreeCloseInv ==
    ASSUME VmmInv, NEW t \in Threads, FreeClose(t)
    PROVE  VmmInv'
<1>1. PICK d : d = [op[t] EXCEPT !.cpu = Nobody]
  OBVIOUS
<1>2. /\ pc[t] = "fClose" /\ open' = open \ {op[t].file}
      /\ access' = [access EXCEPT ![op[t].cpu] = FALSE] /\ Proceed(t, "fUnmap", d)
      /\ panic' = IF "undo" \in op[t].type /\ op[t].va # op[t].addr THEN "undo" ELSE panic
      /\ UNCHANGED <<bitmap, space, reslock, pt, zlist, newPages, zpc, zitem, dirty,
                     lost, given, met, moved, crossed>>
  BY <1>1 DEF FreeClose, At, zvars, ghosts
<1>3. OpInv(t) /\ op[t] \in Ops
  BY OpTypes DEF VmmInv
<1>4. /\ d \in Ops /\ d.cpu = Nobody
      /\ d.kind = op[t].kind /\ d.va = op[t].va /\ d.n = op[t].n
  BY <1>1, <1>3, SetCpu
<1>5. /\ Local(t) /\ pc'[t] = "fUnmap" /\ op'[t] = d /\ on' = on
      /\ Concerns(t)' = PageRun(d.va, d.n)
      /\ pc' \in [Threads -> Labels] /\ op' \in [Threads -> Ops]
      /\ on' \in [Threads -> Cpus \cup {Nobody}]
  <2>1. "fUnmap" \in Labels
    BY DEF Labels, FreeLabels
  <2> QED BY <2>1, <1>2, <1>4, ProceedFacts
<1>6. Concerns(t)' = Concerns(t)
  BY <1>4, <1>5 DEF Concerns
<1>7. /\ op[t].kind = "free" /\ op[t].cpu # Nobody /\ on[t] # Nobody
      /\ InSpace(op[t].va, op[t].n)
  BY <1>2, <1>3 DEF OpInv, FreeLabels
<1>8. SameRegions
  BY <1>2, RegionsUnchanged DEF VmmInv
<1>9. OpInv(t)'
  <2>1. InSpace(op[t].va, op[t].n)'
    BY <1>2, <1>4, <1>5, <1>7 DEF InSpace
  <2> QED BY <2>1, <1>4, <1>5, <1>7 DEF OpInv, AllocLabels, FreeLabels, FaultLabels
<1>10. RegionInv(t)'
  BY <1>5 DEF RegionInv
<1>11. /\ SpaceInv' /\ DisjointInv' /\ \A u \in Threads : OpInv(u)' /\ RegionInv(u)'
  <2>1. t \notin Reserving'
    BY <1>5 DEF Reserving
  <2>2. op[t].kind # "fault"
    BY <1>7
  <2> QED BY <2>1, <2>2, <1>2, <1>5, <1>6, <1>8, <1>9, <1>10, ControlKept
<1>12. FrameInv' /\ LeakInv'
  <2>1. pc[t] \notin {"aMap", "pMap"} /\ pc'[t] \notin {"aMap", "pMap"}
    BY <1>2, <1>5
  <2>2. space'.bitmaps \in Nat /\ space.bitmaps <= space'.bitmaps
    BY <1>2, SpaceTypes DEF VmmInv, SpaceInv
  <2> QED BY <2>1, <2>2, <1>2, <1>5, FramesKept DEF VmmInv
<1>13. \A u \in Threads : u # t => pc'[u] = pc[u] /\ op'[u] = op[u] /\ on'[u] = on[u]
  BY <1>5 DEF Local
<1>14. CpuInv'
  <2>1. \A u \in Threads : (pc'[u] = "aChange") = (reslock' = u)
    BY <1>2, <1>5, <1>13 DEF VmmInv, CpuInv
  <2>2. ~moved' => \A u \in Threads : op'[u].cpu # Nobody => op'[u].cpu = on'[u]
    BY <1>2, <1>4, <1>5, <1>13 DEF VmmInv, CpuInv
  <2>3. ASSUME ~moved', NEW u \in Threads, pc'[u] = "aChange" PROVE access'[on'[u]]
    <3>1. u # t /\ pc[u] = "aChange" /\ on'[u] = on[u] /\ on[t] = op[t].cpu
      BY <2>3, <1>2, <1>5, <1>7, <1>13 DEF VmmInv, CpuInv
    <3>2. on[u] # on[t] /\ access[on[u]]
      BY <2>3, <3>1, <1>2, <1>7 DEF VmmInv, CpuInv
    <3>3. on[u] \in Cpus
      BY <3>1 DEF VmmInv, TypeInv, OpInv
    <3> QED BY <3>1, <3>2, <3>3, <1>2 DEF VmmInv, TypeInv
  <2>4. MetadataAccessible'
    BY <1>2 DEF VmmInv, CpuInv, MetadataAccessible
  <2>5. FreesFindRegion'
    <3>1. panic' = panic \/ (panic' = "undo" /\ crossed)
      BY <1>2, <1>3 DEF OpInv
    <3> QED BY <3>1, <1>2 DEF VmmInv, CpuInv, FreesFindRegion
  <2> QED BY <2>1, <2>2, <2>3, <2>4, <2>5, <1>5 DEF VmmInv, CpuInv
<1>15. FileInv'
  <2>1. pc[t] \in Filing /\ pc'[t] \notin Filing /\ pc'[t] \notin Filling
    BY <1>2, <1>5 DEF Filing, Filling
  <2>2. ASSUME NEW i \in Used(space) PROVE space.list[i].file \in open' \cup {NoFile}
    <3>1. space.list[i].file \in open \cup {NoFile}
      BY DEF VmmInv, FileInv
    <3>2. op[t].file # NoFile => space.list[i].file # op[t].file
      BY <2>1 DEF VmmInv, FileInv
    <3> QED BY <3>1, <3>2, <1>2
  <2>3. ASSUME NEW u \in Threads, u # t, pc[u] \in Filing, op[u].file # NoFile
        PROVE  op[u].file \in open'
    <3>1. op[u].file \in open /\ op[t].file # op[u].file
      BY <2>1, <2>3 DEF VmmInv, FileInv
    <3> QED BY <3>1, <1>2
  <2>4. \A u \in Threads : pc'[u] \in Filing \/ pc'[u] \in Filling => u # t
    BY <2>1
  <2>5. \A u \in Threads :
          pc'[u] \in Filing /\ op'[u].file # NoFile =>
            /\ op'[u].file \in open'
            /\ \A i \in Used(space) : space.list[i].file # op'[u].file
            /\ \A v \in Threads :
                  v # u /\ pc'[v] \in Filing => op'[v].file # op'[u].file
    BY <2>3, <2>4, <1>13 DEF VmmInv, FileInv
  <2>6. \A u \in Threads :
          pc'[u] \in Filling /\ op'[u].file # NoFile /\ ~crossed =>
              \E i \in Used(space) :
                  /\ op'[u].va \in PageRun(space.list[i].start, space.list[i].size)
                  /\ space.list[i].file = op'[u].file
    BY <2>4, <1>13 DEF VmmInv, FileInv
  <2> QED BY <2>2, <2>5, <2>6, <1>2 DEF VmmInv, FileInv
<1>16. TypeInv'
  <2>1. access' \in [Cpus -> BOOLEAN]
    BY <1>2 DEF VmmInv, TypeInv
  <2>2. panic' \in {"none", "frames", "metadata", "fault", "free", "undo"}
    BY <1>2 DEF VmmInv, TypeInv
  <2> QED BY <2>1, <2>2, <1>2, <1>5 DEF VmmInv, TypeInv
<1> QED BY <1>11, <1>12, <1>14, <1>15, <1>16 DEF VmmInv
(* What every step of a fault handler starts from.                         *)
LEMMA FaultFacts ==
    ASSUME VmmInv, NEW t \in Threads, pc[t] \in FaultLabels
    PROVE  /\ OpInv(t) /\ op[t] \in Ops /\ op[t].va \in Nat /\ op[t].n = 1
           /\ op[t].kind = "fault" /\ op[t].cpu = Nobody /\ on[t] # Nobody
           /\ InSpace(op[t].va, 1) /\ Concerns(t) = PageRun(op[t].va, 1)
           /\ op[t].va \in RegionPages /\ op[t].va \in Pages
<1>1. OpInv(t) /\ op[t] \in Ops /\ op[t].va \in Nat
  BY OpTypes DEF VmmInv
<1>2. pc[t] # "idle" /\ pc[t] \notin {"aChange", "fBitmap", "fClose"}
  BY DEF FaultLabels
<1>3. /\ op[t].n = 1 /\ op[t].kind = "fault" /\ op[t].cpu = Nobody /\ on[t] # Nobody
      /\ InSpace(op[t].va, op[t].n)
  BY <1>1, <1>2 DEF OpInv
<1>4. InSpace(op[t].va, 1) /\ Concerns(t) = PageRun(op[t].va, 1)
  BY <1>3 DEF Concerns, InSpace
<1>5. op[t].va \in RegionPages /\ op[t].va \in Pages
  BY <1>2, ConcernsPages
<1> QED BY <1>1, <1>3, <1>4, <1>5

LEMMA FaultCheckInv ==
    ASSUME VmmInv, NEW t \in Threads, FaultCheck(t)
    PROVE  VmmInv'
<1>1. PICK i : i = VmFindReservation(space, op[t].va, 1)
  OBVIOUS
<1>2. PICK d : d = [op[t] EXCEPT !.file = space.list[i].file]
  OBVIOUS
<1>3. /\ pc[t] = "pCheck"
      /\ IF VmReservationCanAddressBeAccessed(space, op[t].va, op[t].type)
         THEN Proceed(t, "pFrame", d) /\ UNCHANGED panic ELSE Panic("fault")
      /\ UNCHANGED <<bitmap, space, reslock, pt, access, zlist, newPages, zpc, zitem, open,
                     dirty, lost, given, met, moved, crossed>>
  BY <1>1, <1>2 DEF FaultCheck, At, zvars, ghosts
<1>4. /\ OpInv(t) /\ op[t] \in Ops /\ op[t].va \in Nat /\ op[t].n = 1
      /\ op[t].kind = "fault" /\ op[t].cpu = Nobody /\ on[t] # Nobody
      /\ InSpace(op[t].va, 1)
  <2>1. pc[t] \in FaultLabels
    BY <1>3 DEF FaultLabels
  <2> QED BY <2>1, FaultFacts
<1>5. CASE ~VmReservationCanAddressBeAccessed(space, op[t].va, op[t].type)
  <2>1. Panic("fault") /\ "fault" # "metadata"
    BY <1>3, <1>5
  <2> QED BY <2>1, <1>3, StopInv
<1>6. CASE VmReservationCanAddressBeAccessed(space, op[t].va, op[t].type)
  <2>1. Proceed(t, "pFrame", d) /\ UNCHANGED panic /\ i # 0
    BY <1>1, <1>3, <1>6 DEF VmReservationCanAddressBeAccessed
  <2>2. Shape(space)
    BY DEF VmmInv, SpaceInv
  <2>3. /\ i \in Used(space)
        /\ op[t].va \in PageRun(space.list[i].start, space.list[i].size)
    <3>1. PICK j \in Used(space) :
             /\ j = VmFindReservation(space, op[t].va, 1)
             /\ PageRun(op[t].va, 1) \subseteq PageRun(space.list[j].start, space.list[j].size)
      BY <2>1, <2>2, <1>1, <1>4, FindReservation
    <3>2. op[t].va \in PageRun(op[t].va, 1)
      BY <1>4 DEF PageRun
    <3> QED BY <3>1, <3>2, <1>1
  <2>4. space.list[i].file \in Files \cup {NoFile}
    BY <2>2, <2>3, SpaceTypes
  <2>5. /\ d \in Ops /\ d.file = space.list[i].file
        /\ d.kind = op[t].kind /\ d.va = op[t].va /\ d.n = op[t].n /\ d.cpu = op[t].cpu
    BY <2>4, <1>2, <1>4, SetFile
  <2>6. /\ Local(t) /\ pc'[t] = "pFrame" /\ op'[t] = d /\ on' = on
        /\ Concerns(t)' = PageRun(d.va, d.n)
        /\ pc' \in [Threads -> Labels] /\ op' \in [Threads -> Ops]
        /\ on' \in [Threads -> Cpus \cup {Nobody}]
    <3>1. "pFrame" \in Labels
      BY DEF Labels, FaultLabels
    <3> QED BY <3>1, <2>1, <2>5, ProceedFacts
  <2>7. Concerns(t)' = Concerns(t)
    BY <2>5, <2>6 DEF Concerns
  <2>8. OpInv(t)'
    <3>1. InSpace(d.va, d.n)'
      BY <2>5, <2>6, <1>3, <1>4 DEF InSpace
    <3> QED BY <3>1, <2>5, <2>6, <1>4 DEF OpInv, AllocLabels, FreeLabels, FaultLabels
  <2>9. RegionInv(t)'
    BY <2>6 DEF RegionInv
  <2>10. SameRegions
    BY <1>3, RegionsUnchanged DEF VmmInv
  <2>11. /\ SpaceInv' /\ DisjointInv' /\ \A u \in Threads : OpInv(u)' /\ RegionInv(u)'
    <3>1. t \notin Reserving'
      BY <2>6 DEF Reserving
    <3>2. op'[t].kind = "fault"
      BY <2>5, <2>6, <1>4
    <3> QED BY <3>1, <3>2, <2>6, <2>7, <2>8, <2>9, <2>10, <1>3, ControlKept
  <2>12. FrameInv' /\ LeakInv'
    <3>1. pc[t] \notin {"aMap", "pMap"} /\ pc'[t] \notin {"aMap", "pMap"}
      BY <2>6, <1>3
    <3>2. space'.bitmaps \in Nat /\ space.bitmaps <= space'.bitmaps
      BY <1>3, SpaceTypes DEF VmmInv, SpaceInv
    <3> QED BY <3>1, <3>2, <2>6, <1>3, FramesKept DEF VmmInv
  <2>13. FileInv'
    <3>1. pc'[t] \notin Filing
      BY <2>6 DEF Filing
    <3>2. \A u \in Threads : u # t => pc'[u] = pc[u] /\ op'[u] = op[u]
      BY <2>6 DEF Local
    <3>3. \A u \in Threads :
            pc'[u] \in Filing /\ op'[u].file # NoFile =>
              /\ op'[u].file \in open
              /\ \A j \in Used(space) : space.list[j].file # op'[u].file
              /\ \A v \in Threads :
                    v # u /\ pc'[v] \in Filing => op'[v].file # op'[u].file
      BY <3>1, <3>2 DEF VmmInv, FileInv
    <3>4. \A u \in Threads :
            pc'[u] \in Filling /\ op'[u].file # NoFile /\ ~crossed =>
                \E j \in Used(space) :
                    /\ op'[u].va \in PageRun(space.list[j].start, space.list[j].size)
                    /\ space.list[j].file = op'[u].file
      BY <3>2, <2>3, <2>5, <2>6 DEF VmmInv, FileInv
    <3> QED BY <3>3, <3>4, <1>3 DEF VmmInv, FileInv
  <2>14. CpuInv'
    <3>1. pc[t] # "aChange" /\ pc'[t] # "aChange" /\ op'[t].cpu = Nobody
      BY <2>5, <2>6, <1>3, <1>4
    <3> QED BY <3>1, <2>1, <2>6, <1>3, CpuKept DEF VmmInv
  <2>15. TypeInv'
    BY <2>1, <2>6, <1>3 DEF VmmInv, TypeInv
  <2> QED BY <2>11, <2>12, <2>13, <2>14, <2>15 DEF VmmInv
<1> QED BY <1>5, <1>6

LEMMA FaultFrameInv ==
    ASSUME VmmInv, NEW t \in Threads, FaultFrame(t)
    PROVE  VmmInv'
<1>1. PICK f : f = PmmReserveMemoryEx(bitmap, 1, 0)
  OBVIOUS
<1>2. /\ pc[t] = "pFrame" /\ bitmap' = PmmReserved(bitmap, f, 1)
      /\ IF f = NoFrame THEN Panic("frames")
         ELSE Proceed(t, "pMap", [op[t] EXCEPT !.frame = f]) /\ UNCHANGED panic
      /\ UNCHANGED <<space, reslock, pt, access, zlist, newPages, zpc, zitem, open, dirty,
                     lost, given, met, moved, crossed>>
  BY <1>1 DEF FaultFrame, At, zvars, ghosts
<1>3. /\ OpInv(t) /\ op[t] \in Ops /\ op[t].va \in Nat /\ op[t].n = 1
      /\ op[t].kind = "fault" /\ op[t].cpu = Nobody /\ on[t] # Nobody
      /\ InSpace(op[t].va, 1)
  <2>1. pc[t] \in FaultLabels
    BY <1>2 DEF FaultLabels
  <2> QED BY <2>1, FaultFacts
<1>4. CASE f = NoFrame
  <2>1. Panic("frames") /\ "frames" # "metadata" /\ bitmap' = bitmap
    BY <1>2, <1>4 DEF PmmReserved
  <2> QED BY <2>1, <1>2, StopInv
<1>5. CASE f # NoFrame
  <2>1. f \in Frames /\ f + 1 <= NumFrames /\ FrameRun(f, 1) \cap bitmap = {}
    BY <1>1, <1>5, ReserveMemory
  <2>2. PICK d : d = [op[t] EXCEPT !.frame = f]
    OBVIOUS
  <2>3. /\ d \in Ops /\ d.frame = f
        /\ d.kind = op[t].kind /\ d.va = op[t].va /\ d.n = op[t].n
        /\ d.file = op[t].file /\ d.cpu = op[t].cpu
    BY <2>1, <2>2, <1>3, SetFrame
  <2>4. /\ bitmap' = bitmap \cup FrameRun(f, 1) /\ Proceed(t, "pMap", d) /\ UNCHANGED panic
    BY <2>2, <1>2, <1>5 DEF PmmReserved
  <2>5. /\ Local(t) /\ pc'[t] = "pMap" /\ op'[t] = d /\ on' = on
        /\ Concerns(t)' = PageRun(d.va, d.n)
        /\ pc' \in [Threads -> Labels] /\ op' \in [Threads -> Ops]
        /\ on' \in [Threads -> Cpus \cup {Nobody}]
    <3>1. "pMap" \in Labels
      BY DEF Labels, FaultLabels
    <3> QED BY <3>1, <2>3, <2>4, ProceedFacts
  <2>6. Concerns(t)' = Concerns(t)
    BY <2>3, <2>5 DEF Concerns
  <2>7. OpInv(t)'
    <3>1. InSpace(d.va, d.n)'
      BY <2>3, <2>5, <1>2, <1>3 DEF InSpace
    <3> QED BY <3>1, <2>3, <2>5, <1>3, <1>5 DEF OpInv, AllocLabels, FreeLabels, FaultLabels
  <2>8. RegionInv(t)'
    BY <2>5 DEF RegionInv
  <2>9. SameRegions
    BY <1>2, RegionsUnchanged DEF VmmInv
  <2>10. /\ SpaceInv' /\ DisjointInv' /\ \A u \in Threads : OpInv(u)' /\ RegionInv(u)'
    <3>1. t \notin Reserving'
      BY <2>5 DEF Reserving
    <3>2. op'[t].kind = "fault"
      BY <2>3, <2>5, <1>3
    <3> QED BY <3>1, <3>2, <2>5, <2>6, <2>7, <2>8, <2>9, <1>2, ControlKept
  <2>11. FrameInv' /\ LeakInv' /\ bitmap' \subseteq Frames
    <3>1. \A x \in Frames : InFlight(t, x)' <=> x \in FrameRun(f, 1)
      BY <2>1, <2>3, <2>5 DEF InFlight, FrameRun, Frames
    <3>2. pc[t] \notin {"aMap", "pMap"} /\ 1 \in Nat /\ 1 > 0
      BY <1>2
    <3> QED BY <3>1, <3>2, <2>1, <2>4, <2>5, <1>2, FramesTaken
  <2>12. FileInv'
    <3>1. pc'[t] \notin Filing /\ pc[t] \in Filling
      BY <2>5, <1>2 DEF Filing, Filling
    <3> QED BY <3>1, <2>3, <2>5, <2>9, <1>2, FilesKept DEF VmmInv
  <2>13. CpuInv'
    <3>1. pc[t] # "aChange" /\ pc'[t] # "aChange" /\ op'[t].cpu = Nobody
      BY <2>3, <2>5, <1>2, <1>3
    <3> QED BY <3>1, <2>4, <2>5, <1>2, CpuKept DEF VmmInv
  <2>14. TypeInv'
    BY <2>4, <2>5, <2>11, <1>2 DEF VmmInv, TypeInv
  <2> QED BY <2>10, <2>11, <2>12, <2>13, <2>14 DEF VmmInv
<1> QED BY <1>4, <1>5

LEMMA FaultMapInv ==
    ASSUME VmmInv, NEW t \in Threads, FaultMap(t)
    PROVE  VmmInv'
<1>1. /\ pc[t] = "pMap" /\ pt' = [pt EXCEPT ![op[t].va] = op[t].frame]
      /\ lost' = lost \cup ({pt[op[t].va]} \ {NoFrame})
      /\ dirty' = dirty \cup {op[t].frame}
      /\ Proceed(t, "pFill", op[t])
      /\ UNCHANGED <<bitmap, space, reslock, access, zlist, newPages, zpc, zitem, open,
                     given, met, moved, crossed, panic>>
  BY DEF FaultMap, At, zvars
<1>2. /\ OpInv(t) /\ op[t] \in Ops /\ op[t].va \in Nat /\ op[t].n = 1
      /\ op[t].kind = "fault" /\ op[t].cpu = Nobody /\ on[t] # Nobody
      /\ InSpace(op[t].va, 1) /\ Concerns(t) = PageRun(op[t].va, 1)
      /\ op[t].va \in RegionPages /\ op[t].va \in Pages
  <2>1. pc[t] \in FaultLabels
    BY <1>1 DEF FaultLabels
  <2> QED BY <2>1, FaultFacts
<1>3. op[t].frame \in Frames
  BY <1>1, <1>2, OpTypes DEF VmmInv, OpInv
<1>4. PICK f \in Frames, va \in Nat : f = op[t].frame /\ va = op[t].va
  BY <1>2, <1>3
<1>5. PageRun(va, 1) = {va} /\ FrameRun(f, 1) = {f} /\ f + 1 <= NumFrames
  BY NumFramesAssumption DEF PageRun, FrameRun, Frames
<1>6. /\ Local(t) /\ pc'[t] = "pFill" /\ op'[t] = op[t] /\ on' = on
      /\ Concerns(t)' = PageRun(op[t].va, op[t].n)
      /\ pc' \in [Threads -> Labels] /\ op' \in [Threads -> Ops]
      /\ on' \in [Threads -> Cpus \cup {Nobody}]
  <2>1. "pFill" \in Labels
    BY DEF Labels, FaultLabels
  <2> QED BY <2>1, <1>1, <1>2, ProceedFacts
<1>7. Concerns(t)' = Concerns(t)
  BY <1>6 DEF Concerns
<1>8. \A p \in Pages : pt'[p] = IF p = va THEN f ELSE pt[p]
  BY <1>1, <1>4 DEF VmmInv, TypeInv
<1>9. FrameInv' /\ LeakInv' /\ dirty' \subseteq Frames \ {0}
  <2>1. \A x \in Frames : InFlight(t, x) <=> x \in FrameRun(f, 1)
    BY <1>1, <1>4, <1>5 DEF InFlight
  <2>2. pc'[t] \notin {"aMap", "pMap"}
    BY <1>6
  <2>3. \A p \in Pages : pt'[p] = IF p \in PageRun(va, 1) THEN f + (p - va) ELSE pt[p]
    <3>1. f + (va - va) = f
      BY DEF Frames
    <3> QED BY <3>1, <1>5, <1>8
  <2>4. lost' = lost \cup ({pt[p] : p \in PageRun(va, 1)} \ {NoFrame})
    BY <1>1, <1>4, <1>5
  <2>5. dirty' = dirty \cup FrameRun(f, 1) /\ PageRun(va, 1) \subseteq RegionPages
    BY <1>1, <1>2, <1>4, <1>5
  <2>6. UNCHANGED <<bitmap, space, zlist, zitem, zpc, given>> /\ 1 \in Nat
    BY <1>1
  <2> QED BY <2>1, <2>2, <2>3, <2>4, <2>5, <2>6, <1>5, <1>6, FramesMapped
<1>10. SameRegions
  BY <1>1, RegionsUnchanged DEF VmmInv
<1>11. OpInv(t)'
  <2>1. InSpace(op[t].va, op[t].n)'
    BY <1>1, <1>2, <1>6 DEF InSpace
  <2> QED BY <2>1, <1>2, <1>6 DEF OpInv, AllocLabels, FreeLabels, FaultLabels
<1>12. RegionInv(t)'
  BY <1>6 DEF RegionInv
<1>13. /\ SpaceInv' /\ DisjointInv' /\ \A u \in Threads : OpInv(u)' /\ RegionInv(u)'
  <2>1. t \notin Reserving'
    BY <1>6 DEF Reserving
  <2>2. ASSUME ~crossed, NEW u \in Threads \ {t}, pc[u] = "aRead", NEW p \in Concerns(u)
        PROVE  pt'[p] = pt[p]
    <3>1. op[u].kind # "fault"
      BY <2>2 DEF VmmInv, OpInv, AllocLabels
    <3>2. p \notin Concerns(t)
      BY <2>2, <3>1 DEF VmmInv, DisjointInv
    <3>3. p \in Pages
      BY <2>2, ConcernsPages
    <3> QED BY <3>2, <3>3, <1>2, <1>4, <1>5, <1>8
  <2>3. op'[t].kind = "fault"
    BY <1>2, <1>6
  <2> QED BY <2>1, <2>2, <2>3, <1>6, <1>7, <1>10, <1>11, <1>12, ControlKept
<1>14. FileInv'
  <2>1. pc'[t] \notin Filing /\ pc[t] \in Filling
    BY <1>1, <1>6 DEF Filing, Filling
  <2> QED BY <2>1, <1>1, <1>6, <1>10, FilesKept DEF VmmInv
<1>15. CpuInv'
  <2>1. pc[t] # "aChange" /\ pc'[t] # "aChange" /\ op'[t].cpu = Nobody
    BY <1>1, <1>2, <1>6
  <2> QED BY <2>1, <1>1, <1>6, CpuKept DEF VmmInv
<1>16. TypeInv'
  <2>1. pt' \in [Pages -> Frames \cup {NoFrame}]
    BY <1>1, <1>3 DEF VmmInv, TypeInv
  <2> QED BY <2>1, <1>1, <1>6, <1>9 DEF VmmInv, TypeInv
<1> QED BY <1>9, <1>13, <1>14, <1>15, <1>16 DEF VmmInv

LEMMA FaultFillInv ==
    ASSUME VmmInv, NEW t \in Threads, FaultFill(t)
    PROVE  VmmInv'
<1>1. /\ pc[t] \notin {"aChange", "aMap", "pMap"}
      /\ (Return(t) /\ UNCHANGED panic) \/ Panic("fault")
      /\ UNCHANGED <<bitmap, space, reslock, pt, access, zlist, newPages, zpc, zitem, open,
                     dirty, lost, given, met, moved, crossed>>
  BY DEF FaultFill, At, zvars, ghosts
<1>2. CASE Return(t) /\ UNCHANGED panic
  BY <1>1, <1>2, LeaveInv
<1>3. CASE Panic("fault")
  <2>1. "fault" # "metadata"
    OBVIOUS
  <2> QED BY <2>1, <1>1, <1>3, StopInv
<1> QED BY <1>1, <1>2, <1>3

(* The entry that a release takes out: the region of the thread, unless    *)
(* reservations crossed.                                                   *)
LEMMA ReleasedEntry ==
    ASSUME VmmInv, NEW t \in Threads, pc[t] = "fLock", "release" \in op[t].type,
           NEW i, i = VmFindReservation(space, op[t].addr, 1), i # 0,
           space' = RemoveReservation(space, op[t].addr)
    PROVE  /\ Shape(space') /\ space'.next = space.next /\ space'.bitmaps = space.bitmaps
           /\ i \in Used(space) /\ Used(space') = Used(space) \ {i}
           /\ \A j \in Used(space') : space'.list[j] = space.list[j]
           /\ op[t].addr \in PageRun(space.list[i].start, space.list[i].size)
           /\ ~crossed => space.list[i].start = op[t].va /\ space.list[i].size = op[t].n
<1>1. Shape(space) /\ op[t].addr \in Nat
  BY OpTypes DEF VmmInv, SpaceInv
<1>2. /\ Shape(space') /\ space'.next = space.next /\ space'.bitmaps = space.bitmaps
      /\ i \in Used(space) /\ Used(space') = Used(space) \ {i}
      /\ \A j \in Used(space') : space'.list[j] = space.list[j]
      /\ op[t].addr \in PageRun(space.list[i].start, space.list[i].size)
  <2>1. PICK sp, new, va : sp = space /\ new = space' /\ va = op[t].addr
    OBVIOUS
  <2>2. /\ Shape(new)
        /\ new.next = sp.next /\ new.bitmaps = sp.bitmaps
        /\ \E k \in Used(sp) :
              /\ k = VmFindReservation(sp, va, 1)
              /\ va \in PageRun(sp.list[k].start, sp.list[k].size)
              /\ Used(new) = Used(sp) \ {k}
        /\ \A j \in Used(new) : new.list[j] = sp.list[j]
    <3>1. Shape(sp) /\ va \in Nat /\ VmFindReservation(sp, va, 1) # 0
          /\ new = RemoveReservation(sp, va)
      BY <2>1, <1>1
    <3> QED BY <3>1, RemoveFacts
  <2> QED BY <2>1, <2>2
<1>3. ASSUME ~crossed
      PROVE  space.list[i].start = op[t].va /\ space.list[i].size = op[t].n
  <2>1. PICK j \in Used(space) : /\ space.list[j].start = op[t].va
                                 /\ space.list[j].size = op[t].n
                                 /\ op[t].addr \in Concerns(t)
    BY <1>3 DEF VmmInv, RegionInv
  <2>2. Overlap(space.list[i], space.list[j])
    BY <2>1, <1>2 DEF Overlap, Concerns
  <2>3. i = j
    BY <2>2, <1>2, <1>3 DEF VmmInv, SpaceInv
  <2> QED BY <2>1, <2>3
<1> QED BY <1>2, <1>3

(* A free finds a region at its address, unless reservations crossed.      *)
LEMMA FreeFinds ==
    ASSUME VmmInv, NEW t \in Threads, pc[t] = "fLock", ~crossed
    PROVE  VmFindReservation(space, op[t].addr, 1) # 0
<1>1. Shape(space) /\ op[t].addr \in Nat
  BY OpTypes DEF VmmInv, SpaceInv
<1>2. PICK j \in Used(space) : op[t].addr \in PageRun(space.list[j].start, space.list[j].size)
  <2>1. OpInv(t) /\ RegionInv(t) /\ op[t].va \in Concerns(t)
    BY ConcernsPages DEF VmmInv
  <2>2. "release" \in op[t].type \/ "decommit" \in op[t].type
    BY <2>1 DEF OpInv
  <2> QED BY <2>1, <2>2 DEF RegionInv, Concerns
<1>3. PageRun(op[t].addr, 1) = {op[t].addr}
  BY <1>1 DEF PageRun
<1>4. Containing(space, op[t].addr, 1) # {}
  BY <1>2, <1>3 DEF Containing
<1>5. VmFindReservation(space, op[t].addr, 1) \in Containing(space, op[t].addr, 1)
  BY <1>1, <1>4, FindReservation
<1> QED BY <1>1, <1>5, UsedSlots DEF Containing, Shape, Spaces

LEMMA FreeChangeInv ==
    ASSUME VmmInv, NEW t \in Threads, FreeChange(t)
    PROVE  VmmInv'
<1>1. PICK i : i = VmFindReservation(space, op[t].addr, 1)
  OBVIOUS
<1>2. PICK e : e = space.list[i]
  OBVIOUS
<1>3. PICK d : d = [op[t] EXCEPT !.va = e.start, !.n = e.size, !.file = e.file,
                                 !.bitmap = e.bitmap, !.cpu = on[t]]
  OBVIOUS
<1>4. /\ pc[t] = "fLock" /\ reslock = Nobody
      /\ \/ i = 0 /\ Panic("free") /\ UNCHANGED <<space, access>>
         \/ /\ i # 0 /\ "release" \in op[t].type
            /\ space' = RemoveReservation(space, op[t].addr)
            /\ access' = [access EXCEPT ![on[t]] = TRUE]
            /\ Proceed(t, "fBitmap", d) /\ UNCHANGED panic
         \/ /\ i # 0 /\ "decommit" \in op[t].type
            /\ space' = VmDecommitReservation(space, op[t].va, op[t].n)
            /\ access' = [access EXCEPT ![on[t]] = FALSE]
            /\ Proceed(t, "fUnmap", op[t]) /\ UNCHANGED panic
      /\ UNCHANGED <<bitmap, reslock, pt, zlist, newPages, zpc, zitem, open, dirty,
                     lost, given, met, moved, crossed>>
  BY <1>1, <1>2, <1>3 DEF FreeChange, At, zvars, ghosts
<1>5. OpInv(t) /\ RegionInv(t) /\ op[t] \in Ops /\ op[t].va \in Nat /\ op[t].n \in Nat
  BY OpTypes DEF VmmInv
<1>6. /\ op[t].kind = "free" /\ op[t].cpu = Nobody /\ on[t] # Nobody
      /\ InSpace(op[t].va, op[t].n)
  BY <1>4, <1>5 DEF OpInv, FreeLabels
<1>7. on[t] \in Cpus
  BY <1>6 DEF VmmInv, TypeInv
<1>8. Shape(space) /\ space.next \in Nat /\ space.bitmaps \in Nat
  BY SpaceTypes DEF VmmInv, SpaceInv
<1>9. /\ i # 0 => access' \in [Cpus -> BOOLEAN]
      /\ \A u \in Threads : pc[u] # "aChange"
  <2>1. i # 0 => access' \in [Cpus -> BOOLEAN]
    BY <1>4 DEF VmmInv, TypeInv
  <2>2. \A u \in Threads : pc[u] # "aChange"
    BY <1>4, VmmAssumption DEF VmmInv, CpuInv
  <2> QED BY <2>1, <2>2
<1>c. CASE i = 0
  <2>1. Panic("free") /\ UNCHANGED <<space, access>>
    BY <1>4, <1>c
  <2>2. crossed
    BY <1>1, <1>4, <1>c, FreeFinds
  <2>3. "free" # "metadata"
    OBVIOUS
  <2> QED BY <2>1, <2>2, <2>3, <1>4, StopInv
<1>10. ASSUME Local(t), on' = on, pc'[t] # "aChange", op'[t].cpu \in {Nobody, on[t]},
              UNCHANGED panic
       PROVE  CpuInv'
  <2>1. \A u \in Threads : u # t => pc'[u] = pc[u] /\ op'[u] = op[u] /\ on'[u] = on[u]
    BY <1>10 DEF Local
  <2>2. \A u \in Threads : pc'[u] # "aChange"
    BY <2>1, <1>9, <1>10
  <2>3. \A u \in Threads : (pc'[u] = "aChange") = (reslock' = u)
    BY <2>2, <1>4, VmmAssumption
  <2>4. ~moved' => \A u \in Threads : op'[u].cpu # Nobody => op'[u].cpu = on'[u]
    BY <2>1, <1>4, <1>10 DEF VmmInv, CpuInv
  <2>5. MetadataAccessible' /\ FreesFindRegion'
    BY <1>4, <1>10 DEF VmmInv, CpuInv, MetadataAccessible, FreesFindRegion
  <2> QED BY <2>2, <2>3, <2>4, <2>5, <1>10 DEF VmmInv, CpuInv
<1>11. CASE /\ i # 0 /\ "decommit" \in op[t].type
            /\ space' = VmDecommitReservation(space, op[t].va, op[t].n)
            /\ Proceed(t, "fUnmap", op[t]) /\ UNCHANGED panic
  <2>1. /\ Local(t) /\ pc'[t] = "fUnmap" /\ op'[t] = op[t] /\ on' = on
        /\ Concerns(t)' = PageRun(op[t].va, op[t].n)
        /\ pc' \in [Threads -> Labels] /\ op' \in [Threads -> Ops]
        /\ on' \in [Threads -> Cpus \cup {Nobody}]
    <3>1. "fUnmap" \in Labels
      BY DEF Labels, FreeLabels
    <3> QED BY <3>1, <1>5, <1>11, ProceedFacts
  <2>2. /\ Shape(space')
        /\ space'.next = space.next /\ space'.bitmaps = space.bitmaps /\ Used(space') = Used(space)
        /\ \A j \in Used(space) : /\ space'.list[j].commit \subseteq space.list[j].commit
                                  /\ Alike(space'.list[j], space.list[j])
    <3>1. PICK sp, new, va, n : sp = space /\ new = space' /\ va = op[t].va /\ n = op[t].n
      OBVIOUS
    <3>2. Shape(sp) /\ va \in Nat /\ n \in Nat /\ new = VmDecommitReservation(sp, va, n)
      BY <3>1, <1>5, <1>8, <1>11
    <3>3. /\ Shape(new)
          /\ new.next = sp.next /\ new.bitmaps = sp.bitmaps /\ Used(new) = Used(sp)
          /\ \A j \in Used(sp) :
                /\ new.list[j].commit \subseteq sp.list[j].commit
                /\ sp.list[j].commit \subseteq new.list[j].commit \cup PageRun(va, n)
                /\ new.list[j].start = sp.list[j].start /\ new.list[j].size = sp.list[j].size
                /\ new.list[j].file = sp.list[j].file /\ new.list[j].bitmap = sp.list[j].bitmap
                /\ new.list[j].attr = sp.list[j].attr
      BY <3>2, DecommitFacts
    <3> QED BY <3>1, <3>3 DEF Alike
  <2>3. SameRegions
    <3>1. \A j \in Used(space) :
             space.list[j].commit \subseteq PageRun(space.list[j].start, space.list[j].size)
      BY DEF VmmInv, SpaceInv, EntryInv
    <3>2. space.next <= space'.next /\ space'.next <= MaxVa + 1
      BY <2>2, <1>8 DEF VmmInv, SpaceInv
    <3> QED BY <3>1, <3>2, <2>2, <1>4 DEF SameRegions
  <2>4. Concerns(t)' = Concerns(t)
    BY <2>1 DEF Concerns
  <2>5. OpInv(t)'
    <3>1. InSpace(op[t].va, op[t].n)'
      BY <2>1, <2>2, <1>6 DEF InSpace
    <3> QED BY <3>1, <2>1, <1>6 DEF OpInv, AllocLabels, FreeLabels, FaultLabels
  <2>6. RegionInv(t)'
    BY <2>1 DEF RegionInv
  <2>7. /\ SpaceInv' /\ DisjointInv' /\ \A u \in Threads : OpInv(u)' /\ RegionInv(u)'
    <3>1. t \notin Reserving'
      BY <2>1 DEF Reserving
    <3>2. op[t].kind # "fault"
      BY <1>6
    <3> QED BY <3>1, <3>2, <2>1, <2>3, <2>4, <2>5, <2>6, <1>4, ControlKept
  <2>8. FrameInv' /\ LeakInv'
    <3>1. pc[t] \notin {"aMap", "pMap"} /\ pc'[t] \notin {"aMap", "pMap"}
      BY <2>1, <1>4
    <3>2. space'.bitmaps \in Nat /\ space.bitmaps <= space'.bitmaps
      BY <2>2, <1>8
    <3> QED BY <3>1, <3>2, <2>1, <1>4, FramesKept DEF VmmInv
  <2>9. FileInv'
    <3>1. pc'[t] \notin Filing /\ pc'[t] \notin Filling
      BY <2>1 DEF Filing, Filling
    <3> QED BY <3>1, <2>1, <2>3, <1>4, FilesKept DEF VmmInv
  <2>10. CpuInv'
    BY <2>1, <1>6, <1>10, <1>11
  <2>11. TypeInv'
    BY <2>1, <1>4, <1>9, <1>11 DEF VmmInv, TypeInv
  <2> QED BY <2>7, <2>8, <2>9, <2>10, <2>11 DEF VmmInv
<1>12. CASE /\ i # 0 /\ "release" \in op[t].type
            /\ space' = RemoveReservation(space, op[t].addr)
            /\ Proceed(t, "fBitmap", d) /\ UNCHANGED panic
  <2>1. /\ Shape(space') /\ space'.next = space.next /\ space'.bitmaps = space.bitmaps
        /\ i \in Used(space) /\ Used(space') = Used(space) \ {i}
        /\ \A j \in Used(space') : space'.list[j] = space.list[j]
        /\ ~crossed => e.start = op[t].va /\ e.size = op[t].n
    BY <1>1, <1>2, <1>4, <1>12, ReleasedEntry
  <2>2. /\ EntryInv(e) /\ e.file \in Files \cup {NoFile} /\ e.bitmap \in Nat
        /\ e.start \in Nat /\ e.size \in Nat
    BY <2>1, <1>2, <1>8, SpaceTypes DEF VmmInv, SpaceInv
  <2>3. e.bitmap \in 1 .. MaxBitmaps
    <3>1. IsFiniteSet(Reserving)
      BY VmmAssumption, FS_Subset DEF Reserving
    <3>2. Cardinality(Reserving) \in Nat
      BY <3>1, FS_CardinalityType
    <3> QED BY <3>2, <2>2, <1>8, VmReservationAssumption DEF VmmInv, SpaceInv, EntryInv
  <2>4. /\ d \in Ops /\ d.file = e.file /\ d.bitmap = e.bitmap /\ d.cpu = on[t]
        /\ d.kind = op[t].kind /\ d.addr = op[t].addr /\ d.type = op[t].type
        /\ d.va = e.start /\ d.n = e.size
    <3>1. PICK o \in Ops, a \in Nat, n \in Nat, f \in Files \cup {NoFile}, k \in Nat,
               c \in Cpus \cup {Nobody} :
             /\ o = op[t] /\ a = e.start /\ n = e.size /\ f = e.file /\ k = e.bitmap
             /\ c = on[t]
      BY <2>2, <1>5, <1>7
    <3>2. d = [o EXCEPT !.va = a, !.n = n, !.file = f, !.bitmap = k, !.cpu = c]
      BY <3>1, <1>3
    <3>3. /\ d \in Ops /\ d.file = f /\ d.bitmap = k /\ d.cpu = c
          /\ d.kind = o.kind /\ d.addr = o.addr /\ d.type = o.type /\ d.va = a /\ d.n = n
      BY <3>2 DEF Ops
    <3> QED BY <3>1, <3>3
  <2>5. /\ Local(t) /\ pc'[t] = "fBitmap" /\ op'[t] = d /\ on' = on
        /\ Concerns(t)' = PageRun(d.va, d.n)
        /\ pc' \in [Threads -> Labels] /\ op' \in [Threads -> Ops]
        /\ on' \in [Threads -> Cpus \cup {Nobody}]
    <3>1. "fBitmap" \in Labels
      BY DEF Labels, FreeLabels
    <3> QED BY <3>1, <2>4, <1>12, ProceedFacts
  <2>6. ~crossed => Concerns(t)' = Concerns(t)
    BY <2>1, <2>4, <2>5 DEF Concerns
  <2>7. \A u \in Threads : u # t => pc'[u] = pc[u] /\ op'[u] = op[u] /\ Concerns(u)' = Concerns(u)
    BY <2>5 DEF Local, Concerns
  <2>8. ~crossed => \A u \in Threads : u # t => Concerns(u) \cap Concerns(t) = {}
    BY <1>6 DEF VmmInv, DisjointInv
  <2>9. op[t].va \in Concerns(t) /\ (crossed' <=> crossed)
    BY <1>4, ConcernsPages
  <2>10. OpInv(t)' /\ RegionInv(t)'
    <3>1. InSpace(d.va, d.n)'
      <4>1. InSpace(e.start, e.size)
        BY <2>1, <2>2, <1>2, EntryRuns DEF EntryInv
      <4> QED BY <4>1, <2>1, <2>4, <2>5 DEF InSpace
    <3>3. "undo" \in op[t].type /\ ~crossed => op[t].addr = e.start
      BY <2>1, <1>4, <1>5 DEF OpInv
    <3>2. OpInv(t)'
      BY <3>1, <3>3, <2>3, <2>4, <2>5, <2>9, <1>6 DEF OpInv, AllocLabels, FreeLabels, FaultLabels
    <3> QED BY <3>2, <2>5 DEF RegionInv
  <2>11. ASSUME NEW u \in Threads, u # t PROVE OpInv(u)' /\ RegionInv(u)'
    <3>1. OpInv(u)'
      <4>1. u \in Threads \ {t} /\ space'.next \in Nat /\ space.next <= space'.next
            /\ (crossed => crossed')
        BY <2>1, <2>9, <2>11, <1>8
      <4> QED BY <4>1, <2>5, <1>4, OtherOps DEF VmmInv
    <3>2. ASSUME ~crossed, NEW j \in Used(space), op[u].va \in PageRun(space.list[j].start,
                                                                       space.list[j].size),
                 pc[u] # "idle"
          PROVE  j \in Used(space')
      <4>1. op[u].va \in Concerns(u)
        BY <3>2, ConcernsPages
      <4>2. j # i
        BY <4>1, <3>2, <2>1, <2>8, <2>11, <1>2 DEF Concerns
      <4> QED BY <4>2, <2>1
    <3>3. RegionInv(u) /\ (pc[u] # "idle" => op[u].va \in Concerns(u))
      BY ConcernsPages DEF VmmInv
    <3>4. RegionInv(u)'
      <4>1. ASSUME ~crossed, pc[u] = "fLock", "release" \in op[u].type
            PROVE  \E j \in Used(space') : /\ space'.list[j].start = op[u].va
                                           /\ space'.list[j].size = op[u].n
                                           /\ op[u].addr \in Concerns(u)
        BY <4>1, <3>2, <3>3, <2>1 DEF RegionInv, Concerns
      <4>2. ASSUME ~crossed, pc[u] = "fLock", "decommit" \in op[u].type
            PROVE  /\ op[u].addr = op[u].va
                   /\ \E j \in Used(space') :
                         Concerns(u) \subseteq PageRun(space'.list[j].start, space'.list[j].size)
        BY <4>2, <3>2, <3>3, <2>1 DEF RegionInv
      <4>3. ASSUME ~crossed, pc[u] \in {"aFrames", "aMap", "aRead"}, op[u].file # NoFile
            PROVE  \E j \in Used(space') : /\ space'.list[j].start = op[u].va
                                           /\ space'.list[j].size = op[u].n
                                           /\ space'.list[j].file = op[u].file
        BY <4>3, <3>2, <3>3, <2>1 DEF RegionInv, Concerns
      <4>4. ASSUME ~crossed, pc[u] \in {"aLock", "aChange"}, "reserve" \in op[u].type
            PROVE  \A j \in Used(space') :
                      PageRun(space'.list[j].start, space'.list[j].size) \cap Concerns(u) = {}
        BY <4>4, <3>3, <2>1 DEF RegionInv
      <4> QED BY <4>1, <4>2, <4>3, <4>4, <2>7, <2>9, <2>11 DEF RegionInv
    <3> QED BY <3>1, <3>4
  <2>12. SpaceInv'
    <3>1. Reserving' \subseteq Reserving /\ Reserving' \subseteq Threads
      BY <2>5, <2>7 DEF Reserving
    <3>2. space'.bitmaps + Cardinality(Reserving') <= MaxBitmaps
      <4>1. space.bitmaps + Cardinality(Reserving') <= MaxBitmaps
        BY <3>1, BitmapsBounded DEF VmmInv
      <4> QED BY <4>1, <2>1
    <3>3. \A j \in Used(space') : EntryInv(space.list[j])'
      BY <2>1 DEF VmmInv, SpaceInv, EntryInv
    <3>4. ReservationsDisjoint'
      BY <2>1 DEF VmmInv, SpaceInv, ReservationsDisjoint
    <3>5. ~crossed' => \A j, k \in Used(space') :
                           j # k => ~Overlap(space'.list[j], space'.list[k])
      BY <2>1, <2>9 DEF VmmInv, SpaceInv
    <3> QED BY <3>2, <3>3, <3>4, <3>5, <2>1 DEF VmmInv, SpaceInv
  <2>13. DisjointInv'
    <3>1. FreshInv'
      <4>1. \A u \in Reserving' : u # t /\ u \in Reserving
        BY <2>5, <2>7 DEF Reserving
      <4>2. \A u \in Reserving' : op'[u] = op[u] /\ Concerns(u)' = Concerns(u)
        BY <4>1, <2>7 DEF Reserving
      <4>3. \A j \in Used(space') : j \in Used(space) /\ space'.list[j] = space.list[j]
        BY <2>1
      <4> QED BY <4>1, <4>2, <4>3 DEF VmmInv, DisjointInv, FreshInv
    <3>2. ASSUME ~crossed', NEW u \in Threads, NEW v \in Threads, u # v,
                 Concerns(u)' \cap Concerns(v)' # {}
          PROVE  op'[u].kind = "fault" /\ op'[v].kind = "fault"
      <4>1. \A w \in Threads : Concerns(w)' = Concerns(w) /\ op'[w].kind = op[w].kind
        BY <3>2, <2>4, <2>5, <2>6, <2>7, <2>9
      <4> QED BY <4>1, <3>2, <2>9 DEF VmmInv, DisjointInv
    <3> QED BY <3>1, <3>2 DEF DisjointInv
  <2>14. FrameInv' /\ LeakInv'
    <3>1. pc[t] \notin {"aMap", "pMap"} /\ pc'[t] \notin {"aMap", "pMap"}
      BY <2>5, <1>4
    <3>2. space'.bitmaps \in Nat /\ space.bitmaps <= space'.bitmaps
      BY <2>1, <1>8
    <3> QED BY <3>1, <3>2, <2>5, <1>4, FramesKept DEF VmmInv
  <2>15. FileInv'
    <3>1. /\ \A j \in Used(space') : space'.list[j].file \in open' \cup {NoFile}
          /\ \A j, k \in Used(space') :
                space'.list[j].file = space'.list[k].file /\ space'.list[j].file # NoFile => j = k
      BY <2>1, <1>4 DEF VmmInv, FileInv
    <3>2. /\ e.file # NoFile => e.file \in open
          /\ \A j \in Used(space') : e.file # NoFile => space'.list[j].file # e.file
          /\ \A u \in Threads : pc[u] \in Filing /\ e.file # NoFile => op[u].file # e.file
      BY <2>1, <1>2 DEF VmmInv, FileInv
    <3>3. pc'[t] \in Filing /\ pc'[t] \notin Filling /\ op'[t].file = e.file
      BY <2>4, <2>5 DEF Filing, Filling
    <3>4. ASSUME NEW u \in Threads, pc'[u] \in Filing, op'[u].file # NoFile
          PROVE  /\ op'[u].file \in open'
                 /\ \A j \in Used(space') : space'.list[j].file # op'[u].file
                 /\ \A v \in Threads :
                       v # u /\ pc'[v] \in Filing => op'[v].file # op'[u].file
      <4>1. CASE u = t
        BY <4>1, <3>2, <3>3, <3>4, <2>7, <1>4
      <4>2. CASE u # t
        <5>1. pc[u] \in Filing /\ op[u].file # NoFile /\ op'[u] = op[u]
          BY <4>2, <3>4, <2>7
        <5>2. /\ op[u].file \in open
              /\ \A j \in Used(space) : space.list[j].file # op[u].file
              /\ \A v \in Threads : v # u /\ pc[v] \in Filing => op[v].file # op[u].file
          BY <5>1 DEF VmmInv, FileInv
        <5>3. op'[t].file # op[u].file
          BY <5>2, <3>3, <2>1, <1>2
        <5> QED BY <5>1, <5>2, <5>3, <2>1, <2>7, <1>4
      <4> QED BY <4>1, <4>2
    <3>5. ASSUME ~crossed', NEW u \in Threads, pc'[u] \in Filling, op'[u].file # NoFile
          PROVE  \E j \in Used(space') :
                    /\ op'[u].va \in PageRun(space'.list[j].start, space'.list[j].size)
                    /\ space'.list[j].file = op'[u].file
      <4>1. u # t /\ pc[u] \in Filling /\ op'[u] = op[u]
        BY <3>3, <3>5, <2>7
      <4>2. PICK j \in Used(space) :
               /\ op[u].va \in PageRun(space.list[j].start, space.list[j].size)
               /\ space.list[j].file = op[u].file
        BY <4>1, <3>5, <2>9 DEF VmmInv, FileInv
      <4>3. op[u].va \in Concerns(u)
        <5>1. pc[u] # "idle"
          BY <4>1 DEF Filling
        <5> QED BY <5>1, ConcernsPages
      <4>4. j # i
        BY <4>1, <4>2, <4>3, <3>5, <2>1, <2>8, <2>9, <1>2 DEF Concerns
      <4> QED BY <4>1, <4>2, <4>4, <2>1
    <3> QED BY <3>1, <3>4, <3>5 DEF FileInv
  <2>16. CpuInv'
    <3>1. pc'[t] # "aChange" /\ op'[t].cpu \in {Nobody, on[t]}
      BY <2>4, <2>5
    <3> QED BY <3>1, <2>5, <1>10, <1>12
  <2>17. TypeInv'
    BY <2>5, <1>4, <1>9, <1>12 DEF VmmInv, TypeInv
  <2> QED BY <2>10, <2>11, <2>12, <2>13, <2>14, <2>15, <2>16, <2>17 DEF VmmInv
<1> QED BY <1>4, <1>c, <1>11, <1>12

(* The space after a reservation that may also be committed: nothing held  *)
(* the run before, so the entry that is committed is the new one.          *)
LEMMA ReservedFacts ==
    ASSUME NEW sp, Shape(sp), NEW o \in Ops, CanReserve(sp, o.va, o.n), NEW new,
           new = Committed(ReserveIn(sp, o.va, o.n, o.attr, o.file), o)
    PROVE  /\ Shape(new) /\ new.next = sp.next /\ new.bitmaps = sp.bitmaps + 1
           /\ \E i : /\ i \notin Used(sp) /\ Used(new) = Used(sp) \cup {i}
                     /\ new.list[i].start = o.va /\ new.list[i].size = o.n
                     /\ new.list[i].file = o.file /\ new.list[i].attr = o.attr
                     /\ new.list[i].bitmap = sp.bitmaps + 1
                     /\ new.list[i].commit =
                           IF "commit" \in o.type THEN PageRun(o.va, o.n) ELSE {}
                     /\ \A j \in Used(sp) : new.list[j] = sp.list[j]
<1>1. PICK va \in Nat, n \in Nat, attr \in Attrs, file \in Files \cup {NoFile} :
          va = o.va /\ n = o.n /\ attr = o.attr /\ file = o.file
  BY DEF Ops
<1>2. PICK mid : mid = ReserveIn(sp, va, n, attr, file)
  OBVIOUS
<1>3. /\ Shape(mid) /\ mid.next = sp.next /\ mid.bitmaps = sp.bitmaps + 1
      /\ \E i : /\ i \notin Used(sp) /\ Used(mid) = Used(sp) \cup {i}
                /\ mid.list[i] = VmInitializeReservation(sp, va, n, attr, file)
                /\ \A j \in Used(sp) : mid.list[j] = sp.list[j]
  BY <1>2, ReserveFacts
<1>4. PICK i : /\ i \notin Used(sp) /\ Used(mid) = Used(sp) \cup {i}
               /\ mid.list[i] = VmInitializeReservation(sp, va, n, attr, file)
               /\ \A j \in Used(sp) : mid.list[j] = sp.list[j]
  BY <1>3
<1>5. /\ mid.list[i].start = va /\ mid.list[i].size = n
      /\ mid.list[i].file = file /\ mid.list[i].attr = attr
      /\ mid.list[i].bitmap = sp.bitmaps + 1 /\ mid.list[i].commit = {}
  BY <1>4 DEF VmInitializeReservation
<1>6. CASE "commit" \notin o.type
  <2>1. new = mid
    BY <1>1, <1>2, <1>6 DEF Committed
  <2> QED BY <2>1, <1>1, <1>3, <1>4, <1>5, <1>6
<1>7. CASE "commit" \in o.type
  <2>1. new = VmCommitReservation(mid, va, n)
    BY <1>1, <1>2, <1>7 DEF Committed
  <2>2. i \in Containing(mid, va, n)
    BY <1>4, <1>5 DEF Containing
  <2>3. VmFindReservation(mid, va, n) \in Containing(mid, va, n)
    BY <2>2, <1>3, FindReservation
  <2>4. VmFindReservation(sp, va, n) = 0
    BY <1>1 DEF CanReserve
  <2>5. Containing(sp, va, n) = {}
    <3>1. 0 \notin Containing(sp, va, n)
      BY UsedSlots DEF Containing, Shape, Spaces
    <3> QED BY <3>1, <2>4, FindReservation
  <2>6. VmFindReservation(mid, va, n) = i /\ i # 0
    <3>1. VmFindReservation(mid, va, n) = i
      BY <2>3, <2>5, <1>4 DEF Containing
    <3>2. 0 \notin Used(mid)
      BY <1>3, UsedSlots DEF Shape, Spaces
    <3> QED BY <3>1, <3>2, <1>4
  <2>7. /\ Shape(new)
        /\ new.next = mid.next /\ new.bitmaps = mid.bitmaps /\ Used(new) = Used(mid)
        /\ \E k \in Used(mid) :
              /\ k = VmFindReservation(mid, va, n)
              /\ PageRun(va, n) \subseteq PageRun(mid.list[k].start, mid.list[k].size)
              /\ new.list[k].commit = mid.list[k].commit \cup PageRun(va, n)
              /\ new.list[k].start = mid.list[k].start /\ new.list[k].size = mid.list[k].size
              /\ new.list[k].file = mid.list[k].file /\ new.list[k].bitmap = mid.list[k].bitmap
              /\ new.list[k].attr = mid.list[k].attr
              /\ \A j \in Used(mid) : j # k => new.list[j] = mid.list[j]
    <3>1. Shape(mid) /\ VmFindReservation(mid, va, n) # 0
      BY <2>6, <1>3
    <3> QED BY <3>1, <2>1, CommitFacts
  <2>8. /\ new.list[i].commit = PageRun(va, n)
        /\ new.list[i].start = va /\ new.list[i].size = n
        /\ new.list[i].file = file /\ new.list[i].bitmap = sp.bitmaps + 1
        /\ new.list[i].attr = attr
        /\ \A j \in Used(sp) : new.list[j] = sp.list[j]
    BY <2>6, <2>7, <1>4, <1>5
  <2> QED BY <2>7, <2>8, <1>1, <1>3, <1>4, <1>7
<1> QED BY <1>6, <1>7

(* A frame is reserved and mapped, at a page that had none, in one step.   *)
LEMMA FrameMappedAtOnce ==
    ASSUME VmmInv, NEW t \in Threads, Local(t), NEW f \in Frames, f \notin bitmap,
           NEW q \in Pages, pt[q] = NoFrame,
           bitmap' = bitmap \cup {f}, dirty' = dirty \cup {f},
           \A p \in Pages : pt'[p] = IF p = q THEN f ELSE pt[p],
           UNCHANGED <<zlist, zitem, zpc, lost, given>>,
           pc[t] \notin {"aMap", "pMap"}, pc'[t] \notin {"aMap", "pMap"},
           \A k \in 1 .. MaxBitmaps : k > space'.bitmaps => pt'[-k] = NoFrame
    PROVE  /\ FrameInv' /\ LeakInv'
           /\ bitmap' \subseteq Frames /\ dirty' \subseteq Frames \ {0}
<1>1. \A u \in Threads, x \in Frames : InFlight(u, x)' <=> InFlight(u, x)
  BY DEF Local, InFlight
<1>2. /\ f # NoFrame /\ f # 0 /\ f \notin zlist /\ f # zitem
      /\ \A p \in Pages : pt[p] # f
      /\ \A u \in Threads : ~InFlight(u, f)
  BY DEF VmmInv, FrameInv, TypeInv, NoFrame, Frames
<1>3. FrameInv'
  <2>1. \A p1, p2 \in Pages : pt'[p1] # NoFrame /\ pt'[p1] = pt'[p2] => p1 = p2
    BY <1>2 DEF VmmInv, FrameInv
  <2>2. \A p \in Pages : pt'[p] # NoFrame => pt'[p] \in bitmap' \ (zlist' \cup {zitem', 0})
    BY <1>2 DEF VmmInv, FrameInv
  <2>3. \A u \in Threads, x \in Frames :
          InFlight(u, x)' =>
              /\ x \in bitmap' \ (zlist' \cup {zitem', 0})
              /\ \A p \in Pages : pt'[p] # x
              /\ \A v \in Threads : InFlight(v, x)' => v = u
    BY <1>1, <1>2 DEF VmmInv, FrameInv
  <2>4. zlist' \subseteq bitmap' \ {zitem', 0} /\ dirty' \subseteq bitmap'
    BY DEF VmmInv, FrameInv
  <2>5. zpc' = "release" => zitem' \notin dirty'
    BY <1>2 DEF VmmInv, FrameInv
  <2> QED BY <2>1, <2>2, <2>3, <2>4, <2>5 DEF VmmInv, FrameInv
<1>4. LeakInv'
  <2> SUFFICES ASSUME NEW x \in bitmap' \ {0}, x \notin lost \cup given
               PROVE  Held(x)'
    BY DEF LeakInv
  <2>1. CASE x = f
    BY <2>1 DEF Held
  <2>2. CASE x # f
    <3>1. Held(x) /\ x \in Frames /\ x # NoFrame
      BY <2>2 DEF VmmInv, LeakInv, TypeInv, NoFrame, Frames
    <3>2. \A p \in Pages : pt[p] = x => pt'[p] = x
      BY <3>1
    <3> QED BY <3>1, <3>2, <1>1 DEF Held
  <2> QED BY <2>1, <2>2
<1> QED BY <1>2, <1>3, <1>4 DEF VmmInv, TypeInv

(* What a thread at aChange that reserves knows about its run.             *)
LEMMA ReservingFacts ==
    ASSUME VmmInv, NEW t \in Threads, pc[t] = "aChange", "reserve" \in op[t].type
    PROVE  /\ op[t].n > 0 /\ op[t].kind = "alloc" /\ t \in Reserving
           /\ \/ StartVa <= op[t].va /\ op[t].va + op[t].n <= space.next
              \/ op[t].va \in FixedBases /\ op[t].n <= MaxPages /\ op[t].file = NoFile
           /\ \A i \in Used(space) :
                 PageRun(space.list[i].start, space.list[i].size) \cap Concerns(t) # {} =>
                     crossed /\ {space.list[i].start, op[t].va} \cap FixedBases # {}
           /\ space.bitmaps + 1 <= MaxBitmaps
<1>1. OpInv(t) /\ RegionInv(t) /\ op[t].va \in Nat /\ op[t].n \in Nat
  BY OpTypes DEF VmmInv
<1>2. /\ op[t].n > 0 /\ op[t].kind = "alloc" /\ t \in Reserving
      /\ \/ StartVa <= op[t].va /\ op[t].va + op[t].n <= space.next
         \/ op[t].va \in FixedBases /\ op[t].n <= MaxPages /\ op[t].file = NoFile
  BY <1>1 DEF OpInv, InSpace, AllocLabels, Reserving
<1>3. space.next \in Nat /\ space.bitmaps \in Nat /\ space.next <= MaxVa + 1
  BY SpaceTypes DEF VmmInv, SpaceInv
<1>4. ASSUME NEW i \in Used(space),
             PageRun(space.list[i].start, space.list[i].size) \cap Concerns(t) # {}
      PROVE  crossed /\ {space.list[i].start, op[t].va} \cap FixedBases # {}
  <2>1. crossed
    BY <1>1, <1>4 DEF RegionInv
  <2>2. {space.list[i].start, op[t].va} \cap FixedBases # {}
    BY <1>2, <1>4 DEF VmmInv, DisjointInv, FreshInv
  <2> QED BY <2>1, <2>2
<1>5. space.bitmaps + 1 <= MaxBitmaps
  <2>1. IsFiniteSet(Reserving)
    BY VmmAssumption, FS_Subset DEF Reserving
  <2>2. Cardinality(Reserving) \in Nat /\ Cardinality(Reserving) # 0
    BY <2>1, <1>2, FS_CardinalityType, FS_EmptySet
  <2> QED BY <2>2, <1>3, VmReservationAssumption DEF VmmInv, SpaceInv
<1> QED BY <1>2, <1>4, <1>5

LEMMA AllocReserveInv ==
    ASSUME VmmInv, NEW t \in Threads, AllocReserve(t)
    PROVE  VmmInv'
<1>1. PICK o, f : o = op[t] /\ f = PmmReserveMemoryEx(bitmap, 1, 0)
  OBVIOUS
<1>2. /\ pc[t] = "aChange" /\ "reserve" \in o.type /\ CanReserve(space, o.va, o.n)
      /\ IF access[on[t]] /\ f # NoFrame
         THEN /\ space' = Committed(ReserveIn(space, o.va, o.n, o.attr, o.file), o)
              /\ bitmap' = PmmReserved(bitmap, f, 1)
              /\ pt' = [pt EXCEPT ![-(space.bitmaps + 1)] = f]
              /\ dirty' = dirty \cup {f}
              /\ DropReservationLock(t)
              /\ AfterChange(t)
              /\ UNCHANGED panic
         ELSE /\ Panic(IF access[on[t]] THEN "frames" ELSE "metadata")
              /\ UNCHANGED <<bitmap, space, pt, dirty, reslock, access>>
      /\ UNCHANGED <<zlist, newPages, zpc, zitem, open, lost, given, met, moved, crossed>>
  BY <1>1 DEF AllocReserve, At, zvars, ghosts
<1>3. /\ o \in Ops /\ o.va \in Nat /\ o.n \in Nat /\ o.file \in Files \cup {NoFile}
      /\ Concerns(t) = PageRun(o.va, o.n)
  BY <1>1, OpTypes DEF VmmInv, Concerns
<1>4. /\ Shape(space) /\ space.next \in Nat /\ space.bitmaps \in Nat
      /\ space.next <= MaxVa + 1 /\ StartVa <= space.next
  BY SpaceTypes DEF VmmInv, SpaceInv
<1>5. CASE ~(access[on[t]] /\ f # NoFrame)
  <2>1. CASE access[on[t]]
    <3>1. Panic("frames") /\ "frames" # "metadata"
      BY <2>1, <1>2, <1>5
    <3> QED BY <3>1, <1>2, <1>5, StopInv
  <2>2. CASE ~access[on[t]]
    <3>1. Panic("metadata")
      BY <2>2, <1>2, <1>5
    <3>2. moved
      BY <2>2, <1>2 DEF VmmInv, CpuInv
    <3> QED BY <3>1, <3>2, <1>2, <1>5, StopInv
  <2> QED BY <2>1, <2>2
<1>6. CASE access[on[t]] /\ f # NoFrame
  <2>1. /\ space' = Committed(ReserveIn(space, o.va, o.n, o.attr, o.file), o)
        /\ bitmap' = PmmReserved(bitmap, f, 1)
        /\ pt' = [pt EXCEPT ![-(space.bitmaps + 1)] = f]
        /\ dirty' = dirty \cup {f}
        /\ DropReservationLock(t) /\ AfterChange(t) /\ UNCHANGED panic
    BY <1>2, <1>6
  <2>2. f \in Frames /\ f \notin bitmap /\ bitmap' = bitmap \cup {f}
    <3>1. f \in Frames /\ FrameRun(f, 1) \cap bitmap = {}
      BY <1>1, <1>6, ReserveMemory
    <3>2. FrameRun(f, 1) = {f}
      BY <3>1 DEF FrameRun, Frames
    <3> QED BY <3>1, <3>2, <2>1, <1>6 DEF PmmReserved
  <2>3. /\ o.n > 0 /\ o.kind = "alloc" /\ t \in Reserving
        /\ \/ StartVa <= o.va /\ o.va + o.n <= space.next
           \/ o.va \in FixedBases /\ o.n <= MaxPages /\ o.file = NoFile
        /\ \A j \in Used(space) :
              PageRun(space.list[j].start, space.list[j].size) \cap Concerns(t) # {} =>
                  crossed /\ {space.list[j].start, o.va} \cap FixedBases # {}
        /\ space.bitmaps + 1 <= MaxBitmaps
    BY <1>1, <1>2, ReservingFacts
  <2>4. /\ Shape(space') /\ space'.next = space.next /\ space'.bitmaps = space.bitmaps + 1
        /\ \E i : /\ i \notin Used(space) /\ Used(space') = Used(space) \cup {i}
                  /\ space'.list[i].start = o.va /\ space'.list[i].size = o.n
                  /\ space'.list[i].file = o.file
                  /\ space'.list[i].bitmap = space.bitmaps + 1
                  /\ space'.list[i].commit \subseteq PageRun(o.va, o.n)
                  /\ \A j \in Used(space) : space'.list[j] = space.list[j]
    <3>1. PICK sp, new : sp = space /\ new = space'
      OBVIOUS
    <3>2. /\ Shape(sp) /\ CanReserve(sp, o.va, o.n)
          /\ new = Committed(ReserveIn(sp, o.va, o.n, o.attr, o.file), o)
      BY <3>1, <2>1, <1>2, <1>4
    <3>3. /\ Shape(new) /\ new.next = sp.next /\ new.bitmaps = sp.bitmaps + 1
          /\ \E i : /\ i \notin Used(sp) /\ Used(new) = Used(sp) \cup {i}
                    /\ new.list[i].start = o.va /\ new.list[i].size = o.n
                    /\ new.list[i].file = o.file /\ new.list[i].attr = o.attr
                    /\ new.list[i].bitmap = sp.bitmaps + 1
                    /\ new.list[i].commit =
                          IF "commit" \in o.type THEN PageRun(o.va, o.n) ELSE {}
                    /\ \A j \in Used(sp) : new.list[j] = sp.list[j]
      BY <3>2, <1>3, ReservedFacts
    <3> QED BY <3>1, <3>3
  <2>5. PICK i : /\ i \notin Used(space) /\ Used(space') = Used(space) \cup {i}
                 /\ space'.list[i].start = o.va /\ space'.list[i].size = o.n
                 /\ space'.list[i].file = o.file
                 /\ space'.list[i].bitmap = space.bitmaps + 1
                 /\ space'.list[i].commit \subseteq PageRun(o.va, o.n)
                 /\ \A j \in Used(space) : space'.list[j] = space.list[j]
    BY <2>4
  <2>6. /\ Local(t) /\ pc'[t] \in {"idle", "aFrames"} /\ on'[t] \in {on[t], Nobody}
        /\ Concerns(t)' \subseteq Concerns(t) /\ op'[t].cpu = Nobody
        /\ pc' \in [Threads -> Labels] /\ op' \in [Threads -> Ops]
        /\ on' \in [Threads -> Cpus \cup {Nobody}]
        /\ pc'[t] = "aFrames" => op'[t].va = o.va /\ op'[t].n = o.n /\ op'[t].file = o.file
        /\ OpInv(t)'
    <3>1. space'.next \in Nat /\ space.next <= space'.next
      BY <2>4, <1>4
    <3> QED BY <3>1, <2>1, <1>1, <1>2, AfterChangeFacts
  <2>7. \A u \in Threads : u # t => pc'[u] = pc[u] /\ op'[u] = op[u] /\ Concerns(u)' = Concerns(u)
    BY <2>6 DEF Local, Concerns
  <2>8. /\ crossed' <=> crossed
        /\ ~crossed => \A u \in Threads : u # t => Concerns(u) \cap Concerns(t) = {}
    BY <2>3, <1>1, <1>2 DEF VmmInv, DisjointInv
  <2>9. PICK q : q = -(space.bitmaps + 1)
    OBVIOUS
  <2>10. q \in Pages /\ q \notin RegionPages /\ pt[q] = NoFrame
    <3>1. space.bitmaps + 1 \in 1 .. MaxBitmaps
      BY <2>3, <1>4, VmReservationAssumption
    <3>2. -(space.bitmaps + 1) \in Pages /\ -(space.bitmaps + 1) \notin RegionPages
      BY <3>1, PageNumbers
    <3>3. pt[-(space.bitmaps + 1)] = NoFrame
      BY <3>1, <1>4 DEF VmmInv, FrameInv
    <3> QED BY <3>2, <3>3, <2>9
  <2>11. \A p \in Pages : pt'[p] = IF p = q THEN f ELSE pt[p]
    BY <2>1, <2>9, <2>10 DEF VmmInv, TypeInv
  <2>12. /\ FrameInv' /\ LeakInv'
         /\ bitmap' \subseteq Frames /\ dirty' \subseteq Frames \ {0}
    <3>1. pc[t] \notin {"aMap", "pMap"} /\ pc'[t] \notin {"aMap", "pMap"}
      BY <2>6, <1>2
    <3>2. ASSUME NEW k \in 1 .. MaxBitmaps, k > space'.bitmaps PROVE pt'[-k] = NoFrame
      <4>1. k > space.bitmaps /\ -k # q
        BY <3>2, <2>4, <2>9, <1>4
      <4>2. -k \in Pages
        BY PageNumbers
      <4>3. pt[-k] = NoFrame
        BY <4>1 DEF VmmInv, FrameInv
      <4> QED BY <4>1, <4>2, <4>3, <2>11
    <3>3. UNCHANGED <<zlist, zitem, zpc, lost, given>>
      BY <1>2
    <3> QED BY <3>1, <3>2, <3>3, <2>1, <2>2, <2>6, <2>10, <2>11, FrameMappedAtOnce
  <2>13. SpaceInv'
    <3>1. \A j \in Used(space') : EntryInv(space.list[j])'
      <4>1. ASSUME NEW j \in Used(space) PROVE EntryInv(space.list[j])'
        <5>1. EntryInv(space.list[j]) /\ space'.list[j] = space.list[j]
          BY <2>5 DEF VmmInv, SpaceInv
        <5> QED BY <5>1, <2>4, <1>4 DEF EntryInv
      <4>2. EntryInv(space.list[i])'
        BY <2>3, <2>4, <2>5, <1>4 DEF EntryInv
      <4> QED BY <4>1, <4>2, <2>5
    <3>2. space'.bitmaps + Cardinality(Reserving') <= MaxBitmaps
      <4>1. Reserving' = Reserving \ {t}
        BY <2>6, <2>7 DEF Reserving
      <4>2. IsFiniteSet(Reserving)
        BY VmmAssumption, FS_Subset DEF Reserving
      <4>3. Cardinality(Reserving \ {t}) = Cardinality(Reserving) - 1
        BY <4>2, <2>3, FS_RemoveElement
      <4>4. Cardinality(Reserving) \in Nat /\ space.bitmaps + Cardinality(Reserving) <= MaxBitmaps
        BY <4>2, FS_CardinalityType DEF VmmInv, SpaceInv
      <4> QED BY <4>1, <4>3, <4>4, <2>4, <1>4, VmReservationAssumption
    <3>3. ReservationsDisjoint'
      <4> SUFFICES ASSUME NEW j \in Used(space'), NEW k \in Used(space'), j # k,
                          Overlap(space'.list[j], space'.list[k])
                   PROVE  {space'.list[j].start, space'.list[k].start} \cap FixedBases # {}
        BY DEF ReservationsDisjoint
      <4>1. CASE j = i
        <5>1. k \in Used(space) /\ space'.list[k] = space.list[k]
          BY <4>1, <2>5
        <5>2. PageRun(space.list[k].start, space.list[k].size) \cap Concerns(t) # {}
          BY <4>1, <5>1, <2>5, <1>3 DEF Overlap
        <5> QED BY <4>1, <5>1, <5>2, <2>3, <2>5
      <4>2. CASE k = i
        <5>1. j \in Used(space) /\ space'.list[j] = space.list[j]
          BY <4>2, <2>5
        <5>2. PageRun(space.list[j].start, space.list[j].size) \cap Concerns(t) # {}
          BY <4>2, <5>1, <2>5, <1>3 DEF Overlap
        <5> QED BY <4>2, <5>1, <5>2, <2>3, <2>5
      <4>3. CASE j # i /\ k # i
        <5>1. /\ j \in Used(space) /\ space'.list[j] = space.list[j]
              /\ k \in Used(space) /\ space'.list[k] = space.list[k]
          BY <4>3, <2>5
        <5> QED BY <5>1 DEF VmmInv, SpaceInv, ReservationsDisjoint
      <4> QED BY <4>1, <4>2, <4>3
    <3>4. ASSUME ~crossed', NEW j \in Used(space'), NEW k \in Used(space'), j # k
          PROVE  ~Overlap(space'.list[j], space'.list[k])
      <4>1. \A l \in Used(space) :
                PageRun(space.list[l].start, space.list[l].size) \cap PageRun(o.va, o.n) = {}
        BY <3>4, <2>3, <2>8, <1>3
      <4>2. \A l, m \in Used(space) : l # m => ~Overlap(space.list[l], space.list[m])
        BY <3>4, <2>8 DEF VmmInv, SpaceInv
      <4> QED BY <4>1, <4>2, <3>4, <2>5 DEF Overlap
    <3> QED BY <3>1, <3>2, <3>3, <3>4, <2>4, <1>4 DEF SpaceInv
  <2>14. RegionInv(t)'
    BY <2>5, <2>6 DEF RegionInv
  <2>15. ASSUME NEW u \in Threads, u # t PROVE OpInv(u)' /\ RegionInv(u)'
    <3>1. OpInv(u)'
      <4>1. u \in Threads \ {t} /\ space'.next \in Nat /\ space.next <= space'.next
            /\ (crossed => crossed')
        BY <2>4, <2>8, <2>15, <1>4
      <4>2. pc[u] = "aRead" => \A p \in Concerns(u) : pt'[p] = pt[p]
        BY <2>10, <2>11, ConcernsPages
      <4> QED BY <4>1, <4>2, <2>6, OtherOps DEF VmmInv
    <3>2. RegionInv(u)
      BY DEF VmmInv
    <3>3. ~crossed => PageRun(space'.list[i].start, space'.list[i].size) \cap Concerns(u) = {}
      BY <2>5, <2>8, <2>15, <1>3
    <3>4. RegionInv(u)'
      BY <3>2, <3>3, <2>5, <2>7, <2>8, <2>15 DEF RegionInv
    <3> QED BY <3>1, <3>4
  <2>16. DisjointInv'
    <3>1. op[t].kind # "fault"
      BY <2>3, <1>1
    <3>2. FreshInv'
      <4>1. \A u \in Reserving' : u # t /\ u \in Reserving
        BY <2>6, <2>7 DEF Reserving
      <4>2. \A u \in Reserving' : op'[u] = op[u] /\ Concerns(u)' = Concerns(u)
        BY <4>1, <2>7 DEF Reserving
      <4>3. ASSUME NEW u \in Reserving', op[u].va \notin FixedBases, NEW j \in Used(space'),
                   space'.list[j].start \notin FixedBases
            PROVE  PageRun(space'.list[j].start, space'.list[j].size) \cap Concerns(u) = {}
        <5>1. CASE j = i
          BY <5>1, <4>1, <4>3, <2>3, <2>5, <1>1, <1>3 DEF VmmInv, DisjointInv, FreshInv
        <5>2. CASE j # i
          BY <5>2, <4>1, <4>3, <2>5 DEF VmmInv, DisjointInv, FreshInv
        <5> QED BY <5>1, <5>2
      <4>4. \A u, v \in Reserving' :
                u # v /\ op[u].va \notin FixedBases /\ op[v].va \notin FixedBases =>
                    Concerns(u) \cap Concerns(v) = {}
        BY <4>1 DEF VmmInv, DisjointInv, FreshInv
      <4> QED BY <4>2, <4>3, <4>4 DEF FreshInv
    <3> QED BY <3>1, <3>2, <2>6, <2>8, DisjointKept DEF VmmInv
  <2>17. FileInv'
    <3>1. pc[t] \in Filing /\ pc'[t] \notin Filing /\ pc'[t] \notin Filling
      BY <2>6, <1>2 DEF Filing, Filling
    <3>2. o.file # NoFile =>
            /\ o.file \in open
            /\ \A j \in Used(space) : space.list[j].file # o.file
            /\ \A u \in Threads : u # t /\ pc[u] \in Filing => op[u].file # o.file
      BY <3>1, <1>1 DEF VmmInv, FileInv
    <3>3. /\ \A j \in Used(space) : space.list[j].file \in open \cup {NoFile}
          /\ \A j, k \in Used(space) :
                space.list[j].file = space.list[k].file /\ space.list[j].file # NoFile => j = k
      BY DEF VmmInv, FileInv
    <3>4. /\ \A j \in Used(space') : space'.list[j].file \in open' \cup {NoFile}
          /\ \A j, k \in Used(space') :
                space'.list[j].file = space'.list[k].file /\ space'.list[j].file # NoFile => j = k
      BY <3>2, <3>3, <2>5, <1>2
    <3>5. \A u \in Threads : pc'[u] \in Filing \/ pc'[u] \in Filling => u # t
      BY <3>1
    <3>6. ASSUME NEW u \in Threads, pc'[u] \in Filing, op'[u].file # NoFile
          PROVE  /\ op'[u].file \in open'
                 /\ \A j \in Used(space') : space'.list[j].file # op'[u].file
                 /\ \A v \in Threads :
                       v # u /\ pc'[v] \in Filing => op'[v].file # op'[u].file
      <4>1. u # t /\ pc[u] \in Filing /\ op'[u] = op[u] /\ op[u].file # NoFile
        BY <3>5, <3>6, <2>7
      <4>2. /\ op[u].file \in open
            /\ \A j \in Used(space) : space.list[j].file # op[u].file
            /\ \A v \in Threads : v # u /\ pc[v] \in Filing => op[v].file # op[u].file
        BY <4>1 DEF VmmInv, FileInv
      <4>3. o.file # op[u].file
        BY <4>1, <4>2, <3>1, <1>1
      <4> QED BY <4>1, <4>2, <4>3, <3>5, <2>5, <2>7, <1>2
    <3>7. ASSUME ~crossed', NEW u \in Threads, pc'[u] \in Filling, op'[u].file # NoFile
          PROVE  \E j \in Used(space') :
                    /\ op'[u].va \in PageRun(space'.list[j].start, space'.list[j].size)
                    /\ space'.list[j].file = op'[u].file
      <4>1. pc[u] \in Filling /\ op'[u] = op[u]
        BY <3>5, <3>7, <2>7
      <4>2. PICK j \in Used(space) :
               /\ op[u].va \in PageRun(space.list[j].start, space.list[j].size)
               /\ space.list[j].file = op[u].file
        BY <4>1, <3>7, <2>8 DEF VmmInv, FileInv
      <4> QED BY <4>1, <4>2, <2>5
    <3> QED BY <3>4, <3>6, <3>7 DEF FileInv
  <2>18. CpuInv'
    <3>1. pc'[t] # "aChange"
      BY <2>6
    <3> QED BY <3>1, <2>1, <2>6, <1>2, CpuDrop, VmmAssumption DEF VmmInv
  <2>19. TypeInv'
    <3>1. reslock' \in Threads \cup {Nobody} /\ access' \in [Cpus -> BOOLEAN]
      BY <2>1, DropTypes DEF VmmInv
    <3>2. pt' \in [Pages -> Frames \cup {NoFrame}]
      BY <2>1, <2>2 DEF VmmInv, TypeInv
    <3> QED BY <3>1, <3>2, <2>1, <2>2, <2>6, <2>12, <1>2 DEF VmmInv, TypeInv
  <2> QED BY <2>6, <2>12, <2>13, <2>14, <2>15, <2>16, <2>17, <2>18, <2>19 DEF VmmInv
<1> QED BY <1>5, <1>6
-----------------------------------------------------------------------------
(* Preemption, the zeroer, and the step that composes them all.            *)

LEMMA MigrateInv ==
    ASSUME VmmInv, NEW t \in Threads, NEW c \in Cpus, Migrate(t, c)
    PROVE  VmmInv'
<1>1. PICK moving : moving = {u \in Threads : u = t \/ on[u] = c}
  OBVIOUS
<1>2. /\ on[t] \notin {Nobody, c}
      /\ \A u \in moving : pc[u] \notin Uninterruptible
      /\ on' = [u \in Threads |-> IF u = t THEN c ELSE IF on[u] = c THEN on[t] ELSE on[u]]
      /\ moved' = (moved \/ \E u \in moving : op[u].cpu # Nobody)
      /\ UNCHANGED <<bitmap, space, reslock, pt, access, pc, op, zlist, newPages, zpc, zitem,
                     open, dirty, lost, given, met, crossed, panic>>
  BY <1>1 DEF Migrate, zvars
<1>3. \A u \in Threads : on'[u] = IF u = t THEN c ELSE IF on[u] = c THEN on[t] ELSE on[u]
  BY <1>2
<1>4. on \in [Threads -> Cpus \cup {Nobody}] /\ c # Nobody
  BY VmmAssumption DEF VmmInv, TypeInv
<1>5. on' \in [Threads -> Cpus \cup {Nobody}]
  BY <1>2, <1>4
<1>6. \A u \in Threads : /\ on'[u] = Nobody <=> on[u] = Nobody
                         /\ pc[u] = "aChange" => on'[u] = on[u]
                         /\ u \notin moving => on'[u] = on[u]
  BY <1>1, <1>2, <1>3, <1>4 DEF Uninterruptible
<1>7. TypeInv' /\ SpaceInv'
  BY <1>2, <1>5 DEF VmmInv, TypeInv, SpaceInv, EntryInv, Reserving, ReservationsDisjoint
<1>8. ASSUME NEW u \in Threads PROVE OpInv(u)' /\ RegionInv(u)'
  <2>1. OpInv(u) /\ RegionInv(u)
    BY DEF VmmInv
  <2>2. OpInv(u)'
    BY <2>1, <1>2, <1>6 DEF OpInv, InSpace, Concerns
  <2> QED BY <2>1, <2>2, <1>2 DEF RegionInv, Concerns
<1>9. DisjointInv'
  BY <1>2 DEF VmmInv, DisjointInv, FreshInv, Reserving, Concerns
<1>10. FrameInv' /\ LeakInv'
  BY <1>2 DEF VmmInv, FrameInv, LeakInv, Held, InFlight
<1>11. FileInv'
  BY <1>2 DEF VmmInv, FileInv
<1>12. CpuInv'
  <2>1. ASSUME NEW u \in Threads, NEW v \in Threads, on'[u] = on'[v], on'[u] # Nobody
        PROVE  u = v
    <3>1. \A x, y \in Threads : on[x] = on[y] /\ on[x] # Nobody => x = y
      BY DEF VmmInv, CpuInv
    <3>2. CASE u = t
      BY <3>1, <3>2, <2>1, <1>2, <1>3
    <3>3. CASE v = t
      BY <3>1, <3>3, <2>1, <1>2, <1>3
    <3>4. CASE u # t /\ v # t
      BY <3>1, <3>4, <2>1, <1>2, <1>3, <1>4
    <3> QED BY <3>2, <3>3, <3>4
  <2>2. \A u \in Threads : (pc'[u] = "aChange") = (reslock' = u)
    BY <1>2 DEF VmmInv, CpuInv
  <2>3. ~moved' => ~moved /\ \A u \in moving : op[u].cpu = Nobody
    BY <1>2
  <2>4. ~moved' => \A u \in Threads : op'[u].cpu # Nobody => op'[u].cpu = on'[u]
    BY <2>3, <1>2, <1>6 DEF VmmInv, CpuInv
  <2>5. ~moved' => \A u \in Threads : pc'[u] = "aChange" => access'[on'[u]]
    BY <2>3, <1>2, <1>6 DEF VmmInv, CpuInv
  <2>6. MetadataAccessible' /\ FreesFindRegion'
    BY <2>3, <1>2 DEF VmmInv, CpuInv, MetadataAccessible, FreesFindRegion
  <2> QED BY <2>1, <2>2, <2>4, <2>5, <2>6 DEF CpuInv
<1> QED BY <1>7, <1>8, <1>9, <1>10, <1>11, <1>12 DEF VmmInv

(* The zeroer leaves regions, threads and processors alone.                *)
LEMMA ZeroerOthers ==
    ASSUME VmmInv, UNCHANGED others
    PROVE  /\ SpaceInv' /\ DisjointInv' /\ CpuInv' /\ FileInv'
           /\ \A t \in Threads : OpInv(t)' /\ RegionInv(t)'
           /\ \A t \in Threads, f \in Frames : InFlight(t, f)' <=> InFlight(t, f)
           /\ UNCHANGED <<space, reslock, pt, access, on, pc, op, open, lost, given, crossed,
                         panic>>
<1>1. UNCHANGED <<space, reslock, pt, access, on, pc, op, open, lost, given, met, moved, crossed,
                  panic>>
  BY DEF others, ghosts
<1>2. SpaceInv'
  BY <1>1 DEF VmmInv, SpaceInv, EntryInv, Reserving, ReservationsDisjoint
<1>3. ASSUME NEW t \in Threads PROVE OpInv(t)' /\ RegionInv(t)'
  <2>1. OpInv(t) /\ RegionInv(t)
    BY DEF VmmInv
  <2>2. OpInv(t)'
    BY <2>1, <1>1 DEF OpInv, InSpace, Concerns
  <2> QED BY <2>1, <2>2, <1>1 DEF RegionInv, Concerns
<1>4. DisjointInv'
  BY <1>1 DEF VmmInv, DisjointInv, FreshInv, Reserving, Concerns
<1>5. CpuInv' /\ FileInv'
  BY <1>1 DEF VmmInv, CpuInv, FileInv, MetadataAccessible, FreesFindRegion
<1>6. \A t \in Threads, f \in Frames : InFlight(t, f)' <=> InFlight(t, f)
  BY <1>1 DEF InFlight
<1> QED BY <1>1, <1>2, <1>3, <1>4, <1>5, <1>6

LEMMA ZeroerInv ==
    ASSUME VmmInv, Zeroer
    PROVE  VmmInv'
<1>1. UNCHANGED others
  BY DEF Zeroer, ZeroerWait, ZeroerTake, ZeroerClear, ZeroerZero, ZeroerRelease
<1>2. /\ SpaceInv' /\ DisjointInv' /\ CpuInv' /\ FileInv'
      /\ \A t \in Threads : OpInv(t)' /\ RegionInv(t)'
      /\ \A t \in Threads, f \in Frames : InFlight(t, f)' <=> InFlight(t, f)
      /\ UNCHANGED <<space, reslock, pt, access, on, pc, op, open, lost, given, crossed,
                     panic>>
  BY <1>1, ZeroerOthers
<1>3. SUFFICES TypeInv' /\ FrameInv' /\ LeakInv'
  BY <1>2 DEF VmmInv
<1>4. CASE UNCHANGED <<bitmap, zlist, zitem, dirty>> /\ zpc' \in {"take", "clear", "wait"}
           /\ zpc \in {"take", "clear", "wait"}
  <2>1. TypeInv'
    BY <1>2, <1>4 DEF VmmInv, TypeInv
  <2>2. FrameInv'
    BY <1>2, <1>4 DEF VmmInv, FrameInv
  <2>3. LeakInv'
    BY <1>2, <1>4 DEF VmmInv, LeakInv, Held, TypeInv
  <2> QED BY <2>1, <2>2, <2>3
<1>5. ASSUME NEW f \in zlist, zpc = "take", zpc' = "zero", zitem' = f, zlist' = zlist \ {f},
             UNCHANGED <<bitmap, dirty>>
      PROVE  TypeInv' /\ FrameInv' /\ LeakInv'
  <2>1. zitem = NoFrame /\ f \in Frames /\ f \in bitmap /\ f # 0 /\ f # NoFrame
    BY <1>5 DEF VmmInv, FrameInv, TypeInv, Frames, NoFrame
  <2>2. TypeInv'
    BY <2>1, <1>2, <1>5 DEF VmmInv, TypeInv
  <2>3. FrameInv'
    BY <2>1, <1>2, <1>5 DEF VmmInv, FrameInv
  <2>4. LeakInv'
    <3> SUFFICES ASSUME NEW x \in bitmap \ {0}, x \notin lost \cup given
                 PROVE  Held(x)'
      BY <1>2, <1>5 DEF LeakInv
    <3>1. Held(x) /\ x \in Frames /\ x # NoFrame
      BY DEF VmmInv, LeakInv, TypeInv, NoFrame, Frames
    <3> QED BY <3>1, <2>1, <1>2, <1>5 DEF Held
  <2> QED BY <2>2, <2>3, <2>4
<1>6. CASE zpc = "zero" /\ zpc' = "release" /\ dirty' = dirty \ {zitem}
           /\ UNCHANGED <<bitmap, zlist, zitem>>
  <2>1. TypeInv'
    BY <1>2, <1>6 DEF VmmInv, TypeInv
  <2>2. FrameInv'
    BY <1>2, <1>6 DEF VmmInv, FrameInv
  <2>3. LeakInv'
    BY <1>2, <1>6 DEF VmmInv, LeakInv, Held, TypeInv
  <2> QED BY <2>1, <2>2, <2>3
<1>7. CASE zpc = "release" /\ zpc' = "wait" /\ zitem' = NoFrame
           /\ bitmap' = PmmReleaseMemory(bitmap, zitem, 1) /\ UNCHANGED <<zlist, dirty>>
  <2>1. zitem \in Frames /\ zitem # NoFrame /\ zitem # 0 /\ zitem \notin dirty
    BY <1>7 DEF VmmInv, FrameInv, TypeInv
  <2>2. bitmap' = bitmap \ {zitem}
    BY <2>1, <1>7 DEF PmmReleaseMemory, FrameRun, Frames
  <2>3. TypeInv'
    BY <2>1, <2>2, <1>2, <1>7 DEF VmmInv, TypeInv
  <2>4. NoFrame \notin bitmap
    BY DEF VmmInv, TypeInv, NoFrame, Frames
  <2>5. FrameInv'
    <3>1. \A p \in Pages : pt'[p] # NoFrame => pt'[p] \in bitmap' \ (zlist' \cup {zitem', 0})
      BY <2>2, <1>2, <1>7 DEF VmmInv, FrameInv
    <3>2. \A t \in Threads, f \in Frames :
            InFlight(t, f)' =>
              /\ f \in bitmap' \ (zlist' \cup {zitem', 0})
              /\ \A p \in Pages : pt'[p] # f
              /\ \A u \in Threads : InFlight(u, f)' => u = t
      BY <2>2, <2>4, <1>2, <1>7 DEF VmmInv, FrameInv
    <3>3. zlist' \subseteq bitmap' \ {zitem', 0} /\ dirty' \subseteq bitmap'
      BY <2>1, <2>2, <2>4, <1>7 DEF VmmInv, FrameInv
    <3> QED BY <3>1, <3>2, <3>3, <1>2, <1>7 DEF VmmInv, FrameInv
  <2>6. LeakInv'
    <3> SUFFICES ASSUME NEW x \in bitmap' \ {0}, x \notin lost \cup given
                 PROVE  Held(x)'
      BY <1>2 DEF LeakInv
    <3>1. Held(x) /\ x \in Frames /\ x # zitem
      BY <2>2 DEF VmmInv, LeakInv, TypeInv
    <3> QED BY <3>1, <1>2, <1>7 DEF Held
  <2> QED BY <2>3, <2>5, <2>6
<1>8. CASE ZeroerTake
  BY <1>8, <1>4, <1>5 DEF ZeroerTake
<1>9. CASE ZeroerWait \/ ZeroerClear
  BY <1>9, <1>4 DEF ZeroerWait, ZeroerClear
<1>10. CASE ZeroerZero \/ ZeroerRelease
  BY <1>10, <1>6, <1>7 DEF ZeroerZero, ZeroerRelease
<1> QED BY <1>8, <1>9, <1>10 DEF Zeroer
LEMMA ContinueInv ==
    ASSUME VmmInv, NEW t \in Threads, Continue(t)
    PROVE  VmmInv'
<1>1. CASE AllocLock(t) \/ AllocRefused(t) \/ AllocReserve(t) \/ AllocCommit(t)
  BY <1>1, AllocLockInv, AllocRefusedInv, AllocReserveInv, AllocCommitInv
<1>2. CASE AllocFrames(t) \/ AllocMap(t) \/ AllocRead(t)
  BY <1>2, AllocFramesInv, AllocMapInv, AllocReadInv
<1>3. CASE FreeChange(t) \/ FreeBitmap(t) \/ FreeClose(t) \/ FreeUnmap(t)
  BY <1>3, FreeChangeInv, FreeBitmapInv, FreeCloseInv, FreeUnmapInv
<1>4. CASE FaultCheck(t) \/ FaultFrame(t) \/ FaultMap(t) \/ FaultFill(t)
  BY <1>4, FaultCheckInv, FaultFrameInv, FaultMapInv, FaultFillInv
<1> QED BY <1>1, <1>2, <1>3, <1>4 DEF Continue

LEMMA StutterInv ==
    ASSUME VmmInv, UNCHANGED vars
    PROVE  VmmInv'
<1>1. UNCHANGED <<bitmap, space, reslock, pt, access, on, pc, op, zlist, newPages, zpc, zitem,
                  open, dirty, lost, given, met, moved, crossed, panic>>
  BY DEF vars
<1>2. UNCHANGED others
  BY <1>1 DEF others, ghosts
<1>3. /\ SpaceInv' /\ DisjointInv' /\ CpuInv' /\ FileInv'
      /\ \A t \in Threads : OpInv(t)' /\ RegionInv(t)'
  BY <1>2, ZeroerOthers
<1>4. TypeInv' /\ FrameInv' /\ LeakInv'
  BY <1>1 DEF VmmInv, TypeInv, FrameInv, LeakInv, Held, InFlight
<1> QED BY <1>3, <1>4 DEF VmmInv

LEMMA NextInv == VmmInv /\ [Next]_vars => VmmInv'
<1> SUFFICES ASSUME VmmInv, [Next]_vars PROVE VmmInv'
  OBVIOUS
<1>1. ASSUME NEW t \in Threads, NEW c \in Cpus, CanBegin(t, c), Request(t, c) PROVE VmmInv'
  BY <1>1, RequestInv
<1>2. ASSUME NEW t \in Threads, NEW c \in Cpus, Migrate(t, c) PROVE VmmInv'
  BY <1>2, MigrateInv
<1>3. ASSUME NEW t \in Threads, Continue(t) PROVE VmmInv'
  BY <1>3, ContinueInv
<1>4. CASE Zeroer
  BY <1>4, ZeroerInv
<1>5. CASE Halted \/ UNCHANGED vars
  BY <1>5, StutterInv DEF Halted
<1> QED BY <1>1, <1>2, <1>3, <1>4, <1>5 DEF Next

(* The inductive invariant holds in every reachable state of the memory    *)
(* manager, whatever the threads of the kernel ask of it.                  *)
THEOREM VmmInvariance == Spec => []VmmInv
<1>1. Init => VmmInv
  BY InitInv
<1>2. VmmInv /\ [Next]_vars => VmmInv'
  BY NextInv
<1> QED BY <1>1, <1>2, PTL DEF Spec
-----------------------------------------------------------------------------
(* What the invariant says about frames.                                   *)

LEMMA VmmTypeOK == VmmInv => TypeOK
<1> SUFFICES ASSUME VmmInv PROVE TypeOK
  OBVIOUS
<1>1. Shape(space) /\ space.list \in Seq(Entry)
  BY DEF VmmInv, SpaceInv, Shape, Spaces
<1>2. ASSUME NEW i \in DOMAIN space.list
      PROVE  /\ space.list[i].state \in {"Free", "Used", "Last"}
             /\ (space.list[i].state = "Last") = (i = Len(space.list))
             /\ space.list[i].commit \subseteq PageRun(space.list[i].start, space.list[i].size)
  <2>1. space.list[i] \in Entry
    BY <1>1
  <2>2. CASE space.list[i].state = "Used"
    <3>1. i \in Used(space)
      BY <2>2, <1>1, UsedSlots
    <3> QED BY <3>1, <2>1, <1>1 DEF Shape, Entry, VmmInv, SpaceInv, EntryInv
  <2>3. CASE space.list[i].state # "Used"
    BY <2>1, <2>3, <1>1 DEF Shape, Entry
  <2> QED BY <2>2, <2>3
<1> QED BY <1>2 DEF TypeOK, VmmInv, TypeInv

(* A frame held twice would break FrameInv, held and not reserved as well. *)
LEMMA OneHolder ==
    ASSUME VmmInv, NEW f \in Frames \ {0}
    PROVE  /\ \A x, y \in Holders(f) : x = y
           /\ Holders(f) # {} => f \in bitmap
           /\ Held(f) => Holders(f) # {}
<1>1. f # NoFrame
  BY DEF NoFrame, Frames
<1>2. /\ \A p, q \in Pages : pt[p] = f /\ pt[q] = f => p = q
      /\ \A p \in Pages : pt[p] = f => f \in bitmap /\ f \notin zlist /\ f # zitem
      /\ \A t \in Threads : InFlight(t, f) =>
            /\ f \in bitmap /\ f \notin zlist /\ f # zitem
            /\ \A p \in Pages : pt[p] # f
            /\ \A u \in Threads : InFlight(u, f) => u = t
      /\ f \in zlist => f \in bitmap /\ f # zitem
      /\ f = zitem => f \in bitmap
  BY <1>1 DEF VmmInv, FrameInv
<1>3. PICK A, B, C, D :
        /\ A = {<<"page", p>> : p \in {q \in Pages : pt[q] = f}}
        /\ B = {<<"thread", t>> : t \in {u \in Threads : InFlight(u, f)}}
        /\ C = {<<"queue", x>> : x \in zlist \cap {f}}
        /\ D = {<<"zeroer", x>> : x \in {zitem} \cap {f}}
  OBVIOUS
<1>4. Holders(f) = A \cup B \cup C \cup D
  BY <1>3 DEF Holders
<1>5. /\ A # {} => \E p \in Pages : pt[p] = f
      /\ B # {} => \E t \in Threads : InFlight(t, f)
      /\ C # {} => f \in zlist
      /\ D # {} => f = zitem
  BY <1>3
<1>6. /\ \A x, y \in A : x = y
      /\ \A x, y \in B : x = y
      /\ \A x, y \in C : x = y
      /\ \A x, y \in D : x = y
  BY <1>2, <1>3
<1>7. /\ A # {} => B = {} /\ C = {} /\ D = {}
      /\ B # {} => A = {} /\ C = {} /\ D = {}
      /\ C # {} => A = {} /\ B = {} /\ D = {}
      /\ D # {} => A = {} /\ B = {} /\ C = {}
  BY <1>2, <1>5
<1>8. \A x, y \in Holders(f) : x = y
  BY <1>4, <1>6, <1>7
<1>9. Holders(f) # {} => f \in bitmap
  BY <1>2, <1>4, <1>5
<1>10. Held(f) => Holders(f) # {}
  <2>1. /\ (\E p \in Pages : pt[p] = f) => A # {}
        /\ (\E t \in Threads : InFlight(t, f)) => B # {}
        /\ f \in zlist => C # {}
        /\ f = zitem => D # {}
    BY <1>3
  <2> QED BY <2>1, <1>4 DEF Held
<1> QED BY <1>8, <1>9, <1>10

LEMMA VmmFrames == VmmInv => FramesAccounted
<1> SUFFICES ASSUME VmmInv PROVE FramesAccounted
  OBVIOUS
<1>1. TypeOK
  BY VmmTypeOK
<1>2. FrameHeldOnce
  <2> SUFFICES ASSUME NEW f \in Frames \ {0}
               PROVE  \/ Cardinality(Holders(f)) = 0
                      \/ Cardinality(Holders(f)) = 1 /\ f \in bitmap
    BY DEF FrameHeldOnce
  <2>1. CASE Holders(f) = {}
    BY <2>1, FS_EmptySet
  <2>2. CASE Holders(f) # {}
    <3>1. PICK x : x \in Holders(f)
      BY <2>2
    <3>2. Holders(f) = {x}
      BY <3>1, OneHolder
    <3>3. Cardinality({x}) = 1
      BY FS_Singleton
    <3> QED BY <3>2, <3>3, <2>2, OneHolder
  <2> QED BY <2>1, <2>2
<1>3. NoFrameLeak
  <2> SUFFICES ASSUME NEW f \in bitmap \ {0}, Holders(f) = {}
               PROVE  f \in lost \cup given
    BY DEF NoFrameLeak
  <2>1. f \in Frames \ {0}
    BY DEF VmmInv, TypeInv
  <2> QED BY <2>1, OneHolder DEF VmmInv, LeakInv
<1>4. FreeFramesClean
  BY DEF VmmInv, FrameInv, FreeFramesClean
<1> QED BY <1>1, <1>2, <1>3, <1>4 DEF FramesAccounted

(* pmm.c keeps no owners, so it is up to its callers: a frame is free and  *)
(* clean, or reserved with exactly one holder (a mapping, a thread about   *)
(* to map it, the queue of the zeroer or the zeroer), unless it was given  *)
(* to a process or lost where a mapping was overwritten.                   *)
THEOREM FramesCorrect == Spec => []FramesAccounted
<1>1. VmmInv => FramesAccounted
  BY VmmFrames
<1> QED BY <1>1, VmmInvariance, PTL
-----------------------------------------------------------------------------
(* What it says about regions, files and buffers.                          *)

LEMMA VmmFilesOpen == VmmInv => FileOpenWhileMapped
<1> SUFFICES ASSUME VmmInv PROVE FileOpenWhileMapped
  OBVIOUS
<1>1. \A i \in Used(space) : space.list[i].file \in open \cup {NoFile}
  BY DEF VmmInv, FileInv
<1>2. ASSUME ~crossed, NEW t \in Threads, pc[t] = "aRead"
      PROVE  op[t].file \in open \cup {NoFile}
  BY <1>1, <1>2 DEF VmmInv, RegionInv
<1>3. ASSUME ~crossed, NEW t \in Threads, pc[t] = "pFill"
      PROVE  op[t].file \in open \cup {NoFile}
  <2>1. pc[t] \in Filling
    BY <1>3 DEF Filling
  <2> QED BY <2>1, <1>1, <1>3 DEF VmmInv, FileInv
<1> QED BY <1>1, <1>2, <1>3 DEF FileOpenWhileMapped

(* The pages a buffer check probes, with two bytes to a page.              *)
LEMMA ProbedPages ==
    ASSUME NEW va \in Nat, NEW offset \in {0, 1}, NEW size \in Nat, size > 0,
           NEW last, last = (2 * va + offset + size - 1) \div 2, NEW p \in va .. last
    PROVE  /\ va <= last /\ last \in Nat
           /\ \/ /\ 2 * (p - va) < size /\ p - va \in 0 .. size
                 /\ (2 * va + offset + (p - va) * 2) \div 2 = p
              \/ offset # 0 /\ p = last /\ p # va
<1>1. offset = 0 \/ offset = 1
  OBVIOUS
<1> QED BY <1>1, SMTT(30)

LEMMA VmmBuffers == VmmInv => BufferCheckSound
<1> SUFFICES ASSUME VmmInv,
                    \A i, j \in Used(space) : i # j => ~Overlap(space.list[i], space.list[j]),
                    NEW va \in RegionPages, NEW offset \in {0, 1}, NEW size \in 1 .. 2 * MaxPages,
                    VmmIsBufferValid(space, 2 * va + offset, size, 2, {"read", "write"}),
                    NEW p \in va .. ((2 * va + offset + size - 1) \div 2)
             PROVE  \/ VmReservationCanAddressBeAccessed(space, p, {"read", "write"})
                    \/ offset # 0 /\ p = (2 * va + offset + size - 1) \div 2 /\ p # va
  BY DEF BufferCheckSound
<1>1. PICK addr, last : addr = 2 * va + offset /\ last = (2 * va + offset + size - 1) \div 2
  OBVIOUS
<1>2. /\ va \in Nat /\ size \in Nat /\ size > 0 /\ addr \in Nat
      /\ addr \div 2 = va /\ last = (addr + size - 1) \div 2 /\ p \in va .. last
  BY <1>1, PageNumbers, VmmAssumption
<1>3. /\ va <= last /\ last \in Nat
      /\ \/ /\ 2 * (p - va) < size /\ p - va \in 0 .. size
            /\ (2 * va + offset + (p - va) * 2) \div 2 = p
         \/ offset # 0 /\ p = last /\ p # va
  BY <1>1, <1>2, ProbedPages
<1>4. CASE offset # 0 /\ p = last /\ p # va
  BY <1>1, <1>4
<1>5. CASE /\ 2 * (p - va) < size /\ p - va \in 0 .. size
           /\ (2 * va + offset + (p - va) * 2) \div 2 = p
  <2>1. PICK i : i = VmFindReservation(space, va, last - va + 1)
    OBVIOUS
  <2>2. PICK probed : probed = {(addr + k * 2) \div 2 : k \in {j \in 0 .. size : j * 2 < size}}
    OBVIOUS
  <2>3. PICK granted : granted = VmReservationReturnRightsForAddress(space, addr, size, 2)
    OBVIOUS
  <2>4. granted # {} /\ {"read", "write"} \subseteq granted
    BY <2>3, <1>1 DEF VmmIsBufferValid
  <2>5. granted = IF i # 0 /\ \A q \in probed : VmIsVaCommited(space.list[i], q)
                  THEN RightsOf(space.list[i].attr) ELSE {}
    BY <2>1, <2>2, <2>3, <1>2 DEF VmReservationReturnRightsForAddress
  <2>6. /\ i # 0 /\ \A q \in probed : q \in space.list[i].commit
        /\ {"read", "write"} \subseteq RightsOf(space.list[i].attr)
    BY <2>4, <2>5 DEF VmIsVaCommited
  <2>7. p \in probed
    <3>1. PICK k \in 0 .. size : k = p - va
      BY <1>5
    <3>2. k * 2 < size /\ (addr + k * 2) \div 2 = p
      BY <3>1, <1>1, <1>2, <1>5
    <3> QED BY <3>1, <3>2, <2>2
  <2>8. Shape(space) /\ p \in Nat
    BY <1>2, <1>3 DEF VmmInv, SpaceInv
  <2>9. i \in Used(space) /\ PageRun(va, last - va + 1) \subseteq
                                PageRun(space.list[i].start, space.list[i].size)
    BY <2>1, <2>6, <2>8, <1>2, <1>3, FindReservation
  <2>10. p \in PageRun(va, last - va + 1) /\ PageRun(p, 1) = {p}
    BY <2>8, <1>2, <1>3 DEF PageRun
  <2>11. i \in Containing(space, p, 1)
    BY <2>9, <2>10 DEF Containing
  <2>12. PICK j : j = VmFindReservation(space, p, 1)
    OBVIOUS
  <2>13. j \in Containing(space, p, 1)
    BY <2>8, <2>11, <2>12, FindReservation
  <2>14. j = i
    <3>1. Overlap(space.list[j], space.list[i])
      BY <2>10, <2>11, <2>13 DEF Overlap, Containing
    <3> QED BY <3>1, <2>9, <2>13 DEF Containing
  <2>15. VmReservationCanAddressBeAccessed(space, p, {"read", "write"})
    BY <2>6, <2>7, <2>12, <2>14 DEF VmReservationCanAddressBeAccessed, VmIsVaCommited
  <2> QED BY <2>15
<1> QED BY <1>3, <1>4, <1>5

(* Regions with files and with chosen addresses, wherever these lie: frames *)
(* are accounted for; two reservations share a page only where a caller     *)
(* chose the address of one of them; no file is closed under a region nor,  *)
(* unless reservations crossed, under a fault that fills a page from it; a  *)
(* free finds its region, unless they crossed; and VmmIsBufferValid accepts *)
(* only committed memory (but for the last page of a buffer that does not   *)
(* begin at a page boundary).                                               *)
THEOREM RegionsCorrect == Spec => []RegionsSound
<1>1. VmmInv => RegionsSound
  BY VmmFrames, VmmFilesOpen, VmmBuffers DEF RegionsSound, VmmInv, SpaceInv, CpuInv
<1> QED BY <1>1, VmmInvariance, PTL

(* VmmMemoryAccess is only ever found clear by the holder of               *)
(* ReservationLock when some thread was moved to another processor while   *)
(* it had the flag of its old one set.                                     *)
THEOREM MetadataCorrect == Spec => []MetadataAccessible
<1>1. VmmInv => MetadataAccessible
  BY DEF VmmInv, CpuInv
<1> QED BY <1>1, VmmInvariance, PTL

(* A thread leaves VmmAllocRegionEx behind the reservation by one of three *)
(* steps.                                                                  *)
LEMMA EagerReturns ==
    ASSUME VmmInv, [Next]_vars, NEW t \in Threads, pc[t] \in {"aFrames", "aMap", "aRead"},
           pc'[t] = "idle"
    PROVE  AllocFrames(t) \/ AllocMap(t) \/ AllocRead(t)
<1>1. pc \in [Threads -> Labels]
  BY DEF VmmInv, TypeInv
<1>2. ASSUME NEW u \in Threads, NEW c \in Cpus, CanBegin(u, c), Request(u, c) PROVE FALSE
  <2>1. PICK l : pc' = [pc EXCEPT ![u] = l] /\ l \in {"aLock", "fLock", "pCheck"}
    BY <1>2 DEF Request, AllocFresh, AllocAt, FreeRelease, FreeDecommit, Fault, Begin, Goto
  <2> QED BY <2>1, <1>1
<1>3. ASSUME NEW u \in Threads, Continue(u) PROVE AllocFrames(t) \/ AllocMap(t) \/ AllocRead(t)
  <2>1. CASE u # t
    <3>1. pc' = pc \/ \E l : pc' = [pc EXCEPT ![u] = l]
      BY <1>3 DEF Continue, AllocLock, AllocRefused, AllocReserve, AllocCommit, AllocFrames,
                  AllocMap, AllocRead, FreeChange, FreeBitmap, FreeClose, FreeUnmap, FaultCheck,
                  FaultFrame, FaultMap, FaultFill, AfterChange, Proceed, Return, Panic, Goto
    <3> QED BY <3>1, <2>1, <1>1
  <2>2. CASE u = t
    BY <1>3, <2>2 DEF Continue, At, AllocLock, AllocRefused, AllocReserve, AllocCommit,
                      FreeChange, FreeBitmap, FreeClose, FreeUnmap, FaultCheck, FaultFrame,
                      FaultMap, FaultFill
  <2> QED BY <2>1, <2>2
<1>4. (\E u \in Threads, c \in Cpus : Migrate(u, c)) \/ Zeroer \/ Halted \/ UNCHANGED vars =>
        pc' = pc
  BY DEF Migrate, Zeroer, ZeroerWait, ZeroerTake, ZeroerClear, ZeroerZero, ZeroerRelease,
         Halted, others, vars
<1> QED BY <1>2, <1>3, <1>4 DEF Next

LEMMA EagerStep ==
    ASSUME VmmInv, [Next]_vars, NEW t \in Threads, pc[t] \in {"aFrames", "aMap", "aRead"},
           pc'[t] = "idle"
    PROVE  \/ \A p \in PageRun(op[t].va, op[t].n) :
                  pt'[p] # NoFrame /\ pt'[p] = pt'[op[t].va] + (p - op[t].va)
           \/ pc[t] = "aFrames" /\ ClearRuns(bitmap, 0, op[t].n) = {}
           \/ crossed
<1>1. /\ OpInv(t) /\ op[t].va \in Nat /\ op[t].n \in Nat /\ op[t].frame \in Frames \cup {NoFrame}
      /\ pc \in [Threads -> Labels]
  BY OpTypes DEF VmmInv, TypeInv
<1>2. Concerns(t) = PageRun(op[t].va, op[t].n) /\ Concerns(t) \subseteq Pages
      /\ op[t].va \in Concerns(t) /\ op[t].n > 0
  <2>1. pc[t] # "idle"
    OBVIOUS
  <2> QED BY <2>1, <1>1, ConcernsPages DEF Concerns, OpInv, InSpace
<1>3. ASSUME op[t].frame # NoFrame,
             \A p \in Concerns(t) : pt'[p] = op[t].frame + (p - op[t].va)
      PROVE  \A p \in Concerns(t) :
                 pt'[p] # NoFrame /\ pt'[p] = pt'[op[t].va] + (p - op[t].va)
  <2>1. op[t].frame \in Nat
    BY <1>1, <1>3 DEF Frames
  <2>2. \A p \in Concerns(t) : p \in Nat /\ p >= op[t].va
    BY <1>1, <1>2 DEF PageRun
  <2>3. pt'[op[t].va] = op[t].frame
    BY <2>1, <1>1, <1>2, <1>3
  <2> QED BY <2>1, <2>2, <2>3, <1>1, <1>3 DEF NoFrame
<1>4. CASE AllocFrames(t)
  <2>1. PICK f : f = PmmReserveMemoryEx(bitmap, op[t].n, 0)
    OBVIOUS
  <2>2. /\ pc[t] = "aFrames"
        /\ IF f = NoFrame THEN Return(t) ELSE Proceed(t, "aMap", [op[t] EXCEPT !.frame = f])
    BY <2>1, <1>4 DEF AllocFrames, At
  <2>3. f = NoFrame
    BY <2>2, <1>1 DEF Proceed, Goto
  <2>4. ClearRuns(bitmap, 0, op[t].n) = {}
    BY <2>1, <2>3, <1>1, <1>2, ReserveMemory
  <2> QED BY <2>2, <2>4
<1>5. CASE AllocMap(t)
  <2>1. /\ pc[t] = "aMap"
        /\ pt' = [p \in Pages |-> IF p \in Concerns(t) THEN op[t].frame + (p - op[t].va) ELSE pt[p]]
    BY <1>5, <1>2 DEF AllocMap, At
  <2>2. op[t].frame # NoFrame /\ \A p \in Concerns(t) : pt'[p] = op[t].frame + (p - op[t].va)
    BY <2>1, <1>1, <1>2 DEF OpInv
  <2> QED BY <2>2, <1>2, <1>3
<1>6. CASE AllocRead(t)
  <2>1. pc[t] = "aRead" /\ pt' = pt
    BY <1>6 DEF AllocRead, At
  <2>2. CASE ~crossed
    <3>1. op[t].frame # NoFrame /\ \A p \in Concerns(t) : pt'[p] = op[t].frame + (p - op[t].va)
      BY <2>1, <2>2, <1>1, <1>2 DEF OpInv
    <3> QED BY <3>1, <1>2, <1>3
  <2> QED BY <2>2
<1> QED BY <1>4, <1>5, <1>6, EagerReturns

(* VmmAllocRegionEx that returns to a caller who asked for                 *)
(* VMM_ALLOC_TYPE_NOT_LAZY has mapped the whole region in order to         *)
(* contiguous frames, unless no run of frames was free, or reservations    *)
(* crossed and the owner of another region unmapped pages of this one.     *)
THEOREM EagerMapped == Spec => EagerIsMapped
<1>1. VmmInv /\ [Next]_vars =>
        [\A t \in Threads :
            pc[t] \in {"aFrames", "aMap", "aRead"} /\ pc'[t] = "idle" =>
              \/ \A p \in PageRun(op[t].va, op[t].n) :
                    pt'[p] # NoFrame /\ pt'[p] = pt'[op[t].va] + (p - op[t].va)
              \/ pc[t] = "aFrames" /\ ClearRuns(bitmap, 0, op[t].n) = {}
              \/ crossed]_vars
  BY EagerStep
<1> QED BY <1>1, VmmInvariance, PTL DEF Spec, EagerIsMapped
-----------------------------------------------------------------------------
(* Commitments, when no caller chooses an address.                         *)

(* A lookup by address finds the entry in which the page is committed.     *)
LEMMA AccessBacked ==
    ASSUME NEW sp, Shape(sp), NEW p \in Nat, NEW rights,
           \A i \in Used(sp) : sp.list[i].commit \subseteq PageRun(sp.list[i].start, sp.list[i].size),
           \A i, j \in Used(sp) : i # j => ~Overlap(sp.list[i], sp.list[j])
    PROVE  VmReservationCanAddressBeAccessed(sp, p, rights) <=> Backed(sp, p, rights)
<1>1. PICK k : k = VmFindReservation(sp, p, 1)
  OBVIOUS
<1>2. PageRun(p, 1) = {p}
  BY DEF PageRun
<1>3. ASSUME VmReservationCanAddressBeAccessed(sp, p, rights) PROVE Backed(sp, p, rights)
  <2>1. k # 0 /\ p \in sp.list[k].commit /\ rights \subseteq RightsOf(sp.list[k].attr)
    BY <1>1, <1>3 DEF VmReservationCanAddressBeAccessed, VmIsVaCommited
  <2>2. k \in Used(sp)
    BY <2>1, <1>1, FindReservation
  <2> QED BY <2>1, <2>2 DEF Backed
<1>4. ASSUME Backed(sp, p, rights) PROVE VmReservationCanAddressBeAccessed(sp, p, rights)
  <2>1. PICK i \in Used(sp) : p \in sp.list[i].commit /\ rights \subseteq RightsOf(sp.list[i].attr)
    BY <1>4 DEF Backed
  <2>2. i \in Containing(sp, p, 1)
    BY <2>1, <1>2 DEF Containing
  <2>3. k \in Containing(sp, p, 1) /\ k \in Used(sp)
    BY <2>2, <1>1, FindReservation DEF Containing
  <2>4. k = i
    BY <2>1, <2>2, <2>3, <1>2 DEF Overlap, Containing
  <2>5. k # 0
    BY <2>3, UsedSlots DEF Shape, Spaces
  <2> QED BY <2>1, <2>4, <2>5, <1>1 DEF VmReservationCanAddressBeAccessed, VmIsVaCommited
<1> QED BY <1>3, <1>4

(* Reservations are disjoint and lie in what was handed out.               *)
LEMMA SpaceDisjoint ==
    ASSUME FixedBases = {}, VmmInv
    PROVE  /\ Shape(space) /\ ~crossed
           /\ \A i \in Used(space) :
                 /\ space.list[i].commit \subseteq PageRun(space.list[i].start, space.list[i].size)
                 /\ space.list[i].start + space.list[i].size <= space.next
           /\ \A i, j \in Used(space) : i # j => ~Overlap(space.list[i], space.list[j])
  BY DEF VmmInv, TypeInv, SpaceInv, EntryInv

LEMMA CommitUnchanged ==
    ASSUME CommitInv, UNCHANGED <<space, pt, pc, op, met>>
    PROVE  CommitInv'
  BY DEF CommitInv, MappedInv, MetInv, CommitOp, Concerns

(* A step of t: the other threads keep what they know, since only a thread *)
(* that frees takes pages away, and those are its own.                     *)
LEMMA CommitStep ==
    ASSUME FixedBases = {}, VmmInv, CommitInv, NEW t \in Threads, Local(t),
           \A p \in RegionPages : p \notin Concerns(t) => pt'[p] = pt[p],
           \A p, rights : Backed(space, p, rights) /\ (op[t].kind = "free" => p \notin Concerns(t))
                              => Backed(space', p, rights),
           met \subseteq met', CommitOp(t)',
           \A p \in Concerns(t) : pt'[p] # NoFrame =>
               Backed(space', p, {}) \/ (op'[t].kind = "free" /\ p \in Concerns(t)'),
           op'[t].kind = "fault" =>
               \/ op[t].kind = "fault" /\ op'[t].va = op[t].va
               \/ \A u \in Threads : u # t /\ op[u].kind = "fault" /\ op[u].va = op'[t].va =>
                      op'[t].va \in met'
    PROVE  CommitInv'
<1>1. \A u \in Threads : u # t => pc'[u] = pc[u] /\ op'[u] = op[u] /\ Concerns(u)' = Concerns(u)
  BY DEF Local, Concerns
<1>2. MappedInv'
  <2> SUFFICES ASSUME NEW p \in RegionPages, pt'[p] # NoFrame
               PROVE  \/ Backed(space', p, {})
                      \/ \E u \in Threads : op'[u].kind = "free" /\ p \in Concerns(u)'
    BY DEF MappedInv
  <2>1. CASE p \in Concerns(t)
    BY <2>1
  <2>2. CASE p \notin Concerns(t)
    <3>1. Backed(space, p, {}) \/ \E u \in Threads : op[u].kind = "free" /\ p \in Concerns(u)
      BY <2>2 DEF CommitInv, MappedInv
    <3> QED BY <3>1, <2>2, <1>1
  <2> QED BY <2>1, <2>2
<1>3. MetInv'
  <2> SUFFICES ASSUME NEW u \in Threads, NEW v \in Threads, u # v, op'[u].kind = "fault",
                      op'[v].kind = "fault", op'[u].va = op'[v].va
               PROVE  op'[u].va \in met'
    BY DEF MetInv
  <2>1. CASE u = t
    BY <2>1, <1>1 DEF CommitInv, MetInv
  <2>2. CASE v = t
    BY <2>2, <1>1 DEF CommitInv, MetInv
  <2>3. CASE u # t /\ v # t
    BY <2>3, <1>1 DEF CommitInv, MetInv
  <2> QED BY <2>1, <2>2, <2>3
<1>4. ASSUME NEW u \in Threads, u # t PROVE CommitOp(u)'
  <2>1. pc'[u] = pc[u] /\ op'[u] = op[u] /\ Concerns(u)' = Concerns(u) /\ CommitOp(u) /\ OpInv(u)
    BY <1>1, <1>4 DEF CommitInv, VmmInv
  <2>2. op[t].kind = "free" => Concerns(u) \cap Concerns(t) = {}
    BY <1>4, SpaceDisjoint DEF VmmInv, DisjointInv
  <2>3. pc[u] # "idle" => op[u].va \in Concerns(u) /\ Concerns(u) \subseteq RegionPages
    BY ConcernsPages
  <2>4. pc[u] = "pCheck" => Backed(space', op[u].va, op[u].type)
    BY <2>1, <2>2, <2>3 DEF CommitOp
  <2>5. pc[u] \in {"aFrames", "aMap", "aRead", "pFrame", "pMap", "pFill"} =>
          \A p \in Concerns(u) : Backed(space', p, {})
    BY <2>1, <2>2 DEF CommitOp
  <2>6. ASSUME pc[u] \in {"aLock", "aChange", "aFrames", "aMap"}, NEW p \in Concerns(u)
        PROVE  pt'[p] = NoFrame
    <3>1. op[u].kind # "fault" /\ p \in RegionPages
      BY <2>1, <2>3, <2>6 DEF OpInv, AllocLabels
    <3>2. p \notin Concerns(t)
      BY <3>1, <1>4, SpaceDisjoint DEF VmmInv, DisjointInv
    <3> QED BY <3>1, <3>2, <2>1, <2>6 DEF CommitOp
  <2>7. ASSUME pc[u] \in {"pCheck", "pFrame", "pMap"}, pt'[op[u].va] # NoFrame
        PROVE  op[u].va \in met'
    <3>1. op[u].va \in Concerns(u) /\ op[u].va \in RegionPages
      BY <2>3, <2>7
    <3>2. CASE op[u].va \notin Concerns(t)
      BY <3>1, <3>2, <2>1, <2>7 DEF CommitOp
    <3>3. CASE op[u].va \in Concerns(t)
      <4>1. op[u].kind = "fault" /\ op[t].kind = "fault"
        BY <3>1, <3>3, <1>4, SpaceDisjoint DEF VmmInv, DisjointInv
      <4>2. pc[t] \in FaultLabels
        <5>1. OpInv(t) /\ pc[t] \in Labels
          BY DEF VmmInv, TypeInv
        <5>2. op[t].kind \notin {"alloc", "free", "none"}
          BY <4>1
        <5>3. pc[t] # "idle"
          BY <5>1, <5>2, ConcernsIdle, <3>3 DEF OpInv
        <5> QED BY <5>1, <5>2, <5>3 DEF OpInv, Labels
      <4>3. Concerns(t) = PageRun(op[t].va, 1) /\ op[t].va \in Nat
        BY <4>2, FaultFacts
      <4>4. op[u].va = op[t].va
        BY <3>3, <4>3 DEF PageRun
      <4> QED BY <4>1, <4>4, <1>4 DEF CommitInv, MetInv
    <3> QED BY <3>2, <3>3
  <2> QED BY <2>1, <2>4, <2>5, <2>6, <2>7 DEF CommitOp
<1> QED BY <1>2, <1>3, <1>4 DEF CommitInv

(* A step of t that leaves space, page tables and met alone.               *)
LEMMA CommitQuiet ==
    ASSUME FixedBases = {}, VmmInv, CommitInv, NEW t \in Threads, Local(t), UNCHANGED <<space, pt, met>>,
           CommitOp(t)',
           op[t].kind = "free" => op'[t].kind = "free" /\ Concerns(t)' = Concerns(t),
           op'[t].kind = "fault" => op[t].kind = "fault" /\ op'[t].va = op[t].va
    PROVE  CommitInv'
<1>1. ASSUME NEW p \in Concerns(t), pt'[p] # NoFrame
      PROVE  Backed(space', p, {}) \/ (op'[t].kind = "free" /\ p \in Concerns(t)')
  <2>1. p \in RegionPages
    BY ConcernsPages, ConcernsIdle DEF VmmInv, OpInv
  <2>2. Backed(space, p, {}) \/ \E u \in Threads : op[u].kind = "free" /\ p \in Concerns(u)
    BY <2>1, <1>1 DEF CommitInv, MappedInv
  <2>3. CASE \E u \in Threads : op[u].kind = "free" /\ p \in Concerns(u)
    <3>1. op[t].kind = "free"
      BY <2>3, SpaceDisjoint DEF VmmInv, DisjointInv
    <3> QED BY <3>1
  <2> QED BY <2>2, <2>3
<1>2. \A p, rights : Backed(space, p, rights) => Backed(space', p, rights)
  OBVIOUS
<1>3. met \subseteq met' /\ \A p \in RegionPages : pt'[p] = pt[p]
  OBVIOUS
<1> QED BY <1>1, <1>2, <1>3, CommitStep

LEMMA CommitReturn ==
    ASSUME FixedBases = {}, VmmInv, CommitInv, NEW t \in Threads, Return(t), UNCHANGED <<space, pt, met>>,
           op[t].kind # "free"
    PROVE  CommitInv'
<1>1. Local(t) /\ pc'[t] = "idle" /\ op'[t] = NoOp
  BY ReturnFacts
<1>2. CommitOp(t)' /\ op'[t].kind # "fault"
  BY <1>1 DEF CommitOp, NoOp
<1> QED BY <1>1, <1>2, CommitQuiet

LEMMA CommitProceed ==
    ASSUME FixedBases = {}, VmmInv, CommitInv, NEW t \in Threads, NEW l \in Labels, NEW d \in Ops,
           Proceed(t, l, d), UNCHANGED <<space, pt, met>>, d.va = op[t].va, d.n = op[t].n,
           op[t].kind = "free" => d.kind = "free", d.kind = "fault" => op[t].kind = "fault",
           l = "pCheck" => pc[t] = "pCheck" /\ d.type = op[t].type,
           l \in {"aLock", "aChange", "aFrames", "aMap"} =>
               pc[t] \in {"aLock", "aChange", "aFrames", "aMap"},
           l \in {"aFrames", "aMap", "aRead", "pFrame", "pMap", "pFill"} =>
               \/ pc[t] \in {"aFrames", "aMap", "aRead", "pFrame", "pMap", "pFill"}
               \/ \A p \in Concerns(t) : Backed(space, p, {}),
           l \in {"pFrame", "pMap"} => pc[t] \in {"pCheck", "pFrame", "pMap"}
    PROVE  CommitInv'
<1>1. Local(t) /\ pc'[t] = l /\ op'[t] = d
  BY ProceedFacts
<1>2. Concerns(t)' = Concerns(t)
  BY <1>1 DEF Concerns
<1>3. CommitOp(t)
  BY DEF CommitInv
<1>4. CommitOp(t)'
  BY <1>1, <1>2, <1>3 DEF CommitOp
<1> QED BY <1>1, <1>2, <1>4, CommitQuiet

(* The steps that only move a thread on.                                   *)
LEMMA CommitControl ==
    ASSUME FixedBases = {}, VmmInv, CommitInv, NEW t \in Threads,
           \/ AllocLock(t) \/ AllocRefused(t) \/ AllocFrames(t) \/ AllocRead(t)
           \/ FreeClose(t) \/ FaultCheck(t) \/ FaultFrame(t) \/ FaultFill(t)
    PROVE  CommitInv'
<1>1. OpInv(t) /\ op[t] \in Ops /\ op[t].va \in Nat /\ op[t].n \in Nat /\ op[t].frame \in Frames \cup {NoFrame}
  BY OpTypes DEF VmmInv
<1>2. CASE AllocLock(t)
  <2>1. PICK d : d = [op[t] EXCEPT !.cpu = on[t]]
    OBVIOUS
  <2>2. pc[t] = "aLock" /\ Proceed(t, "aChange", d) /\ UNCHANGED <<space, pt, met>>
    BY <2>1, <1>2 DEF AllocLock, At, ghosts
  <2>3. on[t] \in Cpus \cup {Nobody}
    BY DEF VmmInv, TypeInv
  <2>4. d \in Ops /\ d.kind = op[t].kind /\ d.va = op[t].va /\ d.n = op[t].n
    BY <2>1, <2>3, <1>1, SetCpu
  <2>5. "aChange" \in Labels
    BY DEF Labels, AllocLabels
  <2> QED BY <2>2, <2>4, <2>5, CommitProceed
<1>3. CASE AllocRefused(t)
  <2>1. pc[t] = "aChange" /\ Return(t) /\ UNCHANGED <<space, pt, met>>
    BY <1>3 DEF AllocRefused, At, ghosts
  <2>2. op[t].kind # "free"
    BY <2>1, <1>1 DEF OpInv, AllocLabels
  <2> QED BY <2>1, <2>2, CommitReturn
<1>4. CASE AllocFrames(t)
  <2>1. PICK f : f = PmmReserveMemoryEx(bitmap, op[t].n, 0)
    OBVIOUS
  <2>2. PICK d : d = [op[t] EXCEPT !.frame = f]
    OBVIOUS
  <2>3. /\ pc[t] = "aFrames" /\ UNCHANGED <<space, pt, met>>
        /\ IF f = NoFrame THEN Return(t) ELSE Proceed(t, "aMap", d)
    BY <2>1, <2>2, <1>4 DEF AllocFrames, At, ghosts
  <2>4. op[t].kind # "free" /\ op[t].n > 0
    BY <2>3, <1>1 DEF OpInv, AllocLabels, InSpace
  <2>5. CASE f = NoFrame
    BY <2>3, <2>4, <2>5, CommitReturn
  <2>6. CASE f # NoFrame
    <3>1. f \in Frames
      BY <2>1, <2>4, <2>6, <1>1, ReserveMemory
    <3>2. d \in Ops /\ d.kind = op[t].kind /\ d.va = op[t].va /\ d.n = op[t].n
      BY <3>1, <2>2, <1>1, SetFrame
    <3>3. "aMap" \in Labels
      BY DEF Labels, AllocLabels
    <3> QED BY <3>2, <3>3, <2>3, <2>6, CommitProceed
  <2> QED BY <2>5, <2>6
<1>5. CASE AllocRead(t)
  <2>1. PICK d : d = [op[t] EXCEPT !.kind = "free", !.addr = op[t].va,
                                   !.type = {"release", "undo"}, !.release = TRUE]
    OBVIOUS
  <2>2. /\ pc[t] = "aRead" /\ UNCHANGED <<space, pt, met>>
        /\ Return(t) \/ Proceed(t, "fLock", d)
    BY <2>1, <1>5 DEF AllocRead, At, ghosts
  <2>3. op[t].kind # "free"
    BY <2>2, <1>1 DEF OpInv, AllocLabels
  <2>4. d \in Ops /\ d.kind = "free" /\ d.va = op[t].va /\ d.n = op[t].n
    BY <2>1, <1>1, SetRelease
  <2>5. "fLock" \in Labels
    BY DEF Labels, FreeLabels
  <2>6. CASE Proceed(t, "fLock", d)
    BY <2>2, <2>4, <2>5, <2>6, CommitProceed
  <2> QED BY <2>2, <2>3, <2>6, CommitReturn
<1>6. CASE FreeClose(t)
  <2>1. PICK d : d = [op[t] EXCEPT !.cpu = Nobody]
    OBVIOUS
  <2>2. pc[t] = "fClose" /\ Proceed(t, "fUnmap", d) /\ UNCHANGED <<space, pt, met>>
    BY <2>1, <1>6 DEF FreeClose, At, ghosts
  <2>3. d \in Ops /\ d.kind = op[t].kind /\ d.va = op[t].va /\ d.n = op[t].n
    BY <2>1, <1>1, SetCpu
  <2>4. "fUnmap" \in Labels
    BY DEF Labels, FreeLabels
  <2> QED BY <2>2, <2>3, <2>4, CommitProceed
<1>7. CASE FaultCheck(t)
  <2>1. PICK i : i = VmFindReservation(space, op[t].va, 1)
    OBVIOUS
  <2>2. PICK d : d = [op[t] EXCEPT !.file = space.list[i].file]
    OBVIOUS
  <2>3. /\ pc[t] = "pCheck"
        /\ IF VmReservationCanAddressBeAccessed(space, op[t].va, op[t].type)
           THEN Proceed(t, "pFrame", d) /\ UNCHANGED panic ELSE Panic("fault")
        /\ UNCHANGED <<space, pt, met>>
    BY <2>1, <2>2, <1>7 DEF FaultCheck, At, ghosts
  <2>4. CASE VmReservationCanAddressBeAccessed(space, op[t].va, op[t].type)
    <3>1. Shape(space) /\ i # 0
      BY <2>1, <2>4 DEF VmmInv, SpaceInv, VmReservationCanAddressBeAccessed
    <3>2. i \in Used(space)
      BY <3>1, <2>1, <1>1, FindReservation
    <3>3. space.list[i].file \in Files \cup {NoFile}
      BY <3>1, <3>2, SpaceTypes
    <3>4. d \in Ops /\ d.kind = op[t].kind /\ d.va = op[t].va /\ d.n = op[t].n
      BY <3>3, <2>2, <1>1, SetFile
    <3>5. "pFrame" \in Labels /\ pc[t] \in FaultLabels
      BY <2>3 DEF Labels, FaultLabels
    <3>6. \A p \in Concerns(t) : p = op[t].va
      BY <3>5, <1>1, FaultFacts DEF PageRun
    <3>7. Backed(space, op[t].va, {})
      BY <2>3 DEF CommitInv, CommitOp, Backed
    <3> QED BY <3>4, <3>5, <3>6, <3>7, <2>3, <2>4, CommitProceed
  <2>5. CASE ~VmReservationCanAddressBeAccessed(space, op[t].va, op[t].type)
    BY <2>3, <2>5, CommitUnchanged DEF Panic
  <2> QED BY <2>4, <2>5
<1>8. CASE FaultFrame(t)
  <2>1. PICK f : f = PmmReserveMemoryEx(bitmap, 1, 0)
    OBVIOUS
  <2>2. PICK d : d = [op[t] EXCEPT !.frame = f]
    OBVIOUS
  <2>3. /\ pc[t] = "pFrame" /\ UNCHANGED <<space, pt, met>>
        /\ IF f = NoFrame THEN Panic("frames") ELSE Proceed(t, "pMap", d) /\ UNCHANGED panic
    BY <2>1, <2>2, <1>8 DEF FaultFrame, At, ghosts
  <2>4. CASE f = NoFrame
    BY <2>3, <2>4, CommitUnchanged DEF Panic
  <2>5. CASE f # NoFrame
    <3>1. f \in Frames
      BY <2>1, <2>5, ReserveMemory
    <3>2. d \in Ops /\ d.kind = op[t].kind /\ d.va = op[t].va /\ d.n = op[t].n
      BY <3>1, <2>2, <1>1, SetFrame
    <3>3. "pMap" \in Labels
      BY DEF Labels, FaultLabels
    <3> QED BY <3>2, <3>3, <2>3, <2>5, CommitProceed
  <2> QED BY <2>4, <2>5
<1>9. CASE FaultFill(t)
  <2>1. /\ pc[t] = "pFill" /\ UNCHANGED <<space, pt, met>>
        /\ Return(t) \/ Panic("fault")
    BY <1>9 DEF FaultFill, At, ghosts
  <2>2. op[t].kind # "free"
    BY <2>1, <1>1 DEF OpInv, FaultLabels
  <2> QED BY <2>1, <2>2, CommitReturn, CommitUnchanged DEF Panic
<1> QED BY <1>2, <1>3, <1>4, <1>5, <1>6, <1>7, <1>8, <1>9

(* What was committed stays committed when entries only grow.              *)
LEMMA BackedGrows ==
    ASSUME NEW sp, NEW new, Used(sp) \subseteq Used(new),
           \A i \in Used(sp) : /\ sp.list[i].commit \subseteq new.list[i].commit
                               /\ new.list[i].attr = sp.list[i].attr
    PROVE  \A p, rights : Backed(sp, p, rights) => Backed(new, p, rights)
  BY DEF Backed

LEMMA CommitAllocMap ==
    ASSUME FixedBases = {}, VmmInv, CommitInv, NEW t \in Threads, AllocMap(t)
    PROVE  CommitInv' /\ lost' = lost
<1>1. /\ pc[t] = "aMap"
      /\ pt' = [p \in Pages |-> IF p \in Concerns(t) THEN op[t].frame + (p - op[t].va) ELSE pt[p]]
      /\ lost' = lost \cup ({pt[p] : p \in Concerns(t)} \ {NoFrame})
      /\ IF op[t].file = NoFile THEN Return(t) ELSE Proceed(t, "aRead", op[t])
      /\ UNCHANGED <<space, met>>
  BY DEF AllocMap, At, Concerns
<1>2. CommitOp(t) /\ OpInv(t) /\ op[t] \in Ops
  BY OpTypes DEF CommitInv, VmmInv
<1>3. \A p \in Concerns(t) : pt[p] = NoFrame /\ Backed(space, p, {})
  BY <1>1, <1>2 DEF CommitOp
<1>4. lost' = lost
  BY <1>1, <1>3
<1>5. /\ Local(t) /\ pc'[t] \in {"idle", "aRead"} /\ Concerns(t)' \subseteq Concerns(t)
      /\ op'[t].kind # "fault"
  <2>1. CASE op[t].file = NoFile
    <3>1. Return(t)
      BY <1>1, <2>1
    <3> QED BY <3>1, ReturnFacts DEF NoOp
  <2>2. CASE op[t].file # NoFile
    <3>1. Proceed(t, "aRead", op[t]) /\ "aRead" \in Labels
      BY <1>1, <2>2 DEF Labels, AllocLabels
    <3>2. /\ Local(t) /\ pc'[t] = "aRead" /\ op'[t] = op[t]
          /\ Concerns(t)' = PageRun(op[t].va, op[t].n)
      BY <3>1, <1>2, ProceedFacts
    <3> QED BY <3>2, <1>1, <1>2 DEF Concerns, OpInv, AllocLabels
  <2> QED BY <2>1, <2>2
<1>6. \A p \in RegionPages : p \notin Concerns(t) => pt'[p] = pt[p]
  BY <1>1, PageNumbers
<1>7. CommitOp(t)'
  BY <1>1, <1>3, <1>5 DEF CommitOp
<1>8. /\ \A p, rights : Backed(space, p, rights) => Backed(space', p, rights)
      /\ \A p \in Concerns(t) : Backed(space', p, {})
      /\ met \subseteq met'
  BY <1>1, <1>3
<1> QED BY <1>4, <1>5, <1>6, <1>7, <1>8, CommitStep

(* After the reservation was changed: what an eager allocation goes on     *)
(* with is committed.                                                      *)
LEMMA CommitAfterChange ==
    ASSUME FixedBases = {}, VmmInv, CommitInv, NEW t \in Threads, pc[t] = "aChange", AfterChange(t),
           \A p \in RegionPages : pt'[p] = pt[p], met' = met,
           \A p, rights : Backed(space, p, rights) => Backed(space', p, rights),
           "eager" \in op[t].type => \A p \in Concerns(t) : Backed(space', p, {})
    PROVE  CommitInv'
<1>1. /\ Local(t) /\ pc'[t] \in {"idle", "aFrames"}
      /\ Concerns(t)' \subseteq Concerns(t)
      /\ pc'[t] = "aFrames" => "eager" \in op[t].type
  BY AfterChangeFacts
<1>2. CommitOp(t) /\ OpInv(t) /\ op[t].kind = "alloc"
  BY DEF CommitInv, VmmInv, OpInv, AllocLabels
<1>3. Concerns(t) \subseteq RegionPages
  BY ConcernsPages
<1>4. \A p \in Concerns(t) : pt'[p] = NoFrame
  BY <1>2, <1>3 DEF CommitOp
<1>5. CommitOp(t)'
  BY <1>1, <1>4 DEF CommitOp
<1>6. op'[t].kind # "fault"
  <2>1. PICK d : d = [op[t] EXCEPT !.cpu = Nobody]
    OBVIOUS
  <2>2. op' = [op EXCEPT ![t] = d] \/ op' = [op EXCEPT ![t] = NoOp]
    BY <2>1 DEF AfterChange, Proceed, Return
  <2>3. op \in [Threads -> Ops] /\ op[t] \in Ops
    BY OpTypes DEF VmmInv, TypeInv
  <2>4. d.kind = "alloc" /\ NoOp.kind = "none"
    BY <2>1, <2>3, <1>2, SetCpu DEF NoOp
  <2> QED BY <2>2, <2>3, <2>4
<1>7. met \subseteq met'
  OBVIOUS
<1> QED BY <1>1, <1>4, <1>5, <1>6, <1>7, CommitStep

LEMMA CommitAllocCommit ==
    ASSUME FixedBases = {}, VmmInv, CommitInv, NEW t \in Threads, AllocCommit(t)
    PROVE  CommitInv'
<1>1. /\ pc[t] = "aChange" /\ AfterChange(t)
      /\ CanCommit(space, op[t].va, op[t].n, op[t].attr)
      /\ space' = VmCommitReservation(space, op[t].va, op[t].n)
      /\ UNCHANGED <<pt, met>>
  BY DEF AllocCommit, At, ghosts
<1>2. PICK sp, new, va, n : sp = space /\ new = space' /\ va = op[t].va /\ n = op[t].n
  OBVIOUS
<1>3. /\ Shape(sp) /\ va \in Nat /\ n \in Nat /\ VmFindReservation(sp, va, n) # 0
      /\ new = VmCommitReservation(sp, va, n)
  BY <1>1, <1>2, OpTypes DEF CanCommit, VmmInv, SpaceInv
<1>4. /\ Used(new) = Used(sp)
      /\ \E i \in Used(sp) :
            /\ new.list[i].commit = sp.list[i].commit \cup PageRun(va, n)
            /\ new.list[i].attr = sp.list[i].attr
            /\ \A j \in Used(sp) : j # i => new.list[j] = sp.list[j]
  BY <1>3, CommitFacts
<1>5. \A p, rights : Backed(sp, p, rights) => Backed(new, p, rights)
  BY <1>4, BackedGrows
<1>6. \A p \in PageRun(va, n) : Backed(new, p, {})
  BY <1>4 DEF Backed
<1>7. \A p \in Concerns(t) : Backed(space', p, {})
  BY <1>2, <1>6 DEF Concerns
<1>8. \A p, rights : Backed(space, p, rights) => Backed(space', p, rights)
  BY <1>2, <1>5
<1> QED BY <1>1, <1>7, <1>8, CommitAfterChange

LEMMA CommitAllocReserve ==
    ASSUME FixedBases = {}, VmmInv, CommitInv, NEW t \in Threads, AllocReserve(t)
    PROVE  CommitInv'
<1>1. PICK o, f : o = op[t] /\ f = PmmReserveMemoryEx(bitmap, 1, 0)
  OBVIOUS
<1>2. /\ pc[t] = "aChange" /\ "reserve" \in o.type /\ CanReserve(space, o.va, o.n)
      /\ IF access[on[t]] /\ f # NoFrame
         THEN /\ space' = Committed(ReserveIn(space, o.va, o.n, o.attr, o.file), o)
              /\ pt' = [pt EXCEPT ![-(space.bitmaps + 1)] = f]
              /\ AfterChange(t)
         ELSE UNCHANGED <<pc, op, space, pt>>
      /\ UNCHANGED met
  BY <1>1 DEF AllocReserve, At, ghosts, Panic
<1>3. CASE ~(access[on[t]] /\ f # NoFrame)
  BY <1>2, <1>3, CommitUnchanged
<1>4. CASE access[on[t]] /\ f # NoFrame
  <2>1. /\ space' = Committed(ReserveIn(space, o.va, o.n, o.attr, o.file), o)
        /\ pt' = [pt EXCEPT ![-(space.bitmaps + 1)] = f] /\ AfterChange(t)
    BY <1>2, <1>4
  <2>2. PICK sp, new : sp = space /\ new = space'
    OBVIOUS
  <2>3. /\ Shape(sp) /\ o \in Ops /\ CanReserve(sp, o.va, o.n) /\ sp.bitmaps \in Nat
        /\ new = Committed(ReserveIn(sp, o.va, o.n, o.attr, o.file), o)
    BY <2>1, <2>2, <1>1, <1>2, OpTypes, SpaceTypes DEF VmmInv, SpaceInv
  <2>4. \E i : /\ i \notin Used(sp) /\ Used(new) = Used(sp) \cup {i}
               /\ new.list[i].commit = IF "commit" \in o.type THEN PageRun(o.va, o.n) ELSE {}
               /\ \A j \in Used(sp) : new.list[j] = sp.list[j]
    BY <2>3, ReservedFacts
  <2>5. \A p, rights : Backed(space, p, rights) => Backed(space', p, rights)
    BY <2>2, <2>4, BackedGrows
  <2>6. "eager" \in o.type => "commit" \in o.type
    BY <1>1, <1>2 DEF VmmInv, OpInv, AllocTypes, CommitTypes
  <2>7. "commit" \in o.type => \A p \in PageRun(o.va, o.n) : Backed(new, p, {})
    BY <2>4 DEF Backed
  <2>8. "eager" \in op[t].type => \A p \in Concerns(t) : Backed(space', p, {})
    BY <2>2, <2>6, <2>7, <1>1 DEF Concerns
  <2>9. \A p \in RegionPages : pt'[p] = pt[p]
    <3>1. \A p \in RegionPages : p # -(space.bitmaps + 1)
      BY <2>2, <2>3, PageNumbers
    <3> QED BY <3>1, <2>1, PageNumbers DEF VmmInv, TypeInv
  <2> QED BY <2>1, <2>5, <2>8, <2>9, <1>2, CommitAfterChange
<1> QED BY <1>3, <1>4

LEMMA CommitFaultMap ==
    ASSUME FixedBases = {}, VmmInv, CommitInv, NEW t \in Threads, FaultMap(t)
    PROVE  CommitInv' /\ (lost' # lost => pc[t] = "pMap" /\ op[t].va \in met)
<1>1. /\ pc[t] = "pMap" /\ pt' = [pt EXCEPT ![op[t].va] = op[t].frame]
      /\ lost' = lost \cup ({pt[op[t].va]} \ {NoFrame})
      /\ Proceed(t, "pFill", op[t]) /\ UNCHANGED <<space, met>>
  BY DEF FaultMap, At
<1>2. /\ OpInv(t) /\ op[t] \in Ops /\ op[t].va \in Nat /\ op[t].n = 1
      /\ op[t].kind = "fault" /\ Concerns(t) = PageRun(op[t].va, 1)
  <2>1. pc[t] \in FaultLabels
    BY <1>1 DEF FaultLabels
  <2> QED BY <2>1, FaultFacts
<1>3. Concerns(t) = {op[t].va}
  BY <1>2 DEF PageRun
<1>4. CommitOp(t) /\ Backed(space, op[t].va, {})
  BY <1>1, <1>3 DEF CommitInv, CommitOp
<1>5. lost' # lost => op[t].va \in met
  BY <1>1, <1>4 DEF CommitOp
<1>6. /\ Local(t) /\ pc'[t] = "pFill" /\ op'[t] = op[t] /\ Concerns(t)' = PageRun(op[t].va, op[t].n)
  <2>1. "pFill" \in Labels
    BY DEF Labels, FaultLabels
  <2> QED BY <2>1, <1>1, <1>2, ProceedFacts
<1>7. CommitOp(t)'
  <2>1. Concerns(t)' = {op[t].va}
    BY <1>3, <1>6 DEF Concerns
  <2> QED BY <2>1, <1>1, <1>4, <1>6 DEF CommitOp
<1>8. \A p \in RegionPages : p \notin Concerns(t) => pt'[p] = pt[p]
  BY <1>1, <1>3, PageNumbers DEF VmmInv, TypeInv
<1>9. /\ \A p, rights : Backed(space, p, rights) => Backed(space', p, rights)
      /\ \A p \in Concerns(t) : Backed(space', p, {})
      /\ met \subseteq met'
  BY <1>1, <1>3, <1>4
<1> QED BY <1>1, <1>2, <1>5, <1>6, <1>7, <1>8, <1>9, CommitStep

LEMMA CommitFreeBitmap ==
    ASSUME FixedBases = {}, VmmInv, CommitInv, NEW t \in Threads, FreeBitmap(t)
    PROVE  CommitInv'
<1>1. /\ pc[t] = "fBitmap" /\ Proceed(t, "fClose", op[t]) /\ UNCHANGED <<space, met>>
      /\ pt' = [p \in Pages |-> IF p \in {-op[t].bitmap} THEN NoFrame ELSE pt[p]]
  BY DEF FreeBitmap, At, UnmapMemory
<1>2. OpInv(t) /\ op[t] \in Ops
  BY OpTypes DEF VmmInv
<1>3. op[t].bitmap \in 1 .. MaxBitmaps /\ op[t].kind = "free"
  BY <1>1, <1>2 DEF OpInv, FreeLabels
<1>4. Local(t) /\ pc'[t] = "fClose" /\ op'[t] = op[t]
  <2>1. "fClose" \in Labels
    BY DEF Labels, FreeLabels
  <2> QED BY <2>1, <1>1, <1>2, ProceedFacts
<1>5. \A p \in RegionPages : pt'[p] = pt[p]
  <2>1. -op[t].bitmap \notin RegionPages
    BY <1>3, PageNumbers
  <2> QED BY <2>1, <1>1, PageNumbers
<1>6. CommitOp(t)' /\ Concerns(t)' = Concerns(t)
  BY <1>4 DEF CommitOp, Concerns
<1>7. /\ \A p, rights : Backed(space, p, rights) => Backed(space', p, rights)
      /\ met \subseteq met'
  BY <1>1
<1> QED BY <1>3, <1>4, <1>5, <1>6, <1>7, CommitStep

LEMMA CommitFreeUnmap ==
    ASSUME FixedBases = {}, VmmInv, CommitInv, NEW t \in Threads, FreeUnmap(t)
    PROVE  CommitInv'
<1>1. /\ pc[t] = "fUnmap" /\ Return(t) /\ UNCHANGED <<space, met>>
      /\ pt' = [p \in Pages |-> IF p \in Concerns(t) THEN NoFrame ELSE pt[p]]
  BY DEF FreeUnmap, At, UnmapMemory
<1>2. Local(t) /\ pc'[t] = "idle" /\ op'[t] = NoOp
  BY <1>1, ReturnFacts
<1>3. \A p \in Concerns(t) : pt'[p] = NoFrame
  <2>1. Concerns(t) \subseteq Pages
    BY <1>1, ConcernsPages
  <2> QED BY <2>1, <1>1
<1>4. \A p \in RegionPages : p \notin Concerns(t) => pt'[p] = pt[p]
  BY <1>1, PageNumbers
<1>5. CommitOp(t)' /\ op'[t].kind # "fault"
  BY <1>2 DEF CommitOp, NoOp
<1>6. /\ \A p, rights : Backed(space, p, rights) => Backed(space', p, rights)
      /\ met \subseteq met'
  BY <1>1
<1> QED BY <1>2, <1>3, <1>4, <1>5, <1>6, CommitStep

(* A release takes out the entry of the region, a decommit clears bits of  *)
(* the pages it was asked for.                                             *)
LEMMA CommitFreeChange ==
    ASSUME FixedBases = {}, VmmInv, CommitInv, NEW t \in Threads, FreeChange(t)
    PROVE  CommitInv'
<1>1. PICK i : i = VmFindReservation(space, op[t].addr, 1)
  OBVIOUS
<1>2. PICK e : e = space.list[i]
  OBVIOUS
<1>3. PICK d : d = [op[t] EXCEPT !.va = e.start, !.n = e.size, !.file = e.file,
                                 !.bitmap = e.bitmap, !.cpu = on[t]]
  OBVIOUS
<1>4. /\ pc[t] = "fLock"
      /\ \/ i = 0
         \/ /\ i # 0 /\ "release" \in op[t].type
            /\ space' = RemoveReservation(space, op[t].addr)
            /\ Proceed(t, "fBitmap", d)
         \/ /\ "decommit" \in op[t].type
            /\ space' = VmDecommitReservation(space, op[t].va, op[t].n)
            /\ Proceed(t, "fUnmap", op[t])
      /\ UNCHANGED <<pt, met>>
  BY <1>1, <1>2, <1>3 DEF FreeChange, At, ghosts
<1>5. OpInv(t) /\ RegionInv(t) /\ op[t] \in Ops /\ op[t].va \in Nat /\ op[t].n \in Nat
  BY OpTypes DEF VmmInv
<1>6. op[t].kind = "free"
  BY <1>4, <1>5 DEF OpInv, FreeLabels
<1>7. /\ Shape(space)
      /\ \A k \in Used(space) :
            space.list[k].commit \subseteq PageRun(space.list[k].start, space.list[k].size)
      /\ \A j, k \in Used(space) : j # k => ~Overlap(space.list[j], space.list[k])
      /\ ~crossed
  BY SpaceDisjoint
<1>8. ASSUME Local(t), pc'[t] \in {"fBitmap", "fUnmap"}, op'[t].kind = "free",
             Concerns(t)' = Concerns(t),
             \A p, rights : Backed(space, p, rights) /\ p \notin Concerns(t) => Backed(space', p, rights)
      PROVE  CommitInv'
  <2>1. CommitOp(t)' /\ met \subseteq met'
    BY <1>4, <1>8 DEF CommitOp
  <2>2. \A p \in RegionPages : pt'[p] = pt[p]
    BY <1>4
  <2> QED BY <2>1, <2>2, <1>6, <1>8, CommitStep
<1>9. CASE /\ "decommit" \in op[t].type
           /\ space' = VmDecommitReservation(space, op[t].va, op[t].n)
           /\ Proceed(t, "fUnmap", op[t])
  <2>1. Local(t) /\ pc'[t] = "fUnmap" /\ op'[t] = op[t]
    <3>1. "fUnmap" \in Labels
      BY DEF Labels, FreeLabels
    <3> QED BY <3>1, <1>5, <1>9, ProceedFacts
  <2>2. PICK sp, new, va, n : sp = space /\ new = space' /\ va = op[t].va /\ n = op[t].n
    OBVIOUS
  <2>3. Shape(sp) /\ va \in Nat /\ n \in Nat /\ new = VmDecommitReservation(sp, va, n)
    BY <2>2, <1>5, <1>7, <1>9
  <2>4. /\ Used(new) = Used(sp)
        /\ \A j \in Used(sp) : /\ sp.list[j].commit \subseteq new.list[j].commit \cup PageRun(va, n)
                               /\ new.list[j].attr = sp.list[j].attr
    BY <2>3, DecommitFacts
  <2>5. \A p, rights : Backed(sp, p, rights) /\ p \notin PageRun(va, n) => Backed(new, p, rights)
    BY <2>4 DEF Backed
  <2>6. Concerns(t)' = Concerns(t) /\ Concerns(t) = PageRun(va, n)
    BY <2>1, <2>2 DEF Concerns
  <2> QED BY <2>1, <2>2, <2>5, <2>6, <1>6, <1>8
<1>10. CASE /\ i # 0 /\ "release" \in op[t].type
            /\ space' = RemoveReservation(space, op[t].addr)
            /\ Proceed(t, "fBitmap", d)
  <2>1. /\ i \in Used(space) /\ Used(space') = Used(space) \ {i}
        /\ \A j \in Used(space') : space'.list[j] = space.list[j]
        /\ space.list[i].start = op[t].va /\ space.list[i].size = op[t].n
    BY <1>1, <1>4, <1>7, <1>10, ReleasedEntry
  <2>2. space.list[i].commit \subseteq Concerns(t)
    BY <2>1, <1>7 DEF Concerns
  <2>3. \A p, rights : Backed(space, p, rights) /\ p \notin Concerns(t) => Backed(space', p, rights)
    BY <2>1, <2>2 DEF Backed
  <2>4. /\ d \in Ops /\ d.kind = op[t].kind /\ d.va = op[t].va /\ d.n = op[t].n
    <3>1. PICK o, va, n, fi, b, c :
              o = op[t] /\ va = e.start /\ n = e.size /\ fi = e.file /\ b = e.bitmap /\ c = on[t]
      OBVIOUS
    <3>2. /\ o \in Ops /\ fi \in Files \cup {NoFile} /\ b \in Nat /\ c \in Cpus \cup {Nobody}
          /\ va = o.va /\ n = o.n /\ va \in Nat /\ n \in Nat
      BY <3>1, <2>1, <1>2, <1>5, <1>7, SpaceTypes DEF VmmInv, TypeInv
    <3>3. d = [o EXCEPT !.va = va, !.n = n, !.file = fi, !.bitmap = b, !.cpu = c]
      BY <3>1, <1>3
    <3>4. d \in Ops /\ d.kind = o.kind /\ d.va = o.va /\ d.n = o.n
      BY <3>2, <3>3 DEF Ops
    <3> QED BY <3>1, <3>4
  <2>5. Local(t) /\ pc'[t] = "fBitmap" /\ op'[t] = d
    <3>1. "fBitmap" \in Labels
      BY DEF Labels, FreeLabels
    <3> QED BY <3>1, <2>4, <1>10, ProceedFacts
  <2>6. Concerns(t)' = Concerns(t)
    BY <2>4, <2>5 DEF Concerns
  <2> QED BY <2>3, <2>4, <2>5, <2>6, <1>6, <1>8
<1>11. i # 0
  BY <1>1, <1>4, <1>7, FreeFinds
<1> QED BY <1>4, <1>9, <1>10, <1>11

(* A request: the thread concerned no pages before, and nothing is mapped  *)
(* or unmapped.                                                            *)
LEMMA CommitBegin ==
    ASSUME FixedBases = {}, VmmInv, CommitInv, NEW t \in Threads, NEW c \in Cpus, CanBegin(t, c),
           NEW l \in {"aLock", "fLock", "pCheck"}, NEW o \in Ops, Begin(t, c, l, o),
           pt' = pt, met \subseteq met',
           \A p, rights : Backed(space, p, rights) => Backed(space', p, rights),
           l = "pCheck" => Backed(space', o.va, o.type) /\ pt[o.va] = NoFrame,
           l = "aLock" => \A p \in PageRun(o.va, o.n) : pt[p] = NoFrame,
           o.kind = "fault" =>
               \A u \in Threads : u # t /\ op[u].kind = "fault" /\ op[u].va = o.va => o.va \in met'
    PROVE  CommitInv'
<1>1. /\ Local(t) /\ pc'[t] = l /\ op'[t] = o /\ pc[t] = "idle"
      /\ Concerns(t)' = PageRun(o.va, o.n)
  BY BeginFacts
<1>2. Concerns(t) = {}
  BY <1>1, ConcernsIdle DEF VmmInv, OpInv
<1>3. CommitOp(t)'
  BY <1>1 DEF CommitOp
<1>4. \A p \in RegionPages : pt'[p] = pt[p]
  OBVIOUS
<1> QED BY <1>1, <1>2, <1>3, <1>4, CommitStep

(* A page no entry has committed and no thread works on is not mapped.     *)
LEMMA UnmappedRun ==
    ASSUME CommitInv, NEW P, P \subseteq RegionPages,
           \A u \in Threads : Concerns(u) \cap P = {},
           \A i \in Used(space) : space.list[i].commit \cap P = {}
    PROVE  \A p \in P : pt[p] = NoFrame
  BY DEF CommitInv, MappedInv, Backed

LEMMA CommitAllocFresh ==
    ASSUME FixedBases = {}, VmmInv, CommitInv, NEW t \in Threads, NEW c \in Cpus, CanBegin(t, c),
           NEW n \in Nat, n > 0, NEW type \in AllocTypes, NEW attr \in {"rw", "ro"},
           NEW file \in Files \cup {NoFile}, AllocFresh(t, c, n, type, attr, file)
    PROVE  CommitInv'
<1>1. PICK va \in Nat : va = space.next
  BY SpaceTypes DEF VmmInv, SpaceInv
<1>2. PICK o : o = AllocLocals(va, n, type, attr, file)
  OBVIOUS
<1>3. Begin(t, c, "aLock", o)
  BY <1>1, <1>2 DEF AllocFresh, AllocLocals
<1>4. o \in Ops /\ o.kind = "alloc" /\ o.va = va /\ o.n = n
  BY <1>2, AllocOp
<1>5. va + n - 1 <= MaxVa /\ space' = [space EXCEPT !.next = va + n] /\ UNCHANGED <<pt, met>>
  BY <1>1 DEF AllocFresh, ghosts
<1>6. \A p, rights : Backed(space, p, rights) => Backed(space', p, rights)
  <2>1. PICK sp, new : sp = space /\ new = space'
    OBVIOUS
  <2>2. Shape(sp) /\ new = [sp EXCEPT !.next = va + n]
    BY <2>1, <1>5 DEF VmmInv, SpaceInv
  <2>3. new.list = sp.list /\ Used(new) = Used(sp)
    BY <2>2, SpaceNext
  <2> QED BY <2>1, <2>3 DEF Backed
<1>7. \A p \in PageRun(va, n) : pt[p] = NoFrame
  <2>1. PICK P : P = PageRun(va, n)
    OBVIOUS
  <2>2. P \subseteq RegionPages
    BY <2>1, <1>1, <1>5, VmmAssumption, VmReservationAssumption
       DEF PageRun, RegionPages, VmmInv, SpaceInv
  <2>3. /\ \A u \in Threads : Concerns(u) \cap P = {}
        /\ \A i \in Used(space) :
              PageRun(space.list[i].start, space.list[i].size) \cap P = {}
    BY <2>1, <1>1, FreshRun DEF Crosses, Quiet
  <2>4. \A i \in Used(space) : space.list[i].commit \cap P = {}
    BY <2>3, SpaceDisjoint DEF VmmInv
  <2> QED BY <2>1, <2>2, <2>3, <2>4, UnmappedRun
<1> QED BY <1>3, <1>4, <1>5, <1>6, <1>7, CommitBegin

(* A range of a region that exists, none of it committed, is committed.    *)
LEMMA CommitAllocAt ==
    ASSUME FixedBases = {}, VmmInv, CommitInv, NEW t \in Threads, NEW c \in Cpus, CanBegin(t, c),
           NEW va \in Nat, NEW n \in Nat, n > 0, NEW type \in CommitTypes,
           VmFindReservation(space, va, n) # 0,
           PageRun(va, n) \cap space.list[VmFindReservation(space, va, n)].commit = {},
           AllocAt(t, c, va, n, type, "rw")
    PROVE  CommitInv'
<1>1. PICK o : o = [NoOp EXCEPT !.kind = "alloc", !.va = va, !.n = n, !.type = type, !.attr = "rw"]
  OBVIOUS
<1>2. o \in Ops /\ o.kind = "alloc" /\ o.va = va /\ o.n = n
  <2>1. o = [kind |-> "alloc", addr |-> 0, va |-> va, n |-> n, type |-> type, attr |-> "rw", file |-> NoFile,
             frame |-> NoFrame, cpu |-> Nobody, bitmap |-> 0, release |-> FALSE]
    BY <1>1 DEF NoOp
  <2>2. type \in SUBSET Flags /\ "rw" \in Attrs /\ "alloc" \in Kinds
    BY DEF CommitTypes, Flags, Attrs, Kinds
  <2> QED BY <2>1, <2>2 DEF Ops
<1>3. Begin(t, c, "aLock", o) /\ Quiet(PageRun(va, n)) /\ UNCHANGED <<space, pt, met>>
  BY <1>1 DEF AllocAt, CommitTypes, ghosts
<1>4. /\ Shape(space)
      /\ \A i \in Used(space) :
            space.list[i].commit \subseteq PageRun(space.list[i].start, space.list[i].size)
      /\ \A i, j \in Used(space) : i # j => ~Overlap(space.list[i], space.list[j])
  BY SpaceDisjoint DEF VmmInv
<1>5. PICK k \in Used(space) :
          /\ k = VmFindReservation(space, va, n)
          /\ PageRun(va, n) \subseteq PageRun(space.list[k].start, space.list[k].size)
  BY <1>4, FindReservation
<1>6. \A p \in PageRun(va, n) : pt[p] = NoFrame
  <2>1. PICK P : P = PageRun(va, n)
    OBVIOUS
  <2>2. P \subseteq RegionPages
    <3>1. InSpace(va, n)
      BY <1>5, EntryRuns
    <3> QED BY <3>1, <2>1, <1>4, RunsArePages, SpaceTypes DEF VmmInv, SpaceInv
  <2>3. \A u \in Threads : Concerns(u) \cap P = {}
    BY <2>1, <1>3 DEF Quiet
  <2>4. \A i \in Used(space) : space.list[i].commit \cap P = {}
    <3>1. \A i \in Used(space) : i # k =>
              PageRun(space.list[i].start, space.list[i].size) \cap P = {}
      BY <2>1, <1>4, <1>5 DEF Overlap
    <3>2. space.list[k].commit \cap P = {}
      BY <2>1, <1>5
    <3> QED BY <3>1, <3>2, <1>4
  <2> QED BY <2>1, <2>2, <2>3, <2>4, UnmappedRun
<1>7. /\ \A p, rights : Backed(space, p, rights) => Backed(space', p, rights)
      /\ pt' = pt /\ met \subseteq met'
  BY <1>3
<1> QED BY <1>2, <1>3, <1>6, <1>7, CommitBegin

LEMMA CommitFree ==
    ASSUME FixedBases = {}, VmmInv, CommitInv, NEW t \in Threads, NEW c \in Cpus, CanBegin(t, c),
           NEW o \in Ops, o.kind = "free", Begin(t, c, "fLock", o), UNCHANGED <<space, pt, met>>
    PROVE  CommitInv'
<1>1. /\ \A p, rights : Backed(space, p, rights) => Backed(space', p, rights)
      /\ pt' = pt /\ met \subseteq met'
  OBVIOUS
<1> QED BY <1>1, CommitBegin

LEMMA CommitFreeRelease ==
    ASSUME FixedBases = {}, VmmInv, CommitInv, NEW t \in Threads, NEW c \in Cpus, CanBegin(t, c), NEW va \in Nat,
           NEW release \in BOOLEAN, FreeRelease(t, c, va, release)
    PROVE  CommitInv'
<1>1. PICK i \in Used(space) : i = VmFindReservation(space, va, 1)
  BY FindReservation DEF FreeRelease, VmmInv, SpaceInv
<1>2. PICK start \in Nat, size \in Nat : start = space.list[i].start /\ size = space.list[i].size
  BY SpaceTypes DEF VmmInv, SpaceInv
<1>3. PICK o : o = FreeLocals(va, start, size, {"release"}, release)
  OBVIOUS
<1>4. Begin(t, c, "fLock", o) /\ UNCHANGED <<space, pt, met>>
  BY <1>1, <1>2, <1>3 DEF FreeRelease, FreeLocals, ghosts
<1>5. o \in Ops /\ o.kind = "free"
  BY <1>3, FreeOp
<1> QED BY <1>4, <1>5, CommitFree

LEMMA CommitFreeDecommit ==
    ASSUME FixedBases = {}, VmmInv, CommitInv, NEW t \in Threads, NEW c \in Cpus, CanBegin(t, c), NEW va \in Nat,
           NEW n \in Nat, FreeDecommit(t, c, va, n)
    PROVE  CommitInv'
<1>1. PICK release \in BOOLEAN : release = TRUE
  BY Zenon
<1>2. PICK o : o = FreeLocals(va, va, n, {"decommit"}, release)
  OBVIOUS
<1>3. Begin(t, c, "fLock", o) /\ UNCHANGED <<space, pt, met>>
  BY <1>1, <1>2 DEF FreeDecommit, FreeLocals, ghosts
<1>4. o \in Ops /\ o.kind = "free"
  BY <1>2, FreeOp
<1> QED BY <1>3, <1>4, CommitFree

LEMMA CommitFault ==
    ASSUME FixedBases = {}, VmmInv, CommitInv, NEW t \in Threads, NEW c \in Cpus, CanBegin(t, c),
           NEW va \in Nat, NEW write, Fault(t, c, va, write)
    PROVE  CommitInv'
<1>1. PICK o, needs : needs = Needs(write) /\ o = FaultLocals(va, needs)
  OBVIOUS
<1>2. needs \in SUBSET {"read", "write"}
  BY <1>1 DEF Needs
<1>3. o \in Ops /\ o.kind = "fault" /\ o.va = va /\ o.n = 1 /\ o.type = needs
  BY <1>1, <1>2, FaultOp
<1>4. /\ Begin(t, c, "pCheck", o) /\ UNCHANGED <<space, pt>> /\ pt[va] = NoFrame
      /\ VmReservationCanAddressBeAccessed(space, va, needs)
      /\ met' = IF Quiet({va}) THEN met ELSE met \cup {va}
  BY <1>1 DEF Fault, FaultLocals
<1>5. Backed(space, va, needs)
  BY <1>4, SpaceDisjoint, AccessBacked DEF VmmInv
<1>6. ASSUME NEW u \in Threads, op[u].kind = "fault", op[u].va = va PROVE va \in met'
  <2>1. OpInv(u)
    BY DEF VmmInv
  <2>2. pc[u] # "idle"
    BY <2>1, <1>6 DEF OpInv, NoOp
  <2>3. va \in Concerns(u)
    BY <2>2, <1>6, ConcernsPages
  <2>4. ~Quiet({va})
    BY <2>3 DEF Quiet
  <2> QED BY <2>4, <1>4
<1>7. /\ \A p, rights : Backed(space, p, rights) => Backed(space', p, rights)
      /\ pt' = pt /\ met \subseteq met' /\ Backed(space', va, needs)
  BY <1>4, <1>5
<1> QED BY <1>3, <1>4, <1>6, <1>7, CommitBegin

LEMMA CommitRequest ==
    ASSUME FixedBases = {}, VmmInv, CommitInv, NEW t \in Threads, NEW c \in Cpus, CanBegin(t, c),
           Request(t, c)
    PROVE  CommitInv'
<1>n. \A n \in 1 .. MaxPages : n \in Nat /\ n > 0
  BY VmmAssumption
<1>p. \A p \in RegionPages : p \in Nat
  BY PageNumbers
<1>1. ASSUME NEW n \in 1 .. MaxPages, NEW type \in AllocTypes, AllocFresh(t, c, n, type, "rw", NoFile)
      PROVE  CommitInv'
  BY <1>1, <1>n, CommitAllocFresh
<1>2. ASSUME AllocFresh(t, c, 1, {"reserve", "commit"}, "ro", NoFile)
      PROVE  CommitInv'
  <2>1. {"reserve", "commit"} \in AllocTypes
    BY DEF AllocTypes
  <2> QED BY <2>1, <1>2, CommitAllocFresh
<1>3. ASSUME NEW n \in 1 .. MaxPages, NEW file \in Files \ open,
             AllocFresh(t, c, n, {"reserve", "commit", "eager"}, "rw", file)
      PROVE  CommitInv'
  <2>1. {"reserve", "commit", "eager"} \in AllocTypes
    BY DEF AllocTypes
  <2> QED BY <2>1, <1>3, <1>n, CommitAllocFresh
<1>4. ASSUME NEW va \in RegionPages, NEW n \in 1 .. MaxPages, NEW type \in CommitTypes,
             VmFindReservation(space, va, n) # 0,
             PageRun(va, n) \cap space.list[VmFindReservation(space, va, n)].commit = {},
             AllocAt(t, c, va, n, type, "rw")
      PROVE  CommitInv'
  BY <1>4, <1>n, <1>p, CommitAllocAt
<1>5. ASSUME NEW va \in RegionPages, NEW release \in BOOLEAN, FreeRelease(t, c, va, release)
      PROVE  CommitInv'
  BY <1>5, <1>p, CommitFreeRelease
<1>6. ASSUME NEW va \in RegionPages, NEW n \in 1 .. MaxPages, FreeDecommit(t, c, va, n)
      PROVE  CommitInv'
  BY <1>6, <1>n, <1>p, CommitFreeDecommit
<1>7. ASSUME NEW va \in RegionPages, NEW write \in BOOLEAN, Fault(t, c, va, write)
      PROVE  CommitInv'
  BY <1>7, <1>p, CommitFault
<1> QED BY <1>1, <1>2, <1>3, <1>4, <1>5, <1>6, <1>7 DEF Request

LEMMA CommitInit ==
    ASSUME Init
    PROVE  CommitInv
<1>1. /\ pt = [p \in Pages |-> NoFrame] /\ pc = [t \in Threads |-> "idle"]
      /\ op = [t \in Threads |-> NoOp]
  BY DEF Init
<1>2. \A t \in Threads : pc[t] = "idle" /\ op[t].kind = "none"
  BY <1>1 DEF NoOp
<1>3. \A p \in RegionPages : pt[p] = NoFrame
  BY <1>1, PageNumbers
<1> QED BY <1>2, <1>3 DEF CommitInv, MappedInv, MetInv, CommitOp

\* What lost may do in a step.
LostStep == lost' # lost => \E t \in Threads : pc[t] = "pMap" /\ op[t].va \in met

LEMMA CommitContinue ==
    ASSUME FixedBases = {}, VmmInv, CommitInv, NEW t \in Threads, Continue(t)
    PROVE  CommitInv' /\ LostStep
<1>1. CASE \/ AllocLock(t) \/ AllocRefused(t) \/ AllocFrames(t) \/ AllocRead(t)
           \/ FreeClose(t) \/ FaultCheck(t) \/ FaultFrame(t) \/ FaultFill(t)
  <2>1. lost' = lost
    BY <1>1 DEF AllocLock, AllocRefused, AllocFrames, AllocRead, FreeClose, FaultCheck, FaultFrame,
                FaultFill, ghosts
  <2> QED BY <2>1, <1>1, CommitControl DEF LostStep
<1>2. CASE AllocReserve(t) \/ AllocCommit(t) \/ FreeChange(t)
  <2>1. lost' = lost
    BY <1>2 DEF AllocReserve, AllocCommit, FreeChange, ghosts
  <2> QED BY <2>1, <1>2, CommitAllocReserve, CommitAllocCommit, CommitFreeChange DEF LostStep
<1>3. CASE AllocMap(t) \/ FaultMap(t)
  BY <1>3, CommitAllocMap, CommitFaultMap DEF LostStep
<1>4. CASE FreeBitmap(t) \/ FreeUnmap(t)
  <2>1. lost' = lost
    BY <1>4 DEF FreeBitmap, FreeUnmap
  <2> QED BY <2>1, <1>4, CommitFreeBitmap, CommitFreeUnmap DEF LostStep
<1> QED BY <1>1, <1>2, <1>3, <1>4 DEF Continue

LEMMA CommitNext ==
    ASSUME FixedBases = {}, VmmInv, CommitInv, [Next]_vars
    PROVE  CommitInv' /\ LostStep
<1>1. ASSUME NEW t \in Threads, NEW c \in Cpus, CanBegin(t, c), Request(t, c)
      PROVE  CommitInv' /\ LostStep
  <2>1. lost' = lost
    BY <1>1 DEF Request, AllocFresh, AllocAt, FreeRelease, FreeDecommit, Fault, ghosts
  <2> QED BY <2>1, <1>1, CommitRequest DEF LostStep
<1>2. ASSUME NEW t \in Threads, Continue(t) PROVE CommitInv' /\ LostStep
  BY <1>2, CommitContinue
<1>3. CASE (\E t \in Threads, c \in Cpus : Migrate(t, c)) \/ Zeroer \/ Halted \/ UNCHANGED vars
  <2>1. UNCHANGED <<space, pt, pc, op, met, lost>>
    BY <1>3 DEF Migrate, Zeroer, ZeroerWait, ZeroerTake, ZeroerClear, ZeroerZero, ZeroerRelease,
                Halted, others, ghosts, vars
  <2> QED BY <2>1, CommitUnchanged DEF LostStep
<1> QED BY <1>1, <1>2, <1>3 DEF Next

LEMMA CommitKept ==
    ASSUME FixedBases = {}, VmmInv, CommitInv
    PROVE  CommitmentsKept
<1>1. MappedIsCommitted
  <2>1. \A p : Backed(space, p, {}) => p \in CommittedPages
    BY DEF Backed, CommittedPages
  <2> QED BY <2>1 DEF CommitInv, MappedInv, MappedIsCommitted
<1>2. CommittedAccessSolved
  <2> SUFFICES ASSUME NEW t \in Threads, pc[t] = "pCheck"
               PROVE  VmReservationCanAddressBeAccessed(space, op[t].va, op[t].type)
    BY DEF CommittedAccessSolved
  <2>1. Backed(space, op[t].va, op[t].type) /\ op[t].va \in Nat
    BY OpTypes DEF CommitInv, CommitOp, VmmInv
  <2>2. PICK sp, va, type : sp = space /\ va = op[t].va /\ type = op[t].type
    OBVIOUS
  <2>3. /\ Shape(sp) /\ va \in Nat /\ Backed(sp, va, type)
        /\ \A i \in Used(sp) : sp.list[i].commit \subseteq PageRun(sp.list[i].start, sp.list[i].size)
        /\ \A i, j \in Used(sp) : i # j => ~Overlap(sp.list[i], sp.list[j])
    BY <2>1, <2>2, SpaceDisjoint DEF VmmInv
  <2>4. VmReservationCanAddressBeAccessed(sp, va, type)
    BY <2>3, AccessBacked
  <2> QED BY <2>2, <2>4
<1> QED BY <1>1, <1>2 DEF CommitmentsKept, VmmInv, CpuInv

(* When no caller chooses an address, what the reservations have           *)
(* committed and what the page tables map agree while any number of        *)
(* threads allocate, free and fault: every mapped page is committed or     *)
(* being unmapped, the lookup VmmSolvePageFault repeats succeeds, and the  *)
(* bitmaps can be read unless preemption moved a thread.                   *)
THEOREM CommitmentsCorrect ==
    ASSUME FixedBases = {}
    PROVE  Spec => []CommitmentsKept
<1>1. Init => CommitInv
  BY CommitInit
<1>2. VmmInv /\ CommitInv /\ [Next]_vars => CommitInv'
  BY CommitNext
<1>3. VmmInv /\ CommitInv => CommitmentsKept
  BY CommitKept
<1> QED BY <1>1, <1>2, <1>3, VmmInvariance, PTL DEF Spec

(* When no caller chooses an address, MmuMapMemoryInternal overwrites a    *)
(* mapping, and loses the frame behind it, only for a page on which two    *)
(* processors had faulted at the same time.                                *)
THEOREM LostWhenFaultsMeet ==
    ASSUME FixedBases = {}
    PROVE  Spec => LostOnlyWhenFaultsMeet
<1>1. Init => CommitInv
  BY CommitInit
<1>2. VmmInv /\ CommitInv /\ [Next]_vars =>
        CommitInv' /\ [lost' # lost => \E t \in Threads : pc[t] = "pMap" /\ op[t].va \in met]_vars
  BY CommitNext DEF LostStep
<1> QED BY <1>1, <1>2, VmmInvariance, PTL DEF Spec, LostOnlyWhenFaultsMeet
=============================================================================
