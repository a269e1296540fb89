------------------------------ MODULE IoProofs ------------------------------
(***************************************************************************)
(* Proofs about Io for any volumes, threads, alignments and lengths.       *)
(***************************************************************************)
EXTENDS Io, SequenceTheorems, TLAPS

(* The driver that creates a device, by its place in DriverNames.          *)
Rank(d) ==
    CASE d[1] = "disk" -> 1
      [] d[1] = "vol" -> 2
      [] d[1] = "fs" -> IF Volumes[d[2]] = "swap" THEN 4 ELSE 3

(* The number of devices from a device down to the disk.                   *)
Level(d) == IF d[1] = "fs" THEN 3 ELSE IF d[1] = "vol" THEN 2 ELSE 1

(* The device below d exists and belongs to an installed driver.           *)
Attached(d) == Below(d) # None => Below(d) \in DOMAIN devs /\ DriverOf(Below(d)) \in Range(drivers)

(* Drivers are installed one after another; what the entry of a driver     *)
(* still has to create is none of the devices that exist.                  *)
PhaseInv ==
    /\ phase \in 1 .. Failed
    /\ drivers \in Seq(Range(DriverNames))
    /\ todo \subseteq DeviceNames \cup {None}
    /\ todo # {} => phase \in 1 .. 4 /\ None \in todo
    /\ \A d \in todo \ {None} : d \notin DOMAIN devs /\ Rank(d) = phase /\ Attached(d)

(* A device has as many stack locations as there are devices from it down, *)
(* and lies on a device of a driver that was installed before its own.     *)
DeviceInv ==
    /\ DOMAIN devs \subseteq DeviceNames
    /\ \A d \in DOMAIN devs :
         /\ devs[d].stack = Level(d) /\ devs[d].below = Below(d)
         /\ Rank(d) < phase \/ (Rank(d) = phase /\ todo # {})
         /\ Attached(d)

Vpb == [letter : Nat, vol : DOMAIN Volumes, fs : DeviceNames \cup {None},
        mounted : BOOLEAN, swap : BOOLEAN]

(* Letters are given out in order and volumes get them in order, so there  *)
(* are enough if there is one for each partition; the file system on a     *)
(* mounted volume is installed, or its entry has still to return.          *)
VpbInv ==
    /\ vpbs \in Seq(Vpb) /\ letters = Len(vpbs)
    /\ \A i \in DOMAIN vpbs :
         /\ vpbs[i].letter = i /\ Vol(vpbs[i].vol) \in DOMAIN devs
         /\ vpbs[i].mounted =>
              /\ vpbs[i].fs = Fs(vpbs[i].vol) /\ vpbs[i].fs \in DOMAIN devs
              /\ DriverOf(vpbs[i].fs) \in Range(drivers) \/ (todo # {} /\ Rank(vpbs[i].fs) = phase)
    /\ \A k \in DOMAIN Volumes : Vol(k) \in todo => letters < k
    /\ panic \in {"none", "letters"}
    /\ panic = "letters" => Len(Volumes) > MaxLetters

BootInv == PhaseInv /\ DeviceInv /\ VpbInv

-----------------------------------------------------------------------------
(* What a stack location, an IRP and a call may be: the IRP a file         *)
(* function builds for a file system stays at its first location, the one  *)
(* a file system builds for its volume reaches the disk.                   *)
OpRec == [major : Majors \cup {None}, file : Threads \cup {None}, off : Nat, len : Nat]

UserIrp == [size : {3}, cur : {2}, done : BOOLEAN, ok : BOOLEAN, info : Nat,
            locs : [0 .. 2 -> OpRec]]

OwnIrp == [size : {2}, cur : {0, 1}, done : {FALSE}, ok : {FALSE}, info : {0},
           locs : [0 .. 1 -> OpRec]]

CallRec == [dev : DeviceNames, irp : {1, 2}, at : {"lock", "run", "ret"}, ok : BOOLEAN,
            nested : BOOLEAN]

FileRec == [vpb : Nat, async : BOOLEAN, off : 0 .. MaxOffset, state : {"none", "creating", "open"}]

(* The call of a device below a file system, waiting or running.           *)
Child(c, d) == c \in CallRec /\ c.dev = d /\ c.irp = 2 /\ c.at \in {"lock", "run"} /\ ~c.nested

(* An IRP of a file system's own, with its parameters where the driver     *)
(* that has been called looks.                                             *)
Sent(irp) == irp \in OwnIrp /\ irp.locs[irp.cur].major = "transfer" /\ irp.locs[irp.cur].file = None

(* The file system waits for the volume.                                   *)
TwoCalls(irp, a, b) ==
    Sent(irp) /\ irp.cur = 1 /\ a.at = "run" /\ Child(b, Below(a.dev))

(* The volume has forwarded the IRP and waits for the disk.                *)
ThreeCalls(irp, a, b, c) ==
    /\ Sent(irp) /\ irp.cur = 0 /\ a.at = "run"
    /\ b \in CallRec /\ b.dev = Below(a.dev) /\ b.irp = 2 /\ b.at = "run"
    /\ Child(c, Disk)

(* The stack of a thread with a request of its own to a volume.            *)
OwnRequest(irp, cs) ==
    \/ cs = <<cs[1], cs[2]>> /\ TwoCalls(irp, cs[1], cs[2])
    \/ cs = <<cs[1], cs[2], cs[3]>> /\ ThreeCalls(irp, cs[1], cs[2], cs[3])

(* A file operation under way: its parameters are in the location its      *)
(* file system looks at, and the IRP is complete only when the call is     *)
(* over.                                                                   *)
RequestInv(t, irp, c) ==
    /\ op[t] \in [major : Majors, file : {t}, off : Nat, len : Nat]
    /\ op[t].major # "transfer" => op[t].len = 0
    /\ op[t].major = "transfer" => files[t].off + op[t].len <= MaxOffset
    /\ irp \in UserIrp /\ irp.locs[2] = op[t]
    /\ irp.ok => irp.done
    /\ irp.done => c.at = "ret"
    /\ irp.info <= op[t].len
    /\ c \in CallRec /\ c.irp = 1 /\ c.dev = FileDevice(t)

CallInv(t) ==
    IF op[t] = NoOp THEN irps[t] = << >> /\ calls[t] = << >>
    ELSE /\ RequestInv(t, irps[t][1], calls[t][1])
         /\ \/ irps[t] = <<irps[t][1]>> /\ calls[t] = <<calls[t][1]>>
            \/ irps[t] = <<irps[t][1], irps[t][2]>> /\ OwnRequest(irps[t][2], calls[t])

(* Bytes the request under way has moved and its file will advance by.     *)
Gain(t) ==
    IF op[t] # NoOp /\ irps[t][1].ok /\ calls[t][1].ok /\ ~files[t].async THEN irps[t][1].info ELSE 0

(* A file object is of a mounted volume, and is being created exactly      *)
(* while IoCreateFile runs; its offset and the request under way account   *)
(* for all bytes moved.                                                    *)
FileInv(t) ==
    /\ files[t].state = "none" => files[t] = NoFile
    /\ files[t].state # "none" => files[t].vpb \in DOMAIN vpbs /\ vpbs[files[t].vpb].mounted
    /\ files[t].state = "creating" <=> op[t].major = "create"
    /\ files[t].state = "creating" => files[t].off = 0
    /\ op[t] # NoOp => files[t].state # "none"
    /\ files[t].async => files[t].off = 0
    /\ moved[t] = files[t].off + Gain(t)

(* The heap holds the IRPs of t and its file object.                       *)
HeapInv(t) ==
    /\ \A n \in {1, 2} : <<"irp", t, n>> \in heap <=> n \in DOMAIN irps[t]
    /\ <<"file", t>> \in heap <=> files[t].state # "none"

(* A thread holds the DeviceLocks of the calls whose dispatch function     *)
(* runs, and no other.                                                     *)
LockInv(t) ==
    \A d \in DeviceNames :
        lock[d] = t <=> \E n \in DOMAIN calls[t] : calls[t][n].dev = d /\ calls[t][n].at = "run"

ThreadInv(t) == CallInv(t) /\ FileInv(t) /\ HeapInv(t) /\ LockInv(t)

(* The variables are functions of threads and devices; objects on the heap *)
(* are IRPs, files of threads and swap files.                              *)
VarsInv ==
    /\ irps = [t \in Threads |-> irps[t]]
    /\ calls = [t \in Threads |-> calls[t]]
    /\ op = [t \in Threads |-> op[t]]
    /\ files \in [Threads -> FileRec]
    /\ moved \in [Threads -> Nat]
    /\ lock \in [DeviceNames -> Threads \cup {None}]
    /\ \A h \in heap : \/ h[1] = "swap"
                       \/ \E t \in Threads : h = <<"file", t>>
                       \/ \E t \in Threads : \E n \in {1, 2} : h = <<"irp", t, n>>

(* Nothing is open before IomuLateInit has come to its end.                *)
QuietInv ==
    phase # Up =>
        /\ heap = {}
        /\ \A t \in Threads : op[t] = NoOp /\ files[t] = NoFile /\ moved[t] = 0
        /\ \A d \in DeviceNames : lock[d] = None

IoInv == BootInv /\ VarsInv /\ QuietInv /\ \A t \in Threads : ThreadInv(t)
-----------------------------------------------------------------------------
(* Devices.                                                                *)

LEMMA KindsOfDevice ==
    ASSUME NEW d \in DeviceNames
    PROVE  d = Disk \/ \E k \in DOMAIN Volumes : d = Vol(k) \/ d = Fs(k)
  BY DEF DeviceNames

LEMMA NoneIsNoDevice == None \notin DeviceNames /\ None \notin Threads /\ None \notin Majors
  BY IoAssumption

LEMMA VolumeNumbers == DOMAIN Volumes = 1 .. Len(Volumes) /\ Len(Volumes) \in Nat
  BY IoAssumption

LEMMA DiskFacts ==
    /\ Disk \in DeviceNames /\ Below(Disk) = None /\ DriverOf(Disk) = "disk"
    /\ Rank(Disk) = 1 /\ Level(Disk) = 1 /\ Disk[1] = "disk" /\ Disk[2] = 0
  BY DEF Disk, DeviceNames, Below, DriverOf, Rank, Level

LEMMA VolFacts ==
    ASSUME NEW k \in DOMAIN Volumes
    PROVE  /\ Vol(k) \in DeviceNames /\ Below(Vol(k)) = Disk /\ DriverOf(Vol(k)) = "vol"
           /\ Rank(Vol(k)) = 2 /\ Level(Vol(k)) = 2 /\ Vol(k)[1] = "vol" /\ Vol(k)[2] = k
  BY DEF Disk, Vol, DeviceNames, Below, DriverOf, Rank, Level

LEMMA FsFacts ==
    ASSUME NEW k \in DOMAIN Volumes
    PROVE  /\ Fs(k) \in DeviceNames /\ Below(Fs(k)) = Vol(k)
           /\ DriverOf(Fs(k)) = IF Volumes[k] = "swap" THEN "swapfs" ELSE "fat"
           /\ Rank(Fs(k)) = (IF Volumes[k] = "swap" THEN 4 ELSE 3)
           /\ Level(Fs(k)) = 3 /\ Fs(k)[1] = "fs" /\ Fs(k)[2] = k
  BY DEF Disk, Vol, Fs, DeviceNames, Below, DriverOf, Rank, Level

(* A device is created by the driver its rank names.                       *)
LEMMA RankOfDriver ==
    ASSUME NEW d \in DeviceNames
    PROVE  Rank(d) \in 1 .. 4 /\ DriverNames[Rank(d)] = DriverOf(d)
  BY KindsOfDevice, DiskFacts, VolFacts, FsFacts DEF DriverNames

LEMMA Phases == FindSystem = 5 /\ InitSwap = 6 /\ Up = 7 /\ Failed = 8 /\ DOMAIN DriverNames = 1 .. 4
  BY DEF FindSystem, InitSwap, Up, Failed, DriverNames

LEMMA RangeOfAppend ==
    ASSUME NEW S, NEW s \in Seq(S), NEW x \in S
    PROVE  Range(Append(s, x)) = Range(s) \cup {x}
  <1>1. DOMAIN Append(s, x) = 1 .. Len(s) + 1 /\ DOMAIN s = 1 .. Len(s) /\ Len(s) \in Nat
    OBVIOUS
  <1>2. \A i \in 1 .. Len(s) : Append(s, x)[i] = s[i]
    OBVIOUS
  <1>3. Append(s, x)[Len(s) + 1] = x
    OBVIOUS
  <1>. QED  BY <1>1, <1>2, <1>3 DEF Range

(* The devices a driver wants are devices of its own on attached ones.     *)
LEMMA WantedDevices ==
    ASSUME BootInv, NEW i \in 1 .. 4, NEW d \in Wanted(DriverNames[i])
    PROVE  d \in DeviceNames /\ Rank(d) = i /\ Attached(d)
  <1>. DriverNames[1] = "disk" /\ DriverNames[2] = "vol" /\ DriverNames[3] = "fat" /\ DriverNames[4] = "swapfs"
    BY DEF DriverNames
  <1>1. CASE i = 1
    BY <1>1, DiskFacts DEF Wanted, Attached
  <1>2. CASE i = 2
    <2>1. PICK e \in DOMAIN devs : e[1] = "disk" /\ DriverOf(e) \in Range(drivers)
      BY <1>2 DEF Wanted, IomuGetDevicesByType
    <2>2. e = Disk
      BY <2>1, KindsOfDevice, VolFacts, FsFacts DEF BootInv, DeviceInv
    <2>3. PICK k \in DOMAIN Volumes : d = Vol(k)
      BY <1>2 DEF Wanted
    <2>. QED  BY <1>2, <2>1, <2>2, <2>3, VolFacts DEF Attached
  <1>3. CASE i \in {3, 4}
    <2>1. PICK k \in DOMAIN Volumes :
             d = Fs(k) /\ Volumes[k] = (IF i = 3 THEN "fat" ELSE "swap") /\ Vol(k) \in IomuGetDevicesByType("vol")
      BY <1>3 DEF Wanted
    <2>. QED  BY <1>3, <2>1, FsFacts DEF Attached, IomuGetDevicesByType
  <1>. QED  BY <1>1, <1>2, <1>3
-----------------------------------------------------------------------------
(* The steps of IomuLateInit.                                              *)

LEMMA VpbType ==
    ASSUME VpbInv
    PROVE  /\ DOMAIN vpbs = 1 .. Len(vpbs) /\ Len(vpbs) \in Nat /\ letters = Len(vpbs)
           /\ \A i \in DOMAIN vpbs : vpbs[i] \in Vpb
  BY DEF VpbInv

LEMMA RanksAreNumbers == \A d \in DeviceNames : Rank(d) \in Int
  BY RankOfDriver

(* A thread that has nothing open and nothing under way.                   *)
LEMMA QuietThread ==
    ASSUME IoInv, phase # Up, UNCHANGED <<files, lock, irps, calls, op, moved>>,
           \A h \in heap' : h[1] = "swap"
    PROVE  VarsInv' /\ \A t \in Threads : ThreadInv(t)'
  <1>1. VarsInv'
    BY DEF IoInv, VarsInv
  <1>2. ASSUME NEW t \in Threads
        PROVE  ThreadInv(t)'
    <2>1. op[t] = NoOp /\ files[t] = NoFile /\ moved[t] = 0 /\ irps[t] = << >> /\ calls[t] = << >>
      BY DEF IoInv, QuietInv, ThreadInv, CallInv
    <2>2. CallInv(t)'
      BY <2>1 DEF CallInv
    <2>3. FileInv(t)'
      BY <2>1, NoneIsNoDevice DEF FileInv, NoFile, NoOp, Gain, Majors
    <2>4. HeapInv(t)'
      BY <2>1 DEF HeapInv, NoFile
    <2>5. LockInv(t)'
      BY <2>1, NoneIsNoDevice DEF IoInv, QuietInv, LockInv
    <2>. QED  BY <2>2, <2>3, <2>4, <2>5 DEF ThreadInv
  <1>. QED  BY <1>1, <1>2

LEMMA BootStep ==
    ASSUME IoInv, phase # Up, UNCHANGED <<files, lock, irps, calls, op, moved>>,
           heap' = heap, BootInv'
    PROVE  IoInv'
  <1>1. \A h \in heap' : h[1] = "swap"
    BY DEF IoInv, QuietInv
  <1>2. QuietInv'
    BY DEF IoInv, QuietInv
  <1>. QED  BY <1>1, <1>2, QuietThread DEF IoInv

LEMMA IoCreateDriverStep ==
    ASSUME IoInv, IoCreateDriver
    PROVE  IoInv'
  <1>. BootInv
    BY DEF IoInv
  <1>. phase \in 1 .. 4 /\ phase # Up /\ todo = {}
    BY Phases DEF IoCreateDriver
  <1>1. PhaseInv'
    <2>1. \A d \in todo' \ {None} : d \in DeviceNames /\ Rank(d) = phase /\ Attached(d)
      BY WantedDevices DEF IoCreateDriver
    <2>2. \A d \in todo' \ {None} : d \notin DOMAIN devs
      BY <2>1 DEF BootInv, DeviceInv
    <2>. QED  BY <2>1, <2>2 DEF PhaseInv, BootInv, IoCreateDriver, Attached
  <1>2. DeviceInv'
    BY DEF DeviceInv, BootInv, PhaseInv, IoCreateDriver, Attached
  <1>3. VpbInv'
    <2>1. ASSUME NEW k \in DOMAIN Volumes, Vol(k) \in todo'
          PROVE  letters < k
      <3>1. phase = 2
        BY <2>1, WantedDevices, VolFacts, NoneIsNoDevice DEF IoCreateDriver
      <3>2. ASSUME NEW i \in DOMAIN vpbs
            PROVE  FALSE
        <4>1. vpbs[i].vol \in DOMAIN Volumes
          BY VpbType DEF BootInv, Vpb
        <4>2. Vol(vpbs[i].vol) \in DOMAIN devs
          BY DEF BootInv, VpbInv
        <4>. QED  BY <4>1, <4>2, <3>1, VolFacts DEF BootInv, DeviceInv
      <3>3. letters = 0
        BY <3>2, VpbType DEF BootInv
      <3>. QED  BY <3>3, VolumeNumbers
    <2>. QED  BY <2>1 DEF BootInv, VpbInv, IoCreateDriver
  <1>. QED  BY <1>1, <1>2, <1>3, BootStep DEF BootInv, IoCreateDriver

LEMMA IoCreateDriverFailedStep ==
    ASSUME IoInv, IoCreateDriverFailed
    PROVE  IoInv'
  <1>. BootInv
    BY DEF IoInv
  <1>. phase \in 1 .. 4 /\ phase # Up
    BY Phases DEF IoCreateDriverFailed, BootInv, PhaseInv
  <1>0. phase' = 8 \/ phase' = phase + 1
    BY Phases DEF IoCreateDriverFailed
  <1>1. PhaseInv'
    BY <1>0, Phases DEF PhaseInv, BootInv, IoCreateDriverFailed
  <1>2. DeviceInv'
    BY <1>0, RanksAreNumbers DEF DeviceInv, BootInv, IoCreateDriverFailed, Attached
  <1>3. VpbInv'
    <2>1. ASSUME NEW i \in DOMAIN vpbs, vpbs[i].mounted
          PROVE  DriverOf(vpbs[i].fs) \in Range(drivers)
      <3>1. vpbs[i].fs \in DeviceNames
        BY <2>1 DEF BootInv, VpbInv, DeviceInv
      <3>2. Rank(vpbs[i].fs) # phase
        BY <2>1, <3>1, RankOfDriver DEF IoCreateDriverFailed
      <3>. QED  BY <2>1, <3>2 DEF BootInv, VpbInv
    <2>. QED  BY <2>1 DEF BootInv, VpbInv, IoCreateDriverFailed
  <1>. QED  BY <1>1, <1>2, <1>3, BootStep DEF BootInv, IoCreateDriverFailed

LEMMA IomuDriverInstalledStep ==
    ASSUME IoInv, IomuDriverInstalled
    PROVE  IoInv'
  <1>. BootInv
    BY DEF IoInv
  <1>. phase \in 1 .. 4 /\ phase # Up
    BY Phases DEF IomuDriverInstalled, BootInv, PhaseInv
  <1>0. DriverNames[phase] \in Range(DriverNames)
    BY Phases DEF Range
  <1>1. Range(drivers') = Range(drivers) \cup {DriverNames[phase]}
    BY <1>0, RangeOfAppend DEF BootInv, PhaseInv, IomuDriverInstalled
  <1>2. PhaseInv'
    BY <1>0, Phases DEF PhaseInv, BootInv, IomuDriverInstalled
  <1>3. DeviceInv'
    BY <1>1, RanksAreNumbers DEF DeviceInv, BootInv, IomuDriverInstalled, Attached
  <1>4. VpbInv'
    <2>1. ASSUME NEW i \in DOMAIN vpbs, vpbs[i].mounted
          PROVE  DriverOf(vpbs[i].fs) \in Range(drivers')
      <3>1. vpbs[i].fs \in DeviceNames
        BY <2>1 DEF BootInv, VpbInv, DeviceInv
      <3>. QED  BY <1>1, <2>1, <3>1, RankOfDriver DEF BootInv, VpbInv
    <2>. QED  BY <2>1 DEF BootInv, VpbInv, IomuDriverInstalled
  <1>. QED  BY <1>2, <1>3, <1>4, BootStep DEF BootInv, IomuDriverInstalled

LEMMA IomuDetermineSystemPartitionStep ==
    ASSUME IoInv, IomuDetermineSystemPartition
    PROVE  IoInv'
  <1>. BootInv
    BY DEF IoInv
  <1>. phase = 5 /\ phase' = 6 /\ phase # Up /\ todo = {}
    BY Phases DEF IomuDetermineSystemPartition, BootInv, PhaseInv
  <1>. UNCHANGED <<todo, drivers, devs, vpbs, letters, panic>>
    BY DEF IomuDetermineSystemPartition
  <1>1. PhaseInv'
    BY Phases DEF PhaseInv, BootInv
  <1>2. DeviceInv'
    BY RanksAreNumbers DEF DeviceInv, BootInv, Attached
  <1>3. VpbInv'
    BY DEF BootInv, VpbInv
  <1>. QED  BY <1>1, <1>2, <1>3, BootStep DEF BootInv, IomuDetermineSystemPartition

LEMMA IomuInitializeSwapFileStep ==
    ASSUME IoInv, IomuInitializeSwapFile
    PROVE  IoInv'
  <1>. BootInv
    BY DEF IoInv
  <1>. phase = 6 /\ phase' = 7 /\ phase # Up /\ todo = {}
    BY Phases DEF IomuInitializeSwapFile, BootInv, PhaseInv
  <1>. UNCHANGED <<todo, drivers, devs, vpbs, letters, panic, files, lock, irps, calls, op, moved>>
    BY DEF IomuInitializeSwapFile
  <1>1. PhaseInv'
    BY Phases DEF PhaseInv, BootInv
  <1>2. DeviceInv'
    BY RanksAreNumbers DEF DeviceInv, BootInv, Attached
  <1>3. VpbInv'
    BY DEF BootInv, VpbInv
  <1>4. \A h \in heap' : h[1] = "swap"
    BY DEF IomuInitializeSwapFile
  <1>5. QuietInv'
    BY Phases DEF QuietInv
  <1>. QED  BY <1>1, <1>2, <1>3, <1>4, <1>5, QuietThread DEF BootInv, IoInv
(* A VPB once its volume is mounted.                                       *)
LEMMA MountedVpb ==
    ASSUME NEW v \in Vpb, NEW k \in DOMAIN Volumes,
           NEW w, w = [v EXCEPT !.fs = Fs(k), !.mounted = TRUE, !.swap = Volumes[k] = "swap"]
    PROVE  w \in Vpb /\ w.letter = v.letter /\ w.vol = v.vol /\ w.fs = Fs(k)
  BY FsFacts DEF Vpb

(* A driver entry creates a device.  The lowest partition comes first, so  *)
(* the volumes before it are all that have a letter.                       *)
LEMMA IoCreateDeviceStep ==
    ASSUME IoInv, IoCreateDevice
    PROVE  IoInv'
  <1>. BootInv /\ PhaseInv /\ DeviceInv /\ VpbInv
    BY DEF IoInv, BootInv
  <1>1. PICK d \in todo \ {None} :
            /\ panic = "none"
            /\ \A e \in todo \ {None} : d[2] <= e[2]
            /\ todo' = todo \ {d}
            /\ \/ /\ devs' = [x \in DOMAIN devs \cup {d} |-> IF x = d THEN NewDevice(d) ELSE devs[x]]
                  /\ CASE d[1] = "disk" -> UNCHANGED <<vpbs, letters, panic>>
                       [] d[1] = "vol"  -> IoAllocateVpb(d[2])
                       [] d[1] = "fs"   -> Mount(d[2]) /\ UNCHANGED <<letters, panic>>
               \/ UNCHANGED <<devs, vpbs, letters, panic>>
            /\ UNCHANGED <<phase, drivers, systemDrive, swapFile, files, lock, irps, calls,
                           op, heap, moved>>
    BY DEF IoCreateDevice
  <1>2. /\ d \in DeviceNames /\ d # None /\ d \in todo /\ phase \in 1 .. 4 /\ None \in todo
        /\ d \notin DOMAIN devs /\ Rank(d) = phase /\ Attached(d)
    BY <1>1 DEF PhaseInv
  <1>3. todo' # {} /\ None \in todo' /\ todo' \subseteq todo /\ d \notin todo'
    BY <1>1, <1>2
  <1>4. phase # Up
    BY <1>2, Phases
  <1>. UNCHANGED <<phase, drivers>>
    BY <1>1
  <1>5. CASE UNCHANGED <<devs, vpbs, letters, panic>>
    <2>1. PhaseInv'
      BY <1>3, <1>5 DEF PhaseInv, Attached
    <2>2. DeviceInv'
      BY <1>2, <1>3, <1>5 DEF DeviceInv, Attached
    <2>3. VpbInv'
      BY <1>2, <1>3, <1>5 DEF VpbInv
    <2>. QED  BY <1>1, <1>4, <2>1, <2>2, <2>3, BootStep DEF BootInv
  <1>6. CASE /\ devs' = [x \in DOMAIN devs \cup {d} |-> IF x = d THEN NewDevice(d) ELSE devs[x]]
             /\ CASE d[1] = "disk" -> UNCHANGED <<vpbs, letters, panic>>
                  [] d[1] = "vol"  -> IoAllocateVpb(d[2])
                  [] d[1] = "fs"   -> Mount(d[2]) /\ UNCHANGED <<letters, panic>>
    <2>0. DOMAIN devs' = DOMAIN devs \cup {d} /\ devs'[d] = NewDevice(d)
          /\ \A x \in DOMAIN devs : devs'[x] = devs[x]
      BY <1>2, <1>6
    <2>1. PhaseInv'
      BY <1>2, <1>3, <2>0 DEF PhaseInv, Attached
    <2>2. NewDevice(d).stack = Level(d) /\ NewDevice(d).below = Below(d)
      <3>1. Below(d) # None => devs[Below(d)].stack = Level(Below(d))
        BY <1>2 DEF DeviceInv, Attached
      <3>2. Level(d) = IF Below(d) = None THEN 1 ELSE Level(Below(d)) + 1
        BY <1>2, KindsOfDevice, DiskFacts, VolFacts, FsFacts, NoneIsNoDevice
      <3>. QED  BY <3>1, <3>2 DEF NewDevice, IoAttachDevice
    <2>3. DeviceInv'
      BY <1>2, <1>3, <2>0, <2>2 DEF DeviceInv, Attached
    <2>4. VpbInv'
      <3>1. CASE d = Disk
        <4>1. UNCHANGED <<vpbs, letters, panic>>
          BY <1>6, <3>1, DiskFacts
        <4>. QED  BY <1>2, <1>3, <2>0, <4>1 DEF VpbInv
      <3>2. ASSUME NEW k \in DOMAIN Volumes, d = Vol(k)
            PROVE  VpbInv'
        <4>0. IoAllocateVpb(k) /\ d[2] = k
          BY <1>6, <3>2, VolFacts
        <4>. DEFINE v == [letter |-> letters + 1, vol |-> k, fs |-> None, mounted |-> FALSE, swap |-> FALSE]
        <4>1. vpbs' = Append(vpbs, v) /\ letters' = letters + 1
          BY <4>0 DEF IoAllocateVpb
        <4>2. v \in Vpb /\ v.letter = letters + 1 /\ v.vol = k /\ v.mounted = FALSE
          BY VpbType DEF Vpb
        <4>. HIDE DEF v
        <4>3. vpbs' \in Seq(Vpb) /\ Len(vpbs') = Len(vpbs) + 1 /\ DOMAIN vpbs' = 1 .. Len(vpbs) + 1
              /\ vpbs'[Len(vpbs) + 1] = v /\ \A i \in DOMAIN vpbs : vpbs'[i] = vpbs[i]
          BY <4>1, <4>2 DEF VpbInv
        <4>4. \A i \in DOMAIN vpbs' :
                 /\ vpbs'[i].letter = i /\ Vol(vpbs'[i].vol) \in DOMAIN devs'
                 /\ vpbs'[i].mounted =>
                      /\ vpbs'[i].fs = Fs(vpbs'[i].vol) /\ vpbs'[i].fs \in DOMAIN devs'
                      /\ DriverOf(vpbs'[i].fs) \in Range(drivers) \/ (todo' # {} /\ Rank(vpbs'[i].fs) = phase)
          <5>. SUFFICES ASSUME NEW i \in DOMAIN vpbs'
                        PROVE  /\ vpbs'[i].letter = i /\ Vol(vpbs'[i].vol) \in DOMAIN devs'
                               /\ vpbs'[i].mounted =>
                                    /\ vpbs'[i].fs = Fs(vpbs'[i].vol) /\ vpbs'[i].fs \in DOMAIN devs'
                                    /\ DriverOf(vpbs'[i].fs) \in Range(drivers) \/ (todo' # {} /\ Rank(vpbs'[i].fs) = phase)
            OBVIOUS
          <5>1. CASE i \in DOMAIN vpbs
            BY <5>1, <4>3, <2>0, <1>2, <1>3 DEF VpbInv
          <5>2. CASE i = Len(vpbs) + 1
            BY <5>2, <4>2, <4>3, <2>0, <3>2, VpbType
          <5>. QED  BY <5>1, <5>2, <4>3, VpbType
        <4>5. letters < k
          BY <1>2, <3>2 DEF VpbInv
        <4>6. \A j \in DOMAIN Volumes : Vol(j) \in todo' => letters' < j
          <5>. SUFFICES ASSUME NEW j \in DOMAIN Volumes, Vol(j) \in todo'
                        PROVE  letters' < j
            OBVIOUS
          <5>1. Vol(j) \in todo \ {None} /\ Vol(j)[2] = j /\ j # k
            BY <1>3, <3>2, VolFacts, NoneIsNoDevice
          <5>2. k <= j
            BY <5>1, <1>1, <4>0
          <5>. QED  BY <5>1, <5>2, <4>1, <4>5, VpbType, VolumeNumbers
        <4>7. panic' \in {"none", "letters"} /\ (panic' = "letters" => Len(Volumes) > MaxLetters)
          <5>1. panic = "none"
            BY <1>1
          <5>2. panic' = IF letters < MaxLetters THEN panic ELSE "letters"
            BY <4>0 DEF IoAllocateVpb
          <5>3. ~(letters < MaxLetters) => Len(Volumes) > MaxLetters
            BY <4>5, VpbType, VolumeNumbers, IoAssumption
          <5>. QED  BY <5>1, <5>2, <5>3
        <4>. QED  BY <4>1, <4>3, <4>4, <4>6, <4>7 DEF VpbInv
      <3>3. ASSUME NEW k \in DOMAIN Volumes, d = Fs(k)
            PROVE  VpbInv'
        <4>0. Mount(k) /\ UNCHANGED <<letters, panic>>
          BY <1>6, <3>3, FsFacts
        <4>1. DOMAIN vpbs' = DOMAIN vpbs
              /\ \A i \in DOMAIN vpbs : vpbs'[i] =
                   IF vpbs[i].vol = k
                   THEN [vpbs[i] EXCEPT !.fs = Fs(k), !.mounted = TRUE, !.swap = Volumes[k] = "swap"]
                   ELSE vpbs[i]
          BY <4>0 DEF Mount
        <4>2. \A i \in DOMAIN vpbs : vpbs'[i] \in Vpb /\ vpbs'[i].letter = vpbs[i].letter /\ vpbs'[i].vol = vpbs[i].vol
          <5>. SUFFICES ASSUME NEW i \in DOMAIN vpbs
                        PROVE  vpbs'[i] \in Vpb /\ vpbs'[i].letter = vpbs[i].letter /\ vpbs'[i].vol = vpbs[i].vol
            OBVIOUS
          <5>1. vpbs[i] \in Vpb
            BY VpbType
          <5>2. CASE vpbs[i].vol = k
            <6>1. vpbs'[i] = [vpbs[i] EXCEPT !.fs = Fs(k), !.mounted = TRUE, !.swap = Volumes[k] = "swap"]
              BY <5>2, <4>1
            <6>2. vpbs'[i] \in Vpb
              BY ONLY <5>1, <6>1, MountedVpb, k \in DOMAIN Volumes
            <6>3. vpbs'[i].letter = vpbs[i].letter
              BY ONLY <5>1, <6>1 DEF Vpb
            <6>4. vpbs'[i].vol = vpbs[i].vol
              BY ONLY <5>1, <6>1 DEF Vpb
            <6>. QED  BY <6>2, <6>3, <6>4
          <5>. QED  BY <5>1, <5>2, <4>1
        <4>3. vpbs' = [i \in 1 .. Len(vpbs) |-> vpbs'[i]]
          BY <4>0, VpbType DEF Mount
        <4>4. vpbs' \in Seq(Vpb) /\ Len(vpbs') = Len(vpbs)
          <5>1. Len(vpbs) \in Nat /\ \A i \in 1 .. Len(vpbs) : vpbs'[i] \in Vpb
            BY <4>2, VpbType
          <5>. QED  BY <5>1, <4>3
        <4>5. ASSUME NEW i \in DOMAIN vpbs
              PROVE  /\ vpbs'[i].letter = i /\ Vol(vpbs'[i].vol) \in DOMAIN devs'
                     /\ vpbs'[i].mounted =>
                          /\ vpbs'[i].fs = Fs(vpbs'[i].vol) /\ vpbs'[i].fs \in DOMAIN devs'
                          /\ DriverOf(vpbs'[i].fs) \in Range(drivers) \/ (todo' # {} /\ Rank(vpbs'[i].fs) = phase)
          <5>1. CASE vpbs[i].vol = k
            <6>1. vpbs'[i].fs = Fs(k) /\ vpbs'[i].letter = i /\ vpbs'[i].vol = k
              <7>1. vpbs[i] \in Vpb
                BY VpbType
              <7>0. vpbs'[i] = [vpbs[i] EXCEPT !.fs = Fs(k), !.mounted = TRUE, !.swap = Volumes[k] = "swap"]
                BY <5>1, <4>1
              <7>2. vpbs'[i].fs = Fs(k)
                BY ONLY <7>0, <7>1, MountedVpb, k \in DOMAIN Volumes
              <7>. QED  BY <7>2, <5>1, <4>2 DEF VpbInv
            <6>2. Vol(k) \in DOMAIN devs
              BY <5>1 DEF VpbInv
            <6>. QED  BY <6>1, <6>2, <2>0, <1>2, <1>3, <3>3
          <5>2. CASE vpbs[i].vol # k
            <6>1. vpbs'[i] = vpbs[i]
              BY <5>2, <4>1
            <6>. QED  BY <6>1, <2>0, <1>2, <1>3 DEF VpbInv
          <5>. QED  BY <5>1, <5>2
        <4>6. \A j \in DOMAIN Volumes : Vol(j) \in todo' => letters' < j
          BY <1>3, <4>0 DEF VpbInv
        <4>. QED  BY <4>0, <4>1, <4>4, <4>5, <4>6, VpbType DEF VpbInv
      <3>. QED  BY <1>2, <3>1, <3>2, <3>3, KindsOfDevice
    <2>. QED  BY <1>1, <1>4, <2>1, <2>3, <2>4, BootStep DEF BootInv
  <1>. QED  BY <1>1, <1>5, <1>6
-----------------------------------------------------------------------------
(* Steps of threads.                                                       *)

(* A step of t changes nothing that belongs to another thread.             *)
Others(t) ==
    \A u \in Threads \ {t} :
        /\ irps'[u] = irps[u] /\ calls'[u] = calls[u] /\ op'[u] = op[u]
        /\ files'[u] = files[u] /\ moved'[u] = moved[u]
        /\ \A n \in {1, 2} : <<"irp", u, n>> \in heap' <=> <<"irp", u, n>> \in heap
        /\ <<"file", u>> \in heap' <=> <<"file", u>> \in heap
        /\ \A d \in DeviceNames : lock'[d] = u <=> lock[d] = u

LEMMA OtherThread ==
    ASSUME NEW u \in Threads, NEW t \in Threads, u # t, ThreadInv(u), Others(t), vpbs' = vpbs
    PROVE  ThreadInv(u)'
  <1>0. u \in Threads \ {t}
    OBVIOUS
  <1>1. CallInv(u)'
    BY <1>0 DEF ThreadInv, Others, CallInv, RequestInv, OwnRequest, FileDevice
  <1>2. FileInv(u)'
    BY <1>0 DEF ThreadInv, Others, FileInv, Gain
  <1>3. HeapInv(u)'
    BY <1>0 DEF ThreadInv, Others, HeapInv
  <1>4. LockInv(u)'
    <2>1. calls'[u] = calls[u] /\ \A d \in DeviceNames : lock'[d] = u <=> lock[d] = u
      BY <1>0 DEF Others
    <2>. QED  BY <2>1 DEF ThreadInv, LockInv
  <1>. QED  BY <1>1, <1>2, <1>3, <1>4 DEF ThreadInv

LEMMA ThreadStep ==
    ASSUME IoInv, NEW t \in Threads, phase = Up, UNCHANGED boot, panic' = panic,
           VarsInv', ThreadInv(t)', Others(t)
    PROVE  IoInv'
  <1>. UNCHANGED <<phase, todo, drivers, devs, vpbs, letters>>
    BY DEF boot
  <1>1. BootInv'
    BY DEF IoInv, BootInv, PhaseInv, DeviceInv, VpbInv, Attached
  <1>2. QuietInv'
    BY DEF QuietInv
  <1>3. \A u \in Threads : ThreadInv(u)'
    BY OtherThread DEF IoInv
  <1>. QED  BY <1>1, <1>2, <1>3 DEF IoInv

(* The devices of volume k are stacked and their drivers installed.        *)
StackAt(k) ==
    /\ Fs(k) \in DOMAIN devs /\ Vol(k) \in DOMAIN devs /\ Disk \in DOMAIN devs
    /\ devs[Fs(k)].stack = 3 /\ devs[Vol(k)].stack = 2 /\ devs[Disk].stack = 1
    /\ devs[Fs(k)].below = Vol(k) /\ devs[Vol(k)].below = Disk /\ devs[Disk].below = None
    /\ \A d \in {Fs(k), Vol(k), Disk} : DriverOf(d) \in Range(drivers)

LEMMA MountedStack ==
    ASSUME BootInv, phase = Up, NEW i \in DOMAIN vpbs, vpbs[i].mounted
    PROVE  \E k \in DOMAIN Volumes : vpbs[i].fs = Fs(k) /\ vpbs[i].vol = k /\ StackAt(k)
  <1>0. todo = {}
    BY Phases DEF BootInv, PhaseInv
  <1>. DEFINE k == vpbs[i].vol
  <1>1. k \in DOMAIN Volumes
    BY VpbType DEF BootInv, Vpb
  <1>2. vpbs[i].fs = Fs(k) /\ Fs(k) \in DOMAIN devs /\ DriverOf(Fs(k)) \in Range(drivers)
    BY <1>0 DEF BootInv, VpbInv
  <1>. HIDE DEF k
  <1>3. Vol(k) \in DOMAIN devs /\ DriverOf(Vol(k)) \in Range(drivers)
    BY <1>1, <1>2, FsFacts, VolFacts, NoneIsNoDevice DEF BootInv, DeviceInv, Attached
  <1>4. Disk \in DOMAIN devs /\ DriverOf(Disk) \in Range(drivers)
    BY <1>1, <1>3, VolFacts, DiskFacts, NoneIsNoDevice DEF BootInv, DeviceInv, Attached
  <1>5. StackAt(k)
    BY <1>1, <1>2, <1>3, <1>4, FsFacts, VolFacts, DiskFacts DEF StackAt, BootInv, DeviceInv
  <1>. QED  BY <1>1, <1>2, <1>5 DEF k

LEMMA FileStack ==
    ASSUME IoInv, phase = Up, NEW t \in Threads, files[t].state # "none"
    PROVE  \E k \in DOMAIN Volumes : FileDevice(t) = Fs(k) /\ StackAt(k)
  BY MountedStack DEF IoInv, ThreadInv, FileInv, FileDevice

LEMMA NoOpFacts ==
    /\ NoOp \in OpRec /\ NoOp.major = None /\ NoOp.file = None /\ NoOp.off = 0 /\ NoOp.len = 0
    /\ \A p \in OpRec : p.major \in Majors => p # NoOp
  BY NoneIsNoDevice DEF NoOp, OpRec

(* IoAllocateIrp and the call of the top of the stack.                     *)
LEMMA NewIrp ==
    ASSUME NEW d, NEW n \in {2, 3}, devs[d].stack = n, NEW p \in OpRec
    PROVE  \E locs \in [0 .. n - 1 -> OpRec] :
             /\ locs[n - 1] = p
             /\ Down(IoAllocateIrp(d, p)) =
                  [size |-> n, cur |-> n - 1, done |-> FALSE, ok |-> FALSE, info |-> 0, locs |-> locs]
  <1>. DEFINE locs == [i \in 0 .. n - 1 |-> IF i = n - 1 THEN p ELSE NoOp]
              a == IoAllocateIrp(d, p)
  <1>1. locs \in [0 .. n - 1 -> OpRec] /\ locs[n - 1] = p
    BY NoOpFacts
  <1>2. a = [size |-> n, cur |-> n, done |-> FALSE, ok |-> FALSE, info |-> 0, locs |-> locs]
    BY DEF IoAllocateIrp
  <1>. HIDE DEF locs, a
  <1>3. Down(a) = [a EXCEPT !.cur = n - 1]
    BY <1>2 DEF Down
  <1>4. Down(a) = [size |-> n, cur |-> n - 1, done |-> FALSE, ok |-> FALSE, info |-> 0, locs |-> locs]
    BY <1>2, <1>3
  <1>. QED  BY <1>1, <1>4 DEF a

LEMMA HeapNames ==
    \A t, u : \A m, n \in {1, 2} :
        /\ <<"irp", t, m>> # <<"file", u>>
        /\ <<"irp", t, m>> = <<"irp", u, n>> <=> t = u /\ m = n
        /\ <<"file", t>> = <<"file", u>> <=> t = u
  OBVIOUS
(* The call IoCallDriver starts with.                                      *)
LEMMA NewCall ==
    ASSUME NEW d \in DeviceNames, NEW n \in {1, 2}
    PROVE  /\ IoCallDriver(d, n) \in CallRec /\ IoCallDriver(d, n).dev = d /\ IoCallDriver(d, n).irp = n
           /\ IoCallDriver(d, n).at = "lock" /\ IoCallDriver(d, n).nested = FALSE
  BY DEF IoCallDriver, CallRec

LEMMA IdleThread ==
    ASSUME IoInv, NEW t \in Threads, Idle(t)
    PROVE  /\ phase = Up /\ panic = "none" /\ op[t] = NoOp /\ irps[t] = << >> /\ calls[t] = << >>
           /\ moved[t] = files[t].off /\ files[t] \in FileRec
           /\ <<"irp", t, 1>> \notin heap /\ <<"irp", t, 2>> \notin heap
           /\ \A d \in DeviceNames : lock[d] # t
  <1>1. phase = Up /\ panic = "none" /\ op[t] = NoOp
    BY DEF Idle, Running
  <1>. CallInv(t) /\ FileInv(t) /\ HeapInv(t) /\ LockInv(t) /\ VarsInv
    BY DEF IoInv, ThreadInv
  <1>2. irps[t] = << >> /\ calls[t] = << >>
    BY <1>1 DEF CallInv
  <1>3. files[t] \in FileRec
    BY DEF VarsInv
  <1>4. moved[t] = files[t].off
    BY <1>1, <1>3, IoAssumption DEF FileInv, Gain, FileRec
  <1>5. <<"irp", t, 1>> \notin heap /\ <<"irp", t, 2>> \notin heap
    BY <1>2 DEF HeapInv
  <1>6. \A d \in DeviceNames : lock[d] # t
    BY <1>2 DEF LockInv
  <1>. QED  BY <1>1, <1>2, <1>3, <1>4, <1>5, <1>6

(* What has to hold of a thread with one call and one IRP.                 *)
LEMMA OneCall ==
    ASSUME NEW t \in Threads, NEW i \in UserIrp, NEW c \in CallRec,
           NEW o \in [major : Majors, file : {t}, off : Nat, len : Nat],
           irps'[t] = <<i>>, calls'[t] = <<c>>, op'[t] = o, FileDevice(t)' = c.dev, c.irp = 1,
           o.major # "transfer" => o.len = 0,
           o.major = "transfer" => files'[t].off + o.len <= MaxOffset,
           i.locs[2] = o, i.ok => i.done, i.done => c.at = "ret", i.info <= o.len
    PROVE  CallInv(t)'
  <1>1. o # NoOp
    BY NoneIsNoDevice DEF NoOp
  <1>2. irps'[t][1] = i /\ calls'[t][1] = c
    OBVIOUS
  <1>3. RequestInv(t, irps[t][1], calls[t][1])'
    BY <1>2 DEF RequestInv
  <1>. QED  BY <1>1, <1>2, <1>3 DEF CallInv

LEMMA OneCallLock ==
    ASSUME NEW t \in Threads, NEW c, calls'[t] = <<c>>,
           \A d \in DeviceNames : lock'[d] = t <=> (c.at = "run" /\ c.dev = d)
    PROVE  LockInv(t)'
  <1>1. DOMAIN calls'[t] = {1} /\ calls'[t][1] = c
    OBVIOUS
  <1>2. ASSUME NEW d \in DeviceNames
        PROVE  lock'[d] = t <=> \E n \in DOMAIN calls'[t] : calls'[t][n].dev = d /\ calls'[t][n].at = "run"
    BY <1>1
  <1>. QED  BY <1>2 DEF LockInv

LEMMA OneCallHeap ==
    ASSUME NEW t \in Threads, NEW i, irps'[t] = <<i>>,
           <<"irp", t, 1>> \in heap', <<"irp", t, 2>> \notin heap',
           <<"file", t>> \in heap' <=> files'[t].state # "none"
    PROVE  HeapInv(t)'
  <1>1. DOMAIN irps'[t] = {1}
    OBVIOUS
  <1>. QED  BY <1>1 DEF HeapInv

(* A file operation builds its IRP, and IoCallDriver waits for the lock of *)
(* the file system or fails.                                               *)
LEMMA SubmitStep ==
    ASSUME IoInv, NEW t \in Threads, Idle(t),
           NEW k \in DOMAIN Volumes, StackAt(k),
           NEW p \in [major : Majors, file : {t}, off : Nat, len : Nat],
           NEW f \in FileRec,
           p.major # "transfer" => p.len = 0,
           p.major = "transfer" => f.off + p.len <= MaxOffset,
           f.state # "none", f.vpb \in DOMAIN vpbs, vpbs[f.vpb].mounted, vpbs[f.vpb].fs = Fs(k),
           f.state = "creating" <=> p.major = "create",
           f.state = "creating" => f.off = 0, f.async => f.off = 0, f.off = files[t].off,
           files' = [files EXCEPT ![t] = f],
           heap' = heap \cup {<<"irp", t, 1>>, <<"file", t>>},
           Submit(t, Fs(k), p), UNCHANGED <<boot, lock, moved, panic>>
    PROVE  IoInv'
  <1>. VarsInv
    BY DEF IoInv
  <1>1. PICK c \in CallRec :
            c.dev = Fs(k) /\ c.irp = 1 /\ c.at \in {"lock", "ret"} /\ calls' = [calls EXCEPT ![t] = <<c>>]
    <2>. DEFINE d == IoCallDriver(Fs(k), 1)
                e == [d EXCEPT !.at = "ret", !.ok = FALSE]
    <2>1. d \in CallRec /\ d.dev = Fs(k) /\ d.irp = 1 /\ d.at = "lock"
      <3>1. Fs(k) \in DeviceNames
        BY FsFacts
      <3>. QED  BY <3>1 DEF IoCallDriver, CallRec
    <2>2. calls' = [calls EXCEPT ![t] = <<d>>] \/ calls' = [calls EXCEPT ![t] = <<e>>]
      BY DEF Submit
    <2>. HIDE DEF d
    <2>3. e \in CallRec /\ e.dev = Fs(k) /\ e.irp = 1 /\ e.at = "ret"
      BY <2>1 DEF CallRec
    <2>. HIDE DEF e
    <2>. QED  BY <2>1, <2>2, <2>3
  <1>2. p \in OpRec /\ p.major \in Majors
    BY DEF OpRec
  <1>3. PICK i \in UserIrp :
            /\ i.done = FALSE /\ i.ok = FALSE /\ i.info = 0 /\ i.locs[2] = p
            /\ irps' = [irps EXCEPT ![t] = <<i>>]
    <2>1. devs[Fs(k)].stack = 3
      BY DEF StackAt
    <2>2. PICK locs \in [0 .. 3 - 1 -> OpRec] :
             /\ locs[3 - 1] = p
             /\ Down(IoAllocateIrp(Fs(k), p)) =
                  [size |-> 3, cur |-> 3 - 1, done |-> FALSE, ok |-> FALSE, info |-> 0, locs |-> locs]
      BY ONLY <1>2, <2>1, NewIrp
    <2>. DEFINE e == [size |-> 3, cur |-> 2, done |-> FALSE, ok |-> FALSE, info |-> 0, locs |-> locs]
    <2>3. e \in UserIrp /\ e.done = FALSE /\ e.ok = FALSE /\ e.info = 0 /\ e.locs[2] = p
      BY <2>2 DEF UserIrp
    <2>4. irps' = [irps EXCEPT ![t] = <<e>>]
      BY <2>2 DEF Submit
    <2>. HIDE DEF e
    <2>. QED  BY <2>3, <2>4
  <1>4. op' = [op EXCEPT ![t] = p]
    BY DEF Submit
  <1>5. /\ irps'[t] = <<i>> /\ calls'[t] = <<c>> /\ op'[t] = p /\ files'[t] = f
        /\ \A u \in Threads \ {t} : irps'[u] = irps[u] /\ calls'[u] = calls[u] /\ op'[u] = op[u] /\ files'[u] = files[u]
    BY <1>1, <1>3, <1>4 DEF VarsInv
  <1>6. VarsInv'
    <2>1. /\ irps' = [u \in Threads |-> irps'[u]] /\ calls' = [u \in Threads |-> calls'[u]]
          /\ op' = [u \in Threads |-> op'[u]]
      BY <1>1, <1>3, <1>4 DEF VarsInv
    <2>2. files' \in [Threads -> FileRec] /\ moved' \in [Threads -> Nat] /\ lock' \in [DeviceNames -> Threads \cup {None}]
      BY DEF VarsInv
    <2>3. \A h \in heap' : \/ h[1] = "swap"
                           \/ \E u \in Threads : h = <<"file", u>>
                           \/ \E u \in Threads : \E n \in {1, 2} : h = <<"irp", u, n>>
      BY DEF VarsInv
    <2>. QED  BY <2>1, <2>2, <2>3 DEF VarsInv
  <1>7. Others(t)
    BY <1>5 DEF Others
  <1>8. CallInv(t)'
    <2>1. FileDevice(t)' = Fs(k)
      BY <1>5 DEF FileDevice, boot
    <2>2. p.len \in Nat
      OBVIOUS
    <2>. QED  BY <1>1, <1>3, <1>5, <2>1, <2>2, OneCall
  <1>9. FileInv(t)'
    <2>1. Gain(t)' = 0
      BY <1>3, <1>5 DEF Gain
    <2>2. moved'[t] = f.off
      BY IdleThread
    <2>3. f.off \in Nat
      BY IoAssumption DEF FileRec
    <2>. QED  BY <1>5, <2>1, <2>2, <2>3 DEF FileInv, boot
  <1>10. HeapInv(t)'
    <2>1. <<"irp", t, 1>> \in heap' /\ <<"irp", t, 2>> \notin heap' /\ <<"file", t>> \in heap'
      <3>1. <<"irp", t, 2>> \notin heap
        BY IdleThread
      <3>2. <<"irp", t, 2>> # <<"irp", t, 1>> /\ <<"irp", t, 2>> # <<"file", t>>
        BY HeapNames
      <3>. QED  BY <3>1, <3>2
    <2>2. files'[t].state # "none" /\ irps'[t] = <<i>>
      BY <1>5
    <2>. QED  BY ONLY <2>1, <2>2, OneCallHeap, t \in Threads
  <1>11. LockInv(t)'
    BY <1>1, <1>5, IdleThread, OneCallLock
  <1>12. ThreadInv(t)'
    BY <1>8, <1>9, <1>10, <1>11 DEF ThreadInv
  <1>. QED  BY <1>6, <1>7, <1>12, ThreadStep, IdleThread
LEMMA IoCreateFileStep ==
    ASSUME IoInv, NEW t \in Threads, NEW letter \in 1 .. MaxLetters, IoCreateFile(t, letter)
    PROVE  IoInv'
  <1>. DEFINE i == IomuSearchForVpb(letter)
              p == [NoOp EXCEPT !.major = "create", !.file = t]
              f == [vpb |-> i, async |-> t \in Async, off |-> 0, state |-> "creating"]
  <1>1. /\ Idle(t) /\ files[t] = NoFile /\ i # 0 /\ vpbs[i].mounted
        /\ Submit(t, vpbs[i].fs, p)
        /\ files' = [files EXCEPT ![t] = f]
        /\ heap' = heap \cup {<<"irp", t, 1>>, <<"file", t>>}
        /\ UNCHANGED <<boot, lock, moved, panic>>
    BY DEF IoCreateFile
  <1>2. i \in DOMAIN vpbs
    BY <1>1 DEF IomuSearchForVpb
  <1>3. PICK k \in DOMAIN Volumes : vpbs[i].fs = Fs(k) /\ StackAt(k)
    BY <1>1, <1>2, MountedStack DEF IoInv, Idle, Running
  <1>4. p \in [major : Majors, file : {t}, off : Nat, len : Nat] /\ p.major = "create" /\ p.len = 0
    BY DEF NoOp, Majors
  <1>5. f \in FileRec
    BY <1>2, VpbType, IoAssumption DEF FileRec, IoInv, BootInv
  <1>6. f.state = "creating" /\ f.vpb = i /\ f.off = 0
    OBVIOUS
  <1>7. files[t].off = 0
    BY <1>1 DEF NoFile
  <1>. HIDE DEF f, p, i
  <1>8. Submit(t, Fs(k), p)
    BY <1>1, <1>3
  <1>. QED  BY <1>1, <1>2, <1>3, <1>4, <1>5, <1>6, <1>7, <1>8, SubmitStep

(* A request on an open file.                                              *)
LEMMA OpenFileStep ==
    ASSUME IoInv, NEW t \in Threads, Idle(t), files[t].state = "open",
           NEW p \in [major : Majors, file : {t}, off : Nat, len : Nat],
           p.major # "create",
           p.major # "transfer" => p.len = 0,
           p.major = "transfer" => files[t].off + p.len <= MaxOffset,
           Submit(t, FileDevice(t), p), heap' = heap \cup {<<"irp", t, 1>>},
           UNCHANGED <<boot, files, lock, moved, panic>>
    PROVE  IoInv'
  <1>. FileInv(t) /\ HeapInv(t) /\ VarsInv
    BY DEF IoInv, ThreadInv
  <1>1. phase = Up
    BY DEF Idle, Running
  <1>2. PICK k \in DOMAIN Volumes : FileDevice(t) = Fs(k) /\ StackAt(k)
    BY <1>1, FileStack
  <1>3. files[t] \in FileRec /\ files' = [files EXCEPT ![t] = files[t]]
    BY DEF VarsInv
  <1>4. heap' = heap \cup {<<"irp", t, 1>>, <<"file", t>>}
    BY DEF HeapInv
  <1>5. /\ files[t].vpb \in DOMAIN vpbs /\ vpbs[files[t].vpb].mounted /\ vpbs[files[t].vpb].fs = Fs(k)
        /\ files[t].async => files[t].off = 0
    BY <1>2 DEF FileInv, FileDevice
  <1>6. PICK f \in FileRec : f = files[t]
    BY <1>3
  <1>7. Submit(t, Fs(k), p)
    BY <1>2
  <1>. QED  BY <1>2, <1>3, <1>4, <1>5, <1>6, <1>7, SubmitStep

LEMMA IoReadWriteFileStep ==
    ASSUME IoInv, NEW t \in Threads, NEW len \in Lengths, NEW given \in {None, 0},
           IoReadWriteFile(t, len, given)
    PROVE  IoInv'
  <1>. DEFINE off == IF given # None THEN given ELSE files[t].off
              p == [major |-> "transfer", file |-> t, off |-> off, len |-> len]
  <1>1. /\ Idle(t) /\ files[t].state = "open" /\ files[t].off + len <= MaxOffset
        /\ Submit(t, FileDevice(t), p) /\ heap' = heap \cup {<<"irp", t, 1>>}
        /\ UNCHANGED <<boot, files, lock, moved, panic>>
    BY DEF IoReadWriteFile
  <1>2. files[t].off \in Nat
    BY IoAssumption DEF IoInv, VarsInv, FileRec
  <1>3. off \in Nat
    BY <1>2
  <1>. HIDE DEF off
  <1>4. p \in [major : Majors, file : {t}, off : Nat, len : Nat] /\ p.major = "transfer" /\ p.len = len
    BY <1>3, IoAssumption DEF Majors
  <1>. HIDE DEF p
  <1>. QED  BY <1>1, <1>4, OpenFileStep

LEMMA ControlFileStep ==
    ASSUME IoInv, NEW t \in Threads, NEW major \in {"close", "query"}, ControlFile(t, major)
    PROVE  IoInv'
  <1>. DEFINE p == [NoOp EXCEPT !.major = major, !.file = t]
  <1>1. /\ Idle(t) /\ files[t].state = "open"
        /\ Submit(t, FileDevice(t), p) /\ heap' = heap \cup {<<"irp", t, 1>>}
        /\ UNCHANGED <<boot, files, lock, moved, panic>>
    BY DEF ControlFile
  <1>2. p \in [major : Majors, file : {t}, off : Nat, len : Nat] /\ p.major = major /\ p.len = 0
    BY DEF NoOp, Majors
  <1>. HIDE DEF p
  <1>. QED  BY <1>1, <1>2, OpenFileStep
-----------------------------------------------------------------------------
(* Requests end.                                                           *)

LEMMA DoneThread ==
    ASSUME IoInv, NEW t \in Threads, FileDone(t)
    PROVE  /\ phase = Up /\ op[t] # NoOp
           /\ irps[t] = <<irps[t][1]>> /\ calls[t] = <<calls[t][1]>>
           /\ LastCall(t) = calls[t][1] /\ calls[t][1].at = "ret"
           /\ RequestInv(t, irps[t][1], calls[t][1])
           /\ \A d \in DeviceNames : lock[d] # t
           /\ <<"irp", t, 2>> \notin heap
  <1>. CallInv(t) /\ HeapInv(t) /\ LockInv(t)
    BY DEF IoInv, ThreadInv
  <1>1. phase = Up /\ Len(calls[t]) = 1 /\ LastCall(t).at = "ret"
    BY DEF FileDone, Running
  <1>2. op[t] # NoOp
    <2>1. Len(<< >>) = 0
      OBVIOUS
    <2>2. calls[t] # << >>
      BY <1>1, <2>1
    <2>. QED  BY <2>2 DEF CallInv
  <1>3. LastCall(t) = calls[t][1]
    BY <1>1 DEF LastCall
  <1>4. irps[t] = <<irps[t][1]>> /\ calls[t] = <<calls[t][1]>>
    <2>1. ~OwnRequest(irps[t][2], calls[t])
      BY <1>1 DEF OwnRequest
    <2>. QED  BY <1>2, <2>1 DEF CallInv
  <1>5. RequestInv(t, irps[t][1], calls[t][1])
    BY <1>2 DEF CallInv
  <1>6. DOMAIN calls[t] = {1} /\ DOMAIN irps[t] = {1}
    BY <1>4
  <1>7. \A d \in DeviceNames : lock[d] # t
    BY <1>1, <1>3, <1>6 DEF LockInv
  <1>8. <<"irp", t, 2>> \notin heap
    BY <1>6 DEF HeapInv
  <1>. QED  BY <1>1, <1>2, <1>3, <1>4, <1>5, <1>7, <1>8

(* The IRP is freed, and with it the file object if the file is gone.      *)
LEMMA EndStep ==
    ASSUME IoInv, NEW t \in Threads, FileDone(t), EndRequest(t),
           NEW f \in FileRec, files' = [files EXCEPT ![t] = f], moved' = [moved EXCEPT ![t] = f.off],
           f.state # "creating", f.state = "none" => f = NoFile,
           f.state # "none" => f.vpb = files[t].vpb, f.async => f.off = 0,
           heap' = heap \ ({<<"irp", t, 1>>} \cup IF f.state = "none" THEN {<<"file", t>>} ELSE {})
    PROVE  IoInv'
  <1>. VarsInv /\ FileInv(t) /\ HeapInv(t)
    BY DEF IoInv, ThreadInv
  <1>0. UNCHANGED <<boot, lock, panic>>
    BY DEF EndRequest
  <1>1. /\ irps'[t] = << >> /\ calls'[t] = << >> /\ op'[t] = NoOp /\ files'[t] = f /\ moved'[t] = f.off
        /\ \A u \in Threads \ {t} :
             /\ irps'[u] = irps[u] /\ calls'[u] = calls[u] /\ op'[u] = op[u]
             /\ files'[u] = files[u] /\ moved'[u] = moved[u]
    BY DEF EndRequest, VarsInv
  <1>2. f.off \in Nat
    BY IoAssumption DEF FileRec
  <1>3. VarsInv'
    <2>1. /\ irps' = [u \in Threads |-> irps'[u]] /\ calls' = [u \in Threads |-> calls'[u]]
          /\ op' = [u \in Threads |-> op'[u]]
      BY DEF VarsInv, EndRequest
    <2>2. files' \in [Threads -> FileRec] /\ moved' \in [Threads -> Nat] /\ lock' \in [DeviceNames -> Threads \cup {None}]
      BY <1>0, <1>2 DEF VarsInv
    <2>3. \A h \in heap' : \/ h[1] = "swap"
                           \/ \E u \in Threads : h = <<"file", u>>
                           \/ \E u \in Threads : \E n \in {1, 2} : h = <<"irp", u, n>>
      BY DEF VarsInv
    <2>. QED  BY <2>1, <2>2, <2>3 DEF VarsInv
  <1>4. Others(t)
    <2>. SUFFICES ASSUME NEW u \in Threads \ {t}
                  PROVE  /\ \A n \in {1, 2} : <<"irp", u, n>> \in heap' <=> <<"irp", u, n>> \in heap
                         /\ <<"file", u>> \in heap' <=> <<"file", u>> \in heap
      BY <1>0, <1>1 DEF Others
    <2>. QED  BY HeapNames
  <1>5. CallInv(t)'
    BY <1>1 DEF CallInv
  <1>6. FileInv(t)'
    <2>1. Gain(t)' = 0
      BY <1>1 DEF Gain
    <2>2. op'[t].major # "create"
      BY <1>1, NoOpFacts, NoneIsNoDevice DEF Majors
    <2>3. files[t].state # "none"
      BY DoneThread DEF FileInv
    <2>4. f.state # "none" => f.vpb \in DOMAIN vpbs' /\ vpbs'[f.vpb].mounted
      BY <1>0, <2>3 DEF FileInv, boot
    <2>5. f.off + 0 = f.off
      BY <1>2
    <2>. QED  BY <1>1, <2>1, <2>2, <2>4, <2>5 DEF FileInv
  <1>7. HeapInv(t)'
    <2>1. <<"irp", t, 1>> \notin heap' /\ <<"irp", t, 2>> \notin heap'
      BY DoneThread
    <2>2. <<"file", t>> \in heap' <=> f.state # "none"
      <3>1. <<"file", t>> \in heap
        BY DoneThread DEF FileInv, HeapInv
      <3>. QED  BY <3>1, HeapNames
    <2>. QED  BY <1>1, <2>1, <2>2 DEF HeapInv
  <1>8. LockInv(t)'
    <2>1. DOMAIN calls'[t] = {}
      BY <1>1
    <2>2. \A d \in DeviceNames : lock'[d] # t
      BY <1>0, DoneThread
    <2>. QED  BY <2>1, <2>2 DEF LockInv
  <1>9. ThreadInv(t)'
    BY <1>5, <1>6, <1>7, <1>8 DEF ThreadInv
  <1>. QED  BY <1>0, <1>3, <1>4, <1>9, ThreadStep, DoneThread

LEMMA NoFileFacts == NoFile \in FileRec /\ NoFile.state = "none" /\ NoFile.off = 0 /\ NoFile.async = FALSE
  BY IoAssumption DEF NoFile, FileRec

LEMMA IoCreateFileDoneStep ==
    ASSUME IoInv, NEW t \in Threads, IoCreateFileDone(t)
    PROVE  IoInv'
  <1>. VarsInv /\ FileInv(t)
    BY DEF IoInv, ThreadInv
  <1>1. FileDone(t) /\ op[t].major = "create" /\ EndRequest(t) /\ moved' = moved
    BY DEF IoCreateFileDone
  <1>2. RequestInv(t, irps[t][1], calls[t][1]) /\ op[t] # NoOp
    BY <1>1, DoneThread
  <1>3. irps[t][1].locs[irps[t][1].size - 1].file = t
    <2>1. irps[t][1].size = 3 /\ irps[t][1].locs[2] = op[t] /\ op[t].file = t
      BY <1>2 DEF RequestInv, UserIrp
    <2>. QED  BY <2>1
  <1>4. /\ files' = [files EXCEPT ![t] = IF Succeeded(t) THEN [@ EXCEPT !.state = "open"] ELSE NoFile]
        /\ heap' = heap \ ({<<"irp", t, 1>>} \cup IF Succeeded(t) THEN {} ELSE {<<"file", t>>})
    BY <1>3 DEF IoCreateFileDone
  <1>5. files[t] \in FileRec /\ moved[t] \in Nat /\ files[t].off \in Nat
    BY IoAssumption DEF VarsInv, FileRec
  <1>6. moved[t] = files[t].off /\ files[t].state # "none"
    <2>1. irps[t][1].info = 0
      BY <1>1, <1>2 DEF RequestInv, UserIrp
    <2>2. Gain(t) = 0
      BY <2>1 DEF Gain
    <2>. QED  BY <1>2, <1>5, <2>2 DEF FileInv
  <1>7. CASE Succeeded(t)
    <2>. DEFINE f == [files[t] EXCEPT !.state = "open"]
    <2>1. /\ f \in FileRec /\ f.state = "open" /\ f.vpb = files[t].vpb /\ f.off = files[t].off
          /\ f.async = files[t].async
      BY <1>5 DEF FileRec
    <2>2. files' = [files EXCEPT ![t] = f]
      BY <1>4, <1>7
    <2>. HIDE DEF f
    <2>3. heap' = heap \ ({<<"irp", t, 1>>} \cup IF f.state = "none" THEN {<<"file", t>>} ELSE {})
      BY <1>4, <1>7, <2>1
    <2>4. moved' = [moved EXCEPT ![t] = f.off]
      BY <1>1, <1>6, <2>1 DEF VarsInv
    <2>5. f.async => f.off = 0
      BY <2>1 DEF FileInv
    <2>. QED  BY <1>1, <2>1, <2>2, <2>3, <2>4, <2>5, EndStep
  <1>8. CASE ~Succeeded(t)
    <2>1. files' = [files EXCEPT ![t] = NoFile]
      BY <1>4, <1>8
    <2>2. heap' = heap \ ({<<"irp", t, 1>>} \cup IF NoFile.state = "none" THEN {<<"file", t>>} ELSE {})
      BY <1>4, <1>8, NoFileFacts
    <2>3. moved' = [moved EXCEPT ![t] = NoFile.off]
      <3>1. files[t].off = 0
        BY <1>1 DEF FileInv
      <3>. QED  BY <1>1, <1>6, <3>1, NoFileFacts DEF VarsInv
    <2>. QED  BY <1>1, <2>1, <2>2, <2>3, EndStep, NoFileFacts
  <1>. QED  BY <1>7, <1>8

LEMMA FileAdvanced ==
    ASSUME NEW g \in FileRec, NEW n \in 0 .. MaxOffset
    PROVE  LET f == [g EXCEPT !.off = n]
           IN  f \in FileRec /\ f.state = g.state /\ f.vpb = g.vpb /\ f.off = n /\ f.async = g.async
  BY DEF FileRec

LEMMA IoReadWriteFileDoneStep ==
    ASSUME IoInv, NEW t \in Threads, IoReadWriteFileDone(t)
    PROVE  IoInv'
  <1>. VarsInv /\ FileInv(t)
    BY DEF IoInv, ThreadInv
  <1>1. /\ FileDone(t) /\ op[t].major = "transfer" /\ EndRequest(t) /\ moved' = moved
        /\ heap' = heap \ {<<"irp", t, 1>>}
        /\ files' = IF Succeeded(t) /\ ~files[t].async
                    THEN [files EXCEPT ![t].off = @ + irps[t][1].info] ELSE files
    BY DEF IoReadWriteFileDone
  <1>2. RequestInv(t, irps[t][1], calls[t][1]) /\ op[t] # NoOp /\ LastCall(t) = calls[t][1]
    BY <1>1, DoneThread
  <1>3. files[t] \in FileRec /\ moved[t] \in Nat /\ files[t].off \in Nat
    BY IoAssumption DEF VarsInv, FileRec
  <1>4. files[t].state = "open"
    BY <1>1, <1>2, <1>3 DEF FileInv, FileRec
  <1>5. Gain(t) = IF Succeeded(t) /\ ~files[t].async THEN irps[t][1].info ELSE 0
    BY <1>2 DEF Gain, Succeeded
  <1>6. CASE Succeeded(t) /\ ~files[t].async
    <2>0. irps[t][1].info \in Nat /\ files[t].off + irps[t][1].info <= MaxOffset
      <3>1. irps[t][1].info \in Nat /\ op[t].len \in Nat
        BY <1>2 DEF RequestInv, UserIrp
      <3>2. irps[t][1].info <= op[t].len /\ files[t].off + op[t].len <= MaxOffset
        BY <1>1, <1>2 DEF RequestInv
      <3>. QED  BY <1>3, <3>1, <3>2, IoAssumption
    <2>. DEFINE n == files[t].off + irps[t][1].info
                f == [files[t] EXCEPT !.off = n]
    <2>2. files' = [files EXCEPT ![t] = f]
      BY <1>1, <1>6
    <2>5. n \in 0 .. MaxOffset
      BY <1>3, <2>0, IoAssumption
    <2>1. /\ f \in FileRec /\ f.state = "open" /\ f.vpb = files[t].vpb
          /\ f.off = n /\ f.async = files[t].async
      <3>. HIDE DEF n
      <3>. QED  BY <1>3, <1>4, <2>5, FileAdvanced
    <2>. HIDE DEF f
    <2>3. heap' = heap \ ({<<"irp", t, 1>>} \cup IF f.state = "none" THEN {<<"file", t>>} ELSE {})
      BY <1>1, <2>1
    <2>4. moved' = [moved EXCEPT ![t] = f.off]
      BY <1>1, <1>5, <1>6, <2>1 DEF VarsInv, FileInv
    <2>. QED  BY <1>1, <1>6, <2>1, <2>2, <2>3, <2>4, EndStep
  <1>7. CASE ~(Succeeded(t) /\ ~files[t].async)
    <2>1. files' = [files EXCEPT ![t] = files[t]]
      BY <1>1, <1>7 DEF VarsInv
    <2>2. heap' = heap \ ({<<"irp", t, 1>>} \cup IF files[t].state = "none" THEN {<<"file", t>>} ELSE {})
      BY <1>1, <1>4
    <2>3. moved' = [moved EXCEPT ![t] = files[t].off]
      BY <1>1, <1>3, <1>5, <1>7 DEF VarsInv, FileInv
    <2>4. PICK f \in FileRec : f = files[t]
      BY <1>3
    <2>. QED  BY <1>1, <1>4, <2>1, <2>2, <2>3, <2>4, EndStep DEF FileInv
  <1>. QED  BY <1>6, <1>7

(* A request that moves no bytes.                                          *)
LEMMA NoGain ==
    ASSUME IoInv, NEW t \in Threads, FileDone(t), op[t].major \in {"close", "query"}
    PROVE  /\ moved[t] = files[t].off /\ files[t].state = "open" /\ files[t] \in FileRec
           /\ files[t].async => files[t].off = 0
  <1>. VarsInv /\ FileInv(t)
    BY DEF IoInv, ThreadInv
  <1>1. RequestInv(t, irps[t][1], calls[t][1]) /\ op[t] # NoOp
    BY DoneThread
  <1>2. files[t] \in FileRec /\ files[t].off \in Nat
    BY IoAssumption DEF VarsInv, FileRec
  <1>3. irps[t][1].info = 0
    BY <1>1 DEF RequestInv, UserIrp
  <1>4. Gain(t) = 0
    BY <1>3 DEF Gain
  <1>5. files[t].state = "open"
    BY <1>1, <1>2 DEF FileInv, FileRec
  <1>. QED  BY <1>2, <1>4, <1>5 DEF FileInv

LEMMA IoCloseFileDoneStep ==
    ASSUME IoInv, NEW t \in Threads, IoCloseFileDone(t)
    PROVE  IoInv'
  <1>. VarsInv
    BY DEF IoInv
  <1>1. /\ FileDone(t) /\ op[t].major = "close" /\ EndRequest(t)
        /\ files' = IF Succeeded(t) THEN [files EXCEPT ![t] = NoFile] ELSE files
        /\ moved' = IF Succeeded(t) THEN [moved EXCEPT ![t] = 0] ELSE moved
        /\ heap' = heap \ ({<<"irp", t, 1>>} \cup IF Succeeded(t) THEN {<<"file", t>>} ELSE {})
    BY DEF IoCloseFileDone
  <1>2. CASE Succeeded(t)
    BY <1>1, <1>2, NoFileFacts, EndStep
  <1>3. CASE ~Succeeded(t)
    <2>1. files' = [files EXCEPT ![t] = files[t]] /\ moved' = [moved EXCEPT ![t] = files[t].off]
      BY <1>1, <1>3, NoGain DEF VarsInv
    <2>2. PICK f \in FileRec : f = files[t]
      BY <1>1, NoGain
    <2>3. heap' = heap \ ({<<"irp", t, 1>>} \cup IF f.state = "none" THEN {<<"file", t>>} ELSE {})
      BY <1>1, <1>3, <2>2, NoGain
    <2>. QED  BY <1>1, <2>1, <2>2, <2>3, EndStep, NoGain
  <1>. QED  BY <1>2, <1>3

LEMMA IoQueryFileDoneStep ==
    ASSUME IoInv, NEW t \in Threads, IoQueryFileDone(t)
    PROVE  IoInv'
  <1>. VarsInv
    BY DEF IoInv
  <1>1. /\ FileDone(t) /\ op[t].major = "query" /\ EndRequest(t) /\ UNCHANGED <<files, moved>>
        /\ heap' = heap \ {<<"irp", t, 1>>}
    BY DEF IoQueryFileDone
  <1>2. files' = [files EXCEPT ![t] = files[t]] /\ moved' = [moved EXCEPT ![t] = files[t].off]
    BY <1>1, NoGain DEF VarsInv
  <1>3. PICK f \in FileRec : f = files[t]
    BY <1>1, NoGain
  <1>4. heap' = heap \ ({<<"irp", t, 1>>} \cup IF f.state = "none" THEN {<<"file", t>>} ELSE {})
    BY <1>1, <1>3, NoGain
  <1>. QED  BY <1>1, <1>2, <1>3, <1>4, EndStep, NoGain
-----------------------------------------------------------------------------
(* Dispatch functions.                                                     *)

LEMMA Pair ==
    ASSUME NEW S, NEW s \in Seq(S), Len(s) = 2
    PROVE  s = <<s[1], s[2]>>
  OBVIOUS

LEMMA Triple ==
    ASSUME NEW S, NEW s \in Seq(S), Len(s) = 3
    PROVE  s = <<s[1], s[2], s[3]>>
  OBVIOUS

LEMMA AppendToOne ==
    ASSUME NEW a, NEW x
    PROVE  Append(<<a>>, x) = <<a, x>>
  <1>. DEFINE S == {a, x}
              s == Append(<<a>>, x)
  <1>1. <<a>> \in Seq(S) /\ x \in S /\ Len(<<a>>) = 1
    OBVIOUS
  <1>2. s \in Seq(S) /\ Len(s) = 2 /\ s[1] = a /\ s[2] = x
    BY <1>1, AppendProperties
  <1>3. s = <<s[1], s[2]>>
    BY ONLY <1>2, Pair
  <1>. QED  BY <1>2, <1>3

LEMMA AppendToTwo ==
    ASSUME NEW a, NEW b, NEW x
    PROVE  Append(<<a, b>>, x) = <<a, b, x>>
  <1>. DEFINE S == {a, b, x}
              s == Append(<<a, b>>, x)
  <1>1. <<a, b>> \in Seq(S) /\ x \in S /\ Len(<<a, b>>) = 2
    OBVIOUS
  <1>2. s \in Seq(S) /\ Len(s) = 3 /\ s[1] = a /\ s[2] = b /\ s[3] = x
    BY <1>1, AppendProperties
  <1>3. s = <<s[1], s[2], s[3]>>
    BY ONLY <1>2, Triple
  <1>. QED  BY <1>2, <1>3

LEMMA Tuples ==
    \A a, b, c, x :
        /\ [<<a>> EXCEPT ![1] = x] = <<x>>
        /\ [<<a, b>> EXCEPT ![2] = x] = <<a, x>>
        /\ [<<a, b, c>> EXCEPT ![3] = x] = <<a, b, x>>
        /\ Head(<<a>>) = a /\ Head(<<a, b>>) = a /\ Head(<<a, b, c>>) = a
        /\ Len(<< >>) = 0 /\ Len(<<a>>) = 1 /\ Len(<<a, b>>) = 2 /\ Len(<<a, b, c>>) = 3
  OBVIOUS

LEMMA LastOfOne ==
    ASSUME NEW s, s = <<s[1]>>, NEW x
    PROVE  [s EXCEPT ![1] = x] = <<x>>
  OBVIOUS

LEMMA LastOfTwo ==
    ASSUME NEW s, s = <<s[1], s[2]>>, NEW x
    PROVE  [s EXCEPT ![2] = x] = <<s[1], x>>
  OBVIOUS

LEMMA LastOfThree ==
    ASSUME NEW s, s = <<s[1], s[2], s[3]>>, NEW x
    PROVE  [s EXCEPT ![3] = x] = <<s[1], s[2], x>>
  OBVIOUS

LEMMA CallAt ==
    ASSUME NEW c \in CallRec, NEW a \in {"lock", "run", "ret"}
    PROVE  LET e == [c EXCEPT !.at = a]
           IN  e \in CallRec /\ e.dev = c.dev /\ e.irp = c.irp /\ e.at = a /\ e.ok = c.ok /\ e.nested = c.nested
  BY DEF CallRec

LEMMA CallNested ==
    ASSUME NEW c \in CallRec
    PROVE  LET e == [c EXCEPT !.nested = TRUE]
           IN  e \in CallRec /\ e.dev = c.dev /\ e.irp = c.irp /\ e.at = c.at /\ e.ok = c.ok
  BY DEF CallRec

LEMMA CallOver ==
    ASSUME NEW c \in CallRec, NEW b \in BOOLEAN
    PROVE  LET e == [c EXCEPT !.at = "ret", !.ok = b]
           IN  e \in CallRec /\ e.dev = c.dev /\ e.irp = c.irp /\ e.at = "ret" /\ e.ok = b
  BY DEF CallRec

(* Where a thread in a call can be: in the file system's, or below it, in  *)
(* the volume's or the disk's.                                             *)
LEMMA CallThread ==
    ASSUME IoInv, NEW t \in Threads, Running(t), calls[t] # << >>
    PROVE  /\ phase = Up /\ panic = "none" /\ op[t] # NoOp
           /\ RequestInv(t, irps[t][1], calls[t][1])
           /\ \/ /\ irps[t] = <<irps[t][1]>> /\ calls[t] = <<calls[t][1]>>
                 /\ LastCall(t) = calls[t][1] /\ Len(calls[t]) = 1
              \/ /\ irps[t] = <<irps[t][1], irps[t][2]>> /\ calls[t] = <<calls[t][1], calls[t][2]>>
                 /\ TwoCalls(irps[t][2], calls[t][1], calls[t][2])
                 /\ LastCall(t) = calls[t][2] /\ Len(calls[t]) = 2
              \/ /\ irps[t] = <<irps[t][1], irps[t][2]>> /\ calls[t] = <<calls[t][1], calls[t][2], calls[t][3]>>
                 /\ ThreeCalls(irps[t][2], calls[t][1], calls[t][2], calls[t][3])
                 /\ LastCall(t) = calls[t][3] /\ Len(calls[t]) = 3
  <1>1. phase = Up /\ panic = "none"
    BY DEF Running
  <1>. CallInv(t)
    BY DEF IoInv, ThreadInv
  <1>2. op[t] # NoOp
    BY DEF CallInv
  <1>3. RequestInv(t, irps[t][1], calls[t][1])
    BY <1>2 DEF CallInv
  <1>4. CASE irps[t] = <<irps[t][1]>> /\ calls[t] = <<calls[t][1]>>
    <2>1. Len(calls[t]) = 1
      BY <1>4, Tuples
    <2>. QED  BY <1>1, <1>2, <1>3, <1>4, <2>1 DEF LastCall
  <1>5. CASE irps[t] = <<irps[t][1], irps[t][2]>> /\ OwnRequest(irps[t][2], calls[t])
    <2>1. CASE calls[t] = <<calls[t][1], calls[t][2]>> /\ TwoCalls(irps[t][2], calls[t][1], calls[t][2])
      <3>1. Len(calls[t]) = 2
        BY <2>1, Tuples
      <3>. QED  BY <1>1, <1>2, <1>3, <1>5, <2>1, <3>1 DEF LastCall
    <2>2. CASE /\ calls[t] = <<calls[t][1], calls[t][2], calls[t][3]>>
               /\ ThreeCalls(irps[t][2], calls[t][1], calls[t][2], calls[t][3])
      <3>1. Len(calls[t]) = 3
        BY <2>2, Tuples
      <3>. QED  BY <1>1, <1>2, <1>3, <1>5, <2>2, <3>1 DEF LastCall
    <2>. QED  BY <1>5, <2>1, <2>2 DEF OwnRequest
  <1>. QED  BY <1>2, <1>4, <1>5 DEF CallInv

LEMMA DispatchStep ==
    ASSUME IoInv, NEW t \in Threads, phase = Up, UNCHANGED <<boot, files, op, panic>>,
           NEW is, irps' = [irps EXCEPT ![t] = is],
           NEW cs, calls' = [calls EXCEPT ![t] = cs],
           moved' \in [Threads -> Nat], \A u \in Threads \ {t} : moved'[u] = moved[u],
           heap' \subseteq heap \cup {<<"irp", t, 2>>}, heap \subseteq heap' \cup {<<"irp", t, 2>>},
           lock' \in [DeviceNames -> Threads \cup {None}],
           \A u \in Threads \ {t} : \A d \in DeviceNames : lock'[d] = u <=> lock[d] = u,
           CallInv(t)', FileInv(t)', HeapInv(t)', LockInv(t)'
    PROVE  IoInv'
  <1>. VarsInv
    BY DEF IoInv
  <1>1. \A u \in Threads \ {t} : irps'[u] = irps[u] /\ calls'[u] = calls[u]
    BY DEF VarsInv
  <1>2. VarsInv'
    <2>1. irps' = [u \in Threads |-> irps'[u]] /\ calls' = [u \in Threads |-> calls'[u]]
      BY DEF VarsInv
    <2>2. op' = [u \in Threads |-> op'[u]] /\ files' \in [Threads -> FileRec]
      BY DEF VarsInv
    <2>3. \A h \in heap' : \/ h[1] = "swap"
                           \/ \E u \in Threads : h = <<"file", u>>
                           \/ \E u \in Threads : \E n \in {1, 2} : h = <<"irp", u, n>>
      BY DEF VarsInv
    <2>. QED  BY <2>1, <2>2, <2>3 DEF VarsInv
  <1>3. Others(t)
    <2>. SUFFICES ASSUME NEW u \in Threads \ {t}
                  PROVE  /\ \A n \in {1, 2} : <<"irp", u, n>> \in heap' <=> <<"irp", u, n>> \in heap
                         /\ <<"file", u>> \in heap' <=> <<"file", u>> \in heap
      BY <1>1 DEF Others
    <2>. QED  BY HeapNames
  <1>4. ThreadInv(t)'
    BY DEF ThreadInv
  <1>. QED  BY <1>2, <1>3, <1>4, ThreadStep

(* What has to hold of a thread whose file system has sent an IRP.         *)
LEMMA OwnTwoCalls ==
    ASSUME NEW t \in Threads, op' = op, files' = files, vpbs' = vpbs, op[t] # NoOp,
           RequestInv(t, irps[t][1], calls[t][1]), calls[t][1].at = "run",
           NEW j, irps'[t] = <<irps[t][1], j>>,
           NEW a, NEW b, calls'[t] = <<a, b>>, a \in CallRec,
           a.irp = 1, a.dev = calls[t][1].dev, TwoCalls(j, a, b)
    PROVE  CallInv(t)'
  <1>1. irps'[t][1] = irps[t][1] /\ irps'[t][2] = j
    OBVIOUS
  <1>2. FileDevice(t)' = FileDevice(t)
    BY DEF FileDevice
  <1>3. RequestInv(t, irps[t][1], calls[t][1])'
    BY <1>1, <1>2 DEF RequestInv
  <1>4. OwnRequest(irps[t][2], calls[t])'
    BY <1>1 DEF OwnRequest
  <1>. QED  BY <1>1, <1>3, <1>4 DEF CallInv

LEMMA OwnThreeCalls ==
    ASSUME NEW t \in Threads, op' = op, files' = files, vpbs' = vpbs, op[t] # NoOp,
           RequestInv(t, irps[t][1], calls[t][1]), calls[t][1].at = "run",
           NEW j, irps'[t] = <<irps[t][1], j>>,
           NEW a, NEW b, NEW c, calls'[t] = <<a, b, c>>, a \in CallRec,
           a.irp = 1, a.dev = calls[t][1].dev, ThreeCalls(j, a, b, c)
    PROVE  CallInv(t)'
  <1>1. irps'[t][1] = irps[t][1] /\ irps'[t][2] = j
    OBVIOUS
  <1>2. FileDevice(t)' = FileDevice(t)
    BY DEF FileDevice
  <1>3. RequestInv(t, irps[t][1], calls[t][1])'
    BY <1>1, <1>2 DEF RequestInv
  <1>4. OwnRequest(irps[t][2], calls[t])'
    BY <1>1 DEF OwnRequest
  <1>. QED  BY <1>1, <1>3, <1>4 DEF CallInv

LEMMA FileKept ==
    ASSUME NEW t \in Threads, FileInv(t), op' = op, files' = files, vpbs' = vpbs, moved' = moved,
           Gain(t)' = Gain(t)
    PROVE  FileInv(t)'
  BY DEF FileInv

LEMMA TwoCallsLock ==
    ASSUME NEW t \in Threads, NEW a, NEW b, calls'[t] = <<a, b>>, a.at = "run",
           \A d \in DeviceNames : lock'[d] = t <=> (a.dev = d \/ (b.at = "run" /\ b.dev = d))
    PROVE  LockInv(t)'
  <1>1. DOMAIN calls'[t] = {1, 2} /\ calls'[t][1] = a /\ calls'[t][2] = b
    OBVIOUS
  <1>2. ASSUME NEW d \in DeviceNames
        PROVE  lock'[d] = t <=> \E n \in DOMAIN calls'[t] : calls'[t][n].dev = d /\ calls'[t][n].at = "run"
    BY <1>1
  <1>. QED  BY <1>2 DEF LockInv

LEMMA ThreeCallsLock ==
    ASSUME NEW t \in Threads, NEW a, NEW b, NEW c, calls'[t] = <<a, b, c>>, a.at = "run", b.at = "run",
           \A d \in DeviceNames : lock'[d] = t <=> (a.dev = d \/ b.dev = d \/ (c.at = "run" /\ c.dev = d))
    PROVE  LockInv(t)'
  <1>1. DOMAIN calls'[t] = {1, 2, 3} /\ calls'[t][1] = a /\ calls'[t][2] = b /\ calls'[t][3] = c
    OBVIOUS
  <1>2. ASSUME NEW d \in DeviceNames
        PROVE  lock'[d] = t <=> \E n \in DOMAIN calls'[t] : calls'[t][n].dev = d /\ calls'[t][n].at = "run"
    BY <1>1
  <1>. QED  BY <1>2 DEF LockInv
(* Facts about the call of the file system and its IRP.                    *)
LEMMA RequestFacts ==
    ASSUME IoInv, NEW t \in Threads, op[t] # NoOp
    PROVE  /\ irps[t][1] \in UserIrp /\ calls[t][1] \in CallRec /\ op[t] \in OpRec
           /\ op[t] \in [major : Majors, file : {t}, off : Nat, len : Nat]
           /\ op[t].major # "transfer" => op[t].len = 0
           /\ op[t].major = "transfer" => files[t].off + op[t].len <= MaxOffset
           /\ irps[t][1].locs[2] = op[t] /\ irps[t][1].info \in Nat /\ irps[t][1].info <= op[t].len
           /\ irps[t][1].ok => irps[t][1].done
           /\ irps[t][1].done => calls[t][1].at = "ret"
           /\ calls[t][1].irp = 1 /\ calls[t][1].dev = FileDevice(t)
           /\ \E k \in DOMAIN Volumes : FileDevice(t) = Fs(k)
  <1>. CallInv(t) /\ FileInv(t)
    BY DEF IoInv, ThreadInv
  <1>1. RequestInv(t, irps[t][1], calls[t][1])
    BY DEF CallInv
  <1>2. op[t] \in OpRec
    BY <1>1 DEF RequestInv, OpRec
  <1>3. irps[t][1].info \in Nat
    BY <1>1 DEF RequestInv, UserIrp
  <1>4. files[t].state # "none"
    BY DEF FileInv
  <1>5. files[t].vpb \in DOMAIN vpbs /\ vpbs[files[t].vpb].mounted
    BY <1>4 DEF FileInv
  <1>6. vpbs[files[t].vpb].vol \in DOMAIN Volumes
    BY <1>5, VpbType DEF IoInv, BootInv, Vpb
  <1>7. FileDevice(t) = Fs(vpbs[files[t].vpb].vol)
    BY <1>5 DEF IoInv, BootInv, VpbInv, FileDevice
  <1>. QED  BY <1>1, <1>2, <1>3, <1>6, <1>7 DEF RequestInv

LEMMA AcquireDeviceStep ==
    ASSUME IoInv, NEW t \in Threads, AcquireDevice(t)
    PROVE  IoInv'
  <1>. VarsInv /\ FileInv(t) /\ HeapInv(t) /\ LockInv(t)
    BY DEF IoInv, ThreadInv
  <1>. DEFINE c == LastCall(t)
              e == [c EXCEPT !.at = "run"]
  <1>1. /\ Running(t) /\ calls[t] # << >> /\ c.at = "lock" /\ lock[c.dev] = None
        /\ lock' = [lock EXCEPT ![c.dev] = t]
        /\ calls' = [calls EXCEPT ![t] = [calls[t] EXCEPT ![Len(calls[t])] = e]]
        /\ UNCHANGED <<boot, files, irps, op, heap, moved, panic>>
    BY DEF AcquireDevice, LastCall
  <1>2. /\ phase = Up /\ op[t] # NoOp /\ RequestInv(t, irps[t][1], calls[t][1])
    BY <1>1, CallThread
  <1>3. c \in CallRec
    BY <1>1, <1>2, CallThread, RequestFacts DEF TwoCalls, ThreeCalls, Child
  <1>. HIDE DEF c
  <1>4. e \in CallRec /\ e.dev = c.dev /\ e.irp = c.irp /\ e.at = "run" /\ e.ok = c.ok /\ e.nested = c.nested
    BY <1>3, CallAt
  <1>. HIDE DEF e
  <1>5. c.dev \in DeviceNames
    BY <1>3 DEF CallRec
  <1>6. lock' \in [DeviceNames -> Threads \cup {None}]
        /\ \A d \in DeviceNames : lock'[d] = IF d = c.dev THEN t ELSE lock[d]
    BY <1>1, <1>5 DEF VarsInv
  <1>7. \A u \in Threads \ {t} : \A d \in DeviceNames : lock'[d] = u <=> lock[d] = u
    BY <1>1, <1>5, <1>6, NoneIsNoDevice
  <1>8. irps' = [irps EXCEPT ![t] = irps[t]] /\ irps'[t] = irps[t]
    BY <1>1 DEF VarsInv
  <1>9. HeapInv(t)'
    BY <1>1 DEF HeapInv
  <1>10. vpbs' = vpbs /\ FileDevice(t)' = FileDevice(t)
    BY <1>1 DEF boot, FileDevice
  <1>11. moved' \in [Threads -> Nat]
    BY <1>1 DEF VarsInv
  <1>12. SUFFICES \E cs : /\ calls' = [calls EXCEPT ![t] = cs]
                          /\ CallInv(t)' /\ Gain(t)' = Gain(t) /\ LockInv(t)'
    <2>1. PICK cs : calls' = [calls EXCEPT ![t] = cs] /\ CallInv(t)' /\ Gain(t)' = Gain(t) /\ LockInv(t)'
      BY <1>12
    <2>2. FileInv(t)'
      BY <1>1, <1>10, <2>1, FileKept
    <2>. QED  BY <1>1, <1>2, <1>6, <1>7, <1>8, <1>9, <1>11, <2>1, <2>2, DispatchStep
  <1>13. CASE /\ irps[t] = <<irps[t][1]>> /\ calls[t] = <<calls[t][1]>>
              /\ c = calls[t][1] /\ Len(calls[t]) = 1
    <2>0. [calls[t] EXCEPT ![1] = e] = <<e>>
      BY <1>13, LastOfOne
    <2>1. calls' = [calls EXCEPT ![t] = <<e>>]
      BY <1>1, <1>13, <2>0
    <2>2. calls'[t] = <<e>>
      BY <2>1 DEF VarsInv
    <2>3. CallInv(t)'
      BY <1>1, <1>2, <1>4, <1>8, <1>10, <1>13, <2>2, RequestFacts, OneCall
    <2>4. Gain(t)' = Gain(t)
      BY <1>1, <1>4, <1>8, <1>13, <2>2 DEF Gain
    <2>5. \A d \in DeviceNames : lock[d] # t
      <3>1. DOMAIN calls[t] = {1}
        BY <1>13
      <3>. QED  BY <1>1, <1>13, <3>1 DEF LockInv
    <2>6. LockInv(t)'
      BY <1>4, <1>6, <2>2, <2>5, OneCallLock
    <2>. QED  BY <2>1, <2>3, <2>4, <2>6
  <1>14. CASE /\ irps[t] = <<irps[t][1], irps[t][2]>> /\ calls[t] = <<calls[t][1], calls[t][2]>>
              /\ TwoCalls(irps[t][2], calls[t][1], calls[t][2])
              /\ c = calls[t][2] /\ Len(calls[t]) = 2
    <2>. DEFINE a == calls[t][1]
    <2>0. [calls[t] EXCEPT ![2] = e] = <<a, e>>
      BY <1>14, LastOfTwo
    <2>1. calls' = [calls EXCEPT ![t] = <<a, e>>]
      BY <1>1, <1>14, <2>0
    <2>2. calls'[t] = <<a, e>>
      BY <2>1 DEF VarsInv
    <2>3. TwoCalls(irps[t][2], a, e)
      BY <1>4, <1>14 DEF TwoCalls, Child
    <2>4. a.at = "run" /\ a \in CallRec /\ a.irp = 1
      BY <1>2, <1>14, RequestFacts DEF TwoCalls
    <2>5. CallInv(t)'
      <3>1. irps'[t] = <<irps[t][1], irps[t][2]>>
        BY <1>8, <1>14
      <3>. QED  BY <1>1, <1>2, <1>10, <2>2, <2>3, <2>4, <3>1, OwnTwoCalls
    <2>6. Gain(t)' = Gain(t)
      BY <1>1, <1>8, <2>2 DEF Gain
    <2>7. \A d \in DeviceNames : lock[d] = t <=> a.dev = d
      <3>1. DOMAIN calls[t] = {1, 2}
        BY <1>14
      <3>. QED  BY <1>1, <1>14, <2>4, <3>1 DEF LockInv
    <2>8. LockInv(t)'
      <3>1. \A d \in DeviceNames : lock'[d] = t <=> (a.dev = d \/ (e.at = "run" /\ e.dev = d))
        BY <1>4, <1>6, <2>7
      <3>. QED  BY <2>2, <2>4, <3>1, TwoCallsLock
    <2>. QED  BY <2>1, <2>5, <2>6, <2>8
  <1>15. CASE /\ irps[t] = <<irps[t][1], irps[t][2]>> /\ calls[t] = <<calls[t][1], calls[t][2], calls[t][3]>>
              /\ ThreeCalls(irps[t][2], calls[t][1], calls[t][2], calls[t][3])
              /\ c = calls[t][3] /\ Len(calls[t]) = 3
    <2>. DEFINE a == calls[t][1]
                b == calls[t][2]
    <2>0. [calls[t] EXCEPT ![3] = e] = <<a, b, e>>
      BY <1>15, LastOfThree
    <2>1. calls' = [calls EXCEPT ![t] = <<a, b, e>>]
      BY <1>1, <1>15, <2>0
    <2>2. calls'[t] = <<a, b, e>>
      BY <2>1 DEF VarsInv
    <2>3. ThreeCalls(irps[t][2], a, b, e)
      BY <1>4, <1>15 DEF ThreeCalls, Child
    <2>4. a.at = "run" /\ a \in CallRec /\ a.irp = 1 /\ b.at = "run"
      BY <1>2, <1>15, RequestFacts DEF ThreeCalls
    <2>5. CallInv(t)'
      <3>1. irps'[t] = <<irps[t][1], irps[t][2]>>
        BY <1>8, <1>15
      <3>. QED  BY <1>1, <1>2, <1>10, <2>2, <2>3, <2>4, <3>1, OwnThreeCalls
    <2>6. Gain(t)' = Gain(t)
      BY <1>1, <1>8, <2>2 DEF Gain
    <2>7. \A d \in DeviceNames : lock[d] = t <=> (a.dev = d \/ b.dev = d)
      <3>1. DOMAIN calls[t] = {1, 2, 3}
        BY <1>15
      <3>. QED  BY <1>1, <1>15, <2>4, <3>1 DEF LockInv
    <2>8. LockInv(t)'
      <3>1. \A d \in DeviceNames : lock'[d] = t <=> (a.dev = d \/ b.dev = d \/ (e.at = "run" /\ e.dev = d))
        BY <1>4, <1>6, <2>7
      <3>. QED  BY <2>2, <2>4, <3>1, ThreeCallsLock
    <2>. QED  BY <2>1, <2>5, <2>6, <2>8
  <1>. QED  BY <1>1, <1>13, <1>14, <1>15, CallThread DEF c
(* The file system's call is over, with the IRP complete or the call       *)
(* failed.                                                                 *)
LEMMA LeaveRequest ==
    ASSUME IoInv, NEW t \in Threads, InDispatch(t),
           irps[t] = <<irps[t][1]>>, calls[t] = <<calls[t][1]>>, LastCall(t) = calls[t][1],
           NEW irp \in UserIrp, irp.locs[2] = op[t], irp.ok => irp.done, irp.info <= op[t].len,
           NEW ok \in BOOLEAN, Leave(t, irp, ok), UNCHANGED <<boot, files, op, panic>>,
           moved' \in [Threads -> Nat], \A u \in Threads \ {t} : moved'[u] = moved[u],
           moved'[t] = files[t].off + (IF irp.ok /\ ok /\ ~files[t].async THEN irp.info ELSE 0)
    PROVE  IoInv'
  <1>. VarsInv /\ FileInv(t) /\ HeapInv(t) /\ LockInv(t)
    BY DEF IoInv, ThreadInv
  <1>1. phase = Up /\ op[t] # NoOp
    BY CallThread DEF InDispatch
  <1>. DEFINE a == calls[t][1]
              e == [a EXCEPT !.at = "ret", !.ok = ok]
  <1>2. a \in CallRec /\ a.irp = 1 /\ a.dev = FileDevice(t) /\ Head(calls[t]) = a
    BY <1>1, RequestFacts, Tuples
  <1>3. e \in CallRec /\ e.irp = 1 /\ e.dev = a.dev /\ e.at = "ret" /\ e.ok = ok
    <2>. HIDE DEF a
    <2>. QED  BY <1>2, CallOver
  <1>4. calls' = [calls EXCEPT ![t] = <<e>>] /\ irps' = [irps EXCEPT ![t] = <<irp>>] /\ heap' = heap
        /\ lock' = [d \in DeviceNames |-> IF lock[d] = t THEN None ELSE lock[d]]
    <2>1. LastCall(t).irp # 2
      BY <1>2
    <2>2. (ok /\ ~(LastCall(t).irp = 2)) = ok
      BY <2>1
    <2>. QED  BY <1>2, <2>1, <2>2 DEF Leave
  <1>. HIDE DEF e
  <1>5. calls'[t] = <<e>> /\ irps'[t] = <<irp>>
    BY <1>4 DEF VarsInv
  <1>6. vpbs' = vpbs /\ FileDevice(t)' = FileDevice(t)
    BY DEF boot, FileDevice
  <1>7. CallInv(t)'
    BY <1>1, <1>2, <1>3, <1>5, <1>6, RequestFacts, OneCall
  <1>8. FileInv(t)'
    <2>1. Gain(t)' = IF irp.ok /\ ok /\ ~files[t].async THEN irp.info ELSE 0
      BY <1>1, <1>3, <1>5 DEF Gain
    <2>. QED  BY <1>6, <2>1 DEF FileInv
  <1>9. HeapInv(t)'
    <2>1. DOMAIN irps[t] = {1} /\ DOMAIN irps'[t] = {1}
      BY <1>5
    <2>. QED  BY <1>4, <2>1 DEF HeapInv
  <1>10. LockInv(t)'
    <2>1. \A d \in DeviceNames : lock'[d] # t
      BY <1>4, NoneIsNoDevice
    <2>. QED  BY <1>3, <1>5, <2>1, OneCallLock
  <1>11. lock' \in [DeviceNames -> Threads \cup {None}]
         /\ \A u \in Threads \ {t} : \A d \in DeviceNames : lock'[d] = u <=> lock[d] = u
    BY <1>4, NoneIsNoDevice DEF VarsInv
  <1>. QED  BY <1>1, <1>4, <1>7, <1>8, <1>9, <1>10, <1>11, DispatchStep

(* The request a file system has sent is over: its IRP is freed, and the   *)
(* file system goes on or fails.                                           *)
LEMMA LeaveOwn ==
    ASSUME IoInv, NEW t \in Threads, InDispatch(t),
           irps[t] = <<irps[t][1], irps[t][2]>>, LastCall(t).irp = 2,
           Head(calls[t]) = calls[t][1], calls[t][1].at = "run", 1 \in DOMAIN calls[t],
           NEW irp, NEW ok \in BOOLEAN, Leave(t, irp, ok), UNCHANGED <<boot, files, op, moved, panic>>
    PROVE  IoInv'
  <1>. VarsInv /\ FileInv(t) /\ HeapInv(t) /\ LockInv(t)
    BY DEF IoInv, ThreadInv
  <1>1. phase = Up /\ op[t] # NoOp
    BY CallThread DEF InDispatch
  <1>. DEFINE a == calls[t][1]
              back == ok /\ irp.ok
              e == IF back THEN a ELSE [a EXCEPT !.at = "ret", !.ok = FALSE]
  <1>2. a \in CallRec /\ a.irp = 1 /\ a.dev = FileDevice(t)
    BY <1>1, RequestFacts
  <1>3. /\ e \in CallRec /\ e.irp = 1 /\ e.dev = a.dev
        /\ back => e.at = "run"
        /\ ~back => e.at = "ret"
    <2>. HIDE DEF a, back
    <2>1. CASE back
      BY <1>2, <2>1 DEF a
    <2>2. CASE ~back
      BY <1>2, <2>2, CallOver
    <2>. QED  BY <2>1, <2>2
  <1>4. calls' = [calls EXCEPT ![t] = <<e>>] /\ irps' = [irps EXCEPT ![t] = <<irps[t][1]>>]
        /\ heap' = heap \ {<<"irp", t, 2>>}
        /\ lock' = [d \in DeviceNames |-> IF lock[d] = t /\ ~(back /\ d = a.dev) THEN None ELSE lock[d]]
    <2>1. Head(irps[t]) = irps[t][1]
      BY Tuples
    <2>2. (ok /\ ~(LastCall(t).irp = 2)) = FALSE
      OBVIOUS
    <2>. QED  BY <2>1, <2>2 DEF Leave
  <1>. HIDE DEF e, back
  <1>5. calls'[t] = <<e>> /\ irps'[t] = <<irps[t][1]>>
    BY <1>4 DEF VarsInv
  <1>6. vpbs' = vpbs /\ FileDevice(t)' = FileDevice(t)
    BY DEF boot, FileDevice
  <1>7. ~irps[t][1].done /\ ~irps[t][1].ok
    BY <1>1, RequestFacts
  <1>8. CallInv(t)'
    BY <1>1, <1>2, <1>3, <1>5, <1>6, <1>7, RequestFacts, OneCall
  <1>9. FileInv(t)'
    <2>1. Gain(t) = 0
      BY <1>7 DEF Gain
    <2>2. Gain(t)' = 0
      BY <1>5, <1>7 DEF Gain
    <2>. QED  BY <1>6, <2>1, <2>2, FileKept
  <1>10. HeapInv(t)'
    <2>1. DOMAIN irps[t] = {1, 2}
      OBVIOUS
    <2>2. <<"irp", t, 1>> \in heap /\ (<<"file", t>> \in heap <=> files[t].state # "none")
      BY <2>1 DEF HeapInv
    <2>3. <<"irp", t, 1>> # <<"irp", t, 2>> /\ <<"file", t>> # <<"irp", t, 2>>
      BY HeapNames
    <2>4. <<"irp", t, 1>> \in heap' /\ <<"irp", t, 2>> \notin heap' /\ (<<"file", t>> \in heap' <=> files'[t].state # "none")
      BY <1>4, <2>2, <2>3
    <2>. QED  BY <1>5, <2>4, OneCallHeap
  <1>11. LockInv(t)'
    <2>1. lock[a.dev] = t /\ a.dev \in DeviceNames
      BY <1>2 DEF LockInv, CallRec
    <2>2. \A d \in DeviceNames : lock'[d] = t <=> (e.at = "run" /\ e.dev = d)
      BY <1>3, <1>4, <2>1, NoneIsNoDevice
    <2>. QED  BY <1>5, <2>2, OneCallLock
  <1>12. lock' \in [DeviceNames -> Threads \cup {None}]
         /\ \A u \in Threads \ {t} : \A d \in DeviceNames : lock'[d] = u <=> lock[d] = u
    BY <1>4, NoneIsNoDevice DEF VarsInv
  <1>. QED  BY <1>1, <1>4, <1>8, <1>9, <1>10, <1>11, <1>12, DispatchStep DEF VarsInv
(* A dispatch function below the file system's.                            *)
LEMMA BelowFileSystem ==
    ASSUME IoInv, NEW t \in Threads, InDispatch(t), ~(calls[t] = <<calls[t][1]>> /\ irps[t] = <<irps[t][1]>>)
    PROVE  /\ irps[t] = <<irps[t][1], irps[t][2]>> /\ LastCall(t).irp = 2 /\ CurrentIrp(t) = irps[t][2]
           /\ Head(calls[t]) = calls[t][1] /\ calls[t][1].at = "run" /\ 1 \in DOMAIN calls[t]
           /\ Sent(irps[t][2])
  <1>1. Running(t) /\ calls[t] # << >>
    BY DEF InDispatch
  <1>2. CASE /\ irps[t] = <<irps[t][1], irps[t][2]>> /\ calls[t] = <<calls[t][1], calls[t][2]>>
             /\ TwoCalls(irps[t][2], calls[t][1], calls[t][2]) /\ LastCall(t) = calls[t][2]
    <2>1. Head(calls[t]) = calls[t][1]
      BY <1>2, Tuples
    <2>2. 1 \in DOMAIN calls[t]
      BY <1>2
    <2>. QED  BY <1>2, <2>1, <2>2 DEF TwoCalls, Child, CurrentIrp
  <1>3. CASE /\ irps[t] = <<irps[t][1], irps[t][2]>> /\ calls[t] = <<calls[t][1], calls[t][2], calls[t][3]>>
             /\ ThreeCalls(irps[t][2], calls[t][1], calls[t][2], calls[t][3]) /\ LastCall(t) = calls[t][3]
    <2>1. Head(calls[t]) = calls[t][1]
      BY <1>3, Tuples
    <2>2. 1 \in DOMAIN calls[t]
      BY <1>3
    <2>. QED  BY <1>3, <2>1, <2>2 DEF ThreeCalls, Child, CurrentIrp
  <1>. QED  BY <1>1, <1>2, <1>3, CallThread

(* The dispatch function of the file system.                               *)
LEMMA InFileSystem ==
    ASSUME IoInv, NEW t \in Threads, InDispatch(t), calls[t] = <<calls[t][1]>>, irps[t] = <<irps[t][1]>>
    PROVE  /\ LastCall(t) = calls[t][1] /\ CurrentIrp(t) = irps[t][1] /\ Params(irps[t][1]) = op[t]
           /\ op[t] # NoOp /\ ~irps[t][1].done /\ ~irps[t][1].ok /\ irps[t][1] \in UserIrp
           /\ op[t].file = t /\ op[t].len \in Nat
  <1>1. op[t] # NoOp /\ calls[t][1].at = "run" /\ LastCall(t) = calls[t][1]
    <2>1. LastCall(t) = calls[t][1]
      <3>1. Len(calls[t]) = 1
        BY Tuples
      <3>. QED  BY <3>1 DEF LastCall
    <2>. QED  BY <2>1, CallThread DEF InDispatch
  <1>2. irps[t][1] \in UserIrp /\ irps[t][1].cur = 2
    BY <1>1, RequestFacts DEF UserIrp
  <1>3. Params(irps[t][1]) = op[t]
    BY <1>1, <1>2, RequestFacts DEF Params
  <1>4. op[t].file = t /\ op[t].len \in Nat
    BY <1>1, RequestFacts
  <1>. QED  BY <1>1, <1>2, <1>3, <1>4, RequestFacts DEF CurrentIrp

LEMMA IoCompleteIrpStep ==
    ASSUME IoInv, NEW t \in Threads, IoCompleteIrp(t)
    PROVE  IoInv'
  <1>. VarsInv /\ FileInv(t)
    BY DEF IoInv, ThreadInv
  <1>. DEFINE irp == CurrentIrp(t)
              p == Params(irp)
  <1>1. InDispatch(t) /\ panic' = (IF irp.done THEN "completed" ELSE panic) /\ UNCHANGED <<boot, files, op>>
    BY DEF IoCompleteIrp
  <1>0. PICK ok \in BOOLEAN : \E n \in {p.len} \cup Short(ok, p) :
            /\ Leave(t, [irp EXCEPT !.done = TRUE, !.ok = ok, !.info = n], TRUE)
            /\ moved' = IF ok /\ p.file # None /\ ~files[p.file].async
                        THEN [moved EXCEPT ![p.file] = @ + n] ELSE moved
    BY DEF IoCompleteIrp
  <1>2. PICK n \in {p.len} \cup Short(ok, p) :
            /\ Leave(t, [irp EXCEPT !.done = TRUE, !.ok = ok, !.info = n], TRUE)
            /\ moved' = IF ok /\ p.file # None /\ ~files[p.file].async
                        THEN [moved EXCEPT ![p.file] = @ + n] ELSE moved
    BY <1>0
  <1>3. CASE calls[t] = <<calls[t][1]>> /\ irps[t] = <<irps[t][1]>>
    <2>. HIDE DEF irp, p
    <2>1. irp = irps[t][1] /\ p = op[t] /\ irp \in UserIrp /\ ~irp.done /\ p.file = t /\ LastCall(t) = calls[t][1]
      BY <1>1, <1>3, InFileSystem DEF irp, p
    <2>2. p.len \in Nat /\ n \in Nat /\ n <= p.len
      BY <1>1, <1>3, <2>1, InFileSystem DEF Short
    <2>. DEFINE e == [irp EXCEPT !.done = TRUE, !.ok = ok, !.info = n]
    <2>3. e \in UserIrp /\ e.done = TRUE /\ e.ok = ok /\ e.info = n /\ e.locs = irp.locs
      <3>1. irp \in UserIrp /\ n \in Nat
        BY <2>1, <2>2
      <3>. QED  BY ONLY <3>1, ok \in BOOLEAN DEF UserIrp
    <2>4. Leave(t, e, TRUE)
      BY <1>2
    <2>. HIDE DEF e
    <2>5. e.locs[2] = op[t]
      BY <1>1, <1>3, <2>1, <2>3, InFileSystem, RequestFacts
    <2>6. moved' = IF ok /\ ~files[t].async THEN [moved EXCEPT ![t] = @ + n] ELSE moved
      BY <1>2, <2>1, NoneIsNoDevice
    <2>7. moved[t] = files[t].off /\ moved[t] \in Nat /\ files[t].off \in Nat
      <3>1. Gain(t) = 0
        BY <1>1, <1>3, InFileSystem DEF Gain
      <3>2. moved[t] \in Nat /\ files[t].off \in Nat
        BY IoAssumption DEF VarsInv, FileRec
      <3>. QED  BY <3>1, <3>2 DEF FileInv
    <2>8. moved' \in [Threads -> Nat] /\ \A u \in Threads \ {t} : moved'[u] = moved[u]
      BY <2>2, <2>6, <2>7 DEF VarsInv
    <2>9. moved'[t] = files[t].off + (IF e.ok /\ TRUE /\ ~files[t].async THEN e.info ELSE 0)
      <3>1. CASE ok /\ ~files[t].async
        BY <2>3, <2>6, <2>7, <3>1 DEF VarsInv
      <3>2. CASE ~(ok /\ ~files[t].async)
        BY <2>3, <2>6, <2>7, <3>2
      <3>. QED  BY <3>1, <3>2
    <2>10. UNCHANGED <<boot, files, op, panic>>
      BY <1>1, <2>1
    <2>11. e.info <= op[t].len /\ (e.ok => e.done)
      BY <2>1, <2>2, <2>3
    <2>. QED  BY <1>1, <1>3, <2>1, <2>3, <2>4, <2>5, <2>8, <2>9, <2>10, <2>11, LeaveRequest
  <1>4. CASE ~(calls[t] = <<calls[t][1]>> /\ irps[t] = <<irps[t][1]>>)
    <2>1. Sent(irps[t][2]) /\ irp = irps[t][2]
      BY <1>1, <1>4, BelowFileSystem
    <2>2. irp.done = FALSE /\ p.file = None
      BY <2>1 DEF Sent, OwnIrp, Params
    <2>3. UNCHANGED <<boot, files, op, moved, panic>>
      BY <1>1, <1>2, <2>2
    <2>4. PICK e : Leave(t, e, TRUE)
      BY <1>2
    <2>. QED  BY <1>1, <1>4, <2>3, <2>4, BelowFileSystem, LeaveOwn
  <1>. QED  BY <1>3, <1>4

LEMMA RefuseIrpStep ==
    ASSUME IoInv, NEW t \in Threads, RefuseIrp(t)
    PROVE  IoInv'
  <1>. VarsInv /\ FileInv(t)
    BY DEF IoInv, ThreadInv
  <1>1. InDispatch(t) /\ Leave(t, CurrentIrp(t), FALSE) /\ UNCHANGED <<boot, files, op, moved, panic>>
    BY DEF RefuseIrp
  <1>2. CASE calls[t] = <<calls[t][1]>> /\ irps[t] = <<irps[t][1]>>
    <2>1. PICK e \in UserIrp : e = irps[t][1]
      BY <1>1, <1>2, InFileSystem
    <2>2. Leave(t, e, FALSE) /\ LastCall(t) = calls[t][1]
      BY <1>1, <1>2, <2>1, InFileSystem
    <2>3. e.locs[2] = op[t] /\ e.info <= op[t].len /\ (e.ok => e.done) /\ ~e.ok
      BY <1>1, <1>2, <2>1, InFileSystem, RequestFacts
    <2>4. moved'[t] = files[t].off + (IF e.ok /\ FALSE /\ ~files[t].async THEN e.info ELSE 0)
      <3>1. Gain(t) = 0
        BY <1>1, <1>2, InFileSystem DEF Gain
      <3>. QED  BY <1>1, <3>1 DEF FileInv
    <2>5. moved' \in [Threads -> Nat] /\ \A u \in Threads \ {t} : moved'[u] = moved[u]
      BY <1>1 DEF VarsInv
    <2>. QED  BY <1>1, <1>2, <2>2, <2>3, <2>4, <2>5, LeaveRequest
  <1>3. CASE ~(calls[t] = <<calls[t][1]>> /\ irps[t] = <<irps[t][1]>>)
    BY <1>1, <1>3, BelowFileSystem, LeaveOwn
  <1>. QED  BY <1>2, <1>3
(* The parameters are copied to the next location.                         *)
LEMMA IrpForwarded ==
    ASSUME NEW i, Sent(i), i.cur = 1,
           NEW e, e = Down([i EXCEPT !.locs[i.cur - 1] = Params(i)])
    PROVE  Sent(e) /\ e.cur = 0
  <1>1. i \in OwnIrp /\ i.locs \in [0 .. 1 -> OpRec] /\ i.locs[1] \in OpRec
    <2>1. i \in OwnIrp
      BY DEF Sent
    <2>2. i.locs \in [0 .. 1 -> OpRec]
      BY <2>1 DEF OwnIrp
    <2>. QED  BY <2>1, <2>2
  <1>. DEFINE p == i.locs[1]
              l == [i.locs EXCEPT ![0] = p]
  <1>2. l \in [0 .. 1 -> OpRec] /\ l[0] = p
    BY <1>1
  <1>3. [i EXCEPT !.locs[i.cur - 1] = Params(i)] = [i EXCEPT !.locs = l]
    BY DEF Params
  <1>4. p.major = "transfer" /\ p.file = None
    BY DEF Sent
  <1>. HIDE DEF l, p
  <1>. DEFINE g == [i EXCEPT !.locs = l]
  <1>0. e = Down(g)
    BY <1>3
  <1>5. g \in OwnIrp /\ g.locs = l /\ g.cur = 1
    BY <1>1, <1>2 DEF OwnIrp
  <1>. HIDE DEF g
  <1>6. e = [g EXCEPT !.cur = 0]
    <2>1. e = [g EXCEPT !.cur = g.cur - 1]
      BY <1>0 DEF Down
    <2>2. g.cur - 1 = 0
      BY <1>5
    <2>. QED  BY <2>1, <2>2
  <1>7. e \in OwnIrp /\ e.locs = l /\ e.cur = 0
    BY <1>5, <1>6 DEF OwnIrp
  <1>. QED  BY <1>2, <1>4, <1>7 DEF Sent

LEMMA ForwardIrpStep ==
    ASSUME IoInv, NEW t \in Threads, ForwardIrp(t)
    PROVE  IoInv'
  <1>. VarsInv /\ FileInv(t) /\ HeapInv(t) /\ LockInv(t)
    BY DEF IoInv, ThreadInv
  <1>. DEFINE c == LastCall(t)
              irp == CurrentIrp(t)
              d == devs[c.dev].below
  <1>1. /\ InDispatch(t) /\ c.dev[1] # "fs" /\ d # None
        /\ IF irp.cur = 0 THEN panic' = "stack" /\ UNCHANGED <<irps, calls>>
           ELSE /\ irps' = [irps EXCEPT ![t][c.irp] =
                              Down([irp EXCEPT !.locs[irp.cur - 1] = Params(irp)])]
                /\ Push(t, d, c.irp)
                /\ UNCHANGED panic
        /\ UNCHANGED <<boot, files, lock, op, heap, moved>>
    BY DEF ForwardIrp
  <1>2. phase = Up /\ op[t] # NoOp /\ RequestInv(t, irps[t][1], calls[t][1]) /\ Running(t) /\ calls[t] # << >> /\ c.at = "run"
    BY <1>1, CallThread DEF InDispatch
  <1>3. PICK k \in DOMAIN Volumes : FileDevice(t) = Fs(k) /\ StackAt(k)
    BY <1>2, FileStack DEF FileInv
  <1>4. calls[t][1].dev = Fs(k) /\ calls[t][1] \in CallRec /\ calls[t][1].irp = 1
    BY <1>2, <1>3, RequestFacts
  <1>. DEFINE a == calls[t][1]
              b == calls[t][2]
  <1>5. /\ irps[t] = <<irps[t][1], irps[t][2]>> /\ calls[t] = <<a, b>>
        /\ TwoCalls(irps[t][2], a, b) /\ c = b /\ Len(calls[t]) = 2
    <2>1. c # a
      BY <1>1, <1>4, FsFacts
    <2>2. ~(/\ ThreeCalls(irps[t][2], calls[t][1], calls[t][2], calls[t][3])
            /\ c = calls[t][3])
      BY <1>1, <1>3 DEF ThreeCalls, Child, StackAt
    <2>. HIDE DEF c
    <2>. QED  BY <1>2, <2>1, <2>2, CallThread DEF c
  <1>6. b \in CallRec /\ b.dev = Vol(k) /\ b.irp = 2 /\ b.at = "run" /\ a.at = "run" /\ Sent(irps[t][2]) /\ irps[t][2].cur = 1
    BY <1>2, <1>4, <1>5, FsFacts DEF TwoCalls, Child
  <1>7. d = Disk /\ irp = irps[t][2]
    BY <1>3, <1>5, <1>6 DEF StackAt, CurrentIrp
  <1>. DEFINE e == Down([irp EXCEPT !.locs[irp.cur - 1] = Params(irp)])
              n == [b EXCEPT !.nested = TRUE]
              f == IoCallDriver(Disk, 2)
  <1>8. Sent(e) /\ e.cur = 0
    <2>. HIDE DEF e, irp
    <2>. QED  BY <1>6, <1>7, IrpForwarded DEF e
  <1>9. irps' = [irps EXCEPT ![t] = <<irps[t][1], e>>] /\ UNCHANGED panic /\ Push(t, Disk, 2)
    <2>. HIDE DEF e
    <2>1. irp.cur # 0 /\ c.irp = 2
      BY <1>5, <1>6, <1>7
    <2>2. irps' = [irps EXCEPT ![t] = [irps[t] EXCEPT ![2] = e]] /\ UNCHANGED panic /\ Push(t, d, 2)
      BY <1>1, <2>1 DEF e
    <2>3. [irps[t] EXCEPT ![2] = e] = <<irps[t][1], e>>
      BY <1>5, LastOfTwo
    <2>. QED  BY <1>7, <2>2, <2>3
  <1>. HIDE DEF e
  <1>10. calls' = [calls EXCEPT ![t] = <<a, n, f>>]
    <2>1. [calls[t] EXCEPT ![Len(calls[t])].nested = TRUE] = [calls[t] EXCEPT ![2] = n]
      BY <1>5
    <2>2. [calls[t] EXCEPT ![2] = n] = <<a, n>>
      BY <1>5, LastOfTwo
    <2>3. Append(<<a, n>>, f) = <<a, n, f>>
      BY AppendToTwo
    <2>. QED  BY <1>9, <2>1, <2>2, <2>3 DEF Push
  <1>11. n \in CallRec /\ n.dev = Vol(k) /\ n.irp = 2 /\ n.at = "run"
    <2>. HIDE DEF b
    <2>. QED  BY <1>6, CallNested
  <1>12. f \in CallRec /\ f.dev = Disk /\ f.irp = 2 /\ f.at = "lock" /\ f.nested = FALSE
    BY NewCall, DiskFacts
  <1>. HIDE DEF n, f
  <1>13. calls'[t] = <<a, n, f>> /\ irps'[t] = <<irps[t][1], e>>
    BY <1>9, <1>10 DEF VarsInv
  <1>14. ThreeCalls(e, a, n, f)
    BY <1>4, <1>6, <1>8, <1>11, <1>12, FsFacts DEF ThreeCalls, Child
  <1>15. vpbs' = vpbs
    BY <1>1 DEF boot
  <1>16. CallInv(t)'
    BY <1>1, <1>2, <1>4, <1>6, <1>13, <1>14, <1>15, OwnThreeCalls
  <1>17. FileInv(t)'
    <2>1. Gain(t)' = Gain(t)
      BY <1>1, <1>13 DEF Gain
    <2>. QED  BY <1>1, <1>15, <2>1, FileKept
  <1>18. HeapInv(t)'
    <2>1. DOMAIN irps[t] = {1, 2} /\ DOMAIN irps'[t] = {1, 2}
      BY <1>5, <1>13
    <2>. QED  BY <1>1, <2>1 DEF HeapInv
  <1>19. LockInv(t)'
    <2>1. DOMAIN calls[t] = {1, 2}
      BY <1>5
    <2>2. \A x \in DeviceNames : lock[x] = t <=> (a.dev = x \/ b.dev = x)
      BY <1>6, <2>1 DEF LockInv
    <2>3. \A x \in DeviceNames : lock'[x] = t <=> (a.dev = x \/ n.dev = x \/ (f.at = "run" /\ f.dev = x))
      BY <1>1, <1>6, <1>11, <1>12, <2>2
    <2>. QED  BY <1>6, <1>11, <1>13, <2>3, ThreeCallsLock
  <1>. QED  BY <1>1, <1>2, <1>9, <1>10, <1>16, <1>17, <1>18, <1>19, DispatchStep DEF VarsInv

LEMMA IoReadWriteDeviceStep ==
    ASSUME IoInv, NEW t \in Threads, IoReadWriteDevice(t)
    PROVE  IoInv'
  <1>. VarsInv /\ FileInv(t) /\ HeapInv(t) /\ LockInv(t)
    BY DEF IoInv, ThreadInv
  <1>. DEFINE c == LastCall(t)
              d == devs[c.dev].below
              p == [NoOp EXCEPT !.major = "transfer", !.len = Sector]
  <1>1. /\ InDispatch(t) /\ c.dev[1] = "fs"
        /\ irps' = [irps EXCEPT ![t] = Append(irps[t], Down(IoAllocateIrp(d, p)))]
        /\ heap' = heap \cup {<<"irp", t, 2>>}
        /\ Push(t, d, 2)
        /\ UNCHANGED <<boot, files, lock, op, moved, panic>>
    BY DEF IoReadWriteDevice
  <1>2. phase = Up /\ op[t] # NoOp /\ RequestInv(t, irps[t][1], calls[t][1]) /\ Running(t) /\ calls[t] # << >> /\ c.at = "run"
    BY <1>1, CallThread DEF InDispatch
  <1>3. PICK k \in DOMAIN Volumes : FileDevice(t) = Fs(k) /\ StackAt(k)
    BY <1>2, FileStack DEF FileInv
  <1>. DEFINE a == calls[t][1]
  <1>4. a.dev = Fs(k) /\ a \in CallRec /\ a.irp = 1
    BY <1>2, <1>3, RequestFacts
  <1>5. irps[t] = <<irps[t][1]>> /\ calls[t] = <<a>> /\ c = a /\ Len(calls[t]) = 1
    <2>1. ~(TwoCalls(irps[t][2], calls[t][1], calls[t][2]) /\ c = calls[t][2])
      BY <1>1, <1>4, FsFacts, VolFacts DEF TwoCalls, Child
    <2>2. ~(ThreeCalls(irps[t][2], calls[t][1], calls[t][2], calls[t][3]) /\ c = calls[t][3])
      BY <1>1, DiskFacts DEF ThreeCalls, Child
    <2>. HIDE DEF c
    <2>. QED  BY <1>2, <2>1, <2>2, CallThread DEF c
  <1>6. d = Vol(k) /\ a.at = "run"
    BY <1>2, <1>3, <1>4, <1>5 DEF StackAt
  <1>7. p \in OpRec /\ p.major = "transfer" /\ p.file = None
    BY IoAssumption DEF NoOp, OpRec, Majors
  <1>. HIDE DEF p
  <1>8. PICK e : Sent(e) /\ e.cur = 1 /\ Down(IoAllocateIrp(d, p)) = e
    <2>1. devs[Vol(k)].stack = 2
      BY <1>3 DEF StackAt
    <2>2. PICK locs \in [0 .. 2 - 1 -> OpRec] :
             /\ locs[2 - 1] = p
             /\ Down(IoAllocateIrp(Vol(k), p)) =
                  [size |-> 2, cur |-> 2 - 1, done |-> FALSE, ok |-> FALSE, info |-> 0, locs |-> locs]
      BY ONLY <1>7, <2>1, NewIrp
    <2>. DEFINE x == [size |-> 2, cur |-> 1, done |-> FALSE, ok |-> FALSE, info |-> 0, locs |-> locs]
    <2>3. x \in OwnIrp /\ x.cur = 1 /\ x.locs[1] = p
      BY <2>2 DEF OwnIrp
    <2>4. Down(IoAllocateIrp(d, p)) = x
      BY <1>6, <2>2
    <2>. HIDE DEF x
    <2>. QED  BY <1>7, <2>3, <2>4 DEF Sent
  <1>. DEFINE n == [a EXCEPT !.nested = TRUE]
              f == IoCallDriver(Vol(k), 2)
  <1>9. irps' = [irps EXCEPT ![t] = <<irps[t][1], e>>]
    BY <1>1, <1>5, <1>8, AppendToOne
  <1>10. calls' = [calls EXCEPT ![t] = <<n, f>>]
    <2>1. [calls[t] EXCEPT ![Len(calls[t])].nested = TRUE] = [calls[t] EXCEPT ![1] = n]
      BY <1>5
    <2>2. [calls[t] EXCEPT ![1] = n] = <<n>>
      BY <1>5, LastOfOne
    <2>3. Append(<<n>>, f) = <<n, f>>
      BY AppendToOne
    <2>. QED  BY <1>1, <1>6, <2>1, <2>2, <2>3 DEF Push
  <1>11. n \in CallRec /\ n.dev = Fs(k) /\ n.irp = 1 /\ n.at = "run" /\ n.ok = a.ok
    <2>. HIDE DEF a
    <2>. QED  BY <1>4, <1>6, CallNested
  <1>12. f \in CallRec /\ f.dev = Vol(k) /\ f.irp = 2 /\ f.at = "lock" /\ f.nested = FALSE
    BY NewCall, VolFacts
  <1>. HIDE DEF n, f
  <1>13. calls'[t] = <<n, f>> /\ irps'[t] = <<irps[t][1], e>>
    BY <1>9, <1>10 DEF VarsInv
  <1>14. TwoCalls(e, n, f)
    BY <1>8, <1>11, <1>12, FsFacts DEF TwoCalls, Child
  <1>15. vpbs' = vpbs
    BY <1>1 DEF boot
  <1>16. CallInv(t)'
    BY <1>1, <1>2, <1>4, <1>6, <1>11, <1>13, <1>14, <1>15, OwnTwoCalls
  <1>17. FileInv(t)'
    <2>1. Gain(t)' = Gain(t)
      <3>1. ~irps[t][1].ok
        BY <1>2, <1>6, RequestFacts
      <3>. QED  BY <1>13, <3>1 DEF Gain
    <2>. QED  BY <1>1, <1>15, <2>1, FileKept
  <1>18. HeapInv(t)'
    <2>1. DOMAIN irps[t] = {1} /\ DOMAIN irps'[t] = {1, 2}
      BY <1>5, <1>13
    <2>2. <<"irp", t, 1>> \in heap' /\ <<"irp", t, 2>> \in heap'
      BY <1>1, <2>1 DEF HeapInv
    <2>3. <<"file", t>> \in heap' <=> files'[t].state # "none"
      BY <1>1, HeapNames DEF HeapInv
    <2>. QED  BY <2>1, <2>2, <2>3 DEF HeapInv
  <1>19. LockInv(t)'
    <2>1. DOMAIN calls[t] = {1}
      BY <1>5
    <2>2. \A x \in DeviceNames : lock[x] = t <=> a.dev = x
      BY <1>6, <2>1 DEF LockInv
    <2>3. \A x \in DeviceNames : lock'[x] = t <=> (n.dev = x \/ (f.at = "run" /\ f.dev = x))
      BY <1>1, <1>4, <1>11, <1>12, <2>2
    <2>. QED  BY <1>11, <1>13, <2>3, TwoCallsLock
  <1>. QED  BY <1>1, <1>2, <1>9, <1>10, <1>16, <1>17, <1>18, <1>19, DispatchStep DEF VarsInv
-----------------------------------------------------------------------------
(* The theorems.                                                           *)

LEMMA IoInit == Init => IoInv
  <1>. SUFFICES ASSUME Init
                PROVE  IoInv
    OBVIOUS
  <1>1. PhaseInv
    <2>1. drivers \in Seq(Range(DriverNames))
      BY DEF Init
    <2>. QED  BY <2>1, Phases DEF Init, PhaseInv
  <1>2. DeviceInv
    BY DEF Init, DeviceInv
  <1>3. VpbInv
    <2>1. << >> \in Seq(Vpb) /\ Len(<< >>) = 0 /\ DOMAIN << >> = {}
      OBVIOUS
    <2>. QED  BY <2>1 DEF Init, VpbInv
  <1>4. VarsInv
    <2>1. files \in [Threads -> FileRec]
      BY NoFileFacts DEF Init
    <2>. QED  BY <2>1 DEF Init, VarsInv
  <1>5. QuietInv
    BY DEF Init, QuietInv
  <1>6. ASSUME NEW t \in Threads
        PROVE  ThreadInv(t)
    <2>1. /\ op[t] = NoOp /\ irps[t] = << >> /\ calls[t] = << >> /\ files[t] = NoFile /\ moved[t] = 0
          /\ heap = {} /\ \A d \in DeviceNames : lock[d] = None
      BY DEF Init
    <2>2. CallInv(t)
      BY <2>1 DEF CallInv
    <2>3. FileInv(t)
      BY <2>1, NoneIsNoDevice DEF FileInv, NoFile, NoOp, Gain, Majors
    <2>4. HeapInv(t)
      BY <2>1, NoFileFacts DEF HeapInv
    <2>5. LockInv(t)
      BY <2>1, NoneIsNoDevice DEF LockInv
    <2>. QED  BY <2>2, <2>3, <2>4, <2>5 DEF ThreadInv
  <1>. QED  BY <1>1, <1>2, <1>3, <1>4, <1>5, <1>6 DEF IoInv, BootInv

LEMMA IoStutter ==
    ASSUME IoInv, UNCHANGED vars
    PROVE  IoInv'
  <1>. UNCHANGED <<phase, todo, drivers, devs, vpbs, letters, files, lock, irps, calls, op, heap, moved, panic>>
    BY DEF vars
  <1>1. BootInv'
    BY DEF IoInv, BootInv, PhaseInv, DeviceInv, VpbInv, Attached
  <1>2. VarsInv' /\ QuietInv'
    BY DEF IoInv, VarsInv, QuietInv
  <1>3. ASSUME NEW t \in Threads
        PROVE  ThreadInv(t)'
    <2>0. ThreadInv(t)
      BY DEF IoInv
    <2>1. CallInv(t)'
      BY <2>0 DEF ThreadInv, CallInv, RequestInv, OwnRequest, FileDevice
    <2>2. FileInv(t)'
      BY <2>0 DEF ThreadInv, FileInv, Gain
    <2>3. HeapInv(t)' /\ LockInv(t)'
      BY <2>0 DEF ThreadInv, HeapInv, LockInv
    <2>. QED  BY <2>1, <2>2, <2>3 DEF ThreadInv
  <1>. QED  BY <1>1, <1>2, <1>3 DEF IoInv

LEMMA IoNext == IoInv /\ [Next]_vars => IoInv'
  <1>. SUFFICES ASSUME IoInv, [Next]_vars
                PROVE  IoInv'
    OBVIOUS
  <1>1. CASE LateInit
    BY <1>1, IoCreateDriverStep, IoCreateDriverFailedStep, IoCreateDeviceStep, IomuDriverInstalledStep,
       IomuDetermineSystemPartitionStep, IomuInitializeSwapFileStep DEF LateInit
  <1>2. ASSUME NEW t \in Threads, Request(t)
        PROVE  IoInv'
    <2>1. CASE \E letter \in 1 .. MaxLetters : IoCreateFile(t, letter)
      BY <2>1, IoCreateFileStep
    <2>2. CASE \E len \in Lengths, given \in {None, 0} : IoReadWriteFile(t, len, given)
      BY <2>2, IoReadWriteFileStep
    <2>3. CASE IoCloseFile(t) \/ IoQueryInformationFile(t) \/ IoQueryDirectoryFile(t)
      BY <2>3, ControlFileStep DEF IoCloseFile, IoQueryInformationFile, IoQueryDirectoryFile
    <2>. QED  BY <1>2, <2>1, <2>2, <2>3 DEF Request
  <1>3. ASSUME NEW t \in Threads, Progress(t)
        PROVE  IoInv'
    BY <1>3, AcquireDeviceStep, IoCompleteIrpStep, RefuseIrpStep, ForwardIrpStep, IoReadWriteDeviceStep,
       IoCreateFileDoneStep, IoReadWriteFileDoneStep, IoCloseFileDoneStep, IoQueryFileDoneStep DEF Progress
  <1>4. CASE UNCHANGED vars
    BY <1>4, IoStutter
  <1>. QED  BY <1>1, <1>2, <1>3, <1>4 DEF Next

(* The invariant holds whatever the partitions of the disk hold, however   *)
(* drivers fail while IomuLateInit installs them, and however dispatch     *)
(* functions complete, refuse and forward the IRPs IoCallDriver gives them.*)
THEOREM IoInvariance == Spec => []IoInv
  BY IoInit, IoNext, PTL DEF Spec

LEMMA IrpNumbers ==
    ASSUME IoInv, NEW t \in Threads
    PROVE  DOMAIN irps[t] \subseteq {1, 2}
  <1>. CallInv(t)
    BY DEF IoInv, ThreadInv
  <1>1. CASE irps[t] = << >>
    BY <1>1
  <1>2. CASE irps[t] = <<irps[t][1]>>
    BY <1>2
  <1>3. CASE irps[t] = <<irps[t][1], irps[t][2]>>
    BY <1>3
  <1>. QED  BY <1>1, <1>2, <1>3 DEF CallInv

LEMMA FilesFollow == IoInv => FilesSound
  <1>. SUFFICES ASSUME IoInv
                PROVE  FilesSound
    OBVIOUS
  <1>. VarsInv /\ \A t \in Threads : FileInv(t) /\ HeapInv(t)
    BY DEF IoInv, ThreadInv
  <1>. DEFINE I == UNION {{<<"irp", t, i>> : i \in DOMAIN irps[t]} : t \in Threads}
              F == {<<"file", t>> : t \in {u \in Threads : files[u].state # "none"}}
  <1>1. HeapOwned
    <2>1. ASSUME NEW h \in heap, h[1] # "swap"
          PROVE  h \in I \cup F
      <3>1. ASSUME NEW t \in Threads, h = <<"file", t>>
            PROVE  h \in F
        BY <3>1 DEF HeapInv
      <3>2. ASSUME NEW t \in Threads, NEW n \in {1, 2}, h = <<"irp", t, n>>
            PROVE  h \in I
        <4>1. n \in DOMAIN irps[t]
          BY <3>2 DEF HeapInv
        <4>2. h \in {<<"irp", t, i>> : i \in DOMAIN irps[t]}
          BY <3>2, <4>1
        <4>. QED  BY <4>2
      <3>. QED  BY <2>1, <3>1, <3>2 DEF VarsInv
    <2>2. ASSUME NEW h \in I
          PROVE  h \in heap /\ h[1] # "swap"
      <3>1. PICK t \in Threads : h \in {<<"irp", t, i>> : i \in DOMAIN irps[t]}
        OBVIOUS
      <3>2. PICK i \in DOMAIN irps[t] : h = <<"irp", t, i>>
        BY <3>1
      <3>3. i \in {1, 2}
        BY IrpNumbers
      <3>4. <<"irp", t, i>> \in heap
        BY <3>3 DEF HeapInv
      <3>5. <<"irp", t, i>>[1] = "irp"
        OBVIOUS
      <3>. QED  BY <3>2, <3>4, <3>5
    <2>3. ASSUME NEW h \in F
          PROVE  h \in heap /\ h[1] # "swap"
      <3>1. PICK t \in Threads : files[t].state # "none" /\ h = <<"file", t>>
        OBVIOUS
      <3>2. <<"file", t>> \in heap
        BY <3>1 DEF HeapInv
      <3>3. <<"file", t>>[1] = "file"
        OBVIOUS
      <3>. QED  BY <3>1, <3>2, <3>3
    <2>. QED  BY <2>1, <2>2, <2>3 DEF HeapOwned
  <1>2. OffsetExact
    <2>. SUFFICES ASSUME NEW t \in Threads, op[t] = NoOp
                  PROVE  files[t].off = moved[t]
      BY DEF OffsetExact
    <2>1. Gain(t) = 0 /\ files[t].off \in Nat
      BY IoAssumption DEF Gain, VarsInv, FileRec
    <2>. QED  BY <2>1 DEF FileInv
  <1>. QED  BY <1>1, <1>2 DEF FilesSound

(* IoFreeIrp and the release of file objects: whatever succeeds, fails or  *)
(* moves less than was asked for, on the path of IoCreateFile,             *)
(* IoReadFile, IoWriteFile and IoCloseFile and below them, every IRP and   *)
(* file object is freed exactly once, and CurrentByteOffset is the number  *)
(* of bytes moved.                                                         *)
THEOREM FilesCorrect == Spec => []FilesSound
  BY IoInvariance, FilesFollow, PTL
(* The devices of the calls of a thread, from the file system down.        *)
LEMMA CallDevices ==
    ASSUME IoInv, panic = "none", NEW t \in Threads, calls[t] # << >>
    PROVE  \E k \in DOMAIN Volumes :
             /\ StackAt(k) /\ calls[t][1].dev = Fs(k) /\ calls[t][1].irp = 1 /\ op[t] # NoOp
             /\ irps[t][1] \in UserIrp /\ irps[t][1].locs[2] = op[t]
             /\ \/ /\ irps[t] = <<irps[t][1]>> /\ calls[t] = <<calls[t][1]>> /\ LastCall(t) = calls[t][1]
                \/ /\ irps[t] = <<irps[t][1], irps[t][2]>> /\ Sent(irps[t][2])
                   /\ calls[t][1].at = "run" /\ calls[t][2].dev = Vol(k) /\ calls[t][2].irp = 2
                   /\ \/ calls[t] = <<calls[t][1], calls[t][2]>> /\ LastCall(t) = calls[t][2]
                      \/ /\ calls[t] = <<calls[t][1], calls[t][2], calls[t][3]>> /\ LastCall(t) = calls[t][3]
                         /\ calls[t][2].at = "run" /\ calls[t][3].dev = Disk /\ calls[t][3].irp = 2
  <1>. CallInv(t) /\ FileInv(t)
    BY DEF IoInv, ThreadInv
  <1>1. op[t] # NoOp
    BY DEF CallInv
  <1>2. phase = Up
    BY <1>1 DEF IoInv, QuietInv
  <1>3. PICK k \in DOMAIN Volumes : FileDevice(t) = Fs(k) /\ StackAt(k)
    BY <1>1, <1>2, FileStack DEF FileInv
  <1>4. calls[t][1].dev = Fs(k) /\ calls[t][1].irp = 1 /\ irps[t][1] \in UserIrp /\ irps[t][1].locs[2] = op[t]
    BY <1>1, <1>3, RequestFacts
  <1>5. Running(t)
    BY <1>2 DEF Running
  <1>6. TwoCalls(irps[t][2], calls[t][1], calls[t][2]) =>
          Sent(irps[t][2]) /\ calls[t][1].at = "run" /\ calls[t][2].dev = Vol(k) /\ calls[t][2].irp = 2
    BY <1>4, FsFacts DEF TwoCalls, Child
  <1>7. ThreeCalls(irps[t][2], calls[t][1], calls[t][2], calls[t][3]) =>
          /\ Sent(irps[t][2]) /\ calls[t][1].at = "run" /\ calls[t][2].dev = Vol(k) /\ calls[t][2].irp = 2
          /\ calls[t][2].at = "run" /\ calls[t][3].dev = Disk /\ calls[t][3].irp = 2
    BY <1>4, FsFacts DEF ThreeCalls, Child
  <1>. QED  BY <1>1, <1>3, <1>4, <1>5, <1>6, <1>7, CallThread

(* Every call is of a device of an installed driver, with an IRP that is   *)
(* there, whose current location holds the request.                        *)
LEMMA CallSound ==
    ASSUME IoInv, panic = "none", NEW t \in Threads, NEW n \in DOMAIN calls[t]
    PROVE  /\ calls[t][n].dev \in DOMAIN devs /\ DriverOf(calls[t][n].dev) \in Range(drivers)
           /\ calls[t][n].irp \in DOMAIN irps[t]
           /\ LET irp == irps[t][calls[t][n].irp]
              IN  /\ irp.locs[irp.cur].major # None
                  /\ calls[t][n].irp = 1 => irp.locs[irp.cur] = op[t]
  <1>0. calls[t] # << >>
    OBVIOUS
  <1>1. PICK k \in DOMAIN Volumes :
             /\ StackAt(k) /\ calls[t][1].dev = Fs(k) /\ calls[t][1].irp = 1 /\ op[t] # NoOp
             /\ irps[t][1] \in UserIrp /\ irps[t][1].locs[2] = op[t]
             /\ \/ /\ irps[t] = <<irps[t][1]>> /\ calls[t] = <<calls[t][1]>>
                \/ /\ irps[t] = <<irps[t][1], irps[t][2]>> /\ Sent(irps[t][2])
                   /\ calls[t][2].dev = Vol(k) /\ calls[t][2].irp = 2
                   /\ \/ calls[t] = <<calls[t][1], calls[t][2]>>
                      \/ /\ calls[t] = <<calls[t][1], calls[t][2], calls[t][3]>>
                         /\ calls[t][3].dev = Disk /\ calls[t][3].irp = 2
    BY <1>0, CallDevices
  <1>2. \A d \in {Fs(k), Vol(k), Disk} : d \in DOMAIN devs /\ DriverOf(d) \in Range(drivers)
    BY <1>1 DEF StackAt
  <1>3. irps[t][1].cur = 2 /\ irps[t][1].locs[2] = op[t] /\ op[t].major # None
    BY <1>1, RequestFacts, NoneIsNoDevice DEF UserIrp
  <1>4. Sent(irps[t][2]) => irps[t][2].locs[irps[t][2].cur].major # None
    BY NoneIsNoDevice DEF Sent, Majors
  <1>5. CASE irps[t] = <<irps[t][1]>> /\ calls[t] = <<calls[t][1]>>
    <2>1. n = 1 /\ 1 \in DOMAIN irps[t]
      BY <1>5
    <2>. QED  BY <1>1, <1>2, <1>3, <2>1
  <1>6. CASE /\ irps[t] = <<irps[t][1], irps[t][2]>> /\ Sent(irps[t][2])
             /\ calls[t][2].dev = Vol(k) /\ calls[t][2].irp = 2
             /\ calls[t] = <<calls[t][1], calls[t][2]>>
    <2>1. n \in {1, 2} /\ DOMAIN irps[t] = {1, 2}
      BY <1>6
    <2>. QED  BY <1>1, <1>2, <1>3, <1>4, <1>6, <2>1
  <1>7. CASE /\ irps[t] = <<irps[t][1], irps[t][2]>> /\ Sent(irps[t][2])
             /\ calls[t][2].dev = Vol(k) /\ calls[t][2].irp = 2
             /\ calls[t] = <<calls[t][1], calls[t][2], calls[t][3]>>
             /\ calls[t][3].dev = Disk /\ calls[t][3].irp = 2
    <2>1. n \in {1, 2, 3} /\ DOMAIN irps[t] = {1, 2}
      BY <1>7
    <2>. QED  BY <1>1, <1>2, <1>3, <1>4, <1>7, <2>1
  <1>. QED  BY <1>1, <1>5, <1>6, <1>7

LEMMA TypesFollow ==
    ASSUME IoInv, panic = "none"
    PROVE  IoTypeOK
  <1>. VarsInv /\ BootInv /\ PhaseInv /\ DeviceInv /\ VpbInv
    BY DEF IoInv, BootInv
  <1>1. /\ DOMAIN devs \subseteq DeviceNames
        /\ \A d \in DOMAIN devs : devs[d].below \in DOMAIN devs \cup {None}
    BY DEF DeviceInv, Attached
  <1>2. ASSUME NEW t \in Threads, NEW i \in DOMAIN irps[t]
        PROVE  /\ irps[t][i].cur \in 0 .. irps[t][i].size
               /\ DOMAIN irps[t][i].locs = 0 .. irps[t][i].size - 1
    <2>. CallInv(t)
      BY DEF IoInv, ThreadInv
    <2>1. i \in {1, 2}
      BY IrpNumbers
    <2>2. op[t] # NoOp
      BY <1>2 DEF CallInv
    <2>3. CASE i = 1
      <3>1. irps[t][1] \in UserIrp
        BY <2>2, RequestFacts
      <3>2. /\ irps[t][1].size = 3 /\ irps[t][1].cur = 2
            /\ irps[t][1].locs \in [0 .. 2 -> OpRec]
        BY ONLY <3>1 DEF UserIrp
      <3>3. DOMAIN irps[t][1].locs = 0 .. 2 /\ 3 - 1 = 2 /\ 2 \in 0 .. 3
        BY ONLY <3>2
      <3>4. irps[t][i] = irps[t][1]
        BY ONLY <2>3
      <3>. QED  BY ONLY <3>2, <3>3, <3>4
    <2>4. CASE i = 2
      <3>1. irps[t] # <<irps[t][1]>>
        BY <2>4
      <3>2. irps[t][2] \in OwnIrp
        BY <2>2, <3>1 DEF CallInv, OwnRequest, TwoCalls, ThreeCalls, Sent
      <3>3. /\ irps[t][2].size = 2 /\ irps[t][2].cur \in {0, 1}
            /\ irps[t][2].locs \in [0 .. 1 -> OpRec]
        BY ONLY <3>2 DEF OwnIrp
      <3>4. DOMAIN irps[t][2].locs = 0 .. 1 /\ 2 - 1 = 1 /\ irps[t][2].cur \in 0 .. 2
        BY ONLY <3>3
      <3>5. irps[t][i] = irps[t][2]
        BY ONLY <2>4
      <3>. QED  BY ONLY <3>3, <3>4, <3>5
    <2>. QED  BY <2>1, <2>3, <2>4
  <1>3. \A t \in Threads : \A c \in DOMAIN calls[t] :
          calls[t][c].dev \in DOMAIN devs /\ calls[t][c].irp \in DOMAIN irps[t]
    BY CallSound
  <1>4. files \in [Threads -> [vpb : 0 .. Len(vpbs), async : BOOLEAN, off : 0 .. MaxOffset,
                               state : {"none", "creating", "open"}]]
    <2>1. ASSUME NEW t \in Threads
          PROVE  files[t] \in [vpb : 0 .. Len(vpbs), async : BOOLEAN, off : 0 .. MaxOffset,
                               state : {"none", "creating", "open"}]
      <3>. FileInv(t)
        BY DEF IoInv, ThreadInv
      <3>1. files[t] \in FileRec
        BY DEF VarsInv
      <3>2. files[t].vpb \in 0 .. Len(vpbs)
        <4>1. CASE files[t].state = "none"
          BY <4>1, VpbType DEF FileInv, NoFile
        <4>2. CASE files[t].state # "none"
          BY <4>2, VpbType DEF FileInv
        <4>. QED  BY <4>1, <4>2
      <3>. QED  BY <3>1, <3>2 DEF FileRec
    <2>. QED  BY <2>1 DEF VarsInv
  <1>5. \A t \in Threads : files[t].async => files[t].off = 0
    BY DEF IoInv, ThreadInv, FileInv
  <1>6. lock \in [DeviceNames -> Threads \cup {None}]
    BY DEF VarsInv
  <1>. QED  BY <1>1, <1>2, <1>3, <1>4, <1>5, <1>6 DEF IoTypeOK

LEMMA LocksFollow ==
    ASSUME IoInv, panic = "none"
    PROVE  LockOrder
  <1>. SUFFICES ASSUME NEW t \in Threads, calls[t] # << >>, LastCall(t).at = "lock",
                       NEW d \in DeviceNames, lock[d] = t
                PROVE  d \in DOMAIN devs /\ devs[d].stack > devs[LastCall(t).dev].stack
    BY DEF LockOrder
  <1>1. PICK k \in DOMAIN Volumes :
             /\ StackAt(k) /\ calls[t][1].dev = Fs(k)
             /\ \/ calls[t] = <<calls[t][1]>> /\ LastCall(t) = calls[t][1]
                \/ /\ calls[t] = <<calls[t][1], calls[t][2]>> /\ LastCall(t) = calls[t][2]
                   /\ calls[t][2].dev = Vol(k)
                \/ /\ calls[t] = <<calls[t][1], calls[t][2], calls[t][3]>> /\ LastCall(t) = calls[t][3]
                   /\ calls[t][2].dev = Vol(k) /\ calls[t][3].dev = Disk
    BY CallDevices
  <1>2. PICK n \in DOMAIN calls[t] : calls[t][n].dev = d /\ calls[t][n].at = "run"
    BY DEF IoInv, ThreadInv, LockInv
  <1>3. CASE calls[t] = <<calls[t][1]>> /\ LastCall(t) = calls[t][1]
    <2>1. n = 1
      BY <1>3
    <2>. QED  BY <1>2, <1>3, <2>1
  <1>4. CASE /\ calls[t] = <<calls[t][1], calls[t][2]>> /\ LastCall(t) = calls[t][2]
             /\ calls[t][2].dev = Vol(k)
    <2>1. n \in {1, 2}
      BY <1>4
    <2>2. n = 1 /\ d = Fs(k)
      BY <1>1, <1>2, <1>4, <2>1
    <2>. QED  BY <1>1, <1>4, <2>2 DEF StackAt
  <1>5. CASE /\ calls[t] = <<calls[t][1], calls[t][2], calls[t][3]>> /\ LastCall(t) = calls[t][3]
             /\ calls[t][2].dev = Vol(k) /\ calls[t][3].dev = Disk
    <2>1. n \in {1, 2, 3}
      BY <1>5
    <2>2. n \in {1, 2} /\ d \in {Fs(k), Vol(k)}
      BY <1>1, <1>2, <1>5, <2>1
    <2>. QED  BY <1>1, <1>5, <2>2 DEF StackAt
  <1>. QED  BY <1>1, <1>3, <1>4, <1>5

LEMMA VolumesFollow ==
    ASSUME IoInv
    PROVE  VolumesConsistent
  <1>. DeviceInv /\ VpbInv
    BY DEF IoInv, BootInv
  <1>. SUFFICES ASSUME NEW i \in DOMAIN vpbs
                PROVE  /\ IomuSearchForVpb(vpbs[i].letter) = i
                       /\ vpbs[i].mounted => devs[vpbs[i].fs].below = Vol(vpbs[i].vol)
    BY DEF VolumesConsistent
  <1>1. \A j \in DOMAIN vpbs : vpbs[j].letter = j
    BY DEF VpbInv
  <1>2. IomuSearchForVpb(vpbs[i].letter) = i
    <2>1. \A j \in DOMAIN vpbs : vpbs[j].letter = vpbs[i].letter <=> j = i
      BY <1>1
    <2>. QED  BY <2>1 DEF IomuSearchForVpb
  <1>3. vpbs[i].vol \in DOMAIN Volumes
    BY VpbType DEF Vpb
  <1>4. vpbs[i].mounted => vpbs[i].fs = Fs(vpbs[i].vol) /\ vpbs[i].fs \in DOMAIN devs
    BY DEF VpbInv
  <1>. QED  BY <1>2, <1>3, <1>4, FsFacts DEF DeviceInv

(* The assertions of IoCallDriver, IoCopyCurrentStackLocationToNext and    *)
(* IoCompleteIrp hold, for any volumes: the only assertion that can fail   *)
(* is the one of _IomuGetNextVolumeLetter, and only on a disk with more    *)
(* partitions than there are letters.                                      *)
THEOREM OnlyLettersRunOut == Spec => [](panic # "none" => panic = "letters" /\ Len(Volumes) > MaxLetters)
  <1>1. IoInv => (panic # "none" => panic = "letters" /\ Len(Volumes) > MaxLetters)
    BY DEF IoInv, BootInv, VpbInv
  <1>. QED  BY <1>1, IoInvariance, PTL

(* With a letter for each partition, every request that IoCallDriver       *)
(* passes down a stack of devices finds a stack location with its          *)
(* parameters, at a device of an installed driver, on the volume its       *)
(* letter names, and DeviceLocks are taken from the top down.              *)
THEOREM RequestsCorrect ==
    ASSUME Len(Volumes) <= MaxLetters
    PROVE  Spec => []RequestsSound
  <1>1. ASSUME IoInv
        PROVE  RequestsSound
    <2>1. panic = "none"
      BY <1>1, VolumeNumbers, IoAssumption DEF IoInv, BootInv, VpbInv
    <2>2. IoTypeOK /\ LockOrder /\ VolumesConsistent
      BY <1>1, <2>1, TypesFollow, LocksFollow, VolumesFollow
    <2>3. RequestReachesDriver
      BY <1>1, <2>1, CallSound DEF RequestReachesDriver
    <2>4. CallsReachLiveDriver
      BY <1>1, <2>1, CallSound DEF CallsReachLiveDriver
    <2>. QED  BY <2>1, <2>2, <2>3, <2>4 DEF RequestsSound, StackFits
  <1>. QED  BY <1>1, IoInvariance, PTL
=============================================================================
