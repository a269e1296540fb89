--------------------------------- MODULE Io ---------------------------------
(***************************************************************************)
(* Drivers, devices, IRPs and files (io_devices.c, io_files.c and the      *)
(* parts of iomu.c that keep drivers and volumes).  The system thread      *)
(* installs the drivers, which stack devices on top of each other and      *)
(* mount file systems on volumes; then threads open, read, write, query    *)
(* and close files, each call an IRP that travels down a device stack.     *)
(*                                                                         *)
(* The drivers are not part of the kernel's source: what a driver entry or *)
(* a dispatch function may do is modelled from the functions io.h gives    *)
(* it.  MutexAcquire of a device lock is one step that waits for the lock. *)
(***************************************************************************)
EXTENDS Integers, Sequences, Functions

CONSTANTS
    Threads,
    Async,          \* the threads that open files for asynchronous access
    Volumes,        \* what the partitions of the disk hold: "fat", "swap", "none"
    Ini,            \* the partitions that hold HAL9000.ini
    Mandatory,      \* drivers the system cannot do without
    MaxLetters,     \* letters _IomuGetNextVolumeLetter can give out
    Sector,         \* DeviceAlignment of the disk and of volumes
    Lengths,        \* lengths of transfers
    MaxOffset,      \* bound: file offsets
    None

Vol(k) == <<"vol", k>>
Fs(k) == <<"fs", k>>
Disk == <<"disk", 0>>
DeviceNames == {Disk} \cup {Vol(k) : k \in DOMAIN Volumes} \cup {Fs(k) : k \in DOMAIN Volumes}

\* IRP_MJ_CREATE, READ and WRITE, CLOSE, QUERY_INFORMATION and DIRECTORY_CONTROL
Majors == {"create", "transfer", "close", "query"}

ASSUME IoAssumption ==
    /\ None \notin Threads \cup DeviceNames \cup Majors /\ Async \subseteq Threads
    /\ Volumes \in Seq({"fat", "swap", "none"})
    /\ Ini \subseteq DOMAIN Volumes
    /\ Sector \in Nat \ {0} /\ Lengths \subseteq Nat \ {0}
    /\ MaxLetters \in Nat /\ MaxOffset \in Nat

VARIABLES
    phase,          \* how far IomuLateInit has come
    todo,           \* devices the driver being installed still has to create, and None
    drivers,        \* DriverList
    devs,           \* device objects by name
    vpbs,           \* VpbList
    letters,        \* letters given out
    systemDrive, swapFile,
    files,          \* the file each thread has open
    lock,           \* holder of each DeviceLock
    irps,           \* IRPs of each thread, the innermost last
    calls,          \* IoCallDriver frames of each thread, the innermost last
    op,             \* the file operation of each thread
    heap,           \* ghost: objects allocated and not freed
    moved,          \* ghost: bytes drivers have moved for the synchronous requests on a file
    panic

vars == <<phase, todo, drivers, devs, vpbs, letters, systemDrive, swapFile,
          files, lock, irps, calls, op, heap, moved, panic>>

boot == <<phase, todo, drivers, devs, vpbs, letters, systemDrive, swapFile>>

DriverNames == <<"disk", "vol", "fat", "swapfs">>

\* IomuLateInit installs the drivers, looks for the system and the swap volumes.
FindSystem == Len(DriverNames) + 1
InitSwap == FindSystem + 1
Up == InitSwap + 1
Failed == Up + 1

NoOp == [major |-> None, file |-> None, off |-> 0, len |-> 0]

NoFile == [vpb |-> 0, async |-> FALSE, off |-> 0, state |-> "none"]

Init ==
    /\ phase = 1 /\ todo = {}
    /\ drivers = << >> /\ devs = << >> /\ vpbs = << >> /\ letters = 0
    /\ systemDrive = 0 /\ swapFile = 0
    /\ files = [t \in Threads |-> NoFile]
    /\ lock = [d \in DeviceNames |-> None]
    /\ irps = [t \in Threads |-> << >>]
    /\ calls = [t \in Threads |-> << >>]
    /\ op = [t \in Threads |-> NoOp]
    /\ heap = {} /\ moved = [t \in Threads |-> 0]
    /\ panic = "none"

-----------------------------------------------------------------------------
(* _IomuInitDrivers, IoCreateDriver, IoCreateDevice, IoAttachDevice.       *)

DriverOf(d) ==
    CASE d[1] \in {"disk", "vol"} -> d[1]
      [] d[1] = "fs" -> IF Volumes[d[2]] = "swap" THEN "swapfs" ELSE "fat"
\* Devices of installed drivers only.
IomuGetDevicesByType(type) ==
    {d \in DOMAIN devs : d[1] = type /\ DriverOf(d) \in Range(drivers)}

\* Devices the entry of a driver creates: the disk, a volume for each partition of
\* a disk, a file system for each volume it recognises.
Wanted(driver) ==
    LET kind == IF driver = "fat" THEN "fat" ELSE "swap"
    IN  CASE driver = "disk" -> {Disk}
          [] driver = "vol" -> IF IomuGetDevicesByType("disk") = {} THEN {}
                               ELSE {Vol(k) : k \in DOMAIN Volumes}
          [] OTHER -> {Fs(k) : k \in {j \in DOMAIN Volumes : Volumes[j] = kind /\ Vol(j) \in IomuGetDevicesByType("vol")}}

Below(d) == CASE d = Disk -> None [] d[1] = "vol" -> Disk [] d[1] = "fs" -> Vol(d[2])

\* The driver object is allocated and its entry called.
IoCreateDriver ==
    /\ phase \in DOMAIN DriverNames /\ todo = {}
    /\ todo' = Wanted(DriverNames[phase]) \cup {None}
    /\ UNCHANGED <<phase, drivers, devs, vpbs, letters, systemDrive, swapFile, files, lock,
                   irps, calls, op, heap, moved, panic>>

\* There was no memory, or the entry failed: the driver object is freed, and any
\* device the entry has left behind stays.  Only a mandatory driver stops the
\* system.  A file system that has mounted a volume does not fail.
IoCreateDriverFailed ==
    /\ todo # {} /\ panic = "none"
    /\ \A i \in DOMAIN vpbs : vpbs[i].mounted => DriverOf(vpbs[i].fs) # DriverNames[phase]
    /\ todo' = {}
    /\ phase' = IF DriverNames[phase] \in Mandatory THEN Failed ELSE phase + 1
    /\ UNCHANGED <<drivers, devs, vpbs, letters, systemDrive, swapFile, files, lock,
                   irps, calls, op, heap, moved, panic>>
\* Mutant: the stack of the device attached to is not counted.
IoAttachDeviceFlat(target) == IF target = None THEN 1 ELSE devs[target].stack

IoAttachDevice(target) == IF target = None THEN 1 ELSE devs[target].stack + 1

NewDevice(d) ==
    [stack |-> IoAttachDevice(Below(d)), below |-> Below(d),
     align |-> IF d[1] = "fs" THEN 1 ELSE Sector]
\* The VPB of a volume gets the next letter, if there is one; letters grow, so the
\* ordered insertion of IomuNewVpbCreated is at the end.
IoAllocateVpb(k) ==
    /\ letters' = letters + 1
    /\ vpbs' = Append(vpbs, [letter |-> letters + 1, vol |-> k, fs |-> None,
                             mounted |-> FALSE, swap |-> FALSE])
    /\ panic' = IF letters < MaxLetters THEN panic ELSE "letters"

\* A file system driver mounts itself on the volume it has recognised.
Mount(k) ==
    vpbs' = [i \in DOMAIN vpbs |->
                IF vpbs[i].vol = k
                THEN [vpbs[i] EXCEPT !.fs = Fs(k), !.mounted = TRUE, !.swap = Volumes[k] = "swap"]
                ELSE vpbs[i]]

\* IoCreateDevice, with the VPB of a volume, and the attachment, partition by
\* partition; a device whose memory cannot be allocated is left out.
IoCreateDevice ==
    \E d \in todo \ {None} :
        /\ panic = "none"
        /\ \A e \in todo \ {None} : d[2] <= e[2]
        /\ todo' = todo \ {d}
        /\ \/ /\ devs' = [x \in DOMAIN devs \cup {d} |-> IF x = d THEN NewDevice(d) ELSE devs[x]]
              /\ CASE d[1] = "disk" -> UNCHANGED <<vpbs, letters, panic>>
                   [] d[1] = "vol"  -> IoAllocateVpb(d[2])
                   [] d[1] = "fs"   -> Mount(d[2]) /\ UNCHANGED <<letters, panic>>
           \/ UNCHANGED <<devs, vpbs, letters, panic>>
        /\ UNCHANGED <<phase, drivers, systemDrive, swapFile, files, lock, irps, calls,
                       op, heap, moved>>

\* The entry has returned: IomuDriverInstalled.
IomuDriverInstalled ==
    /\ todo = {None} /\ panic = "none"
    /\ todo' = {}
    /\ drivers' = Append(drivers, DriverNames[phase])
    /\ phase' = phase + 1
    /\ UNCHANGED <<devs, vpbs, letters, systemDrive, swapFile, files, lock, irps, calls,
                   op, heap, moved, panic>>

-----------------------------------------------------------------------------
(* _IomuDetermineSystemPartition and _IomuInitializeSwapFile.              *)

\* IomuSearchForVpb: the index of the VPB with this letter, or 0.
IomuSearchForVpb(letter) ==
    IF \E i \in DOMAIN vpbs : vpbs[i].letter = letter
    THEN CHOOSE i \in DOMAIN vpbs : vpbs[i].letter = letter ELSE 0

\* The first mounted volume on which HAL9000.ini can be opened.
IomuDetermineSystemPartition ==
    /\ phase = FindSystem /\ panic = "none"
    /\ LET found == {i \in DOMAIN vpbs : vpbs[i].mounted /\ vpbs[i].vol \in Ini}
       IN  systemDrive' = IF found = {} THEN 0
                          ELSE vpbs[CHOOSE i \in found : \A j \in found : i <= j].letter
    /\ phase' = InitSwap
    /\ UNCHANGED <<todo, drivers, devs, vpbs, letters, swapFile, files, lock, irps, calls, op,
                   heap, moved, panic>>

\* Every swap volume is opened, and SwapFile is the last one that could be: the
\* other file objects are lost.
IomuInitializeSwapFile ==
    /\ phase = InitSwap
    /\ phase' = Up
    /\ \E opened \in SUBSET {i \in DOMAIN vpbs : vpbs[i].mounted /\ vpbs[i].swap} :
         /\ swapFile' = IF opened = {} THEN 0 ELSE CHOOSE i \in opened : \A j \in opened : i >= j
         /\ heap' = {<<"swap", i>> : i \in opened}
    /\ UNCHANGED <<todo, drivers, devs, vpbs, letters, systemDrive, files, lock, irps, calls,
                   op, moved, panic>>

-----------------------------------------------------------------------------
(* IRPs.                                                                   *)

Running(t) == phase = Up /\ panic = "none"

LastIrp(t) == irps[t][Len(irps[t])]
LastCall(t) == calls[t][Len(calls[t])]
\* IoAllocateIrp, with the caller's parameters in the next stack location.
IoAllocateIrp(d, params) ==
    [size |-> devs[d].stack, cur |-> devs[d].stack, done |-> FALSE, ok |-> FALSE, info |-> 0,
     locs |-> [i \in 0 .. devs[d].stack - 1 |->
                  IF i = devs[d].stack - 1 THEN params ELSE NoOp]]

\* The checks IoCallDriver makes before it takes the lock: a transfer must suit the
\* alignment of the device.
Aligned(d, p) ==
    p.major = "transfer" => p.len % devs[d].align = 0 /\ p.off % devs[d].align = 0

\* IoCallDriver of the n-th IRP: the location moves down, and the call waits for
\* the DeviceLock.
IoCallDriver(d, n) == [dev |-> d, irp |-> n, at |-> "lock", ok |-> TRUE, nested |-> FALSE]

Down(irp) == [irp EXCEPT !.cur = @ - 1]

Params(irp) == irp.locs[irp.cur]

AcquireDevice(t) ==
    LET c == LastCall(t)
    IN  /\ Running(t) /\ calls[t] # << >> /\ c.at = "lock"
        /\ lock[c.dev] = None
        /\ lock' = [lock EXCEPT ![c.dev] = t]
        /\ calls' = [calls EXCEPT ![t][Len(calls[t])].at = "run"]
        /\ UNCHANGED <<boot, files, irps, op, heap, moved, panic>>

\* Dispatch functions: complete the request, refuse it, hand it to the device
\* below, or read from the device below with a request of their own.
InDispatch(t) == Running(t) /\ calls[t] # << >> /\ LastCall(t).at = "run"
\* Mutant: a failing call returns without releasing the lock.
LeaveEarly(t, irp, ok) ==
    LET own   == LastCall(t).irp = 2
        first == Head(calls[t])
        back  == own /\ ok /\ irp.ok
    IN  /\ calls' = [calls EXCEPT ![t] =
               <<IF back THEN first ELSE [first EXCEPT !.at = "ret", !.ok = ok /\ ~own]>>]
        /\ irps' = [irps EXCEPT ![t] = IF own THEN <<Head(@)>> ELSE <<irp>>]
        /\ heap' = heap \ (IF own THEN {<<"irp", t, 2>>} ELSE {})
        /\ lock' = IF ~ok THEN lock ELSE [d \in DeviceNames |->
               IF lock[d] = t /\ ~(back /\ d = first.dev) THEN None ELSE lock[d]]

\* The dispatch function at the end of the calls returns with the IRP in the state
\* irp.  A driver that had forwarded the IRP returns the status it got; a file
\* system that had sent one of its own (_IoReadWriteDevice) has it freed, and goes
\* on or fails.  Every call that is over releases its DeviceLock.
Leave(t, irp, ok) ==
    LET own   == LastCall(t).irp = 2
        first == Head(calls[t])
        back  == own /\ ok /\ irp.ok
    IN  /\ calls' = [calls EXCEPT ![t] =
               <<IF back THEN first ELSE [first EXCEPT !.at = "ret", !.ok = ok /\ ~own]>>]
        /\ irps' = [irps EXCEPT ![t] = IF own THEN <<Head(@)>> ELSE <<irp>>]
        /\ heap' = heap \ (IF own THEN {<<"irp", t, 2>>} ELSE {})
        /\ lock' = [d \in DeviceNames |->
               IF lock[d] = t /\ ~(back /\ d = first.dev) THEN None ELSE lock[d]]

CurrentIrp(t) == irps[t][LastCall(t).irp]

\* A transfer from a file may move nothing and still succeed.
Short(ok, p) == IF ok /\ p.file # None THEN {0} ELSE {}

\* IoCompleteIrp must be called once.
IoCompleteIrp(t) ==
    LET irp == CurrentIrp(t)
        p   == Params(irp)
    IN  /\ InDispatch(t)
        /\ \E ok \in BOOLEAN : \E n \in {p.len} \cup Short(ok, p) :
             /\ Leave(t, [irp EXCEPT !.done = TRUE, !.ok = ok, !.info = n], TRUE)
             /\ moved' = IF ok /\ p.file # None /\ ~files[p.file].async
                         THEN [moved EXCEPT ![p.file] = @ + n] ELSE moved
        /\ panic' = IF irp.done THEN "completed" ELSE panic
        /\ UNCHANGED <<boot, files, op>>

\* The driver, or IoCallDriver for a driver without a dispatch function, fails.
RefuseIrp(t) ==
    /\ InDispatch(t)
    /\ Leave(t, CurrentIrp(t), FALSE)
    /\ UNCHANGED <<boot, files, op, moved, panic>>

\* A call of the device below by the dispatch function at the end of the calls.
Push(t, d, n) ==
    calls' = [calls EXCEPT ![t] = Append([@ EXCEPT ![Len(@)].nested = TRUE], IoCallDriver(d, n))]

\* IoCopyCurrentStackLocationToNext and IoCallDriver on the device below.
ForwardIrp(t) ==
    LET c   == LastCall(t)
        irp == CurrentIrp(t)
        d   == devs[c.dev].below
    IN  /\ InDispatch(t) /\ ~c.nested /\ c.dev[1] # "fs" /\ d # None
        /\ Aligned(d, Params(irp))
        /\ IF irp.cur = 0 THEN panic' = "stack" /\ UNCHANGED <<irps, calls>>
           ELSE /\ irps' = [irps EXCEPT ![t][c.irp] =
                              Down([irp EXCEPT !.locs[irp.cur - 1] = Params(irp)])]
                /\ Push(t, d, c.irp)
                /\ UNCHANGED panic
        /\ UNCHANGED <<boot, files, lock, op, heap, moved>>

\* _IoReadWriteDevice, called by a file system on its volume: an IRP of its own.
\* There must be memory for it.
IoReadWriteDevice(t) ==
    LET c == LastCall(t)
        d == devs[c.dev].below
        p == [NoOp EXCEPT !.major = "transfer", !.len = Sector]
    IN  /\ InDispatch(t) /\ ~c.nested /\ c.dev[1] = "fs"
        /\ Aligned(d, p)
        /\ irps' = [irps EXCEPT ![t] = Append(@, Down(IoAllocateIrp(d, p)))]
        /\ heap' = heap \cup {<<"irp", t, 2>>}
        /\ Push(t, d, 2)
        /\ UNCHANGED <<boot, files, lock, op, moved, panic>>

-----------------------------------------------------------------------------
(* Files.                                                                  *)

Idle(t) == Running(t) /\ op[t] = NoOp

\* IoCallDriver by the function that has built the IRP; the call may fail at once.
Submit(t, d, params) ==
    /\ irps' = [irps EXCEPT ![t] = <<Down(IoAllocateIrp(d, params))>>]
    /\ \/ /\ Aligned(d, params)
          /\ calls' = [calls EXCEPT ![t] = <<IoCallDriver(d, 1)>>]
       \/ calls' = [calls EXCEPT ![t] = <<[IoCallDriver(d, 1) EXCEPT !.at = "ret", !.ok = FALSE]>>]
    /\ op' = [op EXCEPT ![t] = params]

\* IoCreateFile: the volume must exist and have a file system; the file object is
\* allocated once there is an IRP.
IoCreateFile(t, letter) ==
    LET i == IomuSearchForVpb(letter)
    IN  /\ Idle(t) /\ files[t] = NoFile
        /\ i # 0 /\ vpbs[i].mounted
        /\ Submit(t, vpbs[i].fs, [NoOp EXCEPT !.major = "create", !.file = t])
        /\ files' = [files EXCEPT ![t] = [vpb |-> i, async |-> t \in Async, off |-> 0, state |-> "creating"]]
        /\ heap' = heap \cup {<<"irp", t, 1>>, <<"file", t>>}
        /\ UNCHANGED <<boot, lock, moved, panic>>

FileDevice(t) == vpbs[files[t].vpb].fs

\* _IoReadWriteFile up to the call: an asynchronous file needs an offset, any
\* other goes on at CurrentByteOffset unless one is given.
IoReadWriteFile(t, len, given) ==
    LET off == IF given # None THEN given ELSE files[t].off
    IN  /\ Idle(t) /\ files[t].state = "open"
        /\ files[t].async => given # None
        /\ files[t].off + len <= MaxOffset
        /\ Submit(t, FileDevice(t), [major |-> "transfer", file |-> t, off |-> off, len |-> len])
        /\ heap' = heap \cup {<<"irp", t, 1>>}
        /\ UNCHANGED <<boot, files, lock, moved, panic>>

\* A request without a transfer.
ControlFile(t, major) ==
    /\ Idle(t) /\ files[t].state = "open"
    /\ Submit(t, FileDevice(t), [NoOp EXCEPT !.major = major, !.file = t])
    /\ heap' = heap \cup {<<"irp", t, 1>>}
    /\ UNCHANGED <<boot, files, lock, moved, panic>>

IoCloseFile(t) == ControlFile(t, "close")

IoQueryInformationFile(t) == ControlFile(t, "query")

IoQueryDirectoryFile(t) == ControlFile(t, "query")

\* The caller has its status: IoCallDriver's if that failed, the IRP's otherwise.
FileDone(t) == Running(t) /\ Len(calls[t]) = 1 /\ LastCall(t).at = "ret"

Succeeded(t) == LastCall(t).ok /\ irps[t][1].ok

\* The IRP is freed.
EndRequest(t) ==
    /\ irps' = [irps EXCEPT ![t] = << >>]
    /\ calls' = [calls EXCEPT ![t] = << >>]
    /\ op' = [op EXCEPT ![t] = NoOp]
    /\ UNCHANGED <<boot, lock, panic>>
\* Mutant: the file object of a failed create is not freed.
IoCreateFileDoneKeep(t) ==
    LET f == irps[t][1].locs[irps[t][1].size - 1].file
    IN  /\ FileDone(t) /\ op[t].major = "create"
        /\ files' = [files EXCEPT ![f] = IF Succeeded(t) THEN [@ EXCEPT !.state = "open"] ELSE NoFile]
        /\ heap' = heap \ ({<<"irp", t, 1>>})
        /\ EndRequest(t)
        /\ UNCHANGED moved

\* The rest of IoCreateFile: the file object it finds in its stack location is
\* the handle, or is freed.
IoCreateFileDone(t) ==
    LET f == irps[t][1].locs[irps[t][1].size - 1].file
    IN  /\ FileDone(t) /\ op[t].major = "create"
        /\ files' = [files EXCEPT ![f] = IF Succeeded(t) THEN [@ EXCEPT !.state = "open"] ELSE NoFile]
        /\ heap' = heap \ ({<<"irp", t, 1>>} \cup IF Succeeded(t) THEN {} ELSE {<<"file", f>>})
        /\ EndRequest(t)
        /\ UNCHANGED moved
\* The rest of _IoReadWriteFile: a synchronous file advances by what was
\* transferred.
IoReadWriteFileDone(t) ==
    /\ FileDone(t) /\ op[t].major = "transfer"
    /\ files' = IF Succeeded(t) /\ ~files[t].async
                THEN [files EXCEPT ![t].off = @ + irps[t][1].info] ELSE files
    /\ heap' = heap \ {<<"irp", t, 1>>}
    /\ EndRequest(t)
    /\ UNCHANGED moved

\* A file that was closed is the file system's to free.
IoCloseFileDone(t) ==
    /\ FileDone(t) /\ op[t].major = "close"
    /\ files' = IF Succeeded(t) THEN [files EXCEPT ![t] = NoFile] ELSE files
    /\ moved' = IF Succeeded(t) THEN [moved EXCEPT ![t] = 0] ELSE moved
    /\ heap' = heap \ ({<<"irp", t, 1>>} \cup IF Succeeded(t) THEN {<<"file", t>>} ELSE {})
    /\ EndRequest(t)

IoQueryFileDone(t) ==
    /\ FileDone(t) /\ op[t].major = "query"
    /\ heap' = heap \ {<<"irp", t, 1>>}
    /\ EndRequest(t)
    /\ UNCHANGED <<files, moved>>

-----------------------------------------------------------------------------
LateInit ==
    \/ IoCreateDriver \/ IoCreateDriverFailed \/ IoCreateDevice \/ IomuDriverInstalled
    \/ IomuDetermineSystemPartition \/ IomuInitializeSwapFile

Request(t) ==
    \/ \E letter \in 1 .. MaxLetters : IoCreateFile(t, letter)
    \/ \E len \in Lengths, given \in {None, 0} : IoReadWriteFile(t, len, given)
    \/ IoCloseFile(t) \/ IoQueryInformationFile(t) \/ IoQueryDirectoryFile(t)

Progress(t) ==
    \/ AcquireDevice(t)
    \/ IoCompleteIrp(t) \/ RefuseIrp(t) \/ ForwardIrp(t) \/ IoReadWriteDevice(t)
    \/ IoCreateFileDone(t) \/ IoReadWriteFileDone(t) \/ IoCloseFileDone(t) \/ IoQueryFileDone(t)

Next == LateInit \/ \E t \in Threads : Request(t) \/ Progress(t)

Spec == Init /\ [][Next]_vars

\* A thread in the kernel keeps running, and the device mutexes are handed over
\* in order of arrival, so that a waiter is not overtaken for ever.
Fairness == \A t \in Threads : WF_vars(Progress(t)) /\ SF_vars(AcquireDevice(t))

FairSpec == Spec /\ Fairness

-----------------------------------------------------------------------------
(* Properties.                                                             *)

IoTypeOK ==
    /\ DOMAIN devs \subseteq DeviceNames
    /\ \A d \in DOMAIN devs : devs[d].below \in DOMAIN devs \cup {None}
    /\ \A t \in Threads : \A i \in DOMAIN irps[t] :
         /\ irps[t][i].cur \in 0 .. irps[t][i].size
         /\ DOMAIN irps[t][i].locs = 0 .. irps[t][i].size - 1
    /\ \A t \in Threads : \A c \in DOMAIN calls[t] :
         calls[t][c].dev \in DOMAIN devs /\ calls[t][c].irp \in DOMAIN irps[t]
    /\ lock \in [DeviceNames -> Threads \cup {None}]
    /\ files \in [Threads -> [vpb : 0 .. Len(vpbs), async : BOOLEAN, off : 0 .. MaxOffset,
                           state : {"none", "creating", "open"}]]
    /\ \A t \in Threads : files[t].async => files[t].off = 0

\* An IRP has a stack location for every device it can be passed to, however the
\* devices were stacked (IoAttachDevice), and is completed once: the assertions of
\* IoCallDriver, IoCopyCurrentStackLocationToNext and IoCompleteIrp hold.  There
\* are letters for all volumes of the instance.
StackFits == panic = "none"

\* The stack location a dispatch function looks at is one its caller has filled in
\* with this very request, never an empty one or that of another request.
RequestReachesDriver ==
    \A t \in Threads : \A c \in DOMAIN calls[t] :
        LET irp == irps[t][calls[t][c].irp]
        IN  calls[t][c].at = "run" =>
               /\ irp.locs[irp.cur].major # None
               /\ calls[t][c].irp = 1 => irp.locs[irp.cur] = op[t]

\* No request reaches a device whose driver object IoCreateDriver has freed.
CallsReachLiveDriver ==
    \A t \in Threads : \A c \in DOMAIN calls[t] : DriverOf(calls[t][c].dev) \in Range(drivers)

\* Every IRP and file object on the heap belongs to a call in progress or to an
\* open file, and every open file has its object; a failing create, a failed
\* request and a nested one leave nothing behind.
HeapOwned ==
    {h \in heap : h[1] # "swap"} =
        (UNION {{<<"irp", t, i>> : i \in DOMAIN irps[t]} : t \in Threads})
        \cup {<<"file", t>> : t \in {u \in Threads : files[u].state # "none"}}

\* When no request on it is under way, a synchronous file's offset is what the
\* drivers have moved, failed and short transfers included; an asynchronous
\* file's does not move.
OffsetExact == \A t \in Threads : op[t] = NoOp => files[t].off = moved[t]

\* A thread that waits for a DeviceLock holds only locks of devices above it.
LockOrder ==
    \A t \in Threads : calls[t] # << >> /\ LastCall(t).at = "lock" =>
        \A d \in DeviceNames : lock[d] = t => d \in DOMAIN devs /\ devs[d].stack > devs[LastCall(t).dev].stack

\* A letter names one volume, and a mounted volume has a file system on top of it.
VolumesConsistent ==
    \A i \in DOMAIN vpbs :
        /\ IomuSearchForVpb(vpbs[i].letter) = i
        /\ vpbs[i].mounted => devs[vpbs[i].fs].below = Vol(vpbs[i].vol)

\* A file operation returns to its caller: no lock is left behind, no chain of
\* devices waits for itself.
CallsReturn == \A t \in Threads : (op[t] # NoOp) ~> (op[t] = NoOp \/ panic # "none")

(* A request that goes down a stack of devices finds a location for each   *)
(* of them, arrives as it was sent, at drivers that are installed, on the  *)
(* volume its letter names, and takes locks from the top down.             *)
RequestsSound ==
    /\ IoTypeOK
    /\ StackFits
    /\ RequestReachesDriver
    /\ CallsReachLiveDriver
    /\ LockOrder
    /\ VolumesConsistent

(* File objects and IRPs are freed on every path, exactly once, and the    *)
(* offset of a file is what was transferred.                               *)
FilesSound ==
    /\ HeapOwned
    /\ OffsetExact
=============================================================================
