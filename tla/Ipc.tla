--------------------------------- MODULE Ipc ---------------------------------
(***************************************************************************)
(* Inter-processor calls of HAL9000: SmpSendGenericIpiEx and the IPI       *)
(* handler (src/HAL9000/src/smp.c) with the IPC event they share           *)
(* (src/HAL9000/src/ipc.c).                                                *)
(*                                                                         *)
(* A sender is a thread; the scheduler may move it to another CPU between  *)
(* any two of its steps.  One step is one critical section of an           *)
(* EventListLock or one access to a shared field.  The local APIC keeps    *)
(* one pending bit per vector: IPIs sent while it is set are merged.  A    *)
(* failed ASSERT halts all CPUs: panic.                                    *)
(***************************************************************************)
EXTENDS Integers, Sequences, FiniteSets, Functions

CONSTANTS Cpus,     \* the processors
          Senders,  \* threads that call SmpSendGenericIpiEx
          Events,   \* IPC_EVENT structures the heap has room for
          Modes,    \* the SMP_IPI_SEND_MODEs in use
          Waits,    \* the values of WaitForHandling in use
          None

AllModes == {"Cpus", "AllIncludingSelf", "AllExcludingSelf", "Self"}

ASSUME IpcAssumption ==
    /\ IsFiniteSet(Cpus)
    /\ Cpus # {}
    /\ Modes \subseteq AllModes
    /\ Waits \subseteq BOOLEAN
    /\ None \notin Events

VARIABLES
    cpuOf,       \* the CPU each sender is executing on
    spc,         \* control point of each sender
    mode,        \* its SendMode and, for "Cpus", its Destination
    event,       \* the event of its call in progress
    wait,        \* its WaitForHandling
    toInsert,    \* its pMatchingCpus not yet handled by the insertion loop
    live,        \* allocated events
    refCnt,      \* IPC_EVENT.RefCnt
    signal,      \* IPC_EVENT.SignalTermination
    terminated,  \* IPC_EVENT.TerminationEvent is signaled
    unexecuted,  \* the CPUs an event was made for that have not executed it
    eventList,   \* PCPU.EventList
    irr,         \* an IPC IPI is pending in the local APIC
    handling,    \* the event _SmpIpcIpiIsr is processing
    hpc,         \* control point of _SmpIpcIpiIsr
    panic,       \* an ASSERT has failed
    mishaps      \* history: what has happened to IPIs so far

sendVars  == <<cpuOf, spc, mode, event, wait, toInsert>>
eventVars == <<live, refCnt, signal, terminated, unexecuted>>
cpuVars   == <<eventList, irr, handling, hpc>>
vars == <<sendVars, eventVars, cpuVars, panic, mishaps>>

SenderLocations ==
    {"idle",    \* no call in progress
     "insert",  \* SmpSendGenericIpiEx, inserting the event in the lists
     "send",    \* SmpSendGenericIpiEx, before _SmpSendIpcIpi
     "wait"}    \* IpcWaitForEventHandling

(* What the properties tell apart: an IPI to "self" or "others" was sent   *)
(* from another CPU than the one its destinations were computed on, or an  *)
(* IPI was sent to a CPU that still had one pending.                       *)
Mishaps == {"strayed", "merged"}

HandlerLocations ==
    {"none",    \* not in the handler
     "run",     \* IpcProcessEvent, before Function
     "deref",   \* IpcProcessEvent, before RfcDereference
     "signal"}  \* IpcProcessEvent, before EvtSignal

Init ==
    /\ cpuOf \in [Senders -> Cpus]
    /\ spc = [s \in Senders |-> "idle"]
    /\ mode = [s \in Senders |-> [type |-> "Self", cpus |-> {}]]
    /\ event = [s \in Senders |-> None]
    /\ wait = [s \in Senders |-> FALSE]
    /\ toInsert = [s \in Senders |-> {}]
    /\ live = {}
    /\ refCnt = [e \in Events |-> 0]
    /\ signal = [e \in Events |-> FALSE]
    /\ terminated = [e \in Events |-> FALSE]
    /\ unexecuted = [e \in Events |-> {}]
    /\ eventList = [c \in Cpus |-> <<>>]
    /\ irr = [c \in Cpus |-> FALSE]
    /\ handling = [c \in Cpus |-> None]
    /\ hpc = [c \in Cpus |-> "none"]
    /\ panic = FALSE
    /\ mishaps = {}

-----------------------------------------------------------------------------
(* A thread does not run while its CPU is in the interrupt handler.        *)
SenderAt(s, l) == ~panic /\ spc[s] = l /\ hpc[cpuOf[s]] = "none"

(* _SmpDoesCpuMatchDestination, on CPU self; the shorthands of the APIC    *)
(* mean the same when the IPI is sent.                                     *)
SmpDoesCpuMatchDestination(m, self, c) ==
    CASE m.type = "AllExcludingSelf" -> c # self
      [] m.type = "AllIncludingSelf" -> TRUE
      [] m.type = "Self"             -> c = self
      [] m.type = "Cpus"             -> c \in m.cpus

SmpRetrieveMatchingCpus(m, self) == {c \in Cpus : SmpDoesCpuMatchDestination(m, self, c)}

(* Mutant: the event is freed one reference too early.                     *)
DereferenceEarly(e) ==
    /\ refCnt' = [refCnt EXCEPT ![e] = @ - 1]
    /\ live' = IF refCnt[e] <= 2 THEN live \ {e} ELSE live

(* RfcDereference, with _IpcFreeEvent when the count reaches zero.         *)
Dereference(e) ==
    /\ refCnt' = [refCnt EXCEPT ![e] = @ - 1]
    /\ live' = IF refCnt[e] = 1 THEN live \ {e} ELSE live

(* The scheduler moves a sender to another CPU.                            *)
Migrate(s, c) ==
    /\ SenderAt(s, spc[s])
    /\ hpc[c] = "none"
    /\ cpuOf' = [cpuOf EXCEPT ![s] = c]
    /\ mishaps' = IF /\ c # cpuOf[s]
                     /\ spc[s] \in {"insert", "send"}
                     /\ mode[s].type \in {"AllExcludingSelf", "Self"}
                  THEN mishaps \cup {"strayed"} ELSE mishaps
    /\ UNCHANGED <<spc, mode, event, wait, toInsert, eventVars, cpuVars, panic>>

(* Mutant: the sender gets a reference even if it does not wait.           *)
IpcGenerateEventExtraRef(e, w, cpus) ==
    /\ e \notin live
    /\ live' = live \cup {e}
    /\ refCnt' = [refCnt EXCEPT ![e] = Cardinality(cpus) + 1]
    /\ signal' = [signal EXCEPT ![e] = w]
    /\ terminated' = [terminated EXCEPT ![e] = FALSE]
    /\ unexecuted' = [unexecuted EXCEPT ![e] = cpus]

(* IpcGenerateEvent: one reference per destination CPU and one for the     *)
(* sender if it waits.                                                     *)
IpcGenerateEvent(e, w, cpus) ==
    /\ e \notin live
    /\ live' = live \cup {e}
    /\ refCnt' = [refCnt EXCEPT ![e] = Cardinality(cpus) + (IF w THEN 1 ELSE 0)]
    /\ signal' = [signal EXCEPT ![e] = w]
    /\ terminated' = [terminated EXCEPT ![e] = FALSE]
    /\ unexecuted' = [unexecuted EXCEPT ![e] = cpus]

(* SmpSendGenericIpiEx up to the insertion loop.  Nothing happens if no    *)
(* CPU matches or the heap is exhausted.                                   *)
SmpSendGenericIpiEx(s, m, w, e) ==
    LET cpus == SmpRetrieveMatchingCpus(m, cpuOf[s])
    IN  /\ SenderAt(s, "idle")
        /\ cpus # {}
        /\ IpcGenerateEvent(e, w, cpus)
        /\ spc' = [spc EXCEPT ![s] = "insert"]
        /\ mode' = [mode EXCEPT ![s] = m]
        /\ event' = [event EXCEPT ![s] = e]
        /\ wait' = [wait EXCEPT ![s] = w]
        /\ toInsert' = [toInsert EXCEPT ![s] = cpus]
        /\ UNCHANGED <<cpuOf, cpuVars, panic, mishaps>>

(* One turn of the insertion loop; the order of the CPUs is left open.     *)
InsertEvent(s, c) ==
    /\ SenderAt(s, "insert")
    /\ c \in toInsert[s]
    /\ eventList' = [eventList EXCEPT ![c] = Append(@, event[s])]
    /\ toInsert' = [toInsert EXCEPT ![s] = @ \ {c}]
    /\ spc' = IF toInsert[s] = {c} THEN [spc EXCEPT ![s] = "send"] ELSE spc
    /\ UNCHANGED <<cpuOf, mode, event, wait, eventVars, irr, handling, hpc, panic, mishaps>>

(* _SmpSendIpcIpi; a call that does not wait returns.                      *)
SmpSendIpcIpi(s) ==
    LET cpus == SmpRetrieveMatchingCpus(mode[s], cpuOf[s])
    IN  /\ SenderAt(s, "send")
        /\ irr' = [c \in Cpus |-> irr[c] \/ c \in cpus]
        /\ mishaps' = IF \E c \in cpus : irr[c]
                      THEN mishaps \cup {"merged"} ELSE mishaps
        /\ spc' = [spc EXCEPT ![s] = IF wait[s] THEN "wait" ELSE "idle"]
        /\ UNCHANGED <<cpuOf, mode, event, wait, toInsert, eventVars, eventList,
                       handling, hpc, panic>>

(* IpcWaitForEventHandling returns once TerminationEvent is signaled; it   *)
(* clears it, a synchronization event, and drops the sender's reference.   *)
IpcWaitForEventHandling(s) ==
    LET e == event[s]
    IN  /\ SenderAt(s, "wait")
        /\ terminated[e]
        /\ terminated' = [terminated EXCEPT ![e] = FALSE]
        /\ Dereference(e)
        /\ spc' = [spc EXCEPT ![s] = "idle"]
        /\ UNCHANGED <<cpuOf, mode, event, wait, toInsert, signal, unexecuted,
                       cpuVars, panic, mishaps>>

(* _SmpIpcIpiIsr takes one event off the list of its CPU.                  *)
SmpIpcIpiIsr(c) ==
    /\ ~panic
    /\ hpc[c] = "none"
    /\ irr[c]
    /\ irr' = [irr EXCEPT ![c] = FALSE]
    /\ \/ /\ eventList[c] = <<>>
          /\ panic' = TRUE
          /\ UNCHANGED <<eventList, handling, hpc>>
       \/ /\ eventList[c] # <<>>
          /\ handling' = [handling EXCEPT ![c] = Head(eventList[c])]
          /\ eventList' = [eventList EXCEPT ![c] = Tail(@)]
          /\ hpc' = [hpc EXCEPT ![c] = "run"]
          /\ UNCHANGED panic
    /\ UNCHANGED <<sendVars, eventVars, mishaps>>

(* IpcProcessEvent: Function, then the read of SignalTermination.          *)
IpcProcessEvent(c) ==
    /\ ~panic
    /\ hpc[c] = "run"
    /\ unexecuted' = [unexecuted EXCEPT ![handling[c]] = @ \ {c}]
    /\ hpc' = [hpc EXCEPT ![c] = "deref"]
    /\ UNCHANGED <<sendVars, live, refCnt, signal, terminated, eventList, irr,
                   handling, panic, mishaps>>

(* Mutant: every CPU signals the sender, not the last one only.            *)
IpcDereferenceSignalAlways(c) ==
    LET e == handling[c]
    IN  /\ ~panic
        /\ hpc[c] = "deref"
        /\ Dereference(e)
        /\ \/ /\ signal[e]
              /\ hpc' = [hpc EXCEPT ![c] = "signal"]
              /\ UNCHANGED handling
           \/ /\ ~(signal[e])
              /\ hpc' = [hpc EXCEPT ![c] = "none"]
              /\ handling' = [handling EXCEPT ![c] = None]
        /\ UNCHANGED <<sendVars, signal, terminated, unexecuted, eventList, irr,
                       panic, mishaps>>

(* Mutant: the sender's own reference is forgotten in the test.            *)
IpcDereferenceOff(c) ==
    LET e == handling[c]
    IN  /\ ~panic
        /\ hpc[c] = "deref"
        /\ Dereference(e)
        /\ \/ /\ signal[e] /\ refCnt[e] = 1
              /\ hpc' = [hpc EXCEPT ![c] = "signal"]
              /\ UNCHANGED handling
           \/ /\ ~(signal[e] /\ refCnt[e] = 1)
              /\ hpc' = [hpc EXCEPT ![c] = "none"]
              /\ handling' = [handling EXCEPT ![c] = None]
        /\ UNCHANGED <<sendVars, signal, terminated, unexecuted, eventList, irr,
                       panic, mishaps>>

(* IpcProcessEvent: RfcDereference and the test of the new count.          *)
IpcDereference(c) ==
    LET e == handling[c]
    IN  /\ ~panic
        /\ hpc[c] = "deref"
        /\ Dereference(e)
        /\ \/ /\ signal[e] /\ refCnt[e] = 2
              /\ hpc' = [hpc EXCEPT ![c] = "signal"]
              /\ UNCHANGED handling
           \/ /\ ~(signal[e] /\ refCnt[e] = 2)
              /\ hpc' = [hpc EXCEPT ![c] = "none"]
              /\ handling' = [handling EXCEPT ![c] = None]
        /\ UNCHANGED <<sendVars, signal, terminated, unexecuted, eventList, irr,
                       panic, mishaps>>

(* IpcProcessEvent: EvtSignal by the last CPU.                             *)
IpcSignal(c) ==
    /\ ~panic
    /\ hpc[c] = "signal"
    /\ terminated' = [terminated EXCEPT ![handling[c]] = TRUE]
    /\ hpc' = [hpc EXCEPT ![c] = "none"]
    /\ handling' = [handling EXCEPT ![c] = None]
    /\ UNCHANGED <<sendVars, live, refCnt, signal, unexecuted, eventList, irr, panic, mishaps>>

-----------------------------------------------------------------------------
SendModes == {[type |-> y, cpus |-> {}] : y \in Modes \ {"Cpus"}}
             \cup {[type |-> y, cpus |-> d] : y \in Modes \cap {"Cpus"},
                                              d \in SUBSET Cpus}

SenderStep(s) ==
    \/ \E m \in SendModes, w \in Waits, e \in Events : SmpSendGenericIpiEx(s, m, w, e)
    \/ \E c \in Cpus : InsertEvent(s, c)
    \/ SmpSendIpcIpi(s)
    \/ IpcWaitForEventHandling(s)

HandlerStep(c) ==
    \/ SmpIpcIpiIsr(c)
    \/ IpcProcessEvent(c)
    \/ IpcDereference(c)
    \/ IpcSignal(c)

Next == \/ \E s \in Senders : SenderStep(s) \/ \E c \in Cpus : Migrate(s, c)
        \/ \E c \in Cpus : HandlerStep(c)

Spec == Init /\ [][Next]_vars

(* A call in progress goes on, and a CPU takes a pending interrupt and     *)
(* finishes its handler.                                                   *)
FairSpec ==
    /\ Spec
    /\ \A s \in Senders : SF_vars(spc[s] # "idle" /\ SenderStep(s))
    /\ \A c \in Cpus : WF_vars(HandlerStep(c))
-----------------------------------------------------------------------------
(* Every variable stays in its type, and a handler in progress has an      *)
(* event.                                                                  *)
TypeOK ==
    /\ cpuOf \in [Senders -> Cpus]
    /\ spc \in [Senders -> SenderLocations]
    /\ mode \in [Senders -> [type : AllModes, cpus : SUBSET Cpus]]
    /\ event \in [Senders -> Events \cup {None}]
    /\ wait \in [Senders -> BOOLEAN]
    /\ toInsert \in [Senders -> SUBSET Cpus]
    /\ live \in SUBSET Events
    /\ refCnt \in [Events -> Nat]
    /\ signal \in [Events -> BOOLEAN]
    /\ terminated \in [Events -> BOOLEAN]
    /\ unexecuted \in [Events -> SUBSET Cpus]
    /\ eventList \in [Cpus -> Seq(Events)]
    /\ irr \in [Cpus -> BOOLEAN]
    /\ handling \in [Cpus -> Events \cup {None}]
    /\ hpc \in [Cpus -> HandlerLocations]
    /\ panic \in BOOLEAN
    /\ mishaps \in SUBSET Mishaps
    /\ \A c \in Cpus : hpc[c] = "none" <=> handling[c] = None

(* The CPUs that still have to drop their reference to e.                  *)
Owing(e) ==
    {c \in Cpus : \/ e \in Range(eventList[c])
                  \/ handling[c] = e /\ hpc[c] \in {"run", "deref"}
                  \/ \E s \in Senders : event[s] = e /\ c \in toInsert[s]}

(* The sender that still has to drop its reference to e, if there is one.  *)
Awaiting(e) ==
    {s \in Senders : event[s] = e /\ wait[s] /\ spc[s] # "idle"}

(* An event that some list, handler or waiting sender still refers to has  *)
(* not been freed: the reference counts of IpcGenerateEvent are enough     *)
(* for everybody, and the EvtSignal after RfcDereference is safe.          *)
NoUseAfterFree ==
    /\ \A c \in Cpus : /\ Range(eventList[c]) \subseteq live
                       /\ hpc[c] # "none" => handling[c] \in live
    /\ \A s \in Senders : (spc[s] = "insert" \/ (spc[s] # "idle" /\ wait[s])) =>
                              event[s] \in live

(* No event leaks: an allocated event has somebody left who will drop a    *)
(* reference, and its count is the number of those.                        *)
RefCountExact ==
    \A e \in live : /\ refCnt[e] > 0
                    /\ refCnt[e] = Cardinality(Owing(e)) + Cardinality(Awaiting(e))

(* "If TRUE waits until each CPU executes the BroadcastFunction" (smp.h):  *)
(* a call that waits returns only when all its CPUs have executed it.      *)
WaitedMeansDone ==
    [][\A s \in Senders : (spc[s] = "wait" /\ spc'[s] = "idle") =>
                              unexecuted[event[s]] = {}]_vars

(* The handler always finds an event, ASSERT(NULL != pListEntry), as long  *)
(* as no sender has moved to another CPU with an IPI to "self" or "others" *)
(* half sent: every IPI then comes after the event it is for, and events   *)
(* taken by the IPI of another sender leave one behind.                    *)
NoSpuriousIpi == panic => "strayed" \in mishaps

(* "If TRUE waits until each CPU executes the BroadcastFunction" (smp.h):  *)
(* a call that waits returns, as long as no IPI strayed or was merged.     *)
WaitReturns ==
    \A s \in Senders : spc[s] = "wait" ~> (spc[s] = "idle" \/ mishaps # {})

(* What smp.h says of WaitForHandling: the call waits until each CPU has   *)
(* executed the function, which each CPU does.  Does not hold: an event    *)
(* whose IPI was merged stays queued.                                      *)
CallReturns == \A s \in Senders : spc[s] = "wait" ~> spc[s] = "idle"

(* Calls and interrupts match as long as no IPI strayed or was merged:     *)
(* every interrupt finds an event, every call that waits returns.          *)
CallsServed ==
    /\ []NoSpuriousIpi
    /\ WaitReturns
=============================================================================
