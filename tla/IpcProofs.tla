------------------------------ MODULE IpcProofs ------------------------------
(***************************************************************************)
(* Proofs about Ipc, for any finite set of CPUs and any senders, events    *)
(* and modes: reference counts are exact, no freed event is used, and a    *)
(* call that waits returns only when all its CPUs have executed it.        *)
(***************************************************************************)
EXTENDS Ipc, FiniteSetTheorems, TLAPS

(* The calls that still use their event.                                   *)
Using(s) == spc[s] = "insert" \/ (spc[s] # "idle" /\ wait[s])

(* A sender has CPUs left to insert for exactly while it is inserting, a   *)
(* call in use has an allocated event of its own, and that event is to be  *)
(* signaled if and only if the call waits.                                 *)
SenderInv ==
    /\ \A s \in Senders :
          /\ spc[s] = "insert" <=> toInsert[s] # {}
          /\ spc[s] = "wait" => wait[s]
          /\ Using(s) => event[s] \in live /\ signal[event[s]] = wait[s]
    /\ \A s, t \in Senders : Using(s) /\ Using(t) /\ event[s] = event[t] => s = t

(* A CPU has an event at most once: in its list, in its handler or still   *)
(* to be inserted.                                                         *)
OnceInv ==
    \A c \in Cpus :
        /\ IsInjective(eventList[c])
        /\ Range(eventList[c]) \subseteq live
        /\ hpc[c] # "none" => /\ handling[c] \in live
                              /\ handling[c] \notin Range(eventList[c])
        /\ \A s \in Senders : c \in toInsert[s] =>
              /\ event[s] \notin Range(eventList[c])
              /\ event[s] # handling[c]

(* The reference count of an allocated event, who keeps it allocated, and  *)
(* who is still to execute it.                                             *)
CountInv ==
    \A e \in live :
        /\ refCnt[e] = Cardinality(Owing(e)) + (IF signal[e] THEN 1 ELSE 0)
        /\ signal[e] => \E s \in Senders : Using(s) /\ event[s] = e
        /\ ~signal[e] => Owing(e) # {}
        /\ unexecuted[e] \subseteq Owing(e)
        /\ terminated[e] => Owing(e) = {}

(* The CPU that signals the sender is the last one, and the only one.      *)
SignalInv ==
    \A c \in Cpus, e \in Events : hpc[c] = "signal" /\ handling[c] = e =>
        /\ Owing(e) = {}
        /\ signal[e]
        /\ ~terminated[e]
        /\ \A d \in Cpus : hpc[d] = "signal" /\ handling[d] = e => d = c

(* A CPU that has executed its event and not yet dropped its reference.    *)
ExecutedInv ==
    \A c \in Cpus : hpc[c] = "deref" => c \notin unexecuted[handling[c]]

(* The inductive invariant.                                                *)
IpcInv == /\ TypeOK
          /\ SenderInv
          /\ OnceInv
          /\ CountInv
          /\ SignalInv
          /\ ExecutedInv

-----------------------------------------------------------------------------
(* InsertTailList of an event that the list does not hold.                 *)
LEMMA AppendFacts ==
    ASSUME NEW S, NEW q \in Seq(S), NEW e \in S
    PROVE  /\ Append(q, e) \in Seq(S)
           /\ Range(Append(q, e)) = Range(q) \cup {e}
           /\ IsInjective(q) /\ e \notin Range(q) => IsInjective(Append(q, e))
<1>1. /\ Append(q, e) \in Seq(S)
      /\ DOMAIN q = 1 .. Len(q) /\ DOMAIN Append(q, e) = 1 .. Len(q) + 1
      /\ \A i \in 1 .. Len(q) : Append(q, e)[i] = q[i]
      /\ Append(q, e)[Len(q) + 1] = e
      /\ Len(q) \in Nat
  OBVIOUS
<1>2. Range(Append(q, e)) = Range(q) \cup {e}
  BY <1>1 DEF Range
<1>3. ASSUME IsInjective(q), e \notin Range(q) PROVE IsInjective(Append(q, e))
  BY <1>1, <1>3 DEF Range, IsInjective
<1> QED BY <1>1, <1>2, <1>3

(* RemoveHeadList from a list of distinct events.                          *)
LEMMA TailFacts ==
    ASSUME NEW S, NEW q \in Seq(S), q # <<>>, IsInjective(q)
    PROVE  /\ Head(q) \in S
           /\ Tail(q) \in Seq(S)
           /\ IsInjective(Tail(q))
           /\ Head(q) \notin Range(Tail(q))
           /\ Range(q) = Range(Tail(q)) \cup {Head(q)}
<1>1. /\ Head(q) \in S /\ Tail(q) \in Seq(S)
      /\ Len(q) \in Nat \ {0}
      /\ DOMAIN q = 1 .. Len(q) /\ DOMAIN Tail(q) = 1 .. Len(q) - 1
      /\ \A i \in 1 .. Len(q) - 1 : Tail(q)[i] = q[i + 1]
      /\ Head(q) = q[1]
  OBVIOUS
<1>2. IsInjective(Tail(q)) /\ Head(q) \notin Range(Tail(q))
  BY <1>1 DEF IsInjective, Range
<1>3. Range(q) \subseteq Range(Tail(q)) \cup {Head(q)}
  <2> SUFFICES ASSUME NEW i \in 1 .. Len(q), i # 1 PROVE q[i] \in Range(Tail(q))
    BY <1>1 DEF Range
  <2>1. i - 1 \in 1 .. Len(q) - 1 /\ Tail(q)[i - 1] = q[i]
    BY <1>1
  <2> QED BY <1>1, <2>1 DEF Range
<1>4. Range(Tail(q)) \cup {Head(q)} \subseteq Range(q)
  BY <1>1 DEF Range
<1> QED BY <1>1, <1>2, <1>3, <1>4

(* Only CPUs owe a reference: there are finitely many of them, and none is *)
(* left exactly when their number is zero.                                 *)
LEMMA OwingFacts ==
    ASSUME NEW e
    PROVE  /\ Owing(e) \subseteq Cpus
           /\ IsFiniteSet(Owing(e))
           /\ Cardinality(Owing(e)) \in Nat
           /\ Cardinality(Owing(e)) = 0 <=> Owing(e) = {}
<1>1. Owing(e) \subseteq Cpus
  BY DEF Owing
<1>2. IsFiniteSet(Owing(e))
  BY <1>1, FS_Subset, IpcAssumption
<1> QED BY <1>1, <1>2, FS_CardinalityType, FS_EmptySet

(* No call has been made.                                                  *)
LEMMA InitInv == Init => IpcInv
<1> SUFFICES ASSUME Init PROVE IpcInv
  OBVIOUS
<1> USE IpcAssumption
<1>1. TypeOK
  <2>1. panic \in BOOLEAN
    BY DEF Init
  <2>2. /\ wait \in [Senders -> BOOLEAN]
        /\ signal \in [Events -> BOOLEAN]
        /\ terminated \in [Events -> BOOLEAN]
        /\ irr \in [Cpus -> BOOLEAN]
    BY DEF Init
  <2>3. /\ cpuOf \in [Senders -> Cpus]
        /\ spc \in [Senders -> SenderLocations]
        /\ event \in [Senders -> Events \cup {None}]
        /\ toInsert \in [Senders -> SUBSET Cpus]
        /\ live \in SUBSET Events
        /\ refCnt \in [Events -> Nat]
        /\ unexecuted \in [Events -> SUBSET Cpus]
        /\ eventList \in [Cpus -> Seq(Events)]
        /\ handling \in [Cpus -> Events \cup {None}]
        /\ hpc \in [Cpus -> HandlerLocations]
        /\ \A c \in Cpus : hpc[c] = "none" <=> handling[c] = None
    BY DEF Init, SenderLocations, HandlerLocations
  <2>4. mode \in [Senders -> [type : AllModes, cpus : SUBSET Cpus]]
    BY DEF Init, AllModes
  <2>5. mishaps \in SUBSET Mishaps
    BY DEF Init
  <2> QED BY <2>1, <2>2, <2>3, <2>4, <2>5 DEF TypeOK
<1>2. SenderInv
  BY DEF Init, SenderInv, Using
<1>3. Range(<<>>) = {} /\ IsInjective(<<>>)
  BY DEF Range, IsInjective
<1>4. OnceInv
  BY <1>3 DEF Init, OnceInv
<1>5. CountInv /\ SignalInv /\ ExecutedInv
  BY DEF Init, CountInv, SignalInv, ExecutedInv
<1> QED BY <1>1, <1>2, <1>4, <1>5 DEF IpcInv

(* Nothing of the call depends on the CPU the sender executes on.          *)
LEMMA MigrateInv ==
    ASSUME IpcInv, NEW s \in Senders, NEW c \in Cpus, Migrate(s, c)
    PROVE  IpcInv'
<1>1. /\ cpuOf' = [cpuOf EXCEPT ![s] = c]
      /\ UNCHANGED <<spc, mode, event, wait, toInsert, live, refCnt, signal,
                     terminated, unexecuted, eventList, irr, handling, hpc, panic>>
      /\ mishaps' \in {mishaps, mishaps \cup {"strayed"}}
  BY DEF Migrate, eventVars, cpuVars
<1>2. \A e \in Events : Owing(e)' = Owing(e)
  BY <1>1 DEF Owing
<1>3. TypeOK'
  <2>1. mishaps' \in SUBSET Mishaps
    BY <1>1 DEF IpcInv, TypeOK, Mishaps
  <2> QED BY <1>1, <2>1 DEF IpcInv, TypeOK
<1>4. SenderInv'
  BY <1>1 DEF IpcInv, SenderInv, Using
<1>5. OnceInv'
  BY <1>1 DEF IpcInv, OnceInv
<1>6. CountInv'
  BY <1>1, <1>2 DEF IpcInv, TypeOK, CountInv, Using
<1>7. SignalInv'
  BY <1>1, <1>2 DEF IpcInv, SignalInv
<1>8. ExecutedInv'
  BY <1>1 DEF IpcInv, ExecutedInv
<1> QED BY <1>3, <1>4, <1>5, <1>6, <1>7, <1>8 DEF IpcInv

(* The new event was allocated for no one else, and its count is the       *)
(* number of CPUs it is to be inserted for, and of waiting senders.        *)
LEMMA SmpSendGenericIpiExInv ==
    ASSUME IpcInv, NEW s \in Senders, NEW m \in SendModes, NEW w \in Waits,
           NEW e \in Events, SmpSendGenericIpiEx(s, m, w, e)
    PROVE  IpcInv'
<1> USE IpcAssumption
<1> DEFINE cpus == SmpRetrieveMatchingCpus(m, cpuOf[s])
<1>1. /\ w \in BOOLEAN
      /\ m \in [type : AllModes, cpus : SUBSET Cpus]
      /\ cpus \subseteq Cpus
      /\ cpus # {}
      /\ spc[s] = "idle"
      /\ e \notin live
      /\ toInsert[s] = {}
  <2>1. m \in [type : AllModes, cpus : SUBSET Cpus]
    BY DEF SendModes, AllModes
  <2>2. cpus \subseteq Cpus
    BY DEF SmpRetrieveMatchingCpus
  <2>3. spc[s] = "idle" /\ cpus # {} /\ e \notin live
    BY DEF SmpSendGenericIpiEx, SenderAt, IpcGenerateEvent
  <2> QED BY <2>1, <2>2, <2>3 DEF IpcInv, SenderInv
<1>2. /\ spc' = [spc EXCEPT ![s] = "insert"]
      /\ mode' = [mode EXCEPT ![s] = m]
      /\ event' = [event EXCEPT ![s] = e]
      /\ wait' = [wait EXCEPT ![s] = w]
      /\ toInsert' = [toInsert EXCEPT ![s] = cpus]
      /\ live' = live \cup {e}
      /\ refCnt' = [refCnt EXCEPT ![e] = Cardinality(cpus) + (IF w THEN 1 ELSE 0)]
      /\ signal' = [signal EXCEPT ![e] = w]
      /\ terminated' = [terminated EXCEPT ![e] = FALSE]
      /\ unexecuted' = [unexecuted EXCEPT ![e] = cpus]
      /\ UNCHANGED <<cpuOf, eventList, irr, handling, hpc, panic, mishaps>>
  BY DEF SmpSendGenericIpiEx, IpcGenerateEvent, cpuVars
<1> HIDE DEF cpus
<1>3. IsFiniteSet(cpus) /\ Cardinality(cpus) \in Nat
  BY <1>1, FS_Subset, FS_CardinalityType
<1>4. \A c \in Cpus : /\ e \notin Range(eventList[c])
                      /\ e # handling[c]
                      /\ \A t \in Senders : c \in toInsert[t] => event[t] # e
  BY <1>1 DEF IpcInv, TypeOK, OnceInv, SenderInv, Using
<1>5. \A t \in Senders : t # s => (Using(t)' <=> Using(t)) /\ event'[t] = event[t]
                                  /\ wait'[t] = wait[t] /\ toInsert'[t] = toInsert[t]
  BY <1>2 DEF Using, IpcInv, TypeOK
<1>6. ~Using(s) /\ Using(s)' /\ event'[s] = e /\ wait'[s] = w /\ toInsert'[s] = cpus
  BY <1>1, <1>2 DEF Using, IpcInv, TypeOK
<1>7. Owing(e)' = cpus
  BY <1>1, <1>2, <1>4, <1>5, <1>6 DEF Owing
<1>8. \A x \in Events : x # e => Owing(x)' = Owing(x)
  BY <1>1, <1>2, <1>5, <1>6 DEF Owing
<1>11. TypeOK'
  <2>1. /\ signal' \in [Events -> BOOLEAN]
        /\ terminated' \in [Events -> BOOLEAN]
        /\ wait' \in [Senders -> BOOLEAN]
    BY <1>1, <1>2 DEF IpcInv, TypeOK
  <2>2. refCnt' \in [Events -> Nat]
    BY <1>1, <1>2, <1>3 DEF IpcInv, TypeOK
  <2>3. /\ spc' \in [Senders -> SenderLocations]
        /\ mode' \in [Senders -> [type : AllModes, cpus : SUBSET Cpus]]
        /\ event' \in [Senders -> Events \cup {None}]
        /\ toInsert' \in [Senders -> SUBSET Cpus]
        /\ live' \in SUBSET Events
        /\ unexecuted' \in [Events -> SUBSET Cpus]
    BY <1>1, <1>2 DEF IpcInv, TypeOK, SenderLocations
  <2> QED BY <1>2, <2>1, <2>2, <2>3 DEF IpcInv, TypeOK
<1>12. SenderInv'
  <2>1. ASSUME NEW t \in Senders
        PROVE  /\ spc'[t] = "insert" <=> toInsert'[t] # {}
               /\ spc'[t] = "wait" => wait'[t]
               /\ Using(t)' => event'[t] \in live' /\ signal'[event'[t]] = wait'[t]
    <3>1. CASE t = s
      BY <3>1, <1>1, <1>2, <1>6 DEF IpcInv, TypeOK
    <3>2. CASE t # s
      BY <3>2, <1>1, <1>2, <1>5 DEF IpcInv, TypeOK, SenderInv
    <3> QED BY <3>1, <3>2
  <2>2. ASSUME NEW t \in Senders, NEW u \in Senders,
               Using(t)', Using(u)', event'[t] = event'[u]
        PROVE  t = u
    BY <2>2, <1>1, <1>5, <1>6 DEF IpcInv, SenderInv
  <2> QED BY <2>1, <2>2 DEF SenderInv
<1>13. OnceInv'
  <2> SUFFICES ASSUME NEW c \in Cpus
               PROVE  /\ IsInjective(eventList[c])
                      /\ Range(eventList[c]) \subseteq live'
                      /\ hpc[c] # "none" => /\ handling[c] \in live'
                                            /\ handling[c] \notin Range(eventList[c])
                      /\ \A t \in Senders : c \in toInsert'[t] =>
                            /\ event'[t] \notin Range(eventList[c])
                            /\ event'[t] # handling[c]
    BY <1>2 DEF OnceInv
  <2> QED BY <1>2, <1>4, <1>5, <1>6 DEF IpcInv, OnceInv
<1>14. CountInv'
  <2> SUFFICES ASSUME NEW x \in live'
               PROVE  /\ refCnt'[x] = Cardinality(Owing(x)') + (IF signal'[x] THEN 1 ELSE 0)
                      /\ signal'[x] => \E t \in Senders : Using(t)' /\ event'[t] = x
                      /\ ~signal'[x] => Owing(x)' # {}
                      /\ unexecuted'[x] \subseteq Owing(x)'
                      /\ terminated'[x] => Owing(x)' = {}
    BY DEF CountInv
  <2>1. CASE x = e
    BY <2>1, <1>1, <1>2, <1>6, <1>7 DEF IpcInv, TypeOK
  <2>2. CASE x # e
    <3>1. x \in live /\ x \in Events /\ Owing(x)' = Owing(x)
      BY <2>2, <1>2, <1>8 DEF IpcInv, TypeOK
    <3>2. /\ refCnt'[x] = refCnt[x] /\ signal'[x] = signal[x]
          /\ unexecuted'[x] = unexecuted[x] /\ terminated'[x] = terminated[x]
      BY <2>2, <3>1, <1>2 DEF IpcInv, TypeOK
    <3>3. \A t \in Senders : Using(t) /\ event[t] = x => Using(t)' /\ event'[t] = x
      BY <1>5, <1>6
    <3> QED BY <3>1, <3>2, <3>3 DEF IpcInv, CountInv
  <2> QED BY <2>1, <2>2
<1>15. SignalInv'
  <2> SUFFICES ASSUME NEW c \in Cpus, NEW x \in Events, hpc'[c] = "signal", handling'[c] = x
               PROVE  /\ Owing(x)' = {}
                      /\ signal'[x]
                      /\ ~terminated'[x]
                      /\ \A d \in Cpus : hpc'[d] = "signal" /\ handling'[d] = x => d = c
    BY DEF SignalInv
  <2>1. hpc' = hpc /\ handling' = handling /\ x # e
    BY <1>2, <1>4
  <2>2. Owing(x)' = Owing(x) /\ signal'[x] = signal[x] /\ terminated'[x] = terminated[x]
    BY <2>1, <1>2, <1>8 DEF IpcInv, TypeOK
  <2> QED BY <2>1, <2>2 DEF IpcInv, SignalInv
<1>16. ExecutedInv'
  BY <1>2, <1>4 DEF IpcInv, TypeOK, ExecutedInv
<1> QED BY <1>11, <1>12, <1>13, <1>14, <1>15, <1>16 DEF IpcInv

(* An insertion moves what is owed from the sender's loop to a list.       *)
LEMMA InsertEventInv ==
    ASSUME IpcInv, NEW s \in Senders, NEW c \in Cpus, InsertEvent(s, c)
    PROVE  IpcInv'
<1> DEFINE e == event[s]
<1>1. /\ spc[s] = "insert"
      /\ c \in toInsert[s]
      /\ e \in live /\ e \in Events
      /\ signal[e] = wait[s]
      /\ e \notin Range(eventList[c])
      /\ e # handling[c]
  BY DEF InsertEvent, SenderAt, IpcInv, TypeOK, SenderInv, OnceInv, Using
<1>2. /\ eventList' = [eventList EXCEPT ![c] = Append(@, e)]
      /\ toInsert' = [toInsert EXCEPT ![s] = @ \ {c}]
      /\ spc' = IF toInsert[s] = {c} THEN [spc EXCEPT ![s] = "send"] ELSE spc
      /\ UNCHANGED <<cpuOf, mode, event, wait, live, refCnt, signal, terminated,
                     unexecuted, irr, handling, hpc, panic, mishaps>>
  BY DEF InsertEvent, eventVars
<1>3. /\ eventList'[c] \in Seq(Events)
      /\ Range(eventList'[c]) = Range(eventList[c]) \cup {e}
      /\ IsInjective(eventList'[c])
  BY <1>1, <1>2, AppendFacts DEF IpcInv, TypeOK, OnceInv
<1>4. \A d \in Cpus : d # c => eventList'[d] = eventList[d]
  BY <1>2 DEF IpcInv, TypeOK
<1>5. /\ toInsert'[s] = toInsert[s] \ {c}
      /\ \A t \in Senders : t # s => toInsert'[t] = toInsert[t] /\ spc'[t] = spc[t]
      /\ spc'[s] = IF toInsert[s] = {c} THEN "send" ELSE "insert"
  BY <1>1, <1>2 DEF IpcInv, TypeOK
<1>6. \A x \in Events : Owing(x)' = Owing(x)
  <2> SUFFICES ASSUME NEW x \in Events, NEW d \in Cpus
               PROVE  d \in Owing(x)' <=> d \in Owing(x)
    BY DEF Owing
  <2>1. d \in Owing(x) <=> \/ x \in Range(eventList[d])
                           \/ handling[d] = x /\ hpc[d] \in {"run", "deref"}
                           \/ \E t \in Senders : event[t] = x /\ d \in toInsert[t]
    BY DEF Owing
  <2>2. d \in Owing(x)' <=> \/ x \in Range(eventList'[d])
                            \/ handling[d] = x /\ hpc[d] \in {"run", "deref"}
                            \/ \E t \in Senders : event[t] = x /\ d \in toInsert'[t]
    BY <1>2 DEF Owing
  <2>3. CASE d = c
    BY <2>1, <2>2, <2>3, <1>1, <1>3, <1>5
  <2>4. CASE d # c
    BY <2>1, <2>2, <2>4, <1>4, <1>5
  <2> QED BY <2>3, <2>4
<1>7. \A t \in Senders : /\ Using(t)' => Using(t)
                         /\ Using(t) /\ signal[event[t]] => Using(t)'
  <2> SUFFICES ASSUME NEW t \in Senders
               PROVE  /\ Using(t)' => Using(t)
                      /\ Using(t) /\ signal[event[t]] => Using(t)'
    OBVIOUS
  <2>1. CASE t = s
    BY <2>1, <1>1, <1>2, <1>5 DEF Using
  <2>2. CASE t # s
    BY <2>2, <1>2, <1>5 DEF Using
  <2> QED BY <2>1, <2>2
<1>11. TypeOK'
  <2>1. eventList' \in [Cpus -> Seq(Events)]
    BY <1>2, <1>3 DEF IpcInv, TypeOK
  <2>2. toInsert' \in [Senders -> SUBSET Cpus] /\ spc' \in [Senders -> SenderLocations]
    BY <1>2 DEF IpcInv, TypeOK, SenderLocations
  <2> QED BY <1>2, <2>1, <2>2 DEF IpcInv, TypeOK
<1>12. SenderInv'
  <2>1. ASSUME NEW t \in Senders
        PROVE  /\ spc'[t] = "insert" <=> toInsert'[t] # {}
               /\ spc'[t] = "wait" => wait[t]
    <3>1. CASE t = s
      BY <3>1, <1>1, <1>5
    <3>2. CASE t # s
      BY <3>2, <1>5 DEF IpcInv, SenderInv
    <3> QED BY <3>1, <3>2
  <2> QED BY <2>1, <1>2, <1>7 DEF IpcInv, SenderInv
<1>13. OnceInv'
  <2> SUFFICES ASSUME NEW d \in Cpus
               PROVE  /\ IsInjective(eventList'[d])
                      /\ Range(eventList'[d]) \subseteq live
                      /\ hpc[d] # "none" => /\ handling[d] \in live
                                            /\ handling[d] \notin Range(eventList'[d])
                      /\ \A t \in Senders : d \in toInsert'[t] =>
                            /\ event[t] \notin Range(eventList'[d])
                            /\ event[t] # handling[d]
    BY <1>2 DEF OnceInv
  <2>1. \A t \in Senders : d \in toInsert'[t] => d \in toInsert[t]
    BY <1>5
  <2>2. CASE d # c
    BY <2>1, <2>2, <1>4 DEF IpcInv, OnceInv
  <2>3. CASE d = c
    <3>1. \A t \in Senders : c \in toInsert'[t] => t # s /\ c \in toInsert[t] /\ Using(t)
      BY <1>5 DEF IpcInv, SenderInv, Using
    <3>2. \A t \in Senders : c \in toInsert'[t] => event[t] # e
      BY <3>1, <1>1 DEF IpcInv, SenderInv, Using
    <3> QED BY <3>1, <3>2, <2>3, <1>1, <1>3 DEF IpcInv, OnceInv
  <2> QED BY <2>2, <2>3
<1>14. CountInv'
  <2> SUFFICES ASSUME NEW x \in live
               PROVE  /\ refCnt[x] = Cardinality(Owing(x)') + (IF signal[x] THEN 1 ELSE 0)
                      /\ signal[x] => \E t \in Senders : Using(t)' /\ event[t] = x
                      /\ ~signal[x] => Owing(x)' # {}
                      /\ unexecuted[x] \subseteq Owing(x)'
                      /\ terminated[x] => Owing(x)' = {}
    BY <1>2 DEF CountInv
  <2>1. Owing(x)' = Owing(x)
    BY <1>6 DEF IpcInv, TypeOK
  <2> QED BY <2>1, <1>7 DEF IpcInv, CountInv
<1>15. SignalInv'
  BY <1>2, <1>6 DEF IpcInv, SignalInv
<1>16. ExecutedInv'
  BY <1>2 DEF IpcInv, ExecutedInv
<1> QED BY <1>11, <1>12, <1>13, <1>14, <1>15, <1>16 DEF IpcInv

(* Sending the IPI changes nothing an event depends on.                    *)
LEMMA SmpSendIpcIpiInv ==
    ASSUME IpcInv, NEW s \in Senders, SmpSendIpcIpi(s)
    PROVE  IpcInv'
<1>1. spc[s] = "send"
  BY DEF SmpSendIpcIpi, SenderAt
<1>2. /\ irr' \in [Cpus -> BOOLEAN]
      /\ spc' = [spc EXCEPT ![s] = IF wait[s] THEN "wait" ELSE "idle"]
      /\ UNCHANGED <<cpuOf, mode, event, wait, toInsert, live, refCnt, signal,
                     terminated, unexecuted, eventList, handling, hpc, panic>>
      /\ mishaps' \in {mishaps, mishaps \cup {"merged"}}
  BY DEF SmpSendIpcIpi, eventVars, IpcInv, TypeOK
<1>3. \A e \in Events : Owing(e)' = Owing(e)
  BY <1>2 DEF Owing
<1>4. \A t \in Senders : Using(t)' <=> Using(t)
  BY <1>1, <1>2 DEF Using, IpcInv, TypeOK
<1>11. TypeOK'
  <2>1. mishaps' \in SUBSET Mishaps
    BY <1>2 DEF IpcInv, TypeOK, Mishaps
  <2> QED BY <1>2, <2>1 DEF IpcInv, TypeOK, SenderLocations
<1>12. SenderInv'
  <2>1. ASSUME NEW t \in Senders
        PROVE  /\ spc'[t] = "insert" <=> spc[t] = "insert"
               /\ spc'[t] = "wait" => wait[t]
    BY <1>1, <1>2 DEF IpcInv, TypeOK, SenderInv
  <2> QED BY <2>1, <1>2, <1>4 DEF IpcInv, SenderInv
<1>13. OnceInv'
  BY <1>2 DEF IpcInv, OnceInv
<1>14. CountInv'
  BY <1>2, <1>3, <1>4 DEF IpcInv, TypeOK, CountInv
<1>15. SignalInv'
  BY <1>2, <1>3 DEF IpcInv, SignalInv
<1>16. ExecutedInv'
  BY <1>2 DEF IpcInv, ExecutedInv
<1> QED BY <1>11, <1>12, <1>13, <1>14, <1>15, <1>16 DEF IpcInv

(* What a sender that waits for a signaled event knows: its reference is   *)
(* the last one, and no list, handler or other sender refers to the event. *)
LEMMA SignaledFacts ==
    ASSUME IpcInv, NEW s \in Senders, spc[s] = "wait", terminated[event[s]]
    PROVE  /\ event[s] \in live /\ event[s] \in Events
           /\ Using(s)
           /\ Owing(event[s]) = {}
           /\ unexecuted[event[s]] = {}
           /\ refCnt[event[s]] = 1
           /\ \A c \in Cpus : event[s] \notin Range(eventList[c]) /\ event[s] # handling[c]
<1> DEFINE e == event[s]
<1>1. Using(s) /\ e \in live /\ e \in Events /\ signal[e]
  BY DEF IpcInv, TypeOK, SenderInv, Using
<1>2. Owing(e) = {} /\ unexecuted[e] = {} /\ refCnt[e] = 1
  <2>1. /\ terminated[e] => Owing(e) = {}
        /\ unexecuted[e] \subseteq Owing(e)
        /\ refCnt[e] = Cardinality(Owing(e)) + 1
    BY <1>1 DEF IpcInv, CountInv
  <2>2. Owing(e) = {}
    BY <2>1
  <2>3. Cardinality(Owing(e)) = 0
    BY <2>2, FS_EmptySet
  <2> QED BY <2>1, <2>2, <2>3
<1>3. ASSUME NEW c \in Cpus PROVE e \notin Range(eventList[c]) /\ e # handling[c]
  <2>1. e \notin Range(eventList[c])
    BY <1>2 DEF Owing
  <2>2. ASSUME e = handling[c] PROVE FALSE
    <3>1. hpc[c] \notin {"run", "deref"}
      BY <1>2, <2>2 DEF Owing
    <3>2. hpc[c] # "signal"
      BY <1>1, <2>2 DEF IpcInv, SignalInv
    <3>3. hpc[c] # "none"
      BY <1>1, <2>2, IpcAssumption DEF IpcInv, TypeOK
    <3> QED BY <3>1, <3>2, <3>3 DEF IpcInv, TypeOK, HandlerLocations
  <2> QED BY <2>1, <2>2
<1> QED BY <1>1, <1>2, <1>3

(* The sender's reference is the last one: the event is freed, and nobody  *)
(* refers to it any more.                                                  *)
LEMMA IpcWaitForEventHandlingInv ==
    ASSUME IpcInv, NEW s \in Senders, IpcWaitForEventHandling(s)
    PROVE  IpcInv'
<1> DEFINE e == event[s]
<1>1. spc[s] = "wait" /\ terminated[e]
  BY DEF IpcWaitForEventHandling, SenderAt
<1>2. /\ e \in live /\ e \in Events
      /\ Using(s)
      /\ Owing(e) = {}
      /\ refCnt[e] = 1
      /\ \A c \in Cpus : e \notin Range(eventList[c]) /\ e # handling[c]
  BY <1>1, SignaledFacts
<1>3. /\ terminated' = [terminated EXCEPT ![e] = FALSE]
      /\ refCnt' = [refCnt EXCEPT ![e] = 0]
      /\ live' = live \ {e}
      /\ spc' = [spc EXCEPT ![s] = "idle"]
      /\ UNCHANGED <<cpuOf, mode, event, wait, toInsert, signal, unexecuted,
                     eventList, irr, handling, hpc, panic, mishaps>>
  BY <1>2 DEF IpcWaitForEventHandling, Dereference, cpuVars, IpcInv, TypeOK
<1>4. \A x \in Events : Owing(x)' = Owing(x)
  BY <1>3 DEF Owing
<1>5. /\ \A t \in Senders : t # s => (Using(t)' <=> Using(t))
      /\ ~Using(s)'
  BY <1>2, <1>3 DEF Using, IpcInv, TypeOK
<1>11. TypeOK'
  <2>1. terminated' \in [Events -> BOOLEAN]
    BY <1>3 DEF IpcInv, TypeOK
  <2>2. /\ refCnt' \in [Events -> Nat]
        /\ live' \in SUBSET Events
        /\ spc' \in [Senders -> SenderLocations]
    BY <1>3 DEF IpcInv, TypeOK, SenderLocations
  <2> QED BY <1>3, <2>1, <2>2 DEF IpcInv, TypeOK
<1>12. SenderInv'
  <2>1. ASSUME NEW t \in Senders
        PROVE  /\ spc'[t] = "insert" <=> spc[t] = "insert"
               /\ spc'[t] = "wait" => wait[t]
               /\ Using(t)' => Using(t) /\ event[t] # e
    <3>1. /\ spc'[t] = "insert" <=> spc[t] = "insert"
          /\ spc'[t] = "wait" => wait[t]
      BY <1>1, <1>3 DEF IpcInv, TypeOK, SenderInv
    <3>2. Using(t)' => Using(t) /\ event[t] # e
      BY <1>2, <1>5 DEF IpcInv, SenderInv
    <3> QED BY <3>1, <3>2
  <2> QED BY <2>1, <1>3 DEF IpcInv, SenderInv
<1>13. OnceInv'
  BY <1>2, <1>3 DEF IpcInv, OnceInv
<1>14. CountInv'
  <2> SUFFICES ASSUME NEW x \in live'
               PROVE  /\ refCnt'[x] = Cardinality(Owing(x)') + (IF signal'[x] THEN 1 ELSE 0)
                      /\ signal'[x] => \E t \in Senders : Using(t)' /\ event'[t] = x
                      /\ ~signal'[x] => Owing(x)' # {}
                      /\ unexecuted'[x] \subseteq Owing(x)'
                      /\ terminated'[x] => Owing(x)' = {}
    BY DEF CountInv
  <2>1. x \in live /\ x \in Events /\ x # e /\ Owing(x)' = Owing(x)
    BY <1>3, <1>4 DEF IpcInv, TypeOK
  <2>2. /\ refCnt'[x] = refCnt[x] /\ signal'[x] = signal[x]
        /\ unexecuted'[x] = unexecuted[x] /\ terminated'[x] = terminated[x]
    BY <2>1, <1>3 DEF IpcInv, TypeOK
  <2>3. \A t \in Senders : Using(t) /\ event[t] = x => Using(t)' /\ event'[t] = x
    BY <2>1, <1>3 DEF Using, IpcInv, TypeOK
  <2> QED BY <2>1, <2>2, <2>3 DEF IpcInv, CountInv
<1>15. SignalInv'
  <2> SUFFICES ASSUME NEW c \in Cpus, NEW x \in Events, hpc'[c] = "signal", handling'[c] = x
               PROVE  /\ Owing(x)' = {}
                      /\ signal'[x]
                      /\ ~terminated'[x]
                      /\ \A d \in Cpus : hpc'[d] = "signal" /\ handling'[d] = x => d = c
    BY DEF SignalInv
  <2>1. hpc' = hpc /\ handling' = handling /\ x # e
    BY <1>2, <1>3
  <2>2. Owing(x)' = Owing(x) /\ signal'[x] = signal[x] /\ terminated'[x] = terminated[x]
    BY <2>1, <1>3, <1>4 DEF IpcInv, TypeOK
  <2> QED BY <2>1, <2>2 DEF IpcInv, SignalInv
<1>16. ExecutedInv'
  BY <1>3 DEF IpcInv, ExecutedInv
<1> QED BY <1>11, <1>12, <1>13, <1>14, <1>15, <1>16 DEF IpcInv

(* The interrupt moves an event from the list of a CPU to its handler.     *)
LEMMA SmpIpcIpiIsrInv ==
    ASSUME IpcInv, NEW c \in Cpus, SmpIpcIpiIsr(c)
    PROVE  IpcInv'
<1> DEFINE e == Head(eventList[c])
<1>1. /\ hpc[c] = "none"
      /\ irr' = [irr EXCEPT ![c] = FALSE]
      /\ UNCHANGED <<cpuOf, spc, mode, event, wait, toInsert, live, refCnt, signal,
                     terminated, unexecuted, mishaps>>
  BY DEF SmpIpcIpiIsr, sendVars, eventVars
<1>2. irr' \in [Cpus -> BOOLEAN]
  BY <1>1 DEF IpcInv, TypeOK
<1>3. \A t \in Senders : Using(t)' <=> Using(t)
  BY <1>1 DEF Using
<1>4. SenderInv'
  BY <1>1, <1>3 DEF IpcInv, SenderInv
<1>5. CASE panic' = TRUE /\ UNCHANGED <<eventList, handling, hpc>>
  <2>1. \A x \in Events : Owing(x)' = Owing(x)
    BY <1>1, <1>5 DEF Owing
  <2>2. panic' \in BOOLEAN
    BY <1>5
  <2>3. TypeOK'
    BY <1>1, <1>2, <1>5, <2>2 DEF IpcInv, TypeOK
  <2>4. OnceInv'
    BY <1>1, <1>5 DEF IpcInv, OnceInv
  <2>5. CountInv'
    BY <1>1, <1>3, <2>1 DEF IpcInv, TypeOK, CountInv
  <2>6. SignalInv'
    BY <1>1, <1>5, <2>1 DEF IpcInv, SignalInv
  <2>7. ExecutedInv'
    BY <1>1, <1>5 DEF IpcInv, ExecutedInv
  <2> QED BY <1>4, <2>3, <2>4, <2>5, <2>6, <2>7 DEF IpcInv
<1>6. CASE /\ eventList[c] # <<>>
           /\ handling' = [handling EXCEPT ![c] = e]
           /\ eventList' = [eventList EXCEPT ![c] = Tail(@)]
           /\ hpc' = [hpc EXCEPT ![c] = "run"]
           /\ UNCHANGED panic
  <2>1. /\ eventList[c] \in Seq(Events)
        /\ IsInjective(eventList[c])
        /\ handling[c] = None
    BY <1>1 DEF IpcInv, TypeOK, OnceInv
  <2>2. /\ e \in Events
        /\ eventList'[c] \in Seq(Events)
        /\ IsInjective(eventList'[c])
        /\ e \notin Range(eventList'[c])
        /\ Range(eventList[c]) = Range(eventList'[c]) \cup {e}
        /\ handling'[c] = e
        /\ hpc'[c] = "run"
    <3>1. eventList'[c] = Tail(eventList[c]) /\ handling'[c] = e /\ hpc'[c] = "run"
      BY <1>6 DEF IpcInv, TypeOK
    <3> QED BY <1>6, <2>1, <3>1, TailFacts
  <2>3. e # None /\ e \in live
    BY <2>2, IpcAssumption DEF IpcInv, OnceInv
  <2>4. \A d \in Cpus : d # c => /\ eventList'[d] = eventList[d]
                                 /\ handling'[d] = handling[d]
                                 /\ hpc'[d] = hpc[d]
    BY <1>6 DEF IpcInv, TypeOK
  <2> HIDE DEF e
  <2>5. \A x \in Events : Owing(x)' = Owing(x)
    <3> SUFFICES ASSUME NEW x \in Events, NEW d \in Cpus
                 PROVE  d \in Owing(x)' <=> d \in Owing(x)
      BY DEF Owing
    <3>1. d \in Owing(x) <=> \/ x \in Range(eventList[d])
                             \/ handling[d] = x /\ hpc[d] \in {"run", "deref"}
                             \/ \E t \in Senders : event[t] = x /\ d \in toInsert[t]
      BY DEF Owing
    <3>2. d \in Owing(x)' <=> \/ x \in Range(eventList'[d])
                              \/ handling'[d] = x /\ hpc'[d] \in {"run", "deref"}
                              \/ \E t \in Senders : event[t] = x /\ d \in toInsert[t]
      BY <1>1 DEF Owing
    <3>3. CASE d = c
      BY <3>1, <3>2, <3>3, <1>1, <2>2
    <3>4. CASE d # c
      BY <3>1, <3>2, <3>4, <2>4
    <3> QED BY <3>3, <3>4
  <2>11. TypeOK'
    <3>1. /\ eventList' \in [Cpus -> Seq(Events)]
          /\ handling' \in [Cpus -> Events \cup {None}]
          /\ hpc' \in [Cpus -> HandlerLocations]
      BY <1>6, <2>2 DEF IpcInv, TypeOK, HandlerLocations
    <3>2. \A d \in Cpus : hpc'[d] = "none" <=> handling'[d] = None
      BY <2>2, <2>3, <2>4 DEF IpcInv, TypeOK
    <3> QED BY <1>1, <1>2, <1>6, <3>1, <3>2 DEF IpcInv, TypeOK
  <2>12. OnceInv'
    <3> SUFFICES ASSUME NEW d \in Cpus
                 PROVE  /\ IsInjective(eventList'[d])
                        /\ Range(eventList'[d]) \subseteq live
                        /\ hpc'[d] # "none" => /\ handling'[d] \in live
                                               /\ handling'[d] \notin Range(eventList'[d])
                        /\ \A t \in Senders : d \in toInsert[t] =>
                              /\ event[t] \notin Range(eventList'[d])
                              /\ event[t] # handling'[d]
      BY <1>1 DEF OnceInv
    <3>1. CASE d = c
      BY <3>1, <2>2, <2>3 DEF IpcInv, OnceInv
    <3>2. CASE d # c
      BY <3>2, <2>4 DEF IpcInv, OnceInv
    <3> QED BY <3>1, <3>2
  <2>13. CountInv'
    BY <1>1, <1>3, <2>5 DEF IpcInv, TypeOK, CountInv
  <2>14. SignalInv'
    <3> SUFFICES ASSUME NEW d \in Cpus, NEW x \in Events, hpc'[d] = "signal", handling'[d] = x
                 PROVE  /\ Owing(x)' = {}
                        /\ signal'[x]
                        /\ ~terminated'[x]
                        /\ \A f \in Cpus : hpc'[f] = "signal" /\ handling'[f] = x => f = d
      BY DEF SignalInv
    <3>1. d # c
      BY <2>2
    <3>2. Owing(x) = {} /\ signal[x] /\ ~terminated[x]
      BY <3>1, <2>4 DEF IpcInv, SignalInv
    <3>3. ASSUME NEW f \in Cpus, hpc'[f] = "signal", handling'[f] = x PROVE f = d
      BY <3>1, <3>3, <2>2, <2>4 DEF IpcInv, SignalInv
    <3> QED BY <3>2, <3>3, <1>1, <2>5
  <2>15. ExecutedInv'
    BY <1>1, <2>2, <2>4 DEF IpcInv, ExecutedInv
  <2> QED BY <1>4, <2>11, <2>12, <2>13, <2>14, <2>15 DEF IpcInv
<1> QED BY <1>5, <1>6 DEF SmpIpcIpiIsr

(* Function executed: the CPU keeps its reference.                         *)
LEMMA IpcProcessEventInv ==
    ASSUME IpcInv, NEW c \in Cpus, IpcProcessEvent(c)
    PROVE  IpcInv'
<1> DEFINE e == handling[c]
<1>1. /\ hpc[c] = "run"
      /\ unexecuted' = [unexecuted EXCEPT ![e] = @ \ {c}]
      /\ hpc' = [hpc EXCEPT ![c] = "deref"]
      /\ UNCHANGED <<cpuOf, spc, mode, event, wait, toInsert, live, refCnt, signal,
                     terminated, eventList, irr, handling, panic, mishaps>>
  BY DEF IpcProcessEvent, sendVars
<1>2. e \in live /\ e \in Events
  BY <1>1 DEF IpcInv, TypeOK, OnceInv
<1>3. hpc'[c] = "deref" /\ \A d \in Cpus : d # c => hpc'[d] = hpc[d]
  BY <1>1 DEF IpcInv, TypeOK
<1>4. \A x \in Events : Owing(x)' = Owing(x)
  BY <1>1, <1>3 DEF Owing
<1>5. \A t \in Senders : Using(t)' <=> Using(t)
  BY <1>1 DEF Using
<1>6. /\ \A x \in Events : unexecuted'[x] \subseteq unexecuted[x]
      /\ c \notin unexecuted'[e]
  BY <1>1, <1>2 DEF IpcInv, TypeOK
<1>11. TypeOK'
  <2>1. /\ unexecuted' \in [Events -> SUBSET Cpus]
        /\ hpc' \in [Cpus -> HandlerLocations]
    BY <1>1 DEF IpcInv, TypeOK, HandlerLocations
  <2>2. \A d \in Cpus : hpc'[d] = "none" <=> handling'[d] = None
    BY <1>1, <1>3 DEF IpcInv, TypeOK
  <2> QED BY <1>1, <2>1, <2>2 DEF IpcInv, TypeOK
<1>12. SenderInv'
  BY <1>1, <1>5 DEF IpcInv, SenderInv
<1>13. OnceInv'
  BY <1>1, <1>3 DEF IpcInv, OnceInv
<1>14. CountInv'
  <2> SUFFICES ASSUME NEW x \in live'
               PROVE  /\ refCnt'[x] = Cardinality(Owing(x)') + (IF signal'[x] THEN 1 ELSE 0)
                      /\ signal'[x] => \E t \in Senders : Using(t)' /\ event'[t] = x
                      /\ ~signal'[x] => Owing(x)' # {}
                      /\ unexecuted'[x] \subseteq Owing(x)'
                      /\ terminated'[x] => Owing(x)' = {}
    BY DEF CountInv
  <2>1. x \in live /\ x \in Events /\ Owing(x)' = Owing(x)
    BY <1>1, <1>4 DEF IpcInv, TypeOK
  <2>2. /\ refCnt'[x] = refCnt[x] /\ signal'[x] = signal[x]
        /\ unexecuted'[x] \subseteq unexecuted[x] /\ terminated'[x] = terminated[x]
    BY <2>1, <1>1, <1>6
  <2> QED BY <2>1, <2>2, <1>1, <1>5 DEF IpcInv, CountInv
<1>15. SignalInv'
  <2> SUFFICES ASSUME NEW d \in Cpus, NEW x \in Events, hpc'[d] = "signal", handling'[d] = x
               PROVE  /\ Owing(x)' = {}
                      /\ signal'[x]
                      /\ ~terminated'[x]
                      /\ \A f \in Cpus : hpc'[f] = "signal" /\ handling'[f] = x => f = d
    BY DEF SignalInv
  <2>1. hpc[d] = "signal" /\ handling[d] = x
    BY <1>1, <1>3
  <2>2. Owing(x) = {} /\ signal[x] /\ ~terminated[x]
    BY <2>1 DEF IpcInv, SignalInv
  <2>3. ASSUME NEW f \in Cpus, hpc'[f] = "signal", handling'[f] = x PROVE f = d
    BY <2>1, <2>3, <1>1, <1>3 DEF IpcInv, SignalInv
  <2> QED BY <2>2, <2>3, <1>1, <1>4
<1>16. ExecutedInv'
  <2> SUFFICES ASSUME NEW d \in Cpus, hpc'[d] = "deref"
               PROVE  d \notin unexecuted'[handling[d]]
    BY <1>1 DEF ExecutedInv
  <2>1. CASE d = c
    BY <2>1, <1>6
  <2>2. CASE d # c
    <3>1. hpc[d] = "deref" /\ handling[d] \in Events
      BY <2>2, <1>3 DEF IpcInv, TypeOK, OnceInv
    <3> QED BY <3>1, <1>6 DEF IpcInv, ExecutedInv
  <2> QED BY <2>1, <2>2
<1> QED BY <1>11, <1>12, <1>13, <1>14, <1>15, <1>16 DEF IpcInv

(* One CPU fewer owes a reference to the event.  The count tells the last  *)
(* CPU of a call that waits, which signals the sender; the last CPU of a   *)
(* call that does not wait frees the event.                                *)
LEMMA IpcDereferenceInv ==
    ASSUME IpcInv, NEW c \in Cpus, IpcDereference(c)
    PROVE  IpcInv'
<1>0. PICK e \in Events : e = handling[c]
  <2>1. hpc[c] # "none"
    BY DEF IpcDereference
  <2> QED BY <2>1 DEF IpcInv, TypeOK, OnceInv
<1> DEFINE last == signal[e] /\ refCnt[e] = 2
<1>1. /\ hpc[c] = "deref"
      /\ refCnt' = [refCnt EXCEPT ![e] = @ - 1]
      /\ live' = IF refCnt[e] = 1 THEN live \ {e} ELSE live
      /\ UNCHANGED <<cpuOf, spc, mode, event, wait, toInsert, signal, terminated,
                     unexecuted, eventList, irr, panic, mishaps>>
  BY <1>0 DEF IpcDereference, Dereference, sendVars
<1>2. \/ last /\ hpc' = [hpc EXCEPT ![c] = "signal"] /\ handling' = handling
      \/ ~last /\ hpc' = [hpc EXCEPT ![c] = "none"] /\ handling' = [handling EXCEPT ![c] = None]
  BY <1>0 DEF IpcDereference
<1>3. /\ e \in live /\ e \in Events /\ e # None
      /\ c \in Owing(e)
      /\ e \notin Range(eventList[c])
      /\ \A t \in Senders : c \in toInsert[t] => event[t] # e
  BY <1>0, <1>1, IpcAssumption DEF IpcInv, TypeOK, OnceInv, Owing
<1>4. \A d \in Cpus : d # c => hpc'[d] = hpc[d] /\ handling'[d] = handling[d]
  BY <1>2 DEF IpcInv, TypeOK
<1>5. \/ last /\ hpc'[c] = "signal" /\ handling'[c] = e
      \/ ~last /\ hpc'[c] = "none" /\ handling'[c] = None
  BY <1>0, <1>2 DEF IpcInv, TypeOK
<1>6. Owing(e)' = Owing(e) \ {c}
  <2> SUFFICES ASSUME NEW d \in Cpus
               PROVE  d \in Owing(e)' <=> d \in Owing(e) \ {c}
    BY DEF Owing
  <2>1. d \in Owing(e) <=> \/ e \in Range(eventList[d])
                           \/ handling[d] = e /\ hpc[d] \in {"run", "deref"}
                           \/ \E t \in Senders : event[t] = e /\ d \in toInsert[t]
    BY DEF Owing
  <2>2. d \in Owing(e)' <=> \/ e \in Range(eventList[d])
                            \/ handling'[d] = e /\ hpc'[d] \in {"run", "deref"}
                            \/ \E t \in Senders : event[t] = e /\ d \in toInsert[t]
    BY <1>1 DEF Owing
  <2>3. CASE d = c
    BY <2>2, <2>3, <1>3, <1>5
  <2>4. CASE d # c
    BY <2>1, <2>2, <2>4, <1>4
  <2> QED BY <2>3, <2>4
<1>7. \A x \in Events : x # e => Owing(x)' = Owing(x)
  <2> SUFFICES ASSUME NEW x \in Events, x # e, NEW d \in Cpus
               PROVE  d \in Owing(x)' <=> d \in Owing(x)
    BY DEF Owing
  <2>1. d \in Owing(x) <=> \/ x \in Range(eventList[d])
                           \/ handling[d] = x /\ hpc[d] \in {"run", "deref"}
                           \/ \E t \in Senders : event[t] = x /\ d \in toInsert[t]
    BY DEF Owing
  <2>2. d \in Owing(x)' <=> \/ x \in Range(eventList[d])
                            \/ handling'[d] = x /\ hpc'[d] \in {"run", "deref"}
                            \/ \E t \in Senders : event[t] = x /\ d \in toInsert[t]
    BY <1>1 DEF Owing
  <2>3. CASE d = c
    BY <2>1, <2>2, <2>3, <1>0, <1>5
  <2>4. CASE d # c
    BY <2>1, <2>2, <2>4, <1>4
  <2> QED BY <2>3, <2>4
<1>8. /\ Cardinality(Owing(e)') \in Nat
      /\ Cardinality(Owing(e)) = Cardinality(Owing(e)') + 1
      /\ Cardinality(Owing(e)') = 0 <=> Owing(e)' = {}
  <2>1. IsFiniteSet(Owing(e)) /\ Cardinality(Owing(e)) \in Nat
    BY OwingFacts
  <2>2. /\ IsFiniteSet(Owing(e) \ {c})
        /\ Cardinality(Owing(e) \ {c}) = Cardinality(Owing(e)) - 1
    BY <2>1, <1>3, FS_RemoveElement
  <2>3. /\ Cardinality(Owing(e) \ {c}) \in Nat
        /\ Cardinality(Owing(e) \ {c}) = 0 <=> Owing(e) \ {c} = {}
    BY <2>2, FS_CardinalityType, FS_EmptySet
  <2> QED BY <2>1, <2>2, <2>3, <1>6
<1>9. /\ refCnt[e] = Cardinality(Owing(e)') + 1 + (IF signal[e] THEN 1 ELSE 0)
      /\ refCnt'[e] = refCnt[e] - 1
      /\ refCnt[e] \in Nat
  BY <1>1, <1>3, <1>8 DEF IpcInv, TypeOK, CountInv
<1>10. \A t \in Senders : Using(t)' <=> Using(t)
  BY <1>1 DEF Using
<1>11. /\ last => Owing(e)' = {} /\ live' = live
       /\ signal[e] => live' = live
       /\ ~signal[e] => (refCnt[e] = 1 <=> Owing(e)' = {})
       /\ signal[e] \/ ~signal[e]
  <2>1. CASE signal[e]
    <3>1. refCnt[e] = Cardinality(Owing(e)') + 2
      BY <1>8, <1>9, <2>1
    <3> QED BY <3>1, <2>1, <1>1, <1>8
  <2>2. CASE ~signal[e]
    <3>1. refCnt[e] = Cardinality(Owing(e)') + 1
      BY <1>8, <1>9, <2>2
    <3> QED BY <3>1, <2>2, <1>1, <1>8
  <2> QED BY <2>1, <2>2
<1>12. ASSUME live' # live
       PROVE  /\ live' = live \ {e}
              /\ ~signal[e]
              /\ Owing(e)' = {}
              /\ \A d \in Cpus : e \notin Range(eventList[d]) /\ e # handling'[d]
              /\ \A t \in Senders : Using(t) => event[t] # e
  <2>1. live' = live \ {e} /\ ~signal[e] /\ Owing(e)' = {}
    BY <1>1, <1>11, <1>12
  <2>2. \A d \in Cpus : e \notin Range(eventList[d])
    BY <2>1, <1>1 DEF Owing
  <2>3. ASSUME NEW d \in Cpus PROVE e # handling'[d]
    <3>1. CASE d = c
      BY <3>1, <2>1, <1>3, <1>5
    <3>2. CASE d # c
      <4>1. ASSUME handling[d] = e PROVE FALSE
        <5>1. hpc[d] \notin {"run", "deref"}
          BY <4>1, <2>1, <3>2, <1>4 DEF Owing
        <5>2. hpc[d] # "signal"
          BY <4>1, <2>1, <1>3 DEF IpcInv, SignalInv
        <5>3. hpc[d] # "none"
          BY <4>1, <1>3 DEF IpcInv, TypeOK
        <5> QED BY <5>1, <5>2, <5>3 DEF IpcInv, TypeOK, HandlerLocations
      <4> QED BY <4>1, <3>2, <1>4
    <3> QED BY <3>1, <3>2
  <2>4. ASSUME NEW t \in Senders, Using(t), event[t] = e PROVE FALSE
    <3>1. ~wait[t] /\ spc[t] = "insert"
      BY <2>1, <2>4 DEF IpcInv, SenderInv, Using, TypeOK
    <3>2. PICK d \in Cpus : d \in toInsert[t]
      BY <3>1 DEF IpcInv, SenderInv, TypeOK
    <3>3. d \in Owing(e)'
      BY <2>4, <3>2, <1>1 DEF Owing
    <3> QED BY <3>3, <2>1
  <2> QED BY <2>1, <2>2, <2>3, <2>4
<1>13. live' = live \/ live' = live \ {e}
  BY <1>1
<1>21. TypeOK'
  <2>1. /\ refCnt' \in [Events -> Nat]
        /\ live' \in SUBSET Events
    <3>1. refCnt[e] - 1 \in Nat
      BY <1>8, <1>9
    <3> QED BY <3>1, <1>1, <1>13 DEF IpcInv, TypeOK
  <2>2. /\ hpc' \in [Cpus -> HandlerLocations]
        /\ handling' \in [Cpus -> Events \cup {None}]
    BY <1>2 DEF IpcInv, TypeOK, HandlerLocations
  <2>3. \A d \in Cpus : hpc'[d] = "none" <=> handling'[d] = None
    BY <1>3, <1>4, <1>5 DEF IpcInv, TypeOK
  <2> QED BY <1>1, <2>1, <2>2, <2>3 DEF IpcInv, TypeOK
<1>22. SenderInv'
  <2>1. \A t \in Senders : Using(t) => event[t] \in live'
    BY <1>12, <1>13 DEF IpcInv, SenderInv
  <2> QED BY <1>1, <1>10, <2>1 DEF IpcInv, SenderInv
<1>23. OnceInv'
  <2> SUFFICES ASSUME NEW d \in Cpus
               PROVE  /\ IsInjective(eventList[d])
                      /\ Range(eventList[d]) \subseteq live'
                      /\ hpc'[d] # "none" => /\ handling'[d] \in live'
                                             /\ handling'[d] \notin Range(eventList[d])
                      /\ \A t \in Senders : d \in toInsert[t] =>
                            /\ event[t] \notin Range(eventList[d])
                            /\ event[t] # handling'[d]
    BY <1>1 DEF OnceInv
  <2>1. Range(eventList[d]) \subseteq live'
    BY <1>12, <1>13 DEF IpcInv, OnceInv
  <2>2. hpc'[d] # "none" => handling'[d] = handling[d] /\ hpc[d] # "none"
    BY <1>0, <1>1, <1>4, <1>5
  <2>3. hpc'[d] # "none" => handling'[d] \in live' /\ handling'[d] \notin Range(eventList[d])
    BY <2>2, <1>12, <1>13 DEF IpcInv, OnceInv
  <2>4. ASSUME NEW t \in Senders, d \in toInsert[t]
        PROVE  event[t] # handling'[d]
    <3>1. event[t] # None
      BY <2>4, IpcAssumption DEF IpcInv, TypeOK, SenderInv, Using
    <3> QED BY <2>4, <3>1, <1>0, <1>4, <1>5 DEF IpcInv, OnceInv
  <2> QED BY <2>1, <2>3, <2>4 DEF IpcInv, OnceInv
<1>24. CountInv'
  <2> SUFFICES ASSUME NEW x \in live'
               PROVE  /\ refCnt'[x] = Cardinality(Owing(x)') + (IF signal'[x] THEN 1 ELSE 0)
                      /\ signal'[x] => \E t \in Senders : Using(t)' /\ event'[t] = x
                      /\ ~signal'[x] => Owing(x)' # {}
                      /\ unexecuted'[x] \subseteq Owing(x)'
                      /\ terminated'[x] => Owing(x)' = {}
    BY DEF CountInv
  <2>1. x \in live /\ x \in Events
    BY <1>13 DEF IpcInv, TypeOK
  <2>2. /\ signal'[x] = signal[x] /\ unexecuted'[x] = unexecuted[x]
        /\ terminated'[x] = terminated[x]
    BY <1>1
  <2>3. signal[x] => \E t \in Senders : Using(t)' /\ event'[t] = x
    BY <2>1, <1>1, <1>10 DEF IpcInv, CountInv
  <2>4. CASE x = e
    <3>1. refCnt'[e] = Cardinality(Owing(e)') + (IF signal[e] THEN 1 ELSE 0)
      BY <1>8, <1>9
    <3>2. ~signal[e] => Owing(e)' # {}
      BY <2>4, <1>1, <1>11, <1>12
    <3>3. unexecuted[e] \subseteq Owing(e)'
      BY <1>0, <1>1, <1>3, <1>6 DEF IpcInv, CountInv, ExecutedInv
    <3>4. ~terminated[e]
      BY <1>3 DEF IpcInv, CountInv
    <3> QED BY <2>2, <2>3, <2>4, <3>1, <3>2, <3>3, <3>4
  <2>5. CASE x # e
    <3>1. Owing(x)' = Owing(x) /\ refCnt'[x] = refCnt[x]
      BY <2>1, <2>5, <1>1, <1>7 DEF IpcInv, TypeOK
    <3> QED BY <2>1, <2>2, <2>3, <3>1 DEF IpcInv, CountInv
  <2> QED BY <2>4, <2>5
<1>25. SignalInv'
  <2> SUFFICES ASSUME NEW d \in Cpus, NEW x \in Events, hpc'[d] = "signal", handling'[d] = x
               PROVE  /\ Owing(x)' = {}
                      /\ signal'[x]
                      /\ ~terminated'[x]
                      /\ \A f \in Cpus : hpc'[f] = "signal" /\ handling'[f] = x => f = d
    BY DEF SignalInv
  <2>1. ASSUME NEW f \in Cpus, hpc[f] = "signal" PROVE handling[f] # e
    BY <2>1, <1>3 DEF IpcInv, SignalInv
  <2>2. CASE d = c
    <3>1. x = e /\ last
      BY <2>2, <1>5
    <3>2. Owing(e)' = {} /\ signal[e]
      BY <3>1, <1>11
    <3>3. ~terminated[e]
      BY <1>3 DEF IpcInv, CountInv
    <3>4. \A f \in Cpus : hpc'[f] = "signal" /\ handling'[f] = e => f = c
      BY <2>1, <1>4
    <3> QED BY <2>2, <3>1, <3>2, <3>3, <3>4, <1>1
  <2>3. CASE d # c
    <3>1. hpc[d] = "signal" /\ handling[d] = x /\ x # e
      BY <2>1, <2>3, <1>4
    <3>2. Owing(x) = {} /\ signal[x] /\ ~terminated[x]
      BY <3>1 DEF IpcInv, SignalInv
    <3>3. ASSUME NEW f \in Cpus, hpc'[f] = "signal", handling'[f] = x PROVE f = d
      <4>1. f # c
        BY <3>1, <3>3, <1>5
      <4> QED BY <3>1, <3>3, <4>1, <1>4 DEF IpcInv, SignalInv
    <3> QED BY <3>1, <3>2, <3>3, <1>1, <1>7
  <2> QED BY <2>2, <2>3
<1>26. ExecutedInv'
  <2> SUFFICES ASSUME NEW d \in Cpus, hpc'[d] = "deref"
               PROVE  d \notin unexecuted[handling'[d]]
    BY <1>1 DEF ExecutedInv
  <2>1. d # c
    BY <1>5
  <2> QED BY <2>1, <1>4 DEF IpcInv, ExecutedInv
<1> QED BY <1>21, <1>22, <1>23, <1>24, <1>25, <1>26 DEF IpcInv

(* The signal: nobody owes a reference any more.                           *)
LEMMA IpcSignalInv ==
    ASSUME IpcInv, NEW c \in Cpus, IpcSignal(c)
    PROVE  IpcInv'
<1>0. PICK e \in Events : e = handling[c]
  <2>1. hpc[c] # "none"
    BY DEF IpcSignal
  <2> QED BY <2>1 DEF IpcInv, TypeOK, OnceInv
<1>1. /\ hpc[c] = "signal"
      /\ terminated' = [terminated EXCEPT ![e] = TRUE]
      /\ hpc' = [hpc EXCEPT ![c] = "none"]
      /\ handling' = [handling EXCEPT ![c] = None]
      /\ UNCHANGED <<cpuOf, spc, mode, event, wait, toInsert, live, refCnt, signal,
                     unexecuted, eventList, irr, panic, mishaps>>
  BY <1>0 DEF IpcSignal, sendVars
<1>2. /\ Owing(e) = {}
      /\ \A d \in Cpus : hpc[d] = "signal" /\ handling[d] = e => d = c
  BY <1>0, <1>1 DEF IpcInv, SignalInv
<1>3. /\ hpc'[c] = "none" /\ handling'[c] = None
      /\ \A d \in Cpus : d # c => hpc'[d] = hpc[d] /\ handling'[d] = handling[d]
  BY <1>1 DEF IpcInv, TypeOK
<1>4. \A x \in Events : Owing(x)' = Owing(x)
  BY <1>1, <1>3 DEF Owing
<1>5. \A t \in Senders : Using(t)' <=> Using(t)
  BY <1>1 DEF Using
<1>11. TypeOK'
  <2>1. terminated' \in [Events -> BOOLEAN]
    BY <1>1 DEF IpcInv, TypeOK
  <2>2. /\ hpc' \in [Cpus -> HandlerLocations]
        /\ handling' \in [Cpus -> Events \cup {None}]
    BY <1>1 DEF IpcInv, TypeOK, HandlerLocations
  <2>3. \A d \in Cpus : hpc'[d] = "none" <=> handling'[d] = None
    BY <1>3 DEF IpcInv, TypeOK
  <2> QED BY <1>1, <2>1, <2>2, <2>3 DEF IpcInv, TypeOK
<1>12. SenderInv'
  BY <1>1, <1>5 DEF IpcInv, SenderInv
<1>13. OnceInv'
  <2>1. ASSUME NEW d \in Cpus, NEW t \in Senders, d \in toInsert[t]
        PROVE  event[t] # handling'[d]
    <3>1. event[t] # None
      BY <2>1, IpcAssumption DEF IpcInv, TypeOK, SenderInv, Using
    <3> QED BY <2>1, <3>1, <1>3 DEF IpcInv, OnceInv
  <2> QED BY <2>1, <1>1, <1>3 DEF IpcInv, OnceInv
<1>14. CountInv'
  <2> SUFFICES ASSUME NEW x \in live'
               PROVE  /\ refCnt'[x] = Cardinality(Owing(x)') + (IF signal'[x] THEN 1 ELSE 0)
                      /\ signal'[x] => \E t \in Senders : Using(t)' /\ event'[t] = x
                      /\ ~signal'[x] => Owing(x)' # {}
                      /\ unexecuted'[x] \subseteq Owing(x)'
                      /\ terminated'[x] => Owing(x)' = {}
    BY DEF CountInv
  <2>1. x \in live /\ x \in Events /\ Owing(x)' = Owing(x)
    BY <1>1, <1>4 DEF IpcInv, TypeOK
  <2>2. refCnt'[x] = refCnt[x] /\ signal'[x] = signal[x] /\ unexecuted'[x] = unexecuted[x]
    BY <1>1
  <2>3. terminated'[x] => Owing(x) = {}
    <3>1. CASE x = e
      BY <3>1, <1>2
    <3>2. CASE x # e
      BY <3>2, <2>1, <1>1 DEF IpcInv, TypeOK, CountInv
    <3> QED BY <3>1, <3>2
  <2> QED BY <2>1, <2>2, <2>3, <1>1, <1>5 DEF IpcInv, CountInv
<1>15. SignalInv'
  <2> SUFFICES ASSUME NEW d \in Cpus, NEW x \in Events, hpc'[d] = "signal", handling'[d] = x
               PROVE  /\ Owing(x)' = {}
                      /\ signal'[x]
                      /\ ~terminated'[x]
                      /\ \A f \in Cpus : hpc'[f] = "signal" /\ handling'[f] = x => f = d
    BY DEF SignalInv
  <2>1. d # c /\ hpc[d] = "signal" /\ handling[d] = x
    BY <1>3
  <2>2. x # e
    BY <2>1, <1>2
  <2>3. Owing(x) = {} /\ signal[x] /\ ~terminated[x]
    BY <2>1 DEF IpcInv, SignalInv
  <2>4. terminated'[x] = terminated[x] /\ signal'[x] = signal[x]
    BY <2>2, <1>1 DEF IpcInv, TypeOK
  <2>5. ASSUME NEW f \in Cpus, hpc'[f] = "signal", handling'[f] = x PROVE f = d
    BY <2>1, <2>5, <1>3 DEF IpcInv, SignalInv
  <2> QED BY <2>3, <2>4, <2>5, <1>4
<1>16. ExecutedInv'
  BY <1>1, <1>3 DEF IpcInv, ExecutedInv
<1> QED BY <1>11, <1>12, <1>13, <1>14, <1>15, <1>16 DEF IpcInv

(* Every step preserves the invariant.                                     *)
LEMMA NextInv == IpcInv /\ [Next]_vars => IpcInv'
<1> SUFFICES ASSUME IpcInv, [Next]_vars PROVE IpcInv'
  OBVIOUS
<1>1. ASSUME NEW s \in Senders, SenderStep(s) PROVE IpcInv'
  BY <1>1, SmpSendGenericIpiExInv, InsertEventInv, SmpSendIpcIpiInv,
     IpcWaitForEventHandlingInv DEF SenderStep
<1>2. ASSUME NEW s \in Senders, NEW c \in Cpus, Migrate(s, c) PROVE IpcInv'
  BY <1>2, MigrateInv
<1>3. ASSUME NEW c \in Cpus, HandlerStep(c) PROVE IpcInv'
  BY <1>3, SmpIpcIpiIsrInv, IpcProcessEventInv, IpcDereferenceInv, IpcSignalInv
     DEF HandlerStep
<1>4. CASE UNCHANGED vars
  <2>1. UNCHANGED <<cpuOf, spc, mode, event, wait, toInsert, live, refCnt, signal,
                    terminated, unexecuted, eventList, irr, handling, hpc, panic, mishaps>>
    BY <1>4 DEF vars, sendVars, eventVars, cpuVars
  <2>2. \A e \in Events : Owing(e)' = Owing(e)
    BY <2>1 DEF Owing
  <2>3. TypeOK' /\ OnceInv' /\ ExecutedInv'
    BY <2>1 DEF IpcInv, TypeOK, OnceInv, ExecutedInv
  <2>4. SenderInv'
    BY <2>1 DEF IpcInv, SenderInv, Using
  <2>5. CountInv'
    BY <2>1, <2>2 DEF IpcInv, TypeOK, CountInv, Using
  <2>6. SignalInv'
    BY <2>1, <2>2 DEF IpcInv, SignalInv
  <2> QED BY <2>3, <2>4, <2>5, <2>6 DEF IpcInv
<1> QED BY <1>1, <1>2, <1>3, <1>4 DEF Next

-----------------------------------------------------------------------------
(* The inductive invariant holds of every reachable state.                 *)
THEOREM IpcInvariant == Spec => []IpcInv
  BY InitInv, NextInv, PTL DEF Spec

(* Type correctness, with the fact that a handler in progress always has   *)
(* an event to process (_SmpIpcIpiIsr).                                    *)
THEOREM IpcTypeCorrect == Spec => []TypeOK
<1>1. IpcInv => TypeOK
  BY DEF IpcInv
<1> QED BY <1>1, IpcInvariant, PTL

(* No list, handler or waiting sender refers to a freed event: the counts  *)
(* of IpcGenerateEvent are enough, and EvtSignal after RfcDereference in   *)
(* IpcProcessEvent touches an event that is still allocated.               *)
THEOREM IpcNoUseAfterFree == Spec => []NoUseAfterFree
<1>1. IpcInv => NoUseAfterFree
  BY DEF IpcInv, NoUseAfterFree, OnceInv, SenderInv, Using
<1> QED BY <1>1, IpcInvariant, PTL

(* The reference count of an event is the number of CPUs and senders that  *)
(* have still to drop a reference: none leaks.                             *)
THEOREM IpcRefCountExact == Spec => []RefCountExact
<1>1. ASSUME IpcInv PROVE RefCountExact
  <2> SUFFICES ASSUME NEW e \in live
               PROVE  /\ refCnt[e] > 0
                      /\ refCnt[e] = Cardinality(Owing(e)) + Cardinality(Awaiting(e))
    BY DEF RefCountExact
  <2>1. /\ refCnt[e] = Cardinality(Owing(e)) + (IF signal[e] THEN 1 ELSE 0)
        /\ signal[e] => \E s \in Senders : Using(s) /\ event[s] = e
        /\ ~signal[e] => Owing(e) # {}
    BY <1>1 DEF IpcInv, CountInv
  <2>2. Cardinality(Owing(e)) \in Nat /\ (Cardinality(Owing(e)) = 0 <=> Owing(e) = {})
    BY OwingFacts
  <2>3. \A s \in Awaiting(e) : s \in Senders /\ Using(s) /\ event[s] = e /\ wait[s] /\ signal[e]
    BY <1>1 DEF Awaiting, Using, IpcInv, SenderInv
  <2>4. CASE signal[e]
    <3>1. PICK s \in Senders : Using(s) /\ event[s] = e
      BY <2>1, <2>4
    <3>2. s \in Awaiting(e)
      BY <1>1, <2>4, <3>1 DEF Awaiting, Using, IpcInv, SenderInv
    <3>3. \A t \in Awaiting(e) : t = s
      BY <1>1, <2>3, <3>1 DEF IpcInv, SenderInv
    <3>4. Awaiting(e) = {s}
      BY <3>2, <3>3
    <3>5. Cardinality(Awaiting(e)) = 1
      BY <3>4, FS_Singleton
    <3> QED BY <2>1, <2>2, <2>4, <3>5
  <2>5. CASE ~signal[e]
    <3>1. Awaiting(e) = {}
      BY <2>3, <2>5
    <3>2. Cardinality(Awaiting(e)) = 0
      BY <3>1, FS_EmptySet
    <3> QED BY <2>1, <2>2, <2>5, <3>2
  <2> QED BY <2>4, <2>5
<1> QED BY <1>1, IpcInvariant, PTL

(* SmpSendGenericIpiEx with WaitForHandling returns only when every CPU of *)
(* the call has executed the function.                                     *)
THEOREM IpcWaitedMeansDone == Spec => WaitedMeansDone
<1>1. ASSUME IpcInv, [Next]_vars
      PROVE  [\A s \in Senders : (spc[s] = "wait" /\ spc'[s] = "idle") =>
                  unexecuted[event[s]] = {}]_vars
  <2> SUFFICES ASSUME Next, NEW s \in Senders, spc[s] = "wait", spc'[s] = "idle"
               PROVE  unexecuted[event[s]] = {}
    BY <1>1
  <2>1. IpcWaitForEventHandling(s)
    <3>1. ASSUME NEW c \in Cpus, HandlerStep(c) PROVE FALSE
      <4>1. spc' = spc
        BY <3>1 DEF HandlerStep, SmpIpcIpiIsr, IpcProcessEvent, IpcDereference,
           IpcSignal, sendVars
      <4> QED BY <4>1
    <3>2. ASSUME NEW t \in Senders, NEW c \in Cpus, Migrate(t, c) PROVE FALSE
      <4>1. spc' = spc
        BY <3>2 DEF Migrate
      <4> QED BY <4>1
    <3>3. ASSUME NEW t \in Senders, SenderStep(t) PROVE IpcWaitForEventHandling(s)
      <4>1. spc \in [Senders -> SenderLocations]
        BY <1>1 DEF IpcInv, TypeOK
      <4>2. ASSUME NEW m, NEW w, NEW e, SmpSendGenericIpiEx(t, m, w, e) PROVE FALSE
        BY <4>1, <4>2 DEF SmpSendGenericIpiEx, SenderAt
      <4>3. ASSUME NEW c \in Cpus, InsertEvent(t, c) PROVE FALSE
        BY <4>1, <4>3 DEF InsertEvent, SenderAt
      <4>4. ASSUME SmpSendIpcIpi(t) PROVE FALSE
        BY <4>1, <4>4 DEF SmpSendIpcIpi, SenderAt
      <4>5. ASSUME IpcWaitForEventHandling(t) PROVE t = s
        BY <4>1, <4>5 DEF IpcWaitForEventHandling
      <4> QED BY <3>3, <4>2, <4>3, <4>4, <4>5 DEF SenderStep
    <3> QED BY <3>1, <3>2, <3>3 DEF Next
  <2>2. terminated[event[s]]
    BY <2>1 DEF IpcWaitForEventHandling
  <2> QED BY <1>1, <2>2, SignaledFacts
<1> QED BY <1>1, IpcInvariant, PTL DEF Spec, WaitedMeansDone
-----------------------------------------------------------------------------
(* The senders whose IPI to c is still to be sent, though their event has  *)
(* already been put in the list of c.                                      *)
Announced(c) ==
    {s \in Senders : /\ spc[s] \in {"insert", "send"}
                     /\ SmpDoesCpuMatchDestination(mode[s], cpuOf[s], c)
                     /\ c \notin toInsert[s]}

(* Unless an IPI strayed, the list of a CPU holds an event for each IPI    *)
(* that is pending or to be sent.                                          *)
IpiInv ==
    "strayed" \notin mishaps =>
        /\ ~panic
        /\ \A c \in Cpus :
              /\ IsFiniteSet(Announced(c))
              /\ Cardinality(Announced(c)) + (IF irr[c] THEN 1 ELSE 0) <= Len(eventList[c])

(* The list of c may grow, and with it the set of announced IPIs by one    *)
(* sender; a set that does not grow needs no longer list.                  *)
LEMMA AnnouncedFacts ==
    ASSUME IpcInv, IpiInv, "strayed" \notin mishaps, NEW c \in Cpus
    PROVE  /\ IsFiniteSet(Announced(c)) /\ Cardinality(Announced(c)) \in Nat
           /\ Len(eventList[c]) \in Nat /\ irr[c] \in BOOLEAN
           /\ Cardinality(Announced(c)) + (IF irr[c] THEN 1 ELSE 0) <= Len(eventList[c])
           /\ \A T \in SUBSET Announced(c) :
                 /\ IsFiniteSet(T) /\ Cardinality(T) \in Nat
                 /\ Cardinality(T) <= Cardinality(Announced(c))
                 /\ \A s \in Announced(c) \ T : Cardinality(T) + 1 <= Cardinality(Announced(c))
<1>1. /\ IsFiniteSet(Announced(c))
      /\ Cardinality(Announced(c)) + (IF irr[c] THEN 1 ELSE 0) <= Len(eventList[c])
  BY DEF IpiInv
<1>2. Cardinality(Announced(c)) \in Nat
  BY <1>1, FS_CardinalityType
<1>3. Len(eventList[c]) \in Nat
  BY DEF IpcInv, TypeOK
<1>4. irr[c] \in BOOLEAN
  BY DEF IpcInv, TypeOK
<1>5. ASSUME NEW T \in SUBSET Announced(c)
      PROVE  /\ IsFiniteSet(T) /\ Cardinality(T) \in Nat
             /\ Cardinality(T) <= Cardinality(Announced(c))
             /\ \A s \in Announced(c) \ T : Cardinality(T) + 1 <= Cardinality(Announced(c))
  <2>1. IsFiniteSet(T) /\ Cardinality(T) \in Nat /\ Cardinality(T) <= Cardinality(Announced(c))
    BY <1>1, FS_Subset, FS_CardinalityType
  <2>2. ASSUME NEW s \in Announced(c) \ T
        PROVE  Cardinality(T) + 1 <= Cardinality(Announced(c))
    <3>1. T \cup {s} \subseteq Announced(c)
      BY <2>2
    <3>2. Cardinality(T \cup {s}) = Cardinality(T) + 1
      BY <2>1, <2>2, FS_AddElement
    <3>. QED  BY <1>1, <3>1, <3>2, FS_Subset
  <2>. QED  BY <2>1, <2>2
<1>. QED  BY <1>1, <1>2, <1>3, <1>4, <1>5

(* A step keeps IpiInv if the list of every CPU stays and neither an       *)
(* interrupt nor a sender is added.                                        *)
LEMMA IpiQuiet ==
    ASSUME IpcInv, IpiInv, mishaps \subseteq mishaps', panic' = panic,
           UNCHANGED <<eventList, irr>>,
           "strayed" \notin mishaps' => \A c \in Cpus : Announced(c)' \subseteq Announced(c)
    PROVE  IpiInv'
<1>. SUFFICES ASSUME "strayed" \notin mishaps', NEW c \in Cpus
             PROVE  /\ ~panic'
                    /\ IsFiniteSet(Announced(c)')
                    /\ Cardinality(Announced(c)') + (IF irr'[c] THEN 1 ELSE 0) <= Len(eventList'[c])
  BY IpcAssumption DEF IpiInv
<1>1. "strayed" \notin mishaps /\ ~panic'
  BY DEF IpiInv
<1>2. Announced(c)' \in SUBSET Announced(c)
  OBVIOUS
<1>3. /\ IsFiniteSet(Announced(c)') /\ Cardinality(Announced(c)') \in Nat
      /\ Cardinality(Announced(c)') <= Cardinality(Announced(c))
  BY <1>1, <1>2, AnnouncedFacts
<1>4. irr'[c] = irr[c] /\ eventList'[c] = eventList[c]
  OBVIOUS
<1>. QED  BY <1>1, <1>3, <1>4, AnnouncedFacts

(* A sender that moves with an IPI to itself or to the others half sent    *)
(* has strayed; all others keep their destinations.                        *)
LEMMA MigrateIpi ==
    ASSUME IpcInv, IpiInv, NEW s \in Senders, NEW d \in Cpus, Migrate(s, d)
    PROVE  IpiInv'
<1>1. mishaps \subseteq mishaps' /\ panic' = panic /\ UNCHANGED <<eventList, irr, spc, mode, toInsert>>
  BY DEF Migrate, cpuVars
<1>2. ASSUME "strayed" \notin mishaps', NEW c \in Cpus, NEW u \in Announced(c)'
      PROVE  u \in Announced(c)
  <2>1. cpuOf \in [Senders -> Cpus] /\ mode[u].type \in AllModes /\ u \in Senders
    BY <1>2 DEF IpcInv, TypeOK, Announced
  <2>2. CASE u # s \/ d = cpuOf[s]
    <3>1. cpuOf'[u] = cpuOf[u]
      BY <2>1, <2>2 DEF Migrate
    <3>. QED  BY <1>1, <1>2, <3>1 DEF Announced
  <2>3. CASE u = s /\ d # cpuOf[s]
    <3>1. spc[s] \in {"insert", "send"}
      BY <1>1, <1>2, <2>3 DEF Announced
    <3>2. mode[s].type \notin {"AllExcludingSelf", "Self"}
      BY <1>2, <2>3, <3>1 DEF Migrate
    <3>3. SmpDoesCpuMatchDestination(mode[u], cpuOf'[u], c) <=>
          SmpDoesCpuMatchDestination(mode[u], cpuOf[u], c)
      BY <2>1, <2>3, <3>2 DEF SmpDoesCpuMatchDestination, AllModes
    <3>. QED  BY <1>1, <1>2, <3>3 DEF Announced
  <2>. QED  BY <2>2, <2>3
<1>. QED  BY <1>1, <1>2, IpiQuiet

(* A new call has put its event in no list yet.                            *)
LEMMA SmpSendGenericIpiExIpi ==
    ASSUME IpcInv, IpiInv, NEW s \in Senders, NEW m, NEW w, NEW e,
           SmpSendGenericIpiEx(s, m, w, e)
    PROVE  IpiInv'
<1>1. mishaps' = mishaps /\ panic' = panic /\ UNCHANGED <<eventList, irr, cpuOf>>
  BY DEF SmpSendGenericIpiEx, cpuVars
<1>2. ASSUME NEW c \in Cpus, NEW u \in Announced(c)'
      PROVE  u \in Announced(c)
  <2>1. u \in Senders
    BY <1>2 DEF Announced
  <2>2. CASE u = s
    <3>1. mode'[s] = m /\ cpuOf'[s] = cpuOf[s] /\ toInsert'[s] = SmpRetrieveMatchingCpus(m, cpuOf[s])
      BY DEF SmpSendGenericIpiEx, IpcInv, TypeOK
    <3>2. SmpDoesCpuMatchDestination(m, cpuOf[s], c) /\ c \notin SmpRetrieveMatchingCpus(m, cpuOf[s])
      BY <1>2, <2>2, <3>1 DEF Announced
    <3>. QED  BY <3>2 DEF SmpRetrieveMatchingCpus
  <2>3. CASE u # s
    <3>1. mode'[u] = mode[u] /\ cpuOf'[u] = cpuOf[u] /\ toInsert'[u] = toInsert[u] /\ spc'[u] = spc[u]
      BY <2>1, <2>3 DEF SmpSendGenericIpiEx, IpcInv, TypeOK
    <3>. QED  BY <1>2, <3>1 DEF Announced
  <2>. QED  BY <2>2, <2>3
<1>. QED  BY <1>1, <1>2, IpiQuiet

(* One more sender will interrupt the CPU whose list has become longer.    *)
LEMMA InsertEventIpi ==
    ASSUME IpcInv, IpiInv, NEW s \in Senders, NEW d \in Cpus, InsertEvent(s, d)
    PROVE  IpiInv'
<1>. SUFFICES ASSUME "strayed" \notin mishaps', NEW c \in Cpus
             PROVE  /\ ~panic'
                    /\ IsFiniteSet(Announced(c)')
                    /\ Cardinality(Announced(c)') + (IF irr'[c] THEN 1 ELSE 0) <= Len(eventList'[c])
  BY IpcAssumption DEF IpiInv
<1>1. /\ mishaps' = mishaps /\ panic' = panic /\ irr' = irr
      /\ UNCHANGED <<cpuOf, mode>>
  BY DEF InsertEvent
<1>2. "strayed" \notin mishaps /\ ~panic'
  BY <1>1 DEF IpiInv
<1>3. /\ spc \in [Senders -> SenderLocations] /\ toInsert \in [Senders -> SUBSET Cpus]
      /\ eventList \in [Cpus -> Seq(Events)]
  BY DEF IpcInv, TypeOK
<1>4. \A u \in Senders \ {s} : toInsert'[u] = toInsert[u] /\ spc'[u] = spc[u]
  BY <1>3 DEF InsertEvent
<1>5. /\ spc[s] = "insert" /\ spc'[s] \in {"insert", "send"} /\ d \in toInsert[s]
      /\ toInsert'[s] = toInsert[s] \ {d}
  BY <1>3 DEF InsertEvent, SenderAt
<1>6. CASE c # d
  <2>1. eventList'[c] = eventList[c]
    BY <1>3, <1>6 DEF InsertEvent
  <2>2. Announced(c)' = Announced(c)
    BY <1>1, <1>4, <1>5, <1>6 DEF Announced
  <2>. QED  BY <1>1, <1>2, <2>1, <2>2, AnnouncedFacts
<1>7. CASE c = d
  <2>1. Len(eventList'[c]) = Len(eventList[c]) + 1
    <3>1. eventList'[c] = Append(eventList[c], event[s])
      BY <1>3, <1>7 DEF InsertEvent
    <3>2. eventList[c] \in Seq(Events)
      BY <1>3
    <3>. QED  BY <3>1, <3>2
  <2>2. s \notin Announced(c)
    BY <1>5, <1>7 DEF Announced
  <2>3. Announced(c)' \subseteq Announced(c) \cup {s}
    BY <1>1, <1>4 DEF Announced
  <2>4. /\ IsFiniteSet(Announced(c) \cup {s})
        /\ Cardinality(Announced(c) \cup {s}) = Cardinality(Announced(c)) + 1
    BY <1>2, <2>2, AnnouncedFacts, FS_AddElement
  <2>5. /\ IsFiniteSet(Announced(c)') /\ Cardinality(Announced(c)') \in Nat
        /\ Cardinality(Announced(c)') <= Cardinality(Announced(c)) + 1
    BY <2>3, <2>4, FS_Subset, FS_CardinalityType
  <2>6. irr'[c] = irr[c]
    BY <1>1
  <2>. QED  BY <1>2, <2>1, <2>5, <2>6, AnnouncedFacts
<1>. QED  BY <1>6, <1>7

(* The IPIs of a call find its event in every list they are sent to.       *)
LEMMA SmpSendIpcIpiIpi ==
    ASSUME IpcInv, IpiInv, NEW s \in Senders, SmpSendIpcIpi(s)
    PROVE  IpiInv'
<1>. SUFFICES ASSUME "strayed" \notin mishaps', NEW c \in Cpus
             PROVE  /\ ~panic'
                    /\ IsFiniteSet(Announced(c)')
                    /\ Cardinality(Announced(c)') + (IF irr'[c] THEN 1 ELSE 0) <= Len(eventList'[c])
  BY IpcAssumption DEF IpiInv
<1>1. mishaps \subseteq mishaps' /\ panic' = panic /\ UNCHANGED <<eventList, cpuOf, mode, toInsert>>
  BY DEF SmpSendIpcIpi
<1>2. "strayed" \notin mishaps /\ ~panic'
  BY <1>1 DEF IpiInv
<1>3. /\ spc[s] = "send" /\ spc'[s] \in {"wait", "idle"} /\ toInsert[s] = {}
      /\ \A u \in Senders \ {s} : spc'[u] = spc[u]
  BY DEF SmpSendIpcIpi, SenderAt, IpcInv, TypeOK, SenderInv
<1>4. Announced(c)' \in SUBSET Announced(c) /\ s \notin Announced(c)'
  BY <1>1, <1>3 DEF Announced
<1>5. /\ IsFiniteSet(Announced(c)') /\ Cardinality(Announced(c)') \in Nat
      /\ Cardinality(Announced(c)') <= Cardinality(Announced(c))
      /\ s \in Announced(c) => Cardinality(Announced(c)') + 1 <= Cardinality(Announced(c))
  BY <1>2, <1>4, AnnouncedFacts
<1>6. eventList'[c] = eventList[c]
  BY <1>1
<1>7. CASE SmpDoesCpuMatchDestination(mode[s], cpuOf[s], c)
  <2>1. s \in Announced(c)
    BY <1>3, <1>7 DEF Announced
  <2>. QED  BY <1>2, <1>5, <1>6, <2>1, AnnouncedFacts
<1>8. CASE ~SmpDoesCpuMatchDestination(mode[s], cpuOf[s], c)
  <2>1. irr'[c] <=> irr[c]
    BY <1>8 DEF SmpSendIpcIpi, SmpRetrieveMatchingCpus
  <2>. QED  BY <1>2, <1>5, <1>6, <2>1, AnnouncedFacts
<1>. QED  BY <1>7, <1>8

(* The pending interrupt and one event disappear together.                 *)
LEMMA SmpIpcIpiIsrIpi ==
    ASSUME IpcInv, IpiInv, NEW d \in Cpus, SmpIpcIpiIsr(d)
    PROVE  IpiInv'
<1>. SUFFICES ASSUME "strayed" \notin mishaps', NEW c \in Cpus
             PROVE  /\ ~panic'
                    /\ IsFiniteSet(Announced(c)')
                    /\ Cardinality(Announced(c)') + (IF irr'[c] THEN 1 ELSE 0) <= Len(eventList'[c])
  BY IpcAssumption DEF IpiInv
<1>1. mishaps' = mishaps /\ UNCHANGED <<cpuOf, spc, mode, toInsert>>
  BY DEF SmpIpcIpiIsr, sendVars
<1>2. "strayed" \notin mishaps /\ ~panic
  BY <1>1 DEF IpiInv
<1>3. irr[d] /\ irr' = [irr EXCEPT ![d] = FALSE]
  BY DEF SmpIpcIpiIsr
<1>4. Len(eventList[d]) >= 1
  BY <1>2, <1>3, AnnouncedFacts
<1>5. eventList[d] # << >>
  BY <1>4
<1>6. ~panic' /\ eventList' = [eventList EXCEPT ![d] = Tail(@)]
  BY <1>2, <1>5 DEF SmpIpcIpiIsr
<1>7. Announced(c)' = Announced(c)
  BY <1>1 DEF Announced
<1>8. irr \in [Cpus -> BOOLEAN] /\ eventList \in [Cpus -> Seq(Events)]
  BY DEF IpcInv, TypeOK
<1>9. CASE c = d
  <2>1. irr'[c] = FALSE
    BY <1>3, <1>8, <1>9
  <2>2. eventList'[c] = Tail(eventList[c]) /\ eventList[c] \in Seq(Events) /\ eventList[c] # << >>
    BY <1>5, <1>6, <1>8, <1>9
  <2>3. Len(eventList'[c]) = Len(eventList[c]) - 1
    BY <2>2
  <2>. QED  BY <1>2, <1>3, <1>6, <1>7, <1>9, <2>1, <2>3, AnnouncedFacts
<1>10. CASE c # d
  <2>1. irr'[c] = irr[c] /\ eventList'[c] = eventList[c]
    BY <1>3, <1>6, <1>8, <1>10
  <2>. QED  BY <1>2, <1>6, <1>7, <2>1, AnnouncedFacts
<1>. QED  BY <1>9, <1>10

(* The other steps concern neither lists nor IPIs.                         *)
LEMMA IpiNext == IpcInv /\ IpiInv /\ [Next]_vars => IpiInv'
<1>. SUFFICES ASSUME IpcInv, IpiInv, [Next]_vars PROVE IpiInv'
  OBVIOUS
<1>1. ASSUME UNCHANGED <<eventList, irr, cpuOf, mode, toInsert, panic, mishaps>>,
             \A u \in Senders : spc'[u] \in {"insert", "send"} => spc'[u] = spc[u]
      PROVE  IpiInv'
  BY <1>1, IpiQuiet DEF Announced
<1>2. ASSUME NEW s \in Senders, SenderStep(s) PROVE IpiInv'
  <2>1. CASE IpcWaitForEventHandling(s)
    <3>1. spc' = [spc EXCEPT ![s] = "idle"] /\ spc \in [Senders -> SenderLocations]
      BY <2>1 DEF IpcWaitForEventHandling, IpcInv, TypeOK
    <3>2. UNCHANGED <<eventList, irr, cpuOf, mode, toInsert, panic, mishaps>>
      BY <2>1 DEF IpcWaitForEventHandling, cpuVars
    <3>. QED  BY <1>1, <3>1, <3>2
  <2>. QED
    BY <1>2, <2>1, SmpSendGenericIpiExIpi, InsertEventIpi, SmpSendIpcIpiIpi DEF SenderStep
<1>3. ASSUME NEW s \in Senders, NEW c \in Cpus, Migrate(s, c) PROVE IpiInv'
  BY <1>3, MigrateIpi
<1>4. ASSUME NEW c \in Cpus, HandlerStep(c) PROVE IpiInv'
  <2>1. CASE IpcProcessEvent(c) \/ IpcDereference(c) \/ IpcSignal(c)
    <3>1. UNCHANGED <<eventList, irr, cpuOf, mode, toInsert, panic, mishaps>> /\ spc' = spc
      BY <2>1 DEF IpcProcessEvent, IpcDereference, IpcSignal, sendVars
    <3>. QED  BY <1>1, <3>1
  <2>. QED  BY <1>4, <2>1, SmpIpcIpiIsrIpi DEF HandlerStep
<1>5. CASE UNCHANGED vars
  BY <1>1, <1>5 DEF vars, sendVars, cpuVars
<1>. QED  BY <1>2, <1>3, <1>4, <1>5 DEF Next

(* ASSERT(NULL != pListEntry) of _SmpIpcIpiIsr holds as long as no sender  *)
(* moved to another CPU with an IPI to "self" or "others" half sent, even  *)
(* though IPIs merge and one sender's IPI may take another's event.        *)
THEOREM IpcHandlerFindsEvent == Spec => []NoSpuriousIpi
<1>1. Init => IpiInv
  <2>. SUFFICES ASSUME Init, NEW c \in Cpus
               PROVE  /\ ~panic
                      /\ IsFiniteSet(Announced(c))
                      /\ Cardinality(Announced(c)) + (IF irr[c] THEN 1 ELSE 0) <= Len(eventList[c])
    BY IpcAssumption DEF IpiInv
  <2>1. Announced(c) = {} /\ ~irr[c] /\ eventList[c] = << >> /\ ~panic
    BY DEF Init, Announced
  <2>2. IsFiniteSet(Announced(c)) /\ Cardinality(Announced(c)) = 0
    BY <2>1, FS_EmptySet
  <2>. QED  BY <2>1, <2>2
<1>2. IpiInv => NoSpuriousIpi
  BY DEF IpiInv, NoSpuriousIpi
<1>. QED  BY <1>1, <1>2, IpcInvariant, IpiNext, PTL DEF Spec
=============================================================================
