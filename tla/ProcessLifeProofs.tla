-------------------------- MODULE ProcessLifeProofs --------------------------
(***************************************************************************)
(* Proofs about ProcessLife: the life of every process is sound, whoever   *)
(* drops its references and whoever is preempted, and user code runs with  *)
(* its own page tables, for any number of processors, threads, processes   *)
(* and PIDs.                                                               *)
(***************************************************************************)
EXTENDS ProcessLife, WellFoundedInduction, TLAPS

(* The destruction of p is on some stack, at step g.                       *)
Destroying(p, g) ==
    \E t \in ThreadIds : \E i \in DOMAIN work[t] :
        work[t][i].proc = p /\ work[t][i].step = g

(* The count of p has reached zero: _ProcessDestroy runs or has run.       *)
Doomed(p) == p \in freed \/ \E g \in Steps \ {"last"} : Destroying(p, g)

(* Some CPU has yet to clean up after the dying thread of p.               *)
Switching(p) == \E c \in Cpus : prev[c] = p

HasThread == {"made", "run", "exit", "dead"}

(* No code of p will run again.                                            *)
Over(p) == tState[p] = "gone" \/ (stage[p] = "failed" /\ tState[p] = "none")

(* What the thread of p does at each stage of the creator of p, and who    *)
(* holds references to it: it itself until the CPU has switched away from  *)
(* it, and UmApplicationRun until it has closed its handle.                *)
ThreadInv(p) ==
    /\ stage[p] \in {"none", "new", "header", "space", "loaded"} => tState[p] = "none"
    /\ stage[p] = "inserted" => tState[p] = "made"
    /\ stage[p] = "started" => tState[p] \in {"run", "exit", "dead"}
    /\ stage[p] \in {"unnamed", "open", "waited", "closed"} =>
           tState[p] \in {"run", "exit", "dead", "gone"}
    /\ stage[p] \in {"failing", "failed"} => tState[p] \in {"none", "made"}
    /\ Switching(p) => tState[p] = "dead"
    /\ tState[p] = "dead" => Switching(p) \/ stage[p] = "started"
    /\ tState[p] \in {"none", "gone"} => tRef[p] = 0
    /\ tState[p] = "made" => tRef[p] = 2
    /\ tState[p] \in {"run", "exit"} => tRef[p] = (IF stage[p] = "started" THEN 2 ELSE 1)
    /\ tState[p] = "dead" =>
           tRef[p] = (IF stage[p] = "started" /\ Switching(p) THEN 2 ELSE 1)
    /\ nThreads[p] = (IF tState[p] \in HasThread THEN 1 ELSE 0)
    /\ active[p] = (IF tState[p] \in {"made", "run"} THEN 1 ELSE 0)
    /\ signaled[p] <=> tState[p] \in {"exit", "dead", "gone"}

(* The references to p, and that it is destroyed when the last is dropped, *)
(* once.                                                                   *)
CountInv(p) ==
    /\ stage[p] = "none" <=> pid[p] = 0
    /\ stage[p] # "none" => creator[p] \in Creators
    /\ p \notin freed =>
         refCnt[p] = nThreads[p]
                   + (IF \/ stage[p] \in Creating /\ tState[p] # "gone"
                         \/ stage[p] \in {"open", "waited", "closed"} /\ tState[p] # "gone"
                         \/ Destroying(p, "last")
                      THEN 1 ELSE 0)
                   + (IF stage[p] \in {"open", "waited"} THEN 1 ELSE 0)
    /\ Destroying(p, "last") => tState[p] = "gone" /\ p \notin freed /\ ~Doomed(p)
    /\ (Doomed(p) /\ ~panic) => refCnt[p] = 0 /\ stage[p] \in {"unnamed", "closed", "failed"}
    /\ Doomed(p) => Over(p)
    /\ (stage[p] # "none" /\ refCnt[p] = 0) => Doomed(p)

(* The page tables of p, and the translations of p on the CPU that         *)
(* invalidated them.                                                       *)
TableInv(p) ==
    /\ stage[p] \in {"space", "loaded"} => p \in tables
    /\ tState[p] \in HasThread => p \in tables
    /\ flushedOn[p] # None => Doomed(p)
    /\ \A c \in Cpus : flushedOn[p] = c => p \notin tlb[c]

ProcInv(p) == ThreadInv(p) /\ CountInv(p) /\ TableInv(p)

(* Every thread is in one place.                                           *)
PlaceInv ==
    /\ \A c, d \in Cpus : run[c] = run[d] => c = d
    /\ \A c \in Cpus : run[c] \in Cpus => run[c] = c
    /\ \A c \in Cpus : run[c] \notin ready
    /\ \A c \in Cpus : run[c] \in Processes => tState[run[c]] \in {"run", "exit"}
    /\ \A p \in Processes : p \in ready => tState[p] = "run"
    /\ \A c, d \in Cpus : (prev[c] # None /\ prev[c] = prev[d]) => c = d

(* A process is destroyed in one place, and not after it has been freed.   *)
StackInv ==
    /\ \A t, u \in ThreadIds : \A i \in DOMAIN work[t], j \in DOMAIN work[u] :
           work[t][i].proc = work[u][j].proc => t = u /\ i = j
    /\ \A t \in ThreadIds : \A i \in DOMAIN work[t] : work[t][i].proc \notin freed

(* A thread of a process only destroys with interrupts off, one at a time. *)
UserWorkInv ==
    \A p \in Processes : work[p] # <<>> =>
        /\ Len(work[p]) = 1 /\ work[p][1].masked
        /\ \E c \in Cpus : run[c] = p /\ prev[c] = None

(* The page tables in use while a thread of a process runs.                *)
Cr3Inv ==
    \A c \in Cpus :
        (/\ run[c] \in Processes
         /\ work[run[c]] = <<>> \/ work[run[c]][1].step # "restore")
        => cr3[c] = run[c]

LifeInv ==
    /\ TypeOK
    /\ PlaceInv
    /\ StackInv
    /\ UserWorkInv
    /\ Cr3Inv
    /\ PidExclusive
    /\ \A p \in Processes : ProcInv(p)

-----------------------------------------------------------------------------
(* The stacks of destructions.                                             *)

Records == [proc : Processes, step : Steps, masked : BOOLEAN]
WorkType == work \in [ThreadIds -> Seq(Records)]

(* Process q is as far in its destruction as it was.                       *)
SameDestruction(q) ==
    /\ Destroying(q, "last")' <=> Destroying(q, "last")
    /\ Doomed(q)' <=> Doomed(q)

LEMMA PushFacts ==
    ASSUME NEW S, NEW s \in Seq(S), NEW r \in S
    PROVE  /\ <<r>> \o s \in Seq(S)
           /\ <<r>> \o s # <<>>
           /\ Len(<<r>> \o s) = Len(s) + 1
           /\ DOMAIN (<<r>> \o s) = 1 .. Len(s) + 1
           /\ (<<r>> \o s)[1] = r
           /\ \A i \in 2 .. Len(s) + 1 : i - 1 \in DOMAIN s /\ (<<r>> \o s)[i] = s[i - 1]
  OBVIOUS

LEMMA TailFacts ==
    ASSUME NEW S, NEW s \in Seq(S), s # <<>>
    PROVE  /\ Tail(s) \in Seq(S)
           /\ Len(Tail(s)) = Len(s) - 1
           /\ DOMAIN Tail(s) = 1 .. Len(s) - 1
           /\ \A i \in 1 .. Len(s) - 1 : i + 1 \in DOMAIN s /\ Tail(s)[i] = s[i + 1]
           /\ Head(s) = s[1] /\ 1 \in DOMAIN s /\ s[1] \in S
  OBVIOUS

(* A destruction that was on no stack is pushed on one.                    *)
LEMMA WorkPush ==
    ASSUME WorkType, StackInv, NEW t \in ThreadIds, NEW p \in Processes, NEW g \in Steps,
           NEW m \in BOOLEAN, p \notin freed, ~Destroying(p, "last"), ~Doomed(p), freed' = freed,
           work' = [work EXCEPT ![t] = <<[proc |-> p, step |-> g, masked |-> m]>> \o work[t]]
    PROVE  /\ WorkType' /\ StackInv'
           /\ \A u \in ThreadIds \ {t} : work'[u] = work[u]
           /\ work'[t] # <<>> /\ Len(work'[t]) = Len(work[t]) + 1
           /\ work'[t][1].masked = m /\ work'[t][1].step = g
           /\ \A q \in Processes \ {p} : SameDestruction(q)
           /\ Destroying(p, "last")' <=> g = "last"
           /\ Doomed(p)' <=> g # "last"
<1> DEFINE r == [proc |-> p, step |-> g, masked |-> m]
<1>1. r \in Records /\ r.proc = p /\ r.step = g /\ r.masked = m
  BY DEF Records
<1>2. work[t] \in Seq(Records)
  BY DEF WorkType
<1>3. work'[t] = <<r>> \o work[t] /\ \A u \in ThreadIds \ {t} : work'[u] = work[u]
  BY DEF WorkType
<1> HIDE DEF r
<1>4. /\ work'[t] \in Seq(Records) /\ work'[t] # <<>> /\ Len(work'[t]) = Len(work[t]) + 1
      /\ DOMAIN work'[t] = 1 .. Len(work[t]) + 1 /\ work'[t][1] = r
      /\ \A i \in 2 .. Len(work[t]) + 1 : i - 1 \in DOMAIN work[t] /\ work'[t][i] = work[t][i - 1]
  BY <1>1, <1>2, <1>3, PushFacts
<1>5. WorkType'
  BY <1>3, <1>4 DEF WorkType
<1>6. \A u \in ThreadIds : \A i \in DOMAIN work[u] : work[u][i].proc # p
  <2> SUFFICES ASSUME NEW u \in ThreadIds, NEW i \in DOMAIN work[u], work[u][i].proc = p PROVE FALSE
    OBVIOUS
  <2>1. work[u] \in Seq(Records)
    BY DEF WorkType
  <2>2. work[u][i] \in Records
    BY <2>1
  <2>3. work[u][i].step \in Steps
    BY <2>2 DEF Records
  <2>4. Destroying(p, work[u][i].step)
    BY DEF Destroying
  <2> QED BY <2>3, <2>4 DEF Doomed
<1>7. \A u \in ThreadIds : \A i \in DOMAIN work'[u] :
         \/ u = t /\ i = 1 /\ work'[u][i] = r
         \/ u # t /\ i \in DOMAIN work[u] /\ work'[u][i] = work[u][i]
         \/ u = t /\ i \in 2 .. Len(work[t]) + 1 /\ i - 1 \in DOMAIN work[u] /\ work'[u][i] = work[u][i - 1]
  BY <1>2, <1>3, <1>4
<1>8. StackInv'
  <2>1. ASSUME NEW u \in ThreadIds, NEW v \in ThreadIds, NEW i \in DOMAIN work'[u],
               NEW j \in DOMAIN work'[v], work'[u][i].proc = work'[v][j].proc
        PROVE  u = v /\ i = j
    BY <1>1, <1>6, <1>7, <2>1 DEF StackInv
  <2>2. ASSUME NEW u \in ThreadIds, NEW i \in DOMAIN work'[u]
        PROVE  work'[u][i].proc \notin freed'
    BY <1>1, <1>7, <2>2 DEF StackInv
  <2> QED BY <2>1, <2>2 DEF StackInv
<1>9. \A q \in Processes, h \in Steps : Destroying(q, h)' <=> Destroying(q, h) \/ (q = p /\ h = g)
  <2> SUFFICES ASSUME NEW q \in Processes, NEW h \in Steps
               PROVE  Destroying(q, h)' <=> Destroying(q, h) \/ (q = p /\ h = g)
    OBVIOUS
  <2>1. Destroying(q, h)' => Destroying(q, h) \/ (q = p /\ h = g)
    BY <1>1, <1>7 DEF Destroying
  <2>2. Destroying(q, h) => Destroying(q, h)'
    <3> SUFFICES ASSUME NEW u \in ThreadIds, NEW i \in DOMAIN work[u], work[u][i].proc = q,
                        work[u][i].step = h
                 PROVE  Destroying(q, h)'
      BY DEF Destroying
    <3>1. CASE u # t
      BY <1>3, <3>1 DEF Destroying
    <3>2. CASE u = t
      <4>1. i + 1 \in 2 .. Len(work[t]) + 1 /\ work'[t][i + 1] = work[t][i]
        BY <1>2, <1>4, <3>2
      <4> QED BY <1>4, <3>2, <4>1 DEF Destroying
    <3> QED BY <3>1, <3>2
  <2>3. (q = p /\ h = g) => Destroying(q, h)'
    BY <1>1, <1>4 DEF Destroying
  <2> QED BY <2>1, <2>2, <2>3
<1>10. "last" \in Steps
  BY DEF Steps
<1>11. /\ \A q \in Processes \ {p} : SameDestruction(q)
       /\ Destroying(p, "last")' <=> g = "last"
       /\ Doomed(p)' <=> g # "last"
  <2> HIDE DEF Steps
  <2> QED BY <1>9, <1>10 DEF SameDestruction, Doomed
<1> QED BY <1>1, <1>3, <1>4, <1>5, <1>8, <1>11

(* Stack s is w with its innermost destruction, that of p, at step g.      *)
MovedTo(s, w, p, g) ==
    /\ s \in Seq(Records) /\ w # <<>> /\ Len(s) = Len(w)
    /\ w[1].proc = p /\ s[1].proc = p /\ s[1].step = g
    /\ \A i \in 2 .. Len(s) : s[i] = w[i]

(* The innermost destruction of a stack goes on to step g, past "last".    *)
LEMMA WorkReplace ==
    ASSUME WorkType, StackInv, NEW t \in ThreadIds, NEW p \in Processes, NEW g \in Steps \ {"last"},
           freed' = freed, NEW s, work' = [work EXCEPT ![t] = s], MovedTo(s, work[t], p, g)
    PROVE  /\ WorkType' /\ StackInv'
           /\ \A u \in ThreadIds \ {t} : work'[u] = work[u]
           /\ work'[t] = s /\ s # <<>>
           /\ \A q \in Processes \ {p} : SameDestruction(q)
           /\ ~Destroying(p, "last")' /\ Doomed(p)'
<1> USE DEF MovedTo
<1>1. work'[t] = s /\ \A u \in ThreadIds \ {t} : work'[u] = work[u]
  BY DEF WorkType
<1>2. \A u \in ThreadIds : work[u] \in Seq(Records) /\ work'[u] \in Seq(Records)
  BY <1>1 DEF WorkType
<1>3. WorkType'
  BY <1>1 DEF WorkType
<1>4. 1 \in DOMAIN work[t] /\ DOMAIN work[t] = 1 .. Len(work[t]) /\ s # <<>>
  BY <1>2
<1>5. \A u \in ThreadIds : /\ DOMAIN work'[u] = DOMAIN work[u]
                           /\ \A i \in DOMAIN work[u] : work'[u][i].proc = work[u][i].proc
  BY <1>1, <1>2, <1>4
<1>6. StackInv'
  BY <1>5 DEF StackInv
<1>7. \A u \in ThreadIds : \A i \in DOMAIN work[u] : work[u][i].proc # p => work'[u][i] = work[u][i]
  BY <1>1, <1>2, <1>4
<1>8. \A u \in ThreadIds : \A i \in DOMAIN work[u] : work[u][i].proc = p => u = t /\ i = 1
  BY <1>4 DEF StackInv
<1>9. \A q \in Processes \ {p}, h \in Steps : Destroying(q, h)' <=> Destroying(q, h)
  BY <1>5, <1>7 DEF Destroying
<1>10. \A h \in Steps : Destroying(p, h)' <=> h = g
  BY <1>1, <1>4, <1>5, <1>8 DEF Destroying
<1>11. p \notin freed
  BY <1>4 DEF StackInv
<1>12. "last" \in Steps
  BY DEF Steps
<1> HIDE DEF Steps
<1> QED BY <1>1, <1>3, <1>4, <1>6, <1>9, <1>10, <1>11, <1>12 DEF SameDestruction, Doomed

(* GoOn is such a step.                                                    *)
LEMMA GoOnFacts ==
    ASSUME WorkType, NEW c \in Cpus, run[c] \in ThreadIds, work[run[c]] # <<>>, NEW g \in Steps, GoOn(c, g)
    PROVE  \E s \in Seq(Records) :
              /\ work' = [work EXCEPT ![run[c]] = s]
              /\ Len(s) = Len(work[run[c]])
              /\ s[1].proc = work[run[c]][1].proc
              /\ s[1].step = g
              /\ s[1].masked = work[run[c]][1].masked
              /\ \A i \in 2 .. Len(s) : s[i] = work[run[c]][i]
<1> DEFINE w == work[run[c]]
           r == [w[1] EXCEPT !.step = g]
           s == [w EXCEPT ![1] = r]
<1>1. w \in Seq(Records)
  BY DEF WorkType
<1>2. 1 \in DOMAIN w /\ w[1] \in Records /\ w # <<>>
  BY <1>1
<1>3. r \in Records /\ r.proc = w[1].proc /\ r.step = g /\ r.masked = w[1].masked
  BY <1>2 DEF Records
<1>4. work' = [work EXCEPT ![run[c]] = s]
  BY DEF GoOn
<1> HIDE DEF w, r
<1>5. /\ s \in Seq(Records) /\ Len(s) = Len(w) /\ s[1] = r
      /\ \A i \in 2 .. Len(s) : s[i] = w[i]
  BY <1>1, <1>2, <1>3
<1> HIDE DEF s
<1> QED BY <1>3, <1>4, <1>5 DEF w

(* The innermost destruction of a stack is taken off it: the process has   *)
(* been freed, or somebody still refers to it.                             *)
LEMMA WorkPop ==
    ASSUME WorkType, StackInv, NEW t \in ThreadIds, NEW p \in Processes,
           work[t] # <<>>, work[t][1].proc = p, freed' \in {freed, freed \cup {p}},
           work' = [work EXCEPT ![t] = Tail(work[t])]
    PROVE  /\ WorkType' /\ StackInv'
           /\ \A u \in ThreadIds \ {t} : work'[u] = work[u]
           /\ work'[t] = Tail(work[t]) /\ Len(work'[t]) = Len(work[t]) - 1
           /\ \A q \in Processes \ {p} : SameDestruction(q)
           /\ ~Destroying(p, "last")'
           /\ Doomed(p)' <=> p \in freed'
<1>1. work'[t] = Tail(work[t]) /\ \A u \in ThreadIds \ {t} : work'[u] = work[u]
  BY DEF WorkType
<1>2. work[t] \in Seq(Records)
  BY DEF WorkType
<1>3. /\ work'[t] \in Seq(Records) /\ Len(work'[t]) = Len(work[t]) - 1
      /\ DOMAIN work'[t] = 1 .. Len(work[t]) - 1
      /\ \A i \in 1 .. Len(work[t]) - 1 : i + 1 \in DOMAIN work[t] /\ work'[t][i] = work[t][i + 1]
      /\ 1 \in DOMAIN work[t]
  <2> DEFINE w == work[t]
  <2> HIDE DEF w
  <2>1. w \in Seq(Records) /\ w # <<>>
    BY <1>2 DEF w
  <2>2. /\ Tail(w) \in Seq(Records) /\ Len(Tail(w)) = Len(w) - 1 /\ DOMAIN Tail(w) = 1 .. Len(w) - 1
        /\ \A i \in 1 .. Len(w) - 1 : i + 1 \in DOMAIN w /\ Tail(w)[i] = w[i + 1]
        /\ 1 \in DOMAIN w
    BY <2>1, TailFacts
  <2> QED BY <1>1, <2>2, Zenon DEF w
<1>4. WorkType'
  BY <1>1, <1>3 DEF WorkType
<1>5. \A u \in ThreadIds : \A i \in DOMAIN work[u] : work[u][i].proc = p => u = t /\ i = 1
  BY <1>3 DEF StackInv
<1>6. \A u \in ThreadIds : \A i \in DOMAIN work'[u] :
         \/ u # t /\ i \in DOMAIN work[u] /\ work'[u][i] = work[u][i]
         \/ u = t /\ i \in 1 .. Len(work[t]) - 1 /\ i + 1 \in DOMAIN work[u] /\ work'[u][i] = work[u][i + 1]
  BY <1>1, <1>3
<1>7. Len(work[t]) \in Nat
  BY <1>2
<1>8. \A u \in ThreadIds : \A i \in DOMAIN work'[u] : work'[u][i].proc # p
  BY <1>5, <1>6, <1>7
<1>9. StackInv'
  <2>1. ASSUME NEW u \in ThreadIds, NEW v \in ThreadIds, NEW i \in DOMAIN work'[u],
               NEW j \in DOMAIN work'[v], work'[u][i].proc = work'[v][j].proc
        PROVE  u = v /\ i = j
    <3>1. CASE u = t /\ v = t
      <4>1. /\ i \in 1 .. Len(work[t]) - 1 /\ i + 1 \in DOMAIN work[t] /\ work'[u][i] = work[t][i + 1]
            /\ j \in 1 .. Len(work[t]) - 1 /\ j + 1 \in DOMAIN work[t] /\ work'[v][j] = work[t][j + 1]
        BY <1>6, <3>1
      <4>2. i + 1 = j + 1
        BY <2>1, <4>1 DEF StackInv
      <4> QED BY <1>7, <3>1, <4>1, <4>2
    <3>2. CASE ~(u = t /\ v = t)
      BY <1>6, <2>1, <3>2 DEF StackInv
    <3> QED BY <3>1, <3>2
  <2>2. ASSUME NEW u \in ThreadIds, NEW i \in DOMAIN work'[u]
        PROVE  work'[u][i].proc \notin freed'
    BY <1>6, <1>8, <2>2 DEF StackInv
  <2> QED BY <2>1, <2>2 DEF StackInv
<1>10. \A q \in Processes \ {p}, h \in Steps : Destroying(q, h)' <=> Destroying(q, h)
  <2> SUFFICES ASSUME NEW q \in Processes \ {p}, NEW h \in Steps
               PROVE  Destroying(q, h)' <=> Destroying(q, h)
    OBVIOUS
  <2>1. Destroying(q, h)' => Destroying(q, h)
    BY <1>6 DEF Destroying
  <2>2. Destroying(q, h) => Destroying(q, h)'
    <3> SUFFICES ASSUME NEW u \in ThreadIds, NEW i \in DOMAIN work[u], work[u][i].proc = q,
                        work[u][i].step = h
                 PROVE  Destroying(q, h)'
      BY DEF Destroying
    <3>1. CASE u # t
      BY <1>1, <3>1 DEF Destroying
    <3>2. CASE u = t
      <4>1. i # 1 /\ i \in 1 .. Len(work[t])
        BY <1>2, <3>2
      <4>2. i - 1 \in 1 .. Len(work[t]) - 1 /\ work'[t][i - 1] = work[t][i]
        BY <1>3, <1>7, <4>1
      <4> QED BY <1>3, <3>2, <4>2 DEF Destroying
    <3> QED BY <3>1, <3>2
  <2> QED BY <2>1, <2>2
<1>11. \A h \in Steps : ~Destroying(p, h)'
  BY <1>8 DEF Destroying
<1>12. "last" \in Steps
  BY DEF Steps
<1> HIDE DEF Steps
<1> QED BY <1>1, <1>3, <1>4, <1>9, <1>10, <1>11, <1>12 DEF SameDestruction, Doomed

-----------------------------------------------------------------------------
(* What a step leaves alone.                                               *)

(* The step leaves process q, and how far its destruction is, alone.       *)
SameProcess(q) ==
    /\ stage'[q] = stage[q] /\ creator'[q] = creator[q] /\ refCnt'[q] = refCnt[q]
    /\ nThreads'[q] = nThreads[q] /\ active'[q] = active[q] /\ signaled'[q] = signaled[q]
    /\ pid'[q] = pid[q] /\ tRef'[q] = tRef[q] /\ tState'[q] = tState[q]
    /\ flushedOn'[q] = flushedOn[q]
    /\ q \in tables' <=> q \in tables
    /\ q \in freed' <=> q \in freed
    /\ Switching(q)' <=> Switching(q)
    /\ SameDestruction(q)
    /\ \A c \in Cpus : (flushedOn[q] = c /\ q \in tlb'[c]) => q \in tlb[c]

LEMMA ProcFrame ==
    ASSUME NEW q \in Processes, ProcInv(q), SameProcess(q), ~panic
    PROVE  ProcInv(q)'
<1> USE DEF SameProcess, SameDestruction
<1>1. ThreadInv(q)'
  BY DEF ProcInv, ThreadInv
<1>2. CountInv(q)'
  BY DEF ProcInv, CountInv, Over
<1>3. TableInv(q)'
  BY DEF ProcInv, TableInv
<1> QED BY <1>1, <1>2, <1>3 DEF ProcInv

(* Whoever is preempted or dies, the threads stay where they are.          *)
LEMMA PlaceFrame ==
    ASSUME PlaceInv, UNCHANGED <<run, ready>>,
           \A c \in Cpus : prev'[c] \in {prev[c], None},
           \A q \in Processes : \/ tState'[q] = tState[q]
                                \/ tState[q] \notin {"run", "exit"}
                                \/ tState'[q] = "exit" /\ q \notin ready
    PROVE  PlaceInv'
  BY DEF PlaceInv

(* No thread of a process destroys anything in the step.                   *)
LEMMA UserFrame ==
    ASSUME UserWorkInv, Cr3Inv, UNCHANGED <<run, cr3>>,
           \A c \in Cpus : prev'[c] \in {prev[c], None},
           \A q \in Processes : work'[q] = work[q]
    PROVE  UserWorkInv' /\ Cr3Inv'
<1>1. UserWorkInv'
  BY DEF UserWorkInv
<1>2. Cr3Inv'
  BY DEF Cr3Inv
<1> QED BY <1>1, <1>2

LEMMA WorkFrame ==
    ASSUME StackInv, UNCHANGED <<work, freed>>
    PROVE  StackInv' /\ \A q \in Processes : SameDestruction(q)
<1>1. StackInv'
  BY DEF StackInv
<1>2. \A q \in Processes : SameDestruction(q)
  BY DEF SameDestruction, Doomed, Destroying
<1> QED BY <1>1, <1>2

LEMMA PidFrame ==
    ASSUME PidExclusive, UNCHANGED <<pid, pidBitmap, freed>>
    PROVE  PidExclusive'
  BY DEF PidExclusive

(* A step of the creator of p in which nobody moves and nothing is         *)
(* destroyed.                                                              *)
LEMMA QuietFrame ==
    ASSUME LifeInv, UNCHANGED <<run, prev, ready, cr3, work, freed>>,
           \A q \in Processes : \/ tState'[q] = tState[q]
                                \/ tState[q] \notin {"run", "exit"}
                                \/ tState'[q] = "exit" /\ q \notin ready
    PROVE  /\ PlaceInv' /\ StackInv' /\ UserWorkInv' /\ Cr3Inv'
           /\ \A q \in Processes : SameDestruction(q) /\ (Switching(q)' <=> Switching(q))
<1>1. PlaceInv'
  BY PlaceFrame DEF LifeInv
<1>2. UserWorkInv' /\ Cr3Inv'
  BY UserFrame DEF LifeInv
<1>3. StackInv' /\ \A q \in Processes : SameDestruction(q)
  BY WorkFrame DEF LifeInv
<1>4. \A q \in Processes : Switching(q)' <=> Switching(q)
  BY DEF Switching
<1> QED BY <1>1, <1>2, <1>3, <1>4

(* The invariant, from what a step does to process p.                      *)
LEMMA Assemble ==
    ASSUME LifeInv, ~panic, NEW p \in Processes, \A q \in Processes \ {p} : SameProcess(q),
           ProcInv(p)', TypeOK', PlaceInv', StackInv', UserWorkInv', Cr3Inv', PidExclusive'
    PROVE  LifeInv'
<1>1. \A q \in Processes : ProcInv(q)'
  BY ProcFrame DEF LifeInv
<1> QED BY <1>1 DEF LifeInv

-----------------------------------------------------------------------------
(* The creator.                                                            *)

(* Any set of PIDs has a least element, so _ProcessInit finds a free one.  *)
LEMMA LeastPid ==
    ASSUME NEW S, S \subseteq Nat, S # {}
    PROVE  Min(S) \in S
<1> DEFINE R == OpToRel(<, Nat)
<1>1. IsWellFoundedOn(R, Nat)
  BY NatLessThanWellFounded
<1>2. \A x, y \in Nat : x < y => <<x, y>> \in R
  BY DEF OpToRel
<1> HIDE DEF R
<1>3. PICK x \in S : \A y \in S : ~(<<y, x>> \in R)
  BY <1>1, WFMin, Zenon
<1>4. \A y \in S : ~(y < x)
  BY <1>2, <1>3, Zenon
<1>5. \A y \in S : x <= y
  BY <1>4
<1> QED BY <1>5 DEF Min

LEMMA ProcessInitInv ==
    ASSUME LifeInv, NEW c \in Cpus, NEW t \in Creators, NEW p \in Processes, ProcessInit(c, t, p)
    PROVE  LifeInv'
<1>1. /\ ~panic /\ stage[p] = "none"
      /\ UNCHANGED <<run, prev, ready, cr3, tlb, nThreads, active, signaled, tables, freed, tRef,
                     tState, work, flushedOn>>
  BY DEF ProcessInit, Executing, cpuVars, evtVars, tVars
<1>2. /\ PlaceInv' /\ StackInv' /\ UserWorkInv' /\ Cr3Inv'
      /\ \A q \in Processes : SameDestruction(q) /\ (Switching(q)' <=> Switching(q))
  BY <1>1, QuietFrame
<1>3. CASE panic' = TRUE /\ UNCHANGED <<stage, creator, refCnt, pidVars>>
  <2>1. \A q \in Processes : SameProcess(q)
    BY <1>1, <1>2, <1>3 DEF SameProcess, pidVars
  <2>2. TypeOK' /\ PidExclusive'
    BY <1>1, <1>3, PidFrame DEF LifeInv, TypeOK, pidVars
  <2>3. ProcInv(p)'
    BY <1>1, <2>1, ProcFrame DEF LifeInv
  <2> QED BY <1>1, <1>2, <2>1, <2>2, <2>3, Assemble
<1>4. CASE ~(panic' = TRUE /\ UNCHANGED <<stage, creator, refCnt, pidVars>>)
  <2> DEFINE id == Min(Pids \ pidBitmap)
  <2>1. /\ pid' = [pid EXCEPT ![p] = id]
        /\ pidBitmap' = pidBitmap \cup {id}
        /\ list' = list \cup {p}
        /\ refCnt' = [refCnt EXCEPT ![p] = 1]
        /\ stage' = [stage EXCEPT ![p] = "new"]
        /\ creator' = [creator EXCEPT ![p] = t]
        /\ panic' = panic
        /\ ~(Pids \subseteq pidBitmap)
    BY <1>4 DEF ProcessInit
  <2>2. id \in Pids /\ id \notin pidBitmap /\ id # 0
    <3>1. Pids \ pidBitmap \subseteq Nat /\ Pids \ pidBitmap # {}
      BY <2>1, ProcessAssumption
    <3>2. id \in Pids \ pidBitmap
      BY <3>1, LeastPid
    <3> HIDE DEF id
    <3> QED BY <3>2, ProcessAssumption
  <2> HIDE DEF id
  <2>3. /\ stage'[p] = "new" /\ creator'[p] = t /\ refCnt'[p] = 1 /\ pid'[p] = id
        /\ \A q \in Processes \ {p} : /\ stage'[q] = stage[q] /\ creator'[q] = creator[q]
                                      /\ refCnt'[q] = refCnt[q] /\ pid'[q] = pid[q]
    BY <2>1 DEF LifeInv, TypeOK
  <2>4. TypeOK'
    <3>1. /\ stage' \in [Processes -> Stages] /\ creator' \in [Processes -> Creators \cup {None}]
          /\ refCnt' \in [Processes -> 0 .. 3] /\ pid' \in [Processes -> Pids \cup {0}]
          /\ pidBitmap' \in SUBSET Pids /\ list' \in SUBSET Processes /\ panic' \in BOOLEAN
      BY <2>1, <2>2 DEF LifeInv, TypeOK, Stages, Creating
    <3> QED BY <1>1, <3>1 DEF LifeInv, TypeOK
  <2>5. \A q \in Processes \ {p} : SameProcess(q)
    BY <1>1, <1>2, <2>3 DEF SameProcess
  <2>6. ThreadInv(p) /\ CountInv(p) /\ TableInv(p)
    BY DEF LifeInv, ProcInv
  <2>7. tState[p] = "none" /\ ~Doomed(p) /\ ~Destroying(p, "last") /\ p \notin freed /\ nThreads[p] = 0
        /\ pid[p] = 0
    BY <1>1, <2>6 DEF ThreadInv, CountInv, Over, Doomed, HasThread
  <2>8. ProcInv(p)'
    <3>1. ThreadInv(p)'
      BY <1>1, <1>2, <2>3, <2>6, <2>7 DEF ThreadInv
    <3>2. CountInv(p)'
      BY <1>1, <1>2, <2>2, <2>3, <2>6, <2>7 DEF CountInv, SameDestruction, Creating
    <3>3. TableInv(p)'
      BY <1>1, <1>2, <2>3, <2>6, <2>7 DEF TableInv, SameDestruction
    <3> QED BY <3>1, <3>2, <3>3 DEF ProcInv
  <2>9. PidExclusive'
    <3>1. \A x, y \in Processes \ freed : (pid[x] # 0 /\ pid[y] # 0 /\ pid[x] = pid[y]) => x = y
      BY DEF LifeInv, PidExclusive
    <3>2. \A x \in Processes \ freed : pid[x] # 0 => pid[x] \in pidBitmap
      BY DEF LifeInv, PidExclusive
    <3>3. \A n \in pidBitmap : \E x \in Processes \ freed : pid[x] # 0 /\ pid[x] = n
      BY DEF LifeInv, PidExclusive
    <3>4. \A x, y \in Processes \ freed : (pid'[x] # 0 /\ pid'[y] # 0 /\ pid'[x] = pid'[y]) => x = y
      BY <2>2, <2>3, <3>1, <3>2
    <3>5. \A x \in Processes \ freed : pid'[x] # 0 => pid'[x] \in pidBitmap'
      BY <2>1, <2>3, <3>2
    <3>6. \A n \in pidBitmap' : \E x \in Processes \ freed : pid'[x] # 0 /\ pid'[x] = n
      BY <2>1, <2>2, <2>3, <2>7, <3>3
    <3> QED BY <1>1, <3>4, <3>5, <3>6 DEF PidExclusive
  <2> QED BY <1>1, <1>2, <2>4, <2>5, <2>8, <2>9, Assemble
<1> QED BY <1>3, <1>4

(* The steps of ProcessCreate that only change what has been done so far,  *)
(* and ProcessWaitForTermination.                                          *)
LEMMA StageInv ==
    ASSUME LifeInv, ~panic, NEW p \in Processes, NEW g \in Stages,
           stage' = [stage EXCEPT ![p] = g],
           \/ stage[p] = "new" /\ g \in {"header", "failing"}
           \/ stage[p] = "space" /\ g \in {"loaded", "failing"}
           \/ stage[p] = "header" /\ g \in {"space", "failing"}
           \/ stage[p] = "loaded" /\ g = "failing"
           \/ stage[p] = "inserted" /\ g = "failing"
           \/ stage[p] = "open" /\ g = "waited",
           IF g = "space" THEN tables' = tables \cup {p} ELSE tables' = tables,
           UNCHANGED <<cpuVars, creator, refCnt, nThreads, evtVars, pidVars,
                       freed, tVars, work, flushedOn, panic>>
    PROVE  LifeInv'
<1>1. UNCHANGED <<run, prev, ready, cr3, tlb, creator, refCnt, nThreads, active, signaled, pid, pidBitmap,
                  list, freed, tRef, tState, work, flushedOn, panic>>
  BY DEF cpuVars, evtVars, tVars, pidVars
<1>2. /\ PlaceInv' /\ StackInv' /\ UserWorkInv' /\ Cr3Inv'
      /\ \A q \in Processes : SameDestruction(q) /\ (Switching(q)' <=> Switching(q))
  BY <1>1, QuietFrame
<1>3. stage'[p] = g /\ \A q \in Processes \ {p} : stage'[q] = stage[q]
  BY DEF LifeInv, TypeOK
<1>4. p \in tables => p \in tables'
  OBVIOUS
<1>5. TypeOK'
  BY <1>1 DEF LifeInv, TypeOK
<1>6. PidExclusive'
  BY <1>1, PidFrame DEF LifeInv
<1>7. \A q \in Processes \ {p} : SameProcess(q)
  BY <1>1, <1>2, <1>3 DEF SameProcess
<1>8. ThreadInv(p) /\ CountInv(p) /\ TableInv(p)
  BY DEF LifeInv, ProcInv
<1>9. ProcInv(p)'
  <2>1. ThreadInv(p)'
    BY <1>1, <1>2, <1>3, <1>8 DEF ThreadInv
  <2>2. CountInv(p)'
    BY <1>1, <1>2, <1>3, <1>8 DEF CountInv, ThreadInv, SameDestruction, Creating, Over
  <2>3. TableInv(p)'
    BY <1>1, <1>2, <1>3, <1>4, <1>8 DEF TableInv, SameDestruction
  <2> QED BY <2>1, <2>2, <2>3 DEF ProcInv
<1> QED BY <1>2, <1>5, <1>6, <1>7, <1>9, Assemble

LEMMA ThreadCreateExInv ==
    ASSUME LifeInv, NEW c \in Cpus, NEW p \in Processes, ThreadCreateEx(c, p)
    PROVE  LifeInv'
<1>1. /\ ~panic /\ stage[p] = "loaded"
      /\ UNCHANGED <<run, prev, ready, cr3, tlb, creator, signaled, pid, pidBitmap, list, tables, freed,
                     work, flushedOn>>
  BY DEF ThreadCreateEx, CreatingAt, Executing, cpuVars, pidVars
<1>2. CASE stage' = [stage EXCEPT ![p] = "failing"] /\ UNCHANGED <<nThreads, active, refCnt, tVars, panic>>
  BY <1>1, <1>2, StageInv DEF cpuVars, evtVars, pidVars, Stages, Creating
<1>3. ThreadInv(p) /\ CountInv(p) /\ TableInv(p)
  BY DEF LifeInv, ProcInv
<1>4. tState[p] = "none" /\ nThreads[p] = 0 /\ active[p] = 0
  BY <1>1, <1>3 DEF ThreadInv, HasThread
<1>5. CASE panic' = TRUE /\ UNCHANGED <<nThreads, active, refCnt, tVars, stage>>
  <2>1. /\ PlaceInv' /\ StackInv' /\ UserWorkInv' /\ Cr3Inv'
        /\ \A q \in Processes : SameDestruction(q) /\ (Switching(q)' <=> Switching(q))
    BY <1>1, <1>5, QuietFrame DEF tVars
  <2>2. \A q \in Processes : SameProcess(q)
    BY <1>1, <1>5, <2>1 DEF SameProcess, tVars
  <2>3. TypeOK' /\ PidExclusive'
    BY <1>1, <1>5, PidFrame DEF LifeInv, TypeOK, tVars
  <2>4. ProcInv(p)'
    BY <1>1, <2>2, ProcFrame DEF LifeInv
  <2> QED BY <1>1, <2>1, <2>2, <2>3, <2>4, Assemble
<1>6. CASE /\ nThreads' = [nThreads EXCEPT ![p] = @ + 1]
           /\ active' = [active EXCEPT ![p] = @ + 1]
           /\ refCnt' = [refCnt EXCEPT ![p] = @ + 1]
           /\ tRef' = [tRef EXCEPT ![p] = 2]
           /\ tState' = [tState EXCEPT ![p] = "made"]
           /\ stage' = [stage EXCEPT ![p] = "inserted"]
           /\ UNCHANGED panic
  <2>1. /\ nThreads'[p] = 1 /\ active'[p] = 1 /\ refCnt'[p] = refCnt[p] + 1 /\ tRef'[p] = 2
        /\ tState'[p] = "made" /\ stage'[p] = "inserted"
        /\ \A q \in Processes \ {p} : /\ nThreads'[q] = nThreads[q] /\ active'[q] = active[q]
                                      /\ refCnt'[q] = refCnt[q] /\ tRef'[q] = tRef[q]
                                      /\ tState'[q] = tState[q] /\ stage'[q] = stage[q]
    BY <1>4, <1>6 DEF LifeInv, TypeOK
  <2>2. /\ PlaceInv' /\ StackInv' /\ UserWorkInv' /\ Cr3Inv'
        /\ \A q \in Processes : SameDestruction(q) /\ (Switching(q)' <=> Switching(q))
    BY <1>1, <1>4, <2>1, QuietFrame
  <2>3. ~Doomed(p) /\ p \notin freed /\ ~Destroying(p, "last") /\ refCnt[p] = 1
    BY <1>1, <1>3, <1>4 DEF CountInv, Over, Doomed, Creating
  <2>4. TypeOK'
    <3>1. /\ nThreads' \in [Processes -> 0 .. 1] /\ active' \in [Processes -> 0 .. 1]
          /\ refCnt' \in [Processes -> 0 .. 3] /\ tRef' \in [Processes -> 0 .. 2]
          /\ tState' \in [Processes -> ThreadStates] /\ stage' \in [Processes -> Stages]
      BY <1>4, <1>6, <2>3 DEF LifeInv, TypeOK, ThreadStates, Stages, Creating
    <3> QED BY <1>1, <1>6, <3>1 DEF LifeInv, TypeOK
  <2>5. \A q \in Processes \ {p} : SameProcess(q)
    BY <1>1, <2>1, <2>2 DEF SameProcess
  <2>6. ThreadInv(p)'
    BY <1>1, <1>3, <1>4, <2>1, <2>2 DEF ThreadInv, HasThread
  <2>7. CountInv(p)'
    BY <1>1, <1>3, <1>4, <2>1, <2>2, <2>3 DEF CountInv, SameDestruction, Creating
  <2>8. TableInv(p)'
    BY <1>1, <1>3, <2>1, <2>2 DEF TableInv, SameDestruction
  <2>9. PidExclusive'
    BY <1>1, PidFrame DEF LifeInv
  <2> QED BY <1>1, <2>2, <2>4, <2>5, <2>6, <2>7, <2>8, <2>9, Assemble DEF ProcInv
<1> QED BY <1>2, <1>5, <1>6 DEF ThreadCreateEx

LEMMA ThreadStartInv ==
    ASSUME LifeInv, NEW c \in Cpus, NEW p \in Processes, ThreadStart(c, p)
    PROVE  LifeInv'
<1>1. /\ ~panic /\ stage[p] = "inserted"
      /\ UNCHANGED <<run, prev, cr3, tlb, creator, refCnt, nThreads, active, signaled, pid, pidBitmap,
                     list, tables, freed, tRef, work, flushedOn, panic>>
  BY DEF ThreadStart, CreatingAt, Executing, evtVars, pidVars
<1>2. CASE stage' = [stage EXCEPT ![p] = "failing"] /\ UNCHANGED <<ready, tState>>
  BY <1>1, <1>2, StageInv DEF cpuVars, evtVars, pidVars, tVars, Stages, Creating
<1>3. CASE /\ ready' = ready \cup {p}
           /\ tState' = [tState EXCEPT ![p] = "run"]
           /\ stage' = [stage EXCEPT ![p] = "started"]
  <2>1. ThreadInv(p) /\ CountInv(p) /\ TableInv(p)
    BY DEF LifeInv, ProcInv
  <2>2. tState[p] = "made"
    BY <1>1, <2>1 DEF ThreadInv
  <2>3. /\ tState'[p] = "run" /\ stage'[p] = "started"
        /\ \A q \in Processes \ {p} : tState'[q] = tState[q] /\ stage'[q] = stage[q]
    BY <1>3 DEF LifeInv, TypeOK
  <2>4. PlaceInv'
    BY <1>1, <1>3, <2>2, <2>3 DEF LifeInv, PlaceInv
  <2>5. UserWorkInv' /\ Cr3Inv'
    BY <1>1, UserFrame DEF LifeInv
  <2>6. StackInv' /\ \A q \in Processes : SameDestruction(q)
    BY <1>1, WorkFrame DEF LifeInv
  <2>7. \A q \in Processes : Switching(q)' <=> Switching(q)
    BY <1>1 DEF Switching
  <2>8. TypeOK'
    <3>1. /\ tState' \in [Processes -> ThreadStates] /\ stage' \in [Processes -> Stages]
          /\ ready' \in SUBSET (SysThreads \cup Processes)
      BY <1>3 DEF LifeInv, TypeOK, ThreadStates, Stages, Creating
    <3> QED BY <1>1, <3>1 DEF LifeInv, TypeOK
  <2>9. \A q \in Processes \ {p} : SameProcess(q)
    BY <1>1, <2>3, <2>6, <2>7 DEF SameProcess
  <2>10. ThreadInv(p)'
    BY <1>1, <2>1, <2>2, <2>3, <2>7 DEF ThreadInv, HasThread
  <2>11. CountInv(p)'
    BY <1>1, <2>1, <2>2, <2>3, <2>6 DEF CountInv, SameDestruction, Creating, Over
  <2>12. TableInv(p)'
    BY <1>1, <2>1, <2>2, <2>3, <2>6 DEF TableInv, SameDestruction, HasThread
  <2>13. PidExclusive'
    BY <1>1, PidFrame DEF LifeInv
  <2> QED BY <1>1, <2>4, <2>5, <2>6, <2>8, <2>9, <2>10, <2>11, <2>12, <2>13, Assemble DEF ProcInv
<1> QED BY <1>2, <1>3 DEF ThreadStart

(* Who creates a process is no process.                                    *)
LEMMA CreatorFacts ==
    ASSUME LifeInv, NEW c \in Cpus, NEW p \in Processes, stage[p] # "none", Executing(c, creator[p])
    PROVE  /\ creator[p] \in ThreadIds \ Processes /\ creator[p] = run[c]
           /\ work[creator[p]] = <<>> /\ ~panic
<1>1. creator[p] \in Creators
  BY DEF LifeInv, ProcInv, CountInv
<1> QED BY <1>1, ProcessAssumption DEF Executing, ThreadIds

LEMMA ThreadCloseHandleInv ==
    ASSUME LifeInv, NEW c \in Cpus, NEW p \in Processes, ThreadCloseHandle(c, p)
    PROVE  LifeInv'
<1> DEFINE t == creator[p]
<1>1. /\ stage[p] = "started" /\ ThreadDereference(t, p, FALSE)
      /\ stage' = [stage EXCEPT ![p] = "unnamed"]
      /\ UNCHANGED <<run, prev, ready, cr3, tlb, creator, active, signaled, pid, pidBitmap,
                     list, tables, freed, flushedOn, panic>>
  BY DEF ThreadCloseHandle, CreatingAt, cpuVars, evtVars, pidVars
<1>2. t \in ThreadIds \ Processes /\ work[t] = <<>> /\ ~panic
  BY <1>1, CreatorFacts DEF ThreadCloseHandle, CreatingAt
<1> HIDE DEF t
<1>3. ThreadInv(p) /\ CountInv(p) /\ TableInv(p)
  BY DEF LifeInv, ProcInv
<1>4. tState[p] \in {"run", "exit", "dead"} /\ ~Doomed(p) /\ p \notin freed /\ ~Destroying(p, "last")
      /\ nThreads[p] = 1 /\ refCnt[p] = 2 /\ tRef[p] \in {1, 2}
  BY <1>1, <1>3 DEF ThreadInv, CountInv, Over, Doomed, HasThread, Creating
<1>5. stage'[p] = "unnamed" /\ \A q \in Processes \ {p} : stage'[q] = stage[q]
  BY <1>1 DEF LifeInv, TypeOK
<1>6. tRef' = [tRef EXCEPT ![p] = @ - 1]
  BY <1>1 DEF ThreadDereference
<1>7. tRef'[p] = tRef[p] - 1 /\ \A q \in Processes \ {p} : tRef'[q] = tRef[q]
  BY <1>6 DEF LifeInv, TypeOK
<1>8. \A q \in Processes : Switching(q)' <=> Switching(q)
  BY <1>1 DEF Switching
<1>9. tRef' \in [Processes -> 0 .. 2] /\ stage' \in [Processes -> Stages] /\ PidExclusive'
  BY <1>1, <1>4, <1>6, PidFrame DEF LifeInv, TypeOK, Stages, Creating
<1>10. CASE tRef[p] # 1
  <2>1. UNCHANGED <<tState, nThreads, refCnt, work>>
    BY <1>1, <1>10 DEF ThreadDereference
  <2>2. /\ PlaceInv' /\ StackInv' /\ UserWorkInv' /\ Cr3Inv'
        /\ \A q \in Processes : SameDestruction(q)
    BY <1>1, <2>1, QuietFrame
  <2>3. TypeOK'
    BY <1>1, <1>9, <2>1 DEF LifeInv, TypeOK
  <2>4. \A q \in Processes \ {p} : SameProcess(q)
    BY <1>1, <1>5, <1>7, <1>8, <2>1, <2>2 DEF SameProcess
  <2>5. ThreadInv(p)'
    BY <1>1, <1>3, <1>4, <1>5, <1>7, <1>8, <1>10, <2>1 DEF ThreadInv
  <2>6. CountInv(p)'
    BY <1>1, <1>3, <1>4, <1>5, <2>1, <2>2 DEF CountInv, SameDestruction, Creating, Over
  <2>7. TableInv(p)'
    BY <1>1, <1>3, <1>5, <2>1, <2>2 DEF TableInv, SameDestruction
  <2> QED BY <1>2, <1>9, <2>2, <2>3, <2>4, <2>5, <2>6, <2>7, Assemble DEF ProcInv
<1>11. CASE tRef[p] = 1
  <2>1. /\ tState' = [tState EXCEPT ![p] = "gone"]
        /\ nThreads' = [nThreads EXCEPT ![p] = @ - 1]
        /\ refCnt' = [refCnt EXCEPT ![p] = @ - 1]
        /\ work' = [work EXCEPT ![t] = <<[proc |-> p, step |-> "last", masked |-> FALSE]>> \o work[t]]
    BY <1>1, <1>11 DEF ThreadDereference
  <2>2. WorkType /\ "last" \in Steps
    BY DEF LifeInv, TypeOK, WorkType, Records, Steps
  <2>3. /\ WorkType' /\ StackInv'
        /\ \A u \in ThreadIds \ {t} : work'[u] = work[u]
        /\ \A q \in Processes \ {p} : SameDestruction(q)
        /\ Destroying(p, "last")' /\ ~Doomed(p)'
    BY <1>1, <1>2, <1>4, <2>1, <2>2, WorkPush DEF LifeInv
  <2>4. tState[p] = "dead" /\ ~Switching(p)
    BY <1>1, <1>3, <1>4, <1>11 DEF ThreadInv
  <2>5. /\ tState'[p] = "gone" /\ nThreads'[p] = 0 /\ refCnt'[p] = 1
        /\ \A q \in Processes \ {p} : /\ tState'[q] = tState[q] /\ nThreads'[q] = nThreads[q]
                                      /\ refCnt'[q] = refCnt[q]
    BY <1>4, <2>1 DEF LifeInv, TypeOK
  <2>6. PlaceInv'
    BY <1>1, <2>4, <2>5, PlaceFrame DEF LifeInv
  <2>7. UserWorkInv' /\ Cr3Inv'
    <3>1. \A q \in Processes : work'[q] = work[q]
      BY <1>2, <2>3 DEF ThreadIds
    <3> QED BY <1>1, <3>1, UserFrame DEF LifeInv
  <2>8. TypeOK'
    <3>1. /\ tState' \in [Processes -> ThreadStates] /\ nThreads' \in [Processes -> 0 .. 1]
          /\ refCnt' \in [Processes -> 0 .. 3]
      BY <1>4, <2>1 DEF LifeInv, TypeOK, ThreadStates
    <3> QED BY <1>1, <1>9, <2>3, <3>1 DEF LifeInv, TypeOK, WorkType, Records
  <2>9. \A q \in Processes \ {p} : SameProcess(q)
    BY <1>1, <1>5, <1>7, <1>8, <2>3, <2>5 DEF SameProcess
  <2>10. ThreadInv(p)'
    BY <1>1, <1>3, <1>5, <1>7, <1>8, <1>11, <2>4, <2>5 DEF ThreadInv, HasThread
  <2>11. CountInv(p)'
    BY <1>1, <1>3, <1>4, <1>5, <2>3, <2>5 DEF CountInv, Creating
  <2>12. TableInv(p)'
    BY <1>1, <1>3, <1>4, <1>5, <2>3, <2>5 DEF TableInv, HasThread
  <2> QED BY <1>2, <1>9, <2>3, <2>6, <2>7, <2>8, <2>9, <2>10, <2>11, <2>12, Assemble DEF ProcInv
<1> QED BY <1>4, <1>10, <1>11

(* The creator drops a reference: its first one when it has failed, or     *)
(* that of the handle.                                                     *)
LEMMA CreatorDropsInv ==
    ASSUME LifeInv, NEW c \in Cpus, NEW p \in Processes, Executing(c, creator[p]), NEW g \in Stages,
           \/ stage[p] = "failing" /\ g = "failed"
           \/ stage[p] \in {"open", "waited"} /\ g = "closed",
           ProcessDereference(creator[p], p, FALSE, <<>>),
           stage' = [stage EXCEPT ![p] = g],
           UNCHANGED <<cpuVars, creator, nThreads, evtVars, pidVars, tables, freed, tVars, flushedOn,
                       panic>>
    PROVE  LifeInv'
<1> DEFINE t == creator[p]
<1>1. UNCHANGED <<run, prev, ready, cr3, tlb, creator, nThreads, active, signaled, pid, pidBitmap,
                  list, tables, freed, tRef, tState, flushedOn, panic>>
  BY DEF cpuVars, evtVars, pidVars, tVars
<1>2. t \in ThreadIds \ Processes /\ work[t] = <<>> /\ ~panic
  BY CreatorFacts
<1>3. /\ refCnt' = [refCnt EXCEPT ![p] = @ - 1]
      /\ work' = [work EXCEPT ![t] = IF refCnt[p] = 1
                    THEN <<[proc |-> p, step |-> "unlist", masked |-> FALSE]>> \o work[t]
                    ELSE work[t]]
  BY <1>2, Zenon DEF ProcessDereference
<1> HIDE DEF t
<1>4. ThreadInv(p) /\ CountInv(p) /\ TableInv(p)
  BY DEF LifeInv, ProcInv
<1>5. stage'[p] = g /\ \A q \in Processes \ {p} : stage'[q] = stage[q]
  BY DEF LifeInv, TypeOK
<1>6. refCnt'[p] = refCnt[p] - 1 /\ \A q \in Processes \ {p} : refCnt'[q] = refCnt[q]
  BY <1>3 DEF LifeInv, TypeOK
<1>7. ~Doomed(p) /\ p \notin freed /\ refCnt[p] \in 1 .. 3
  BY <1>2, <1>4 DEF CountInv, Doomed, LifeInv, TypeOK
<1>8. \A q \in Processes : Switching(q)' <=> Switching(q)
  BY <1>1 DEF Switching
<1>9. PlaceInv' /\ PidExclusive'
  BY <1>1, PlaceFrame, PidFrame DEF LifeInv
<1>10. refCnt' \in [Processes -> 0 .. 3] /\ stage' \in [Processes -> Stages]
  BY <1>3, <1>7 DEF LifeInv, TypeOK
<1>11. CASE refCnt[p] # 1
  <2>1. work' = work
    BY <1>3, <1>11 DEF LifeInv, TypeOK
  <2>2. UserWorkInv' /\ Cr3Inv' /\ StackInv' /\ \A q \in Processes : SameDestruction(q)
    BY <1>1, <2>1, UserFrame, WorkFrame DEF LifeInv
  <2>3. TypeOK'
    BY <1>1, <1>10, <2>1 DEF LifeInv, TypeOK
  <2>4. \A q \in Processes \ {p} : SameProcess(q)
    BY <1>1, <1>5, <1>6, <1>8, <2>2 DEF SameProcess
  <2>5. ThreadInv(p)'
    BY <1>1, <1>4, <1>5, <1>8 DEF ThreadInv
  <2>6. CountInv(p)'
    BY <1>1, <1>4, <1>5, <1>6, <1>7, <1>11, <2>2 DEF CountInv, ThreadInv, SameDestruction, Creating
  <2>7. TableInv(p)'
    BY <1>1, <1>4, <1>5, <2>2 DEF TableInv, SameDestruction
  <2> QED BY <1>2, <1>9, <2>2, <2>3, <2>4, <2>5, <2>6, <2>7, Assemble DEF ProcInv
<1>12. CASE refCnt[p] = 1
  <2>1. work' = [work EXCEPT ![t] = <<[proc |-> p, step |-> "unlist", masked |-> FALSE]>> \o work[t]]
    BY <1>3, <1>12
  <2>2. nThreads[p] = 0 /\ ~Destroying(p, "last") /\ (tState[p] = "gone" \/ stage[p] = "failing")
    BY <1>4, <1>7, <1>12 DEF CountInv, ThreadInv, HasThread, Creating
  <2>3. WorkType /\ "unlist" \in Steps
    BY DEF LifeInv, TypeOK, WorkType, Records, Steps
  <2>4. /\ WorkType' /\ StackInv'
        /\ \A u \in ThreadIds \ {t} : work'[u] = work[u]
        /\ \A q \in Processes \ {p} : SameDestruction(q)
        /\ ~Destroying(p, "last")' /\ Doomed(p)'
    BY <1>1, <1>2, <1>7, <2>1, <2>2, <2>3, WorkPush DEF LifeInv
  <2>5. UserWorkInv' /\ Cr3Inv'
    <3>1. \A q \in Processes : work'[q] = work[q]
      BY <1>2, <2>4 DEF ThreadIds
    <3> QED BY <1>1, <3>1, UserFrame DEF LifeInv
  <2>6. TypeOK'
    BY <1>1, <1>10, <2>4 DEF LifeInv, TypeOK, WorkType, Records
  <2>7. \A q \in Processes \ {p} : SameProcess(q)
    BY <1>1, <1>5, <1>6, <1>8, <2>4 DEF SameProcess
  <2>8. ThreadInv(p)'
    BY <1>1, <1>4, <1>5, <1>8 DEF ThreadInv
  <2>9. CountInv(p)'
    BY <1>1, <1>4, <1>5, <1>6, <1>12, <2>2, <2>4 DEF CountInv, ThreadInv, Creating, Over, HasThread
  <2>10. TableInv(p)'
    BY <1>1, <1>4, <1>5, <2>4 DEF TableInv
  <2> QED BY <1>2, <1>9, <2>4, <2>5, <2>6, <2>7, <2>8, <2>9, <2>10, Assemble DEF ProcInv
<1> QED BY <1>11, <1>12

LEMMA ProcessCreateReturnInv ==
    ASSUME LifeInv, NEW c \in Cpus, NEW p \in Processes, ProcessCreateReturn(c, p)
    PROVE  LifeInv'
<1>1. CASE /\ CreatingAt(c, p, "failing")
           /\ ProcessDereference(creator[p], p, FALSE, <<>>)
           /\ stage' = [stage EXCEPT ![p] = "failed"]
           /\ UNCHANGED panic
  <2>1. "failed" \in Stages
    BY DEF Stages
  <2> QED BY <1>1, <2>1, CreatorDropsInv DEF ProcessCreateReturn, CreatingAt
<1>2. CASE /\ CreatingAt(c, p, "unnamed")
           /\ refCnt' = [refCnt EXCEPT ![p] = @ + 1]
           /\ stage' = [stage EXCEPT ![p] = "open"]
           /\ panic' = (refCnt[p] = 0)
           /\ UNCHANGED work
  <2>1. /\ ~panic /\ stage[p] = "unnamed"
        /\ UNCHANGED <<run, prev, ready, cr3, tlb, creator, nThreads, active, signaled, pid, pidBitmap,
                       list, tables, freed, tRef, tState, flushedOn>>
    BY <1>2 DEF ProcessCreateReturn, CreatingAt, Executing, cpuVars, evtVars, pidVars, tVars
  <2>2. /\ PlaceInv' /\ StackInv' /\ UserWorkInv' /\ Cr3Inv'
        /\ \A q \in Processes : SameDestruction(q) /\ (Switching(q)' <=> Switching(q))
    BY <1>2, <2>1, QuietFrame
  <2>3. ThreadInv(p) /\ CountInv(p) /\ TableInv(p)
    BY DEF LifeInv, ProcInv
  <2>4. /\ refCnt'[p] = refCnt[p] + 1 /\ \A q \in Processes \ {p} : refCnt'[q] = refCnt[q]
        /\ stage'[p] = "open" /\ \A q \in Processes \ {p} : stage'[q] = stage[q]
    BY <1>2 DEF LifeInv, TypeOK
  <2>5. refCnt[p] \in 0 .. 2
    BY <2>1, <2>3 DEF CountInv, ThreadInv, LifeInv, TypeOK, Doomed
  <2>6. TypeOK'
    <3>1. /\ refCnt' \in [Processes -> 0 .. 3] /\ stage' \in [Processes -> Stages] /\ panic' \in BOOLEAN
      BY <1>2, <2>5 DEF LifeInv, TypeOK, Stages
    <3> QED BY <1>2, <2>1, <3>1 DEF LifeInv, TypeOK
  <2>7. \A q \in Processes \ {p} : SameProcess(q)
    BY <2>1, <2>2, <2>4 DEF SameProcess
  <2>8. ThreadInv(p)'
    BY <2>1, <2>2, <2>3, <2>4 DEF ThreadInv
  <2>9. CountInv(p)'
    <3>1. Doomed(p) => panic'
      BY <1>2, <2>1, <2>3 DEF CountInv
    <3> QED BY <2>1, <2>2, <2>3, <2>4, <2>5, <3>1 DEF CountInv, ThreadInv, SameDestruction, Creating, Over
  <2>10. TableInv(p)'
    BY <2>1, <2>2, <2>3, <2>4 DEF TableInv, SameDestruction
  <2>11. PidExclusive'
    BY <2>1, PidFrame DEF LifeInv
  <2> QED BY <2>1, <2>2, <2>6, <2>7, <2>8, <2>9, <2>10, <2>11, Assemble DEF ProcInv
<1> QED BY <1>1, <1>2 DEF ProcessCreateReturn

LEMMA CreateStepInv ==
    ASSUME LifeInv, NEW c \in Cpus, NEW p \in Processes, CreateStep(c, p)
    PROVE  LifeInv'
<1>1. CASE \E t \in Creators : ProcessInit(c, t, p)
  BY <1>1, ProcessInitInv
<1>2. CASE UmApplicationRetrieveHeader(c, p) \/ MmuLoadPe(c, p)
  BY <1>2, StageInv DEF UmApplicationRetrieveHeader, MmuLoadPe, Try, CreatingAt, Executing, Stages,
     Creating
<1>3. CASE MmuCreateAddressSpaceForProcess(c, p)
  BY <1>3, StageInv DEF MmuCreateAddressSpaceForProcess, CreatingAt, Executing, Stages, Creating
<1>4. CASE ThreadCreateEx(c, p) \/ ThreadStart(c, p) \/ ThreadCloseHandle(c, p) \/ ProcessCreateReturn(c, p)
  BY <1>4, ThreadCreateExInv, ThreadStartInv, ThreadCloseHandleInv, ProcessCreateReturnInv
<1>5. CASE ProcessWaitForTermination(c, p)
  BY <1>5, StageInv DEF ProcessWaitForTermination, CreatingAt, Executing, Stages
<1>6. CASE ProcessCloseHandle(c, p)
  <2>1. "closed" \in Stages
    BY DEF Stages
  <2> QED BY <1>6, <2>1, CreatorDropsInv DEF ProcessCloseHandle, CreatingAt
<1> QED BY <1>1, <1>2, <1>3, <1>4, <1>5, <1>6 DEF CreateStep

-----------------------------------------------------------------------------
(* The threads.                                                            *)

LEMMA TouchInv ==
    ASSUME LifeInv, NEW c \in Cpus, Touch(c)
    PROVE  LifeInv'
<1>1. PICK p \in Processes :
      /\ ~panic /\ tState[p] = "run"
      /\ tlb' = [tlb EXCEPT ![c] = @ \cup {p}]
      /\ UNCHANGED <<run, prev, ready, cr3, stage, creator, refCnt, nThreads, active, signaled, pid,
                     pidBitmap, list, tables, freed, tRef, tState, work, flushedOn, panic>>
  BY DEF Touch, Executing, evtVars, pidVars, tVars
<1>2. /\ PlaceInv' /\ StackInv' /\ UserWorkInv' /\ Cr3Inv'
      /\ \A q \in Processes : SameDestruction(q) /\ (Switching(q)' <=> Switching(q))
  BY <1>1, QuietFrame
<1>3. TypeOK' /\ PidExclusive'
  BY <1>1, PidFrame DEF LifeInv, TypeOK
<1>4. \A d \in Cpus : tlb'[d] \subseteq tlb[d] \cup {p}
  BY <1>1 DEF LifeInv, TypeOK
<1>5. \A q \in Processes \ {p} : SameProcess(q)
  BY <1>1, <1>2, <1>4 DEF SameProcess
<1>6. flushedOn[p] = None
  BY <1>1 DEF LifeInv, ProcInv, CountInv, TableInv, Over
<1>7. SameProcess(p)
  <2>1. \A d \in Cpus : flushedOn[p] # d
    BY <1>6, ProcessAssumption
  <2> QED BY <1>1, <1>2, <2>1 DEF SameProcess
<1>8. ProcInv(p)'
  BY <1>1, <1>7, ProcFrame DEF LifeInv
<1> QED BY <1>1, <1>2, <1>3, <1>5, <1>8, Assemble

(* A CPU switches to a thread that is ready, or to its idle thread.        *)
LEMMA ThreadScheduleFacts ==
    ASSUME LifeInv, NEW c \in Cpus, NEW u \in ThreadIds, ThreadSchedule(c, run[c], u), u # run[c]
    PROVE  /\ run' \in [Cpus -> ThreadIds] /\ cr3' \in [Cpus -> Processes \cup {System}]
           /\ run'[c] = u /\ \A d \in Cpus \ {c} : run'[d] = run[d] /\ cr3'[d] = cr3[d]
           /\ u \in Processes => cr3'[c] = u
<1>1. run \in [Cpus -> ThreadIds] /\ cr3 \in [Cpus -> Processes \cup {System}]
  BY DEF LifeInv, TypeOK
<1>2. ProcessOf(u) \in Processes \cup {System}
  BY DEF ProcessOf
<1>3. u \in Processes => ProcessOf(u) = u /\ ProcessOf(run[c]) # u
  BY ProcessAssumption DEF ProcessOf
<1> QED BY <1>1, <1>2, <1>3 DEF ThreadSchedule

LEMMA ThreadYieldInv ==
    ASSUME LifeInv, NEW c \in Cpus, NEW u \in ThreadIds, ThreadYield(c, u)
    PROVE  LifeInv'
<1> DEFINE t == run[c]
<1>1. /\ ~panic /\ u \in ready /\ ~Masked(c) /\ t \in ThreadIds
      /\ ~(t \in Processes /\ tState[t] = "exit")
      /\ ThreadSchedule(c, t, u) /\ ready' = (ready \ {u}) \cup ({t} \ Cpus)
      /\ UNCHANGED <<prev, tlb, stage, creator, refCnt, nThreads, active, signaled, pid,
                     pidBitmap, list, tables, freed, tRef, tState, work, flushedOn, panic>>
  BY DEF ThreadYield, LifeInv, TypeOK, evtVars, pidVars, tVars
<1>2. u # t /\ \A d \in Cpus : run[d] # u
  BY <1>1 DEF LifeInv, PlaceInv
<1>3. /\ run' \in [Cpus -> ThreadIds] /\ cr3' \in [Cpus -> Processes \cup {System}]
      /\ run'[c] = u /\ \A d \in Cpus \ {c} : run'[d] = run[d] /\ cr3'[d] = cr3[d]
      /\ u \in Processes => cr3'[c] = u
  BY <1>1, <1>2, ThreadScheduleFacts
<1>4. \A d \in Cpus \ {c} : run[d] # t
  BY DEF LifeInv, PlaceInv
<1>5. t \in Processes => work[t] = <<>> /\ tState[t] = "run"
  <2> SUFFICES ASSUME t \in Processes PROVE work[t] = <<>> /\ tState[t] = "run"
    OBVIOUS
  <2>1. tState[t] = "run"
    BY <1>1 DEF LifeInv, PlaceInv
  <2>2. ASSUME work[t] # <<>> PROVE FALSE
    <3>1. work[t][1].masked /\ work[t] \in Seq(Records)
      BY <1>1, <2>2 DEF LifeInv, UserWorkInv, TypeOK, Records
    <3>2. Head(work[t]).masked
      BY <2>2, <3>1, TailFacts
    <3> QED BY <1>1, <2>2, <3>2 DEF Masked
  <2> QED BY <2>1, <2>2
<1>6. \A q \in Processes : work[q] # <<>> => q # u
  BY <1>2 DEF LifeInv, UserWorkInv
<1> HIDE DEF t
<1>7. u \notin Cpus /\ u \in SysThreads \cup Processes
  BY <1>1, ProcessAssumption DEF LifeInv, TypeOK
<1>8. PlaceInv'
  <2>1. \A d \in Cpus : run'[d] \notin ready'
    BY <1>1, <1>2, <1>3, <1>4 DEF LifeInv, PlaceInv
  <2> QED BY <1>1, <1>2, <1>3, <1>5, <1>7, <2>1 DEF LifeInv, PlaceInv
<1>9. StackInv' /\ \A q \in Processes : SameDestruction(q)
  BY <1>1, WorkFrame DEF LifeInv
<1>10. UserWorkInv'
  <2> SUFFICES ASSUME NEW q \in Processes, work[q] # <<>>
               PROVE  /\ Len(work[q]) = 1 /\ work[q][1].masked
                      /\ \E d \in Cpus : run'[d] = q /\ prev[d] = None
    BY <1>1 DEF UserWorkInv
  <2>1. PICK d \in Cpus : run[d] = q /\ prev[d] = None
    BY DEF LifeInv, UserWorkInv
  <2>2. d # c
    BY <1>5, <2>1 DEF t
  <2> QED BY <1>3, <2>1, <2>2 DEF LifeInv, UserWorkInv
<1>11. Cr3Inv'
  BY <1>1, <1>3 DEF LifeInv, Cr3Inv
<1>12. t \in ThreadIds /\ ready' \in SUBSET (SysThreads \cup Processes)
  BY <1>1 DEF LifeInv, TypeOK, ThreadIds
<1>13. TypeOK' /\ PidExclusive'
  BY <1>1, <1>3, <1>12, PidFrame DEF LifeInv, TypeOK
<1>14. \A q \in Processes : SameProcess(q)
  BY <1>1, <1>9 DEF SameProcess, Switching
<1>15. \A q \in Processes : ProcInv(q)'
  BY <1>1, <1>14, ProcFrame DEF LifeInv
<1> QED BY <1>8, <1>9, <1>10, <1>11, <1>13, <1>15 DEF LifeInv

LEMMA ThreadExitInv ==
    ASSUME LifeInv, NEW c \in Cpus, NEW p \in Processes, ThreadExit(c, p)
    PROVE  LifeInv'
<1>1. /\ ~panic /\ run[c] = p /\ tState[p] = "run"
      /\ tState' = [tState EXCEPT ![p] = "exit"]
      /\ active' = [active EXCEPT ![p] = @ - 1]
      /\ signaled' = [signaled EXCEPT ![p] = @ \/ active[p] = 1]
      /\ UNCHANGED <<run, prev, ready, cr3, tlb, stage, creator, refCnt, nThreads, pid, pidBitmap,
                     list, tables, freed, tRef, work, flushedOn, panic>>
  BY DEF ThreadExit, Executing, cpuVars, pidVars
<1>2. ThreadInv(p) /\ CountInv(p) /\ TableInv(p)
  BY DEF LifeInv, ProcInv
<1>3. active[p] = 1 /\ p \notin ready
  BY <1>1, <1>2 DEF ThreadInv, LifeInv, PlaceInv
<1>4. /\ tState'[p] = "exit" /\ active'[p] = 0 /\ signaled'[p]
      /\ \A q \in Processes \ {p} : /\ tState'[q] = tState[q] /\ active'[q] = active[q]
                                    /\ signaled'[q] = signaled[q]
  <2>1. /\ tState'[p] = "exit" /\ active'[p] = 0
        /\ \A q \in Processes \ {p} : tState'[q] = tState[q] /\ active'[q] = active[q]
    BY <1>1, <1>3 DEF LifeInv, TypeOK
  <2>2. signaled \in [Processes -> BOOLEAN]
    BY DEF LifeInv, TypeOK
  <2>3. signaled'[p] /\ \A q \in Processes \ {p} : signaled'[q] = signaled[q]
    BY <1>1, <1>3, <2>2, Zenon
  <2> QED BY <2>1, <2>3
<1>5. /\ PlaceInv' /\ StackInv' /\ UserWorkInv' /\ Cr3Inv'
      /\ \A q \in Processes : SameDestruction(q) /\ (Switching(q)' <=> Switching(q))
  BY <1>1, <1>3, <1>4, QuietFrame
<1>6. TypeOK' /\ PidExclusive'
  <2>1. /\ tState' \in [Processes -> ThreadStates] /\ active' \in [Processes -> 0 .. 1]
    BY <1>1, <1>3 DEF LifeInv, TypeOK, ThreadStates
  <2>2. signaled' \in [Processes -> BOOLEAN]
    BY <1>1 DEF LifeInv, TypeOK
  <2> QED BY <1>1, <2>1, <2>2, PidFrame DEF LifeInv, TypeOK
<1>7. \A q \in Processes \ {p} : SameProcess(q)
  BY <1>1, <1>4, <1>5 DEF SameProcess
<1>8. ThreadInv(p)'
  BY <1>1, <1>2, <1>4, <1>5 DEF ThreadInv, HasThread
<1>9. CountInv(p)'
  BY <1>1, <1>2, <1>4, <1>5 DEF CountInv, SameDestruction, Over
<1>10. TableInv(p)'
  BY <1>1, <1>2, <1>4, <1>5 DEF TableInv, SameDestruction, HasThread
<1> QED BY <1>1, <1>5, <1>6, <1>7, <1>8, <1>9, <1>10, Assemble DEF ProcInv

LEMMA ThreadExitSwitchInv ==
    ASSUME LifeInv, NEW c \in Cpus, NEW p \in Processes, NEW u \in ThreadIds, ThreadExitSwitch(c, p, u)
    PROVE  LifeInv'
<1>1. /\ ~panic /\ run[c] = p /\ tState[p] = "exit" /\ prev[c] = None /\ work[p] = <<>>
      /\ u \in ready \/ u = c
      /\ ThreadSchedule(c, run[c], u) /\ ready' = ready \ {u}
      /\ prev' = [prev EXCEPT ![c] = p]
      /\ tState' = [tState EXCEPT ![p] = "dead"]
      /\ UNCHANGED <<tlb, stage, creator, refCnt, nThreads, active, signaled, pid, pidBitmap, list,
                     tables, freed, tRef, work, flushedOn, panic>>
  BY DEF ThreadExitSwitch, Executing, evtVars, pidVars
<1>2. u # run[c] /\ (\A d \in Cpus : run[d] # u) /\ (u \in Cpus => u = c)
  <2>1. p \notin Cpus /\ ready \cap Cpus = {}
    BY ProcessAssumption DEF LifeInv, TypeOK
  <2>2. CASE u \in ready
    BY <2>1, <2>2 DEF LifeInv, PlaceInv
  <2>3. CASE u = c
    <3>1. \A d \in Cpus : run[d] = c => d = c
      BY DEF LifeInv, PlaceInv
    <3> QED BY <1>1, <2>1, <2>3, <3>1
  <2> QED BY <1>1, <2>2, <2>3
<1>3. /\ run' \in [Cpus -> ThreadIds] /\ cr3' \in [Cpus -> Processes \cup {System}]
      /\ run'[c] = u /\ \A d \in Cpus \ {c} : run'[d] = run[d] /\ cr3'[d] = cr3[d]
      /\ u \in Processes => cr3'[c] = u
  BY <1>1, <1>2, ThreadScheduleFacts
<1>4. ThreadInv(p) /\ CountInv(p) /\ TableInv(p)
  BY DEF LifeInv, ProcInv
<1>5. \A d \in Cpus : prev[d] # p
  BY <1>1, <1>4 DEF ThreadInv, Switching
<1>6. /\ tState'[p] = "dead" /\ \A q \in Processes \ {p} : tState'[q] = tState[q]
      /\ prev'[c] = p /\ \A d \in Cpus \ {c} : prev'[d] = prev[d]
  BY <1>1 DEF LifeInv, TypeOK
<1>7. PlaceInv'
  <2>1. \A d, e \in Cpus : run'[d] = run'[e] => d = e
    BY <1>2, <1>3 DEF LifeInv, PlaceInv
  <2>2. \A d \in Cpus : (run'[d] \in Cpus => run'[d] = d) /\ run'[d] \notin ready'
    BY <1>1, <1>2, <1>3 DEF LifeInv, PlaceInv
  <2>3. u \in Processes => u # p /\ tState[u] = "run"
    BY <1>1, <1>2, ProcessAssumption DEF LifeInv, PlaceInv
  <2>4. \A d \in Cpus \ {c} : run[d] # p
    BY <1>1 DEF LifeInv, PlaceInv
  <2>5. \A d \in Cpus : run'[d] \in Processes => tState'[run'[d]] \in {"run", "exit"}
    BY <1>3, <1>6, <2>3, <2>4 DEF LifeInv, PlaceInv
  <2>6. \A q \in Processes : q \in ready' => tState'[q] = "run"
    BY <1>1, <1>6 DEF LifeInv, PlaceInv
  <2>7. \A d, e \in Cpus : (prev'[d] # None /\ prev'[d] = prev'[e]) => d = e
    BY <1>5, <1>6 DEF LifeInv, PlaceInv
  <2> QED BY <2>1, <2>2, <2>5, <2>6, <2>7 DEF PlaceInv
<1>8. StackInv' /\ \A q \in Processes : SameDestruction(q)
  BY <1>1, WorkFrame DEF LifeInv
<1>9. UserWorkInv'
  <2> SUFFICES ASSUME NEW q \in Processes, work[q] # <<>>
               PROVE  /\ Len(work[q]) = 1 /\ work[q][1].masked
                      /\ \E d \in Cpus : run'[d] = q /\ prev'[d] = None
    BY <1>1 DEF UserWorkInv
  <2>1. PICK d \in Cpus : run[d] = q /\ prev[d] = None
    BY DEF LifeInv, UserWorkInv
  <2>2. d # c
    BY <1>1, <2>1
  <2> QED BY <1>3, <1>6, <2>1, <2>2 DEF LifeInv, UserWorkInv
<1>10. Cr3Inv'
  BY <1>1, <1>3 DEF LifeInv, Cr3Inv
<1>11. TypeOK' /\ PidExclusive'
  <2>1. /\ tState' \in [Processes -> ThreadStates] /\ prev' \in [Cpus -> Processes \cup {None}]
        /\ ready' \in SUBSET (SysThreads \cup Processes)
    BY <1>1 DEF LifeInv, TypeOK, ThreadStates
  <2> QED BY <1>1, <1>3, <2>1, PidFrame DEF LifeInv, TypeOK
<1>12. Switching(p)' /\ \A q \in Processes \ {p} : Switching(q)' <=> Switching(q)
  <2>1. \A q \in Processes : q # None
    BY ProcessAssumption
  <2> QED BY <1>1, <1>6, <2>1 DEF Switching
<1>13. \A q \in Processes \ {p} : SameProcess(q)
  BY <1>1, <1>6, <1>8, <1>12 DEF SameProcess
<1>14. ThreadInv(p)'
  BY <1>1, <1>4, <1>6, <1>12 DEF ThreadInv, HasThread
<1>15. CountInv(p)'
  BY <1>1, <1>4, <1>6, <1>8 DEF CountInv, SameDestruction, Over
<1>16. TableInv(p)'
  BY <1>1, <1>4, <1>6, <1>8 DEF TableInv, SameDestruction, HasThread
<1> QED BY <1>1, <1>7, <1>8, <1>9, <1>10, <1>11, <1>13, <1>14, <1>15, <1>16, Assemble DEF ProcInv

(* The CPU has switched away from the dying thread of p and drops its      *)
(* reference, on the stack of whatever thread runs now.                    *)
LEMMA ThreadCleanupPostScheduleInv ==
    ASSUME LifeInv, NEW c \in Cpus, ThreadCleanupPostSchedule(c)
    PROVE  LifeInv'
<1>1. PICK p \in Processes, t \in ThreadIds :
        /\ ~panic /\ prev[c] = p /\ run[c] = t /\ ThreadDereference(t, p, TRUE)
        /\ prev' = [prev EXCEPT ![c] = None]
        /\ UNCHANGED <<run, ready, cr3, tlb, stage, creator, active, signaled, pid, pidBitmap, list,
                       tables, freed, flushedOn, panic>>
  <2>1. prev[c] \in Processes /\ run[c] \in ThreadIds
    BY DEF LifeInv, TypeOK, ThreadCleanupPostSchedule
  <2> QED BY <2>1 DEF ThreadCleanupPostSchedule, evtVars, pidVars
<1>2. ThreadInv(p) /\ CountInv(p) /\ TableInv(p)
  BY DEF LifeInv, ProcInv
<1>3. \A q \in Processes : q # None
  BY ProcessAssumption
<1>4. /\ prev' \in [Cpus -> Processes \cup {None}] /\ prev'[c] = None
      /\ \A d \in Cpus \ {c} : prev'[d] = prev[d] /\ prev[d] # p
  BY <1>1, <1>3 DEF LifeInv, TypeOK, PlaceInv
<1>5. Switching(p) /\ ~Switching(p)' /\ \A q \in Processes \ {p} : Switching(q)' <=> Switching(q)
  BY <1>1, <1>3, <1>4 DEF Switching
<1>6. tState[p] = "dead" /\ ~Doomed(p) /\ ~Destroying(p, "last") /\ p \notin freed /\ nThreads[p] = 1
      /\ tRef[p] \in {1, 2} /\ (tRef[p] = 2 <=> stage[p] = "started") /\ refCnt[p] \in 1 .. 3
  BY <1>1, <1>2, <1>5 DEF ThreadInv, CountInv, Over, Doomed, HasThread, LifeInv, TypeOK
<1>7. t \in Processes => work[t] = <<>>
  BY <1>1, <1>3 DEF LifeInv, UserWorkInv, PlaceInv
<1>8. tRef' = [tRef EXCEPT ![p] = @ - 1]
  BY <1>1 DEF ThreadDereference
<1>9. tRef'[p] = tRef[p] - 1 /\ (\A q \in Processes \ {p} : tRef'[q] = tRef[q])
      /\ tRef' \in [Processes -> 0 .. 2]
  BY <1>6, <1>8 DEF LifeInv, TypeOK
<1>10. PidExclusive' /\ \A d \in Cpus : prev'[d] \in {prev[d], None}
  BY <1>1, <1>4, PidFrame DEF LifeInv
<1>11. CASE tRef[p] # 1
  <2>1. UNCHANGED <<tState, nThreads, refCnt, work>>
    BY <1>1, <1>11 DEF ThreadDereference
  <2>2. PlaceInv' /\ UserWorkInv' /\ Cr3Inv' /\ StackInv' /\ \A q \in Processes : SameDestruction(q)
    BY <1>1, <1>10, <2>1, PlaceFrame, UserFrame, WorkFrame DEF LifeInv
  <2>3. TypeOK'
    BY <1>1, <1>4, <1>9, <2>1 DEF LifeInv, TypeOK
  <2>4. \A q \in Processes \ {p} : SameProcess(q)
    BY <1>1, <1>5, <1>9, <2>1, <2>2 DEF SameProcess
  <2>5. ThreadInv(p)'
    BY <1>1, <1>2, <1>5, <1>6, <1>9, <1>11, <2>1 DEF ThreadInv
  <2>6. CountInv(p)'
    BY <1>1, <1>2, <2>1, <2>2 DEF CountInv, SameDestruction, Over
  <2>7. TableInv(p)'
    BY <1>1, <1>2, <2>1, <2>2 DEF TableInv, SameDestruction
  <2> QED BY <1>1, <1>10, <2>2, <2>3, <2>4, <2>5, <2>6, <2>7, Assemble DEF ProcInv
<1>12. CASE tRef[p] = 1
  <2>1. /\ tState' = [tState EXCEPT ![p] = "gone"]
        /\ nThreads' = [nThreads EXCEPT ![p] = @ - 1]
        /\ refCnt' = [refCnt EXCEPT ![p] = @ - 1]
        /\ work' = [work EXCEPT ![t] = <<[proc |-> p, step |-> "last", masked |-> TRUE]>> \o work[t]]
    BY <1>1, <1>12 DEF ThreadDereference
  <2> PICK m \in BOOLEAN : m
    OBVIOUS
  <2>2. /\ WorkType /\ "last" \in Steps
        /\ work' = [work EXCEPT ![t] = <<[proc |-> p, step |-> "last", masked |-> m]>> \o work[t]]
    <3>1. WorkType /\ "last" \in Steps
      BY DEF LifeInv, TypeOK, WorkType, Records, Steps
    <3>2. m = TRUE
      OBVIOUS
    <3> QED BY <2>1, <3>1, <3>2, Zenon
  <2>3. /\ WorkType' /\ StackInv'
        /\ \A u \in ThreadIds \ {t} : work'[u] = work[u]
        /\ work'[t] # <<>> /\ Len(work'[t]) = Len(work[t]) + 1
        /\ work'[t][1].masked = m /\ work'[t][1].step = "last"
        /\ \A q \in Processes \ {p} : SameDestruction(q)
        /\ Destroying(p, "last")' /\ ~Doomed(p)'
    <3>1. StackInv /\ freed' = freed /\ ~Destroying(p, "last") /\ ~Doomed(p) /\ p \notin freed
      BY <1>1, <1>6 DEF LifeInv
    <3> QED BY <2>2, <3>1, WorkPush, Zenon
  <2>4. /\ tState'[p] = "gone" /\ nThreads'[p] = 0 /\ refCnt'[p] = refCnt[p] - 1
        /\ \A q \in Processes \ {p} : /\ tState'[q] = tState[q] /\ nThreads'[q] = nThreads[q]
                                      /\ refCnt'[q] = refCnt[q]
    BY <1>6, <2>1 DEF LifeInv, TypeOK
  <2>5. PlaceInv'
    BY <1>1, <1>6, <1>10, <2>4, PlaceFrame DEF LifeInv
  <2>6. UserWorkInv'
    <3> SUFFICES ASSUME NEW q \in Processes, work'[q] # <<>>
                 PROVE  /\ Len(work'[q]) = 1 /\ work'[q][1].masked
                        /\ \E d \in Cpus : run'[d] = q /\ prev'[d] = None
      BY DEF UserWorkInv
    <3>1. CASE q = t
      <4>1. Len(work'[q]) = 1
        <5>1. work[t] = <<>>
          BY <1>7, <3>1
        <5> QED BY <2>3, <3>1, <5>1
      <4> QED BY <1>1, <1>4, <2>3, <3>1, <4>1
    <3>2. CASE q # t
      <4>1. work'[q] = work[q]
        BY <2>3, <3>2 DEF ThreadIds
      <4>2. PICK d \in Cpus : run[d] = q /\ prev[d] = None
        BY <4>1 DEF LifeInv, UserWorkInv
      <4>3. prev'[d] = None
        BY <1>4, <4>2
      <4> QED BY <1>1, <4>1, <4>2, <4>3 DEF LifeInv, UserWorkInv
    <3> QED BY <3>1, <3>2
  <2>7. Cr3Inv'
    <3>1. ASSUME NEW d \in Cpus, run[d] \in Processes,
                 work'[run[d]] = <<>> \/ work'[run[d]][1].step # "restore"
          PROVE  cr3[d] = run[d]
      <4>1. CASE run[d] = t
        <5>1. work[run[d]] = <<>>
          BY <1>7, <3>1, <4>1
        <5> QED BY <3>1, <5>1 DEF LifeInv, Cr3Inv
      <4>2. CASE run[d] # t
        <5>1. work'[run[d]] = work[run[d]]
          BY <2>3, <3>1, <4>2 DEF ThreadIds
        <5> QED BY <3>1, <5>1 DEF LifeInv, Cr3Inv
      <4> QED BY <4>1, <4>2
    <3> QED BY <1>1, <3>1 DEF Cr3Inv
  <2>8. TypeOK'
    <3>1. /\ tState' \in [Processes -> ThreadStates] /\ nThreads' \in [Processes -> 0 .. 1]
          /\ refCnt' \in [Processes -> 0 .. 3]
      BY <1>6, <2>1 DEF LifeInv, TypeOK, ThreadStates
    <3> QED BY <1>1, <1>4, <1>9, <2>3, <3>1 DEF LifeInv, TypeOK, WorkType, Records
  <2>9. \A q \in Processes \ {p} : SameProcess(q)
    BY <1>1, <1>5, <1>9, <2>3, <2>4 DEF SameProcess
  <2>10. ThreadInv(p)'
    BY <1>1, <1>2, <1>5, <1>6, <1>9, <1>12, <2>4 DEF ThreadInv, HasThread
  <2>11. CountInv(p)'
    <3>1. stage[p] \in {"unnamed", "open", "waited", "closed"}
      BY <1>2, <1>6, <1>12 DEF ThreadInv, LifeInv, TypeOK, Stages, Creating
    <3> QED BY <1>1, <1>2, <1>6, <2>3, <2>4, <3>1 DEF CountInv, Creating
  <2>12. TableInv(p)'
    BY <1>1, <1>2, <1>6, <2>3, <2>4 DEF TableInv, HasThread
  <2> QED BY <1>1, <1>10, <2>3, <2>5, <2>6, <2>7, <2>8, <2>9, <2>10, <2>11, <2>12, Assemble DEF ProcInv
<1> QED BY <1>6, <1>11, <1>12

-----------------------------------------------------------------------------
(* The destructions.                                                       *)

LEMMA DestroyFacts ==
    ASSUME LifeInv, NEW c \in Cpus, NEW p \in Processes, NEW g \in Steps, DestroyAt(c, p, g)
    PROVE  /\ run[c] \in ThreadIds /\ ~panic /\ prev[c] = None /\ work[run[c]] # <<>> /\ WorkType
           /\ work[run[c]] \in Seq(Records) /\ Head(work[run[c]]) = work[run[c]][1]
           /\ work[run[c]][1].proc = p /\ work[run[c]][1].step = g
           /\ p \notin freed /\ Destroying(p, g) /\ (g # "last" => Doomed(p))
<1>1. run[c] \in ThreadIds /\ WorkType /\ ~panic /\ prev[c] = None /\ work[run[c]] # <<>>
  BY DEF LifeInv, TypeOK, WorkType, Records, DestroyAt
<1>2. work[run[c]] \in Seq(Records)
  BY <1>1 DEF WorkType
<1>3. Head(work[run[c]]) = work[run[c]][1] /\ 1 \in DOMAIN work[run[c]]
  BY <1>1, <1>2, TailFacts
<1>4. work[run[c]][1].proc = p /\ work[run[c]][1].step = g
  BY <1>3 DEF DestroyAt
<1>5. Destroying(p, g) /\ p \notin freed
  BY <1>1, <1>3, <1>4 DEF Destroying, LifeInv, StackInv
<1>6. g # "last" => Doomed(p)
  BY <1>5 DEF Doomed
<1> QED BY <1>1, <1>2, <1>3, <1>4, <1>5, <1>6

(* A thread other than a process's may do as it likes to its stack; that   *)
(* of a process stays masked and keeps at most one destruction.            *)
LEMMA StackOfRunning ==
    ASSUME LifeInv, NEW c \in Cpus, run[c] \in ThreadIds, prev[c] = None, UNCHANGED <<run, prev>>,
           \A u \in ThreadIds \ {run[c]} : work'[u] = work[u],
           work[run[c]] # <<>>,
           run[c] \in Processes =>
               \/ work'[run[c]] = <<>>
               \/ Len(work'[run[c]]) = Len(work[run[c]]) /\ work'[run[c]][1].masked = work[run[c]][1].masked,
           \A d \in Cpus \ {c} : cr3'[d] = cr3[d],
           (/\ run[c] \in Processes
            /\ work'[run[c]] = <<>> \/ work'[run[c]][1].step # "restore")
              => cr3'[c] = run[c]
    PROVE  UserWorkInv' /\ Cr3Inv'
<1>1. UserWorkInv'
  <2> SUFFICES ASSUME NEW q \in Processes, work'[q] # <<>>
               PROVE  /\ Len(work'[q]) = 1 /\ work'[q][1].masked
                      /\ \E d \in Cpus : run'[d] = q /\ prev'[d] = None
    BY DEF UserWorkInv
  <2>1. CASE q = run[c]
    <3>1. Len(work[q]) = 1 /\ work[q][1].masked
      BY <2>1 DEF LifeInv, UserWorkInv
    <3>2. Len(work'[q]) = 1
      BY <2>1, <3>1
    <3>3. work'[q][1].masked = work[q][1].masked
      BY <2>1
    <3>4. work'[q][1].masked
      BY <3>1, <3>3, Zenon
    <3> QED BY <2>1, <3>2, <3>4
  <2>2. CASE q # run[c]
    <3>1. work'[q] = work[q]
      BY <2>2 DEF ThreadIds
    <3> QED BY <3>1 DEF LifeInv, UserWorkInv
  <2> QED BY <2>1, <2>2
<1>2. Cr3Inv'
  <2> SUFFICES ASSUME NEW d \in Cpus, run[d] \in Processes,
                      work'[run[d]] = <<>> \/ work'[run[d]][1].step # "restore"
               PROVE  cr3'[d] = run[d]
    BY DEF Cr3Inv
  <2>1. CASE d # c
    <3>1. run[d] # run[c] /\ run[d] \in ThreadIds
      BY <2>1 DEF LifeInv, PlaceInv, ThreadIds
    <3>2. work'[run[d]] = work[run[d]] /\ cr3'[d] = cr3[d]
      BY <2>1, <3>1
    <3> QED BY <3>2 DEF LifeInv, Cr3Inv
  <2> QED BY <2>1
<1> QED BY <1>1, <1>2

(* A step of _ProcessDestroy after the first, but the last.                *)
LEMMA GoOnInv ==
    ASSUME LifeInv, NEW c \in Cpus, NEW p \in Processes, NEW g \in Steps, NEW h \in Steps \ {"last"},
           g # "last", DestroyAt(c, p, g), GoOn(c, h), UNCHANGED <<run, prev, freed>>,
           \A d \in Cpus \ {c} : cr3'[d] = cr3[d],
           (run[c] \in Processes /\ h # "restore") => cr3'[c] = run[c]
    PROVE  /\ WorkType' /\ StackInv' /\ UserWorkInv' /\ Cr3Inv'
           /\ \A q \in Processes : SameDestruction(q)
<1>1. /\ run[c] \in ThreadIds /\ ~panic /\ prev[c] = None /\ work[run[c]] # <<>> /\ WorkType
      /\ work[run[c]][1].proc = p
      /\ p \notin freed /\ Doomed(p)
  BY DestroyFacts
<1>2. ~Destroying(p, "last")
  BY <1>1 DEF LifeInv, ProcInv, CountInv
<1>3. PICK s \in Seq(Records) :
              /\ work' = [work EXCEPT ![run[c]] = s]
              /\ Len(s) = Len(work[run[c]])
              /\ s[1].proc = work[run[c]][1].proc
              /\ s[1].step = h
              /\ s[1].masked = work[run[c]][1].masked
              /\ \A i \in 2 .. Len(s) : s[i] = work[run[c]][i]
  BY <1>1, GoOnFacts
<1>4. /\ WorkType' /\ StackInv'
      /\ \A u \in ThreadIds \ {run[c]} : work'[u] = work[u]
      /\ work'[run[c]] = s /\ s # <<>>
      /\ \A q \in Processes \ {p} : SameDestruction(q)
      /\ ~Destroying(p, "last")' /\ Doomed(p)'
  <2>1. PICK t \in ThreadIds : t = run[c]
    BY <1>1
  <2>2. /\ WorkType /\ StackInv /\ freed' = freed /\ h \in Steps \ {"last"}
        /\ work' = [work EXCEPT ![t] = s] /\ MovedTo(s, work[t], p, h)
    BY <1>1, <1>3, <2>1 DEF LifeInv, MovedTo
  <2>3. /\ WorkType' /\ StackInv'
        /\ \A u \in ThreadIds \ {t} : work'[u] = work[u]
        /\ work'[t] = s /\ s # <<>>
        /\ \A q \in Processes \ {p} : SameDestruction(q)
        /\ ~Destroying(p, "last")' /\ Doomed(p)'
    BY <2>2, WorkReplace
  <2> QED BY <2>1, <2>3
<1>5. \A q \in Processes : SameDestruction(q)
  BY <1>1, <1>2, <1>4 DEF SameDestruction
<1>6. Len(work'[run[c]]) = Len(work[run[c]])
  BY <1>3, <1>4
<1>7. work'[run[c]][1].masked = work[run[c]][1].masked
  BY <1>3, <1>4, Zenon
<1>8. (/\ run[c] \in Processes
       /\ work'[run[c]] = <<>> \/ work'[run[c]][1].step # "restore")
              => cr3'[c] = run[c]
  BY <1>3, <1>4
<1>9. UserWorkInv' /\ Cr3Inv'
  BY <1>1, <1>4, <1>6, <1>7, <1>8, StackOfRunning
<1> QED BY <1>4, <1>5, <1>9

LEMMA ProcessDestroyInv ==
    ASSUME LifeInv, NEW c \in Cpus, NEW p \in Processes, ProcessDestroy(c, p)
    PROVE  LifeInv' /\ ~panic'
<1>1. /\ DestroyAt(c, p, "unlist") /\ panic' = (nThreads[p] # 0) /\ list' = list \ {p}
      /\ GoOn(c, IF p \in tables THEN "activate" ELSE "free")
      /\ UNCHANGED <<run, prev, ready, cr3, tlb, stage, creator, refCnt, nThreads, active, signaled, pid,
                     pidBitmap, tables, freed, tRef, tState, flushedOn>>
  BY DEF ProcessDestroy, cpuVars, evtVars, tVars
<1>2. PICK h \in Steps \ {"last", "restore"} : GoOn(c, h)
  BY <1>1 DEF Steps
<1>3. "unlist" \in Steps
  BY DEF Steps
<1>4. /\ ~panic /\ Doomed(p) /\ work[run[c]][1].step = "unlist"
  BY <1>1, <1>3, DestroyFacts
<1>5. run[c] \in Processes => cr3'[c] = run[c]
  BY <1>1, <1>4 DEF LifeInv, Cr3Inv
<1>6. /\ WorkType' /\ StackInv' /\ UserWorkInv' /\ Cr3Inv'
      /\ \A q \in Processes : SameDestruction(q)
  BY <1>1, <1>2, <1>3, <1>5, GoOnInv
<1>7. ThreadInv(p) /\ CountInv(p)
  BY DEF LifeInv, ProcInv
<1>8. nThreads[p] = 0
  BY <1>4, <1>7 DEF ThreadInv, CountInv, Over, HasThread
<1>9. ~panic' /\ panic' = FALSE
  BY <1>1, <1>8
<1>10. PlaceInv' /\ PidExclusive'
  BY <1>1, PlaceFrame, PidFrame DEF LifeInv
<1>11. TypeOK'
  BY <1>1, <1>6, <1>9 DEF LifeInv, TypeOK, WorkType, Records
<1>12. \A q \in Processes : SameProcess(q)
  BY <1>1, <1>6 DEF SameProcess, Switching
<1>13. \A q \in Processes : ProcInv(q)'
  BY <1>4, <1>12, ProcFrame DEF LifeInv
<1> QED BY <1>6, <1>9, <1>10, <1>11, <1>13 DEF LifeInv

LEMMA ActivateDyingInv ==
    ASSUME LifeInv, NEW c \in Cpus, NEW p \in Processes, ActivateDying(c, p)
    PROVE  LifeInv'
<1>1. /\ DestroyAt(c, p, "activate") /\ GoOn(c, "restore")
      /\ cr3' = [cr3 EXCEPT ![c] = p]
      /\ tlb' = [tlb EXCEPT ![c] = {q \in @ : pid[q] # pid[p]}]
      /\ flushedOn' = [flushedOn EXCEPT ![p] = c]
      /\ UNCHANGED <<run, prev, ready, stage, creator, refCnt, nThreads, active, signaled, pid,
                     pidBitmap, list, tables, freed, tRef, tState, panic>>
  BY DEF ActivateDying, evtVars, pidVars, tVars
<1>2. "activate" \in Steps /\ "restore" \in Steps \ {"last"}
  BY DEF Steps
<1>3. ~panic /\ Doomed(p)
  BY <1>1, <1>2, DestroyFacts
<1>4. /\ \A d \in Cpus \ {c} : cr3'[d] = cr3[d]
      /\ cr3' \in [Cpus -> Processes \cup {System}]
      /\ tlb' \in [Cpus -> SUBSET Processes] /\ \A d \in Cpus : tlb'[d] \subseteq tlb[d]
      /\ p \notin tlb'[c]
      /\ flushedOn'[p] = c /\ \A q \in Processes \ {p} : flushedOn'[q] = flushedOn[q]
      /\ flushedOn' \in [Processes -> Cpus \cup {None}]
  BY <1>1 DEF LifeInv, TypeOK
<1>5. /\ WorkType' /\ StackInv' /\ UserWorkInv' /\ Cr3Inv'
      /\ \A q \in Processes : SameDestruction(q)
  BY <1>1, <1>2, <1>4, GoOnInv
<1>6. ThreadInv(p) /\ CountInv(p) /\ TableInv(p)
  BY DEF LifeInv, ProcInv
<1>7. PlaceInv' /\ PidExclusive'
  BY <1>1, PlaceFrame, PidFrame DEF LifeInv
<1>8. TypeOK'
  BY <1>1, <1>4, <1>5 DEF LifeInv, TypeOK, WorkType, Records
<1>9. \A q \in Processes : Switching(q)' <=> Switching(q)
  BY <1>1 DEF Switching
<1>10. \A q \in Processes \ {p} : SameProcess(q)
  BY <1>1, <1>4, <1>5, <1>9 DEF SameProcess
<1>11. ThreadInv(p)'
  BY <1>1, <1>6, <1>9 DEF ThreadInv
<1>12. CountInv(p)'
  BY <1>1, <1>5, <1>6 DEF CountInv, SameDestruction, Over
<1>13. TableInv(p)'
  BY <1>1, <1>3, <1>4, <1>5, <1>6 DEF TableInv, SameDestruction
<1> QED BY <1>3, <1>5, <1>7, <1>8, <1>10, <1>11, <1>12, <1>13, Assemble DEF ProcInv

LEMMA RestoreTablesInv ==
    ASSUME LifeInv, NEW c \in Cpus, NEW p \in Processes, RestoreTables(c, p)
    PROVE  LifeInv'
<1>1. /\ DestroyAt(c, p, "restore") /\ GoOn(c, "unmap")
      /\ cr3' = [cr3 EXCEPT ![c] = ProcessOf(run[c])]
      /\ UNCHANGED <<run, prev, ready, tlb, stage, creator, refCnt, nThreads, active, signaled, pid,
                     pidBitmap, list, tables, freed, tRef, tState, flushedOn, panic>>
  BY DEF RestoreTables, evtVars, pidVars, tVars
<1>2. "restore" \in Steps /\ "unmap" \in Steps \ {"last"}
  BY DEF Steps
<1>3. ~panic
  BY <1>1, <1>2, DestroyFacts
<1>4. /\ \A d \in Cpus \ {c} : cr3'[d] = cr3[d]
      /\ cr3' \in [Cpus -> Processes \cup {System}]
      /\ run[c] \in Processes => cr3'[c] = run[c]
  BY <1>1 DEF LifeInv, TypeOK, ProcessOf
<1>5. /\ WorkType' /\ StackInv' /\ UserWorkInv' /\ Cr3Inv'
      /\ \A q \in Processes : SameDestruction(q)
  BY <1>1, <1>2, <1>4, GoOnInv
<1>6. PlaceInv' /\ PidExclusive'
  BY <1>1, PlaceFrame, PidFrame DEF LifeInv
<1>7. TypeOK'
  BY <1>1, <1>4, <1>5 DEF LifeInv, TypeOK, WorkType, Records
<1>8. \A q \in Processes : SameProcess(q)
  BY <1>1, <1>5 DEF SameProcess, Switching
<1>9. \A q \in Processes : ProcInv(q)'
  BY <1>3, <1>8, ProcFrame DEF LifeInv
<1> QED BY <1>5, <1>6, <1>7, <1>9 DEF LifeInv

LEMMA DestroyTablesInv ==
    ASSUME LifeInv, NEW c \in Cpus, NEW p \in Processes, DestroyTables(c, p)
    PROVE  LifeInv'
<1>1. /\ DestroyAt(c, p, "unmap") /\ GoOn(c, "free") /\ tables' = tables \ {p}
      /\ UNCHANGED <<run, prev, ready, cr3, tlb, stage, creator, refCnt, nThreads, active, signaled, pid,
                     pidBitmap, list, freed, tRef, tState, flushedOn, panic>>
  BY DEF DestroyTables, cpuVars, evtVars, pidVars, tVars
<1>2. "unmap" \in Steps /\ "free" \in Steps \ {"last"}
  BY DEF Steps
<1>3. ~panic /\ Doomed(p) /\ work[run[c]][1].step = "unmap"
  BY <1>1, <1>2, DestroyFacts
<1>4. run[c] \in Processes => cr3'[c] = run[c]
  BY <1>1, <1>3 DEF LifeInv, Cr3Inv
<1>5. /\ WorkType' /\ StackInv' /\ UserWorkInv' /\ Cr3Inv'
      /\ \A q \in Processes : SameDestruction(q)
  BY <1>1, <1>2, <1>4, GoOnInv
<1>6. PlaceInv' /\ PidExclusive'
  BY <1>1, PlaceFrame, PidFrame DEF LifeInv
<1>7. TypeOK'
  BY <1>1, <1>5 DEF LifeInv, TypeOK, WorkType, Records
<1>8. \A q \in Processes : Switching(q)' <=> Switching(q)
  BY <1>1 DEF Switching
<1>9. \A q \in Processes \ {p} : SameProcess(q)
  BY <1>1, <1>5, <1>8 DEF SameProcess
<1>10. ThreadInv(p) /\ CountInv(p) /\ TableInv(p)
  BY DEF LifeInv, ProcInv
<1>11. ThreadInv(p)'
  BY <1>1, <1>8, <1>10 DEF ThreadInv
<1>12. CountInv(p)'
  BY <1>1, <1>5, <1>10 DEF CountInv, SameDestruction, Over
<1>13. TableInv(p)'
  <2>1. stage[p] \notin {"space", "loaded"} /\ tState[p] \notin HasThread
    BY <1>3, <1>10 DEF CountInv, Over, HasThread
  <2> QED BY <1>1, <1>5, <1>10, <2>1 DEF TableInv, SameDestruction
<1> QED BY <1>3, <1>5, <1>6, <1>7, <1>9, <1>11, <1>12, <1>13, Assemble DEF ProcInv

LEMMA ProcessFreeInv ==
    ASSUME LifeInv, NEW c \in Cpus, NEW p \in Processes, ProcessFree(c, p)
    PROVE  LifeInv'
<1>1. /\ DestroyAt(c, p, "free") /\ pidBitmap' = pidBitmap \ {pid[p]} /\ freed' = freed \cup {p}
      /\ work' = [work EXCEPT ![run[c]] = Tail(work[run[c]])]
      /\ UNCHANGED <<run, prev, ready, cr3, tlb, stage, creator, refCnt, nThreads, active, signaled, pid,
                     list, tables, tRef, tState, flushedOn, panic>>
  BY DEF ProcessFree, cpuVars, evtVars, tVars
<1>2. "free" \in Steps
  BY DEF Steps
<1>3. /\ run[c] \in ThreadIds /\ ~panic /\ prev[c] = None /\ work[run[c]] # <<>> /\ WorkType
      /\ work[run[c]] \in Seq(Records)
      /\ work[run[c]][1].proc = p /\ work[run[c]][1].step = "free"
      /\ p \notin freed /\ Doomed(p)
  BY <1>1, <1>2, DestroyFacts
<1>4. /\ WorkType' /\ StackInv'
      /\ \A u \in ThreadIds \ {run[c]} : work'[u] = work[u]
      /\ work'[run[c]] = Tail(work[run[c]]) /\ Len(work'[run[c]]) = Len(work[run[c]]) - 1
      /\ \A q \in Processes \ {p} : SameDestruction(q)
      /\ ~Destroying(p, "last")' /\ (Doomed(p)' <=> p \in freed')
  BY <1>1, <1>3, WorkPop DEF LifeInv
<1>5. UserWorkInv' /\ Cr3Inv'
  <2>1. run[c] \in Processes => work'[run[c]] = <<>> /\ cr3'[c] = run[c]
    <3> SUFFICES ASSUME run[c] \in Processes PROVE work'[run[c]] = <<>> /\ cr3'[c] = run[c]
      OBVIOUS
    <3>1. Len(work[run[c]]) = 1
      BY <1>3 DEF LifeInv, UserWorkInv
    <3>2. work'[run[c]] \in Seq(Records) /\ Len(work'[run[c]]) = 0
      BY <1>3, <1>4, <3>1 DEF WorkType
    <3>3. work'[run[c]] = <<>>
      BY <3>2
    <3> QED BY <1>1, <1>3, <3>3 DEF LifeInv, Cr3Inv
  <2> QED BY <1>1, <1>3, <1>4, <2>1, StackOfRunning
<1>6. ThreadInv(p) /\ CountInv(p) /\ TableInv(p)
  BY DEF LifeInv, ProcInv
<1>7. PlaceInv'
  BY <1>1, PlaceFrame DEF LifeInv
<1>8. pid[p] # 0
  BY <1>3, <1>6 DEF CountInv
<1>9. PidExclusive'
  <2>1. \A x, y \in Processes \ freed : (pid[x] # 0 /\ pid[y] # 0 /\ pid[x] = pid[y]) => x = y
    BY DEF LifeInv, PidExclusive
  <2>2. \A x \in Processes \ freed : pid[x] # 0 => pid[x] \in pidBitmap
    BY DEF LifeInv, PidExclusive
  <2>3. \A n \in pidBitmap : \E x \in Processes \ freed : pid[x] # 0 /\ pid[x] = n
    BY DEF LifeInv, PidExclusive
  <2>4. \A x, y \in Processes \ freed' : (pid[x] # 0 /\ pid[y] # 0 /\ pid[x] = pid[y]) => x = y
    BY <1>1, <2>1
  <2>5. \A x \in Processes \ freed' : pid[x] # 0 => pid[x] \in pidBitmap'
    BY <1>1, <1>3, <1>8, <2>1, <2>2
  <2>6. \A n \in pidBitmap' : \E x \in Processes \ freed' : pid[x] # 0 /\ pid[x] = n
    BY <1>1, <2>3
  <2> QED BY <1>1, <2>4, <2>5, <2>6 DEF PidExclusive
<1>10. TypeOK'
  <2>1. pidBitmap' \in SUBSET Pids /\ freed' \in SUBSET Processes
    BY <1>1 DEF LifeInv, TypeOK
  <2> QED BY <1>1, <1>4, <2>1 DEF LifeInv, TypeOK, WorkType, Records
<1>11. \A q \in Processes : Switching(q)' <=> Switching(q)
  BY <1>1 DEF Switching
<1>12. \A q \in Processes \ {p} : SameProcess(q)
  BY <1>1, <1>4, <1>11 DEF SameProcess
<1>13. ThreadInv(p)'
  BY <1>1, <1>6, <1>11 DEF ThreadInv
<1>14. Doomed(p)' /\ p \in freed'
  BY <1>1, <1>4
<1>15. CountInv(p)'
  BY <1>1, <1>3, <1>4, <1>6, <1>14 DEF CountInv, Over
<1>16. TableInv(p)'
  BY <1>1, <1>6, <1>14 DEF TableInv
<1> QED BY <1>3, <1>4, <1>5, <1>7, <1>9, <1>10, <1>12, <1>13, <1>15, <1>16, Assemble DEF ProcInv

(* The thread of p is gone and the reference of _ProcessInit is dropped;   *)
(* only an open handle still keeps p.                                      *)
LEMMA DropInitialReferenceInv ==
    ASSUME LifeInv, NEW c \in Cpus, NEW p \in Processes, DropInitialReference(c, p)
    PROVE  LifeInv'
<1> DEFINE w == work[run[c]]
           r == [proc |-> p, step |-> "unlist", masked |-> Head(w).masked]
<1>1. /\ DestroyAt(c, p, "last")
      /\ ProcessDereference(run[c], p, Head(w).masked, Tail(w))
      /\ UNCHANGED <<run, prev, ready, cr3, tlb, stage, creator, nThreads, active, signaled, pid,
                     pidBitmap, list, tables, freed, tRef, tState, flushedOn, panic>>
  BY DEF DropInitialReference, cpuVars, evtVars, pidVars, tVars
<1>2. "last" \in Steps /\ "unlist" \in Steps
  BY DEF Steps
<1>3. /\ run[c] \in ThreadIds /\ ~panic /\ prev[c] = None /\ w # <<>> /\ WorkType
      /\ w \in Seq(Records) /\ Head(w) = w[1] /\ w[1].proc = p /\ w[1].step = "last"
      /\ p \notin freed /\ Destroying(p, "last")
  BY <1>1, <1>2, DestroyFacts
<1>4. /\ refCnt' = [refCnt EXCEPT ![p] = @ - 1]
      /\ refCnt[p] = 1 => work' = [work EXCEPT ![run[c]] = <<r>> \o Tail(w)]
      /\ refCnt[p] # 1 => work' = [work EXCEPT ![run[c]] = Tail(w)]
  BY <1>1 DEF ProcessDereference
<1>5. ThreadInv(p) /\ CountInv(p) /\ TableInv(p)
  BY DEF LifeInv, ProcInv
<1>6. tState[p] = "gone" /\ ~Doomed(p) /\ nThreads[p] = 0 /\ refCnt[p] \in 1 .. 2
      /\ (refCnt[p] = 1 <=> stage[p] \notin {"open", "waited"})
      /\ stage[p] \in {"unnamed", "open", "waited", "closed"}
  BY <1>3, <1>5 DEF ThreadInv, CountInv, HasThread, LifeInv, TypeOK, Stages, Creating
<1>7. refCnt'[p] = refCnt[p] - 1 /\ (\A q \in Processes \ {p} : refCnt'[q] = refCnt[q])
      /\ refCnt' \in [Processes -> 0 .. 3]
  BY <1>4, <1>6 DEF LifeInv, TypeOK
<1>8. \A q \in Processes : Switching(q)' <=> Switching(q)
  BY <1>1 DEF Switching
<1>9. PlaceInv' /\ PidExclusive'
  BY <1>1, PlaceFrame, PidFrame DEF LifeInv
<1>10. run[c] \in Processes => cr3'[c] = run[c] /\ Len(w) = 1
  BY <1>1, <1>3 DEF LifeInv, Cr3Inv, UserWorkInv
<1>11. ThreadInv(p)'
  BY <1>1, <1>5, <1>8 DEF ThreadInv
<1>12. CASE refCnt[p] # 1
  <2>1. /\ WorkType' /\ StackInv'
        /\ \A u \in ThreadIds \ {run[c]} : work'[u] = work[u]
        /\ work'[run[c]] = Tail(w) /\ Len(work'[run[c]]) = Len(w) - 1
        /\ \A q \in Processes \ {p} : SameDestruction(q)
        /\ ~Destroying(p, "last")' /\ (Doomed(p)' <=> p \in freed')
    BY <1>1, <1>3, <1>4, <1>12, WorkPop DEF LifeInv
  <2>2. UserWorkInv' /\ Cr3Inv'
    <3>1. run[c] \in Processes => work'[run[c]] = <<>>
      <4> SUFFICES ASSUME run[c] \in Processes PROVE work'[run[c]] = <<>>
        OBVIOUS
      <4>1. work'[run[c]] \in Seq(Records) /\ Len(work'[run[c]]) = 0
        BY <1>3, <1>10, <2>1 DEF WorkType
      <4> QED BY <4>1
    <3> QED BY <1>1, <1>3, <1>10, <2>1, <3>1, StackOfRunning
  <2>3. TypeOK'
    BY <1>1, <1>7, <2>1 DEF LifeInv, TypeOK, WorkType, Records
  <2>4. \A q \in Processes \ {p} : SameProcess(q)
    BY <1>1, <1>7, <1>8, <2>1 DEF SameProcess
  <2>5. ~Doomed(p)' /\ p \notin freed'
    BY <1>1, <1>3, <2>1
  <2>6. CountInv(p)'
    BY <1>1, <1>5, <1>6, <1>7, <1>12, <2>1, <2>5 DEF CountInv
  <2>7. TableInv(p)'
    BY <1>1, <1>5, <1>6, <2>5 DEF TableInv
  <2> QED BY <1>3, <1>9, <1>11, <2>1, <2>2, <2>3, <2>4, <2>6, <2>7, Assemble DEF ProcInv
<1>13. CASE refCnt[p] = 1
  <2> DEFINE s == <<r>> \o Tail(w)
  <2>1. r \in Records /\ r.proc = p /\ r.step = "unlist"
    <3>1. w[1] \in Records
      BY <1>3, TailFacts
    <3>2. Head(w).masked \in BOOLEAN
      BY <1>3, <3>1 DEF Records
    <3> QED BY <1>2, <3>2 DEF Records
  <2>2. r.masked = w[1].masked
    BY <1>3, Zenon
  <2>3. work' = [work EXCEPT ![run[c]] = s]
    BY <1>4, <1>13
  <2> HIDE DEF r
  <2>4. /\ Tail(w) \in Seq(Records) /\ Len(Tail(w)) = Len(w) - 1
        /\ \A i \in 1 .. Len(w) - 1 : i + 1 \in DOMAIN w /\ Tail(w)[i] = w[i + 1]
    BY <1>3, TailFacts
  <2>5. /\ s \in Seq(Records) /\ Len(s) = Len(Tail(w)) + 1 /\ s[1] = r
        /\ \A i \in 2 .. Len(Tail(w)) + 1 : s[i] = Tail(w)[i - 1]
    BY <2>1, <2>4, PushFacts
  <2> HIDE DEF s
  <2>6. Len(w) \in Nat
    BY <1>3
  <2>7. Len(s) = Len(w) /\ \A i \in 2 .. Len(s) : s[i] = w[i]
    BY <2>4, <2>5, <2>6
  <2>8. s[1].proc = p /\ s[1].step = "unlist"
    BY <2>1, <2>5
  <2>9. s[1].masked = w[1].masked
    BY <2>2, <2>5, Zenon
  <2>10. /\ WorkType' /\ StackInv'
         /\ \A u \in ThreadIds \ {run[c]} : work'[u] = work[u]
         /\ work'[run[c]] = s /\ s # <<>>
         /\ \A q \in Processes \ {p} : SameDestruction(q)
         /\ ~Destroying(p, "last")' /\ Doomed(p)'
    <3>1. PICK t \in ThreadIds, x \in Seq(Records) : t = run[c] /\ x = s
      BY <1>3, <2>5
    <3>2. /\ WorkType /\ StackInv /\ freed' = freed
          /\ work' = [work EXCEPT ![t] = x] /\ MovedTo(x, work[t], p, "unlist")
      BY <1>1, <1>3, <2>3, <2>5, <2>7, <2>8, <3>1 DEF LifeInv, MovedTo
    <3>3. /\ WorkType' /\ StackInv'
          /\ \A u \in ThreadIds \ {t} : work'[u] = work[u]
          /\ work'[t] = x /\ x # <<>>
          /\ \A q \in Processes \ {p} : SameDestruction(q)
          /\ ~Destroying(p, "last")' /\ Doomed(p)'
      BY <1>2, <3>2, "unlist" \in Steps \ {"last"}, WorkReplace
    <3> QED BY <3>1, <3>3
  <2>11. UserWorkInv' /\ Cr3Inv'
    <3>1. Len(work'[run[c]]) = Len(w)
      BY <2>7, <2>10
    <3>2. work'[run[c]][1].masked = w[1].masked
      BY <2>9, <2>10, Zenon
    <3> QED BY <1>1, <1>3, <1>10, <2>10, <3>1, <3>2, StackOfRunning
  <2>12. TypeOK'
    BY <1>1, <1>7, <2>10 DEF LifeInv, TypeOK, WorkType, Records
  <2>13. \A q \in Processes \ {p} : SameProcess(q)
    BY <1>1, <1>7, <1>8, <2>10 DEF SameProcess
  <2>14. Doomed(p)' /\ ~Destroying(p, "last")'
    BY <2>10
  <2>15. CountInv(p)'
    BY <1>1, <1>5, <1>6, <1>7, <1>13, <2>14 DEF CountInv, Over, Creating
  <2>16. TableInv(p)'
    BY <1>1, <1>5, <1>6, <2>14 DEF TableInv
  <2> QED BY <1>3, <1>9, <1>11, <2>10, <2>11, <2>12, <2>13, <2>15, <2>16, Assemble DEF ProcInv
<1> QED BY <1>12, <1>13

LEMMA DestroyStepInv ==
    ASSUME LifeInv, NEW c \in Cpus, NEW p \in Processes, DestroyStep(c, p)
    PROVE  LifeInv'
  BY DropInitialReferenceInv, ProcessDestroyInv, ActivateDyingInv, RestoreTablesInv, DestroyTablesInv,
     ProcessFreeInv DEF DestroyStep

-----------------------------------------------------------------------------
LEMMA LifeInit == Init => LifeInv
<1> SUFFICES ASSUME Init PROVE LifeInv
  OBVIOUS
<1> USE DEF Init
<1>1. TypeOK
  <2>1. run \in [Cpus -> ThreadIds] /\ ready \in SUBSET (SysThreads \cup Processes)
    BY DEF ThreadIds
  <2>2. work \in [ThreadIds -> Seq([proc : Processes, step : Steps, masked : BOOLEAN])]
    OBVIOUS
  <2>3. /\ prev \in [Cpus -> Processes \cup {None}] /\ cr3 \in [Cpus -> Processes \cup {System}]
        /\ tlb \in [Cpus -> SUBSET Processes] /\ creator \in [Processes -> Creators \cup {None}]
        /\ flushedOn \in [Processes -> Cpus \cup {None}] /\ stage \in [Processes -> Stages]
        /\ tState \in [Processes -> ThreadStates]
    BY DEF Stages, ThreadStates
  <2>4. /\ refCnt \in [Processes -> 0 .. 3] /\ nThreads \in [Processes -> 0 .. 1]
        /\ active \in [Processes -> 0 .. 1] /\ pid \in [Processes -> Pids \cup {0}]
        /\ tRef \in [Processes -> 0 .. 2]
    OBVIOUS
  <2>5. signaled \in [Processes -> BOOLEAN] /\ panic \in BOOLEAN
    OBVIOUS
  <2>6. pidBitmap \in SUBSET Pids /\ list \in SUBSET Processes /\ tables \in SUBSET Processes
        /\ freed \in SUBSET Processes
    OBVIOUS
  <2> QED BY <2>1, <2>2, <2>3, <2>4, <2>5, <2>6, Zenon DEF TypeOK
<1>2. PlaceInv
  <2>1. \A c \in Cpus : run[c] \notin Processes
    BY ProcessAssumption
  <2>2. \A p \in Processes : p \notin ready
    BY ProcessAssumption
  <2> QED BY <2>1, <2>2 DEF PlaceInv
<1>3. \A t \in ThreadIds : work[t] = <<>> /\ DOMAIN work[t] = {}
  OBVIOUS
<1>4. StackInv /\ \A p \in Processes, g \in Steps : ~Destroying(p, g)
  BY <1>3 DEF StackInv, Destroying
<1>5. UserWorkInv
  BY <1>3 DEF UserWorkInv, ThreadIds
<1>6. Cr3Inv
  <2>1. \A c \in Cpus : run[c] \notin Processes
    BY ProcessAssumption
  <2> QED BY <2>1 DEF Cr3Inv
<1>7. PidExclusive
  BY DEF PidExclusive
<1>8. \A p \in Processes : ProcInv(p)
  <2> SUFFICES ASSUME NEW p \in Processes PROVE ProcInv(p)
    OBVIOUS
  <2>1. ~Doomed(p) /\ ~Destroying(p, "last") /\ ~Switching(p)
    BY <1>4, ProcessAssumption DEF Doomed, Steps, Switching
  <2>2. ThreadInv(p)
    BY <2>1 DEF ThreadInv, HasThread
  <2>3. CountInv(p)
    BY <2>1 DEF CountInv, Creating
  <2>4. TableInv(p)
    BY DEF TableInv, HasThread
  <2> QED BY <2>2, <2>3, <2>4 DEF ProcInv
<1> QED BY <1>1, <1>2, <1>4, <1>5, <1>6, <1>7, <1>8 DEF LifeInv

LEMMA LifeNext == LifeInv /\ [Next]_vars => LifeInv'
<1> SUFFICES ASSUME LifeInv, [Next]_vars PROVE LifeInv'
  OBVIOUS
<1>1. CASE UNCHANGED vars
  <2>1. UNCHANGED <<run, prev, ready, cr3, tlb, stage, creator, refCnt, nThreads, active, signaled, pid,
                    pidBitmap, list, tables, freed, tRef, tState, work, flushedOn, panic>>
    BY <1>1 DEF vars, cpuVars, evtVars, pidVars, tVars
  <2>2. /\ PlaceInv' /\ StackInv' /\ UserWorkInv' /\ Cr3Inv'
        /\ \A q \in Processes : SameDestruction(q) /\ (Switching(q)' <=> Switching(q))
    BY <2>1, QuietFrame
  <2>3. TypeOK' /\ PidExclusive'
    BY <2>1, PidFrame DEF LifeInv, TypeOK
  <2>4. ASSUME NEW q \in Processes PROVE ProcInv(q)'
    <3>1. ThreadInv(q) /\ CountInv(q) /\ TableInv(q)
      BY DEF LifeInv, ProcInv
    <3>2. ThreadInv(q)'
      BY <2>1, <2>2, <3>1 DEF ThreadInv
    <3>3. CountInv(q)'
      BY <2>1, <2>2, <3>1 DEF CountInv, SameDestruction, Over
    <3>4. TableInv(q)'
      BY <2>1, <2>2, <3>1 DEF TableInv, SameDestruction
    <3> QED BY <3>2, <3>3, <3>4 DEF ProcInv
  <2> QED BY <2>2, <2>3, <2>4 DEF LifeInv
<1>2. CASE Next
  <2>1. PICK c \in Cpus :
          \/ \E u \in ThreadIds : ThreadYield(c, u)
          \/ Touch(c)
          \/ ThreadCleanupPostSchedule(c)
          \/ \E p \in Processes : CreateStep(c, p) \/ ThreadStep(c, p) \/ DestroyStep(c, p)
    BY <1>2 DEF Next
  <2>2. CASE \E p \in Processes : CreateStep(c, p) \/ ThreadStep(c, p) \/ DestroyStep(c, p)
    BY <2>2, CreateStepInv, DestroyStepInv, ThreadExitInv, ThreadExitSwitchInv DEF ThreadStep
  <2> QED BY <2>1, <2>2, ThreadYieldInv, TouchInv, ThreadCleanupPostScheduleInv
<1> QED BY <1>1, <1>2

(* LifeInv is an invariant of the life of processes.                       *)
THEOREM LifeInvariance == Spec => []LifeInv
  BY LifeInit, LifeNext, PTL DEF Spec

(* _ProcessDereference, _ProcessDestroy, ProcessRemoveThreadFromList,      *)
(* ThreadExit: whichever thread drops whichever reference, the count of    *)
(* every process is exact, an open handle keeps it, nothing is left of a   *)
(* process nobody refers to, TerminationEvt is signaled when its thread    *)
(* exits, and its PID is taken until it is freed and not longer.           *)
THEOREM LifetimeCorrect == Spec => []LifetimeSound
<1>1. LifeInv => LifetimeSound
  <2> SUFFICES ASSUME LifeInv PROVE LifetimeSound
    OBVIOUS
  <2>1. \A p \in Processes, S \in SUBSET Steps : InWork(p, S) <=> \E g \in S : Destroying(p, g)
    BY DEF InWork, Destroying
  <2>2. \A p \in Processes : InWork(p, {"last"}) <=> Destroying(p, "last")
    BY DEF InWork, Destroying
  <2>3. \A p \in Processes : Doomed(p) <=> p \in freed \/ InWork(p, Steps \ {"last"})
    BY <2>1 DEF Doomed
  <2>4. \A p \in Processes : InWork(p, Steps) <=> InWork(p, Steps \ {"last"}) \/ InWork(p, {"last"})
    BY DEF InWork, Steps
  <2>5. RefCountExact
    BY <2>2 DEF RefCountExact, LifeInv, ProcInv, CountInv
  <2>6. HandleKeepsProcess
    BY <2>3 DEF HandleKeepsProcess, LifeInv, ProcInv, CountInv
  <2>7. NoOrphans
    <3> SUFFICES ASSUME NEW p \in Processes, stage[p] \in {"closed", "failed"}, nThreads[p] = 0
                 PROVE  p \in freed \/ InWork(p, Steps)
      BY DEF NoOrphans
    <3>1. ThreadInv(p) /\ CountInv(p)
      BY DEF LifeInv, ProcInv
    <3>2. tState[p] \in {"gone", "none"} /\ (stage[p] = "closed" => tState[p] = "gone")
      BY <3>1 DEF ThreadInv, HasThread
    <3>3. p \in freed \/ Destroying(p, "last") \/ refCnt[p] = 0
      BY <3>1, <3>2 DEF CountInv, Creating
    <3> QED BY <2>2, <2>3, <2>4, <3>1, <3>3 DEF CountInv
  <2>8. TerminationSignaled
    BY DEF TerminationSignaled, LifeInv, ProcInv, ThreadInv
  <2> QED BY <2>5, <2>6, <2>7, <2>8 DEF LifetimeSound, LifeInv
<1> QED BY <1>1, LifeInvariance, PTL

(* _ThreadSchedule, MmuDestroyAddressSpaceForProcess: user code runs with  *)
(* the page tables of its process, which exist, and on the CPU that has    *)
(* destroyed a process no translation of it is left for a later process    *)
(* with its PID.                                                           *)
THEOREM TranslationsCorrect == Spec => []TranslationsSound
<1>1. LifeInv => TranslationsSound
  <2> SUFFICES ASSUME LifeInv PROVE TranslationsSound
    OBVIOUS
  <2>1. NoStaleTranslation
    BY DEF NoStaleTranslation, LifeInv, ProcInv, TableInv, TypeOK
  <2>2. UserTables
    <3> SUFFICES ASSUME NEW c \in Cpus, run[c] \in Processes, work[run[c]] = <<>>
                 PROVE  cr3[c] = run[c] /\ run[c] \in tables
      BY DEF UserTables
    <3>1. cr3[c] = run[c]
      BY DEF LifeInv, Cr3Inv
    <3>2. tState[run[c]] \in HasThread
      BY DEF LifeInv, PlaceInv, HasThread
    <3> QED BY <3>1, <3>2 DEF LifeInv, ProcInv, TableInv
  <2> QED BY <2>1, <2>2 DEF TranslationsSound
<1> QED BY <1>1, LifeInvariance, PTL

(* _ProcessDestroy: no process is destroyed that still has a thread, so    *)
(* its ASSERT on NumberOfThreads never fails.                              *)
THEOREM NoThreadLeftBehind ==
    Spec => [][\A c \in Cpus, p \in Processes : ProcessDestroy(c, p) => ~panic']_vars
<1>1. LifeInv /\ [Next]_vars =>
        [\A c \in Cpus, p \in Processes : ProcessDestroy(c, p) => ~panic']_vars
  BY ProcessDestroyInv
<1> QED BY <1>1, LifeInvariance, PTL DEF Spec
=============================================================================
