------------------------------ MODULE FairLock ------------------------------
(***************************************************************************)
(* What mutex.h promises of a mutex: one thread at a time is inside, the   *)
(* others queue, and a release makes the longest waiting thread the owner  *)
(* ("this will ensure fairness"), so nobody overtakes the queue.           *)
(***************************************************************************)
EXTENDS Sequences, Functions

CONSTANTS Threads, None

VARIABLES owner,   \* the thread the lock belongs to, or None
          inside,  \* the threads that have acquired it and not released it
          leaving, \* the owner is releasing it
          queue    \* the waiting threads, in order of arrival

lockVars == <<owner, inside, leaving, queue>>

LockInit == owner = None /\ inside = {} /\ leaving = FALSE /\ queue = <<>>

(* A free lock is taken at once.                                           *)
Enter(t) ==
    /\ owner = None
    /\ queue = <<>>
    /\ owner' = t
    /\ inside' = {t}
    /\ UNCHANGED <<leaving, queue>>

Enqueue(t) ==
    /\ owner \notin {None, t}
    /\ t \notin Range(queue)
    /\ queue' = Append(queue, t)
    /\ UNCHANGED <<owner, inside, leaving>>

(* The thread that was made the owner while it waited goes in.             *)
Granted(t) ==
    /\ owner = t
    /\ inside = {}
    /\ ~leaving
    /\ inside' = {t}
    /\ UNCHANGED <<owner, leaving, queue>>

(* The owner leaves; the lock is handed over a moment later.               *)
Leave(t) ==
    /\ owner = t
    /\ inside = {t}
    /\ inside' = {}
    /\ leaving' = TRUE
    /\ UNCHANGED <<owner, queue>>

HandOver ==
    /\ leaving
    /\ leaving' = FALSE
    /\ \/ queue = <<>> /\ owner' = None /\ UNCHANGED queue
       \/ queue # <<>> /\ owner' = Head(queue) /\ queue' = Tail(queue)
    /\ UNCHANGED inside

LockNext == \/ HandOver
            \/ \E t \in Threads : Enter(t) \/ Enqueue(t) \/ Granted(t) \/ Leave(t)

LockSpec == LockInit /\ [][LockNext]_lockVars
=============================================================================
