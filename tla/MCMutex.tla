------------------------------ MODULE MCMutex ------------------------------
(* Instances of Mutex for TLC. *)
EXTENDS Mutex, FiniteSets, TLC

CONSTANTS c1, c2, i1, i2, m1, m2, w1, w2

OneIdle == c1 :> i1
OneMain == c1 :> m1
TwoIdle == c1 :> i1 @@ c2 :> i2
TwoMain == c1 :> m1 @@ c2 :> m2

\* Exchanging the two CPUs together with the threads bound to them.
Exchange == c1 :> c2 @@ c2 :> c1 @@ i1 :> i2 @@ i2 :> i1 @@ m1 :> m2 @@ m2 :> m1
CpuSymmetry == {f \in Permutations(DOMAIN Exchange) :
                   \/ f = Exchange
                   \/ \A x \in DOMAIN f : f[x] = x}

\* Bound of mutex_smp: one thread exits, and nobody closes the handle of a thread.
OneExits ==
    /\ Cardinality({t \in Threads : state[t] = "Dying"}) <= 1
    /\ \A t \in Threads \ (MainThreads \cup IdleThreads) : state[t] # "None" => handle[t] # None
=============================================================================
