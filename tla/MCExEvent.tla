------------------------------ MODULE MCExEvent ------------------------------
(* Instances of ExEvent for TLC. *)
EXTENDS ExEvent, TLC

CONSTANTS c1, c2, i1, i2, m1, m2, w1, w2

OneIdle == c1 :> i1
OneMain == c1 :> m1
TwoIdle == c1 :> i1 @@ c2 :> i2
TwoMain == c1 :> m1 @@ c2 :> m2

\* Exchanging the two CPUs together with the threads bound to them.
Exchange == c1 :> c2 @@ c2 :> c1 @@ i1 :> i2 @@ i2 :> i1 @@ m1 :> m2 @@ m2 :> m1
CpuSymmetry == {f \in Permutations(DOMAIN Exchange) :
                   \/ f = Exchange
                   \/ \A x \in DOMAIN f : f[x] = x}
=============================================================================
