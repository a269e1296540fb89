--------------------------- MODULE MCProcessLife ---------------------------
(* Instances of ProcessLife for TLC. *)
EXTENDS ProcessLife, TLC

CONSTANTS c1, c2, s1, s2, p1, p2, p3

ProcessSymmetry == Permutations(Cpus) \cup Permutations(Processes)
=============================================================================
