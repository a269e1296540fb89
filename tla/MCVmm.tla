------------------------------- MODULE MCVmm -------------------------------
(***************************************************************************)
(* Instances of Vmm.  Two threads that ask for the same things are         *)
(* interchangeable, and so are the processors.                             *)
(***************************************************************************)
EXTENDS Vmm, TLC

CONSTANTS t1, t2, c1, c2, file1

MCSymmetry == Permutations({t1, t2}) \cup Permutations({c1, c2})
=============================================================================
