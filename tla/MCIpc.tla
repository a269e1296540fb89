------------------------------- MODULE MCIpc -------------------------------
(* Instances of Ipc for TLC. *)
EXTENDS Ipc, TLC

CONSTANTS c1, c2, c3, e1, e2, s1, s2

IpcSymmetry == Permutations(Cpus) \cup Permutations(Events) \cup Permutations(Senders)
=============================================================================
