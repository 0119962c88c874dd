------------------------------ MODULE MCLog -------------------------------
(* Instances of Log for TLC.                                               *)
EXTENDS Log, TLC

BlockSymmetry == Permutations(Blocks)
ProcSymmetry == Permutations(Procs)
Symmetry == BlockSymmetry \cup ProcSymmetry
===========================================================================
