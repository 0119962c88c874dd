----------------------------- MODULE MCBcache -----------------------------
(* Instances of Bcache for TLC. *)
EXTENDS Bcache, TLC

\* Init allows every order of the buffers, so they are interchangeable too.
Symmetry == Permutations(Procs) \cup Permutations(Blocks) \cup Permutations(Bufs)
===========================================================================
