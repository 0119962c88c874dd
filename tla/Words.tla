------------------------------- MODULE Words ------------------------------
(* C's unsigned counters: they wrap at MODULUS, 2^32 or 2^64 in the code.  *)
EXTENDS Integers

CONSTANTS MODULUS, None

ASSUME WordsAssumption == MODULUS \in Nat \ {0}

\* j - i in unsigned arithmetic.
Distance(i, j) == (j - i) % MODULUS
===========================================================================
