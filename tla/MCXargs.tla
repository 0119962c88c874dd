------------------------------ MODULE MCXargs ------------------------------
(* An instance of Xargs for TLC. *)
EXTENDS Xargs

SmallInputs == UNION {[1 .. n -> {"w", " ", "nl"}] : n \in 0 .. 4}
EchoBye == <<<<"w">>>>
===========================================================================
