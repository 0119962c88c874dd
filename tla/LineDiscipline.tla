-------------------------- MODULE LineDiscipline --------------------------
(***************************************************************************)
(* What the console promises its readers: the bytes typed, in order, once  *)
(* their line is complete; until then the end of the line can be erased.   *)
(* A read() returns at most one line; end of file is a read() of nothing.  *)
(* Bytes typed when Size bytes wait to be read are dropped.                *)
(***************************************************************************)
EXTENDS Naturals, Sequences

CONSTANTS Procs, Chars, Newline, Eof, Size

VARIABLES
    ready,      \* bytes of complete lines, not yet read
    edit,       \* the line being typed
    got         \* what the read() of each process has so far

Init == ready = <<>> /\ edit = <<>> /\ got = [p \in Procs |-> <<>>]

Type(c) ==
    /\ Len(ready) + Len(edit) < Size
    /\ LET line == Append(edit, c) IN
         IF c \in {Newline, Eof} \/ Len(ready) + Len(line) = Size
         THEN ready' = ready \o line /\ edit' = <<>>
         ELSE edit' = line /\ UNCHANGED ready
    /\ UNCHANGED got

Erase ==
    /\ edit # <<>>
    /\ edit' = SubSeq(edit, 1, Len(edit) - 1)
    /\ UNCHANGED <<ready, got>>

EraseLine == edit' = <<>> /\ UNCHANGED <<ready, got>>

Get(p) ==
    /\ ready # <<>> /\ Head(ready) # Eof
    /\ got[p] = <<>> \/ got[p][Len(got[p])] # Newline
    /\ ready' = Tail(ready)
    /\ got' = [got EXCEPT ![p] = Append(@, Head(ready))]
    /\ UNCHANGED edit

GetEof(p) ==
    /\ ready # <<>> /\ Head(ready) = Eof /\ got[p] = <<>>
    /\ ready' = Tail(ready)
    /\ UNCHANGED <<edit, got>>

\* The caller's buffer cannot be written.
Lose(p) ==
    /\ ready # <<>> /\ Head(ready) # Eof
    /\ ready' = Tail(ready)
    /\ got' = [got EXCEPT ![p] = <<>>]
    /\ UNCHANGED edit

Return(p) == got' = [got EXCEPT ![p] = <<>>] /\ UNCHANGED <<ready, edit>>

Next ==
    \/ \E c \in Chars : Type(c)
    \/ Erase \/ EraseLine
    \/ \E p \in Procs : Get(p) \/ GetEof(p) \/ Lose(p) \/ Return(p)

Spec == Init /\ [][Next]_<<ready, edit, got>>
===========================================================================
