-------------------------------- MODULE Grep --------------------------------
(***************************************************************************)
(* grep (user/grep.c): the matcher for ^ . * $, and the loop that reads a  *)
(* file through a buffer of fixed size, prints the lines that match and    *)
(* keeps an incomplete line for the next read().  "nl" is the newline.     *)
(***************************************************************************)
EXTENDS Naturals, Sequences, FiniteSets, FiniteSetsExt, SequencesExt

CONSTANTS
    GREPBUF,    \* size of the buffer (1024)
    Patterns, Texts

VARIABLES pattern, text, unread, buf, matched, ended

grepVars == <<pattern, text, unread, buf, matched, ended>>

GrepStart(re, s) ==
    /\ pattern = re /\ text = s
    /\ unread = s /\ buf = <<>> /\ matched = <<>> /\ ended = FALSE

GrepInit == \E re \in Patterns, s \in Texts : GrepStart(re, s)
---------------------------------------------------------------------------
Chr(s, k) == IF k > Len(s) THEN "nul" ELSE s[k]

RECURSIVE matchhere(_, _, _, _)
\* c*re at position t: zero or more of c, then the rest.
RECURSIVE matchstar(_, _, _, _, _)
matchstar(c, re, k, s, t) ==
    \/ matchhere(re, k, s, t)
    \/ /\ Chr(s, t) # "nul" /\ (Chr(s, t) = c \/ c = ".")
       /\ matchstar(c, re, k, s, t + 1)

matchhere(re, k, s, t) ==
    CASE Chr(re, k) = "nul" -> TRUE
      [] Chr(re, k) # "nul" /\ Chr(re, k + 1) = "*" -> matchstar(re[k], re, k + 2, s, t)
      [] Chr(re, k) = "$" /\ Chr(re, k + 1) = "nul" -> Chr(s, t) = "nul"
      [] OTHER -> /\ Chr(s, t) # "nul" /\ (re[k] = "." \/ re[k] = s[t])
                  /\ matchhere(re, k + 1, s, t + 1)

match(re, s) ==
    IF Chr(re, 1) = "^" THEN matchhere(re, 2, s, 1)
    ELSE \E t \in 1 .. Len(s) + 1 : matchhere(re, 1, s, t)

\* The lines of a text that end in a newline, and what follows the last newline.
Newlines(s) == SelectSeq([k \in DOMAIN s |-> k], LAMBDA k : s[k] = "nl")
LineNo(s, n) == SubSeq(s, (IF n = 1 THEN 0 ELSE Newlines(s)[n - 1]) + 1, Newlines(s)[n] - 1)
LinesOf(s) == [n \in DOMAIN Newlines(s) |-> LineNo(s, n)]
Rest_DropsPartial(s) == <<>>

Rest(s) == SubSeq(s, Max({0} \union ToSet(Newlines(s))) + 1, Len(s))

\* One read() of n bytes and the loop over the lines that are then complete.
GrepRead(n) ==
    LET s == buf \o SubSeq(unread, 1, n) IN
    /\ ~ ended /\ n \in 1 .. Min({Len(unread), GREPBUF - Len(buf) - 1})
    /\ matched' = matched \o SelectSeq(LinesOf(s), LAMBDA l : match(pattern, l))
    /\ buf' = Rest(s)
    /\ unread' = SubSeq(unread, n + 1, Len(unread))
    /\ UNCHANGED <<pattern, text, ended>>

\* read() returns 0: the file is at its end, or the buffer has no room.
GrepEnd ==
    /\ ~ ended /\ (unread = <<>> \/ Len(buf) = GREPBUF - 1)
    /\ ended' = TRUE
    /\ UNCHANGED <<pattern, text, unread, buf, matched>>

GrepNext == (\E n \in 1 .. GREPBUF : GrepRead(n)) \/ GrepEnd
GrepSpec == GrepInit /\ [][GrepNext]_grepVars
---------------------------------------------------------------------------
(***************************************************************************)
(* The reference: a pattern is a sequence of atoms, each of which leads    *)
(* from a set of positions of the line to a set of positions.              *)
(***************************************************************************)
Anchored(re) == Len(re) > 0 /\ re[1] = "^"
Body(re) == IF Anchored(re) THEN Tail(re) ELSE re

RECURSIVE Atoms(_)
Atoms(re) ==
    CASE re = <<>> -> <<>>
      [] Len(re) > 1 /\ re[2] = "*" -> <<[c |-> re[1], star |-> TRUE]>> \o Atoms(SubSeq(re, 3, Len(re)))
      [] re = <<"$">> -> <<[c |-> "end", star |-> FALSE]>>
      [] OTHER -> <<[c |-> re[1], star |-> FALSE]>> \o Atoms(Tail(re))

Fits(c, s, k) == k <= Len(s) /\ (c = "." \/ c = s[k])

After(s, from, atom) ==
    CASE atom.c = "end" -> from \intersect {Len(s) + 1}
      [] atom.star -> {q \in 1 .. Len(s) + 1 :
                         \E p \in from : p <= q /\ \A k \in p .. q - 1 : Fits(atom.c, s, k)}
      [] OTHER -> {p + 1 : p \in {q \in from : Fits(atom.c, s, q)}}

Matches(re, s) ==
    FoldLeft(LAMBDA from, atom : After(s, from, atom),
             IF Anchored(re) THEN {1} ELSE 1 .. Len(s) + 1, Atoms(Body(re))) # {}

Expected(s) == SelectSeq(LinesOf(s), LAMBDA l : Matches(pattern, l))

\* However read() cuts the file, grep prints exactly the lines that the pattern
\* matches, each once and in order; what is printed and what is still to come always
\* make up the whole, and at the end nothing is left over unless a line is longer
\* than the buffer.  (A last line without newline is never looked at.)
GrepPrintsMatches ==
    /\ matched \o Expected(buf \o unread) = Expected(text)
    /\ ended => \/ matched = Expected(text)
                \/ \E n \in DOMAIN Newlines(text) : Len(LineNo(text, n)) >= GREPBUF - 1
===========================================================================
