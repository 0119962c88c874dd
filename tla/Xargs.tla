------------------------------- MODULE Xargs -------------------------------
(***************************************************************************)
(* xargs (user/xargs.c): for each line of its input it runs the command    *)
(* with the line's words as further arguments.  An iteration of the loop   *)
(* is one step, since it reads, forks and waits on its own.  The variable  *)
(* c is declared inside the loop and not initialised: when read() returns  *)
(* nothing it is what its stack slot held, the last character of the       *)
(* previous line or something else.                                        *)
(***************************************************************************)
EXTENDS Naturals, Sequences, FiniteSets, FiniteSetsExt, SequencesExt

CONSTANTS
    Inputs,     \* "nl" is the newline
    BaseArgs,   \* arguments of xargs itself
    LINEBUF,    \* 512
    ARGLIMIT    \* MAXARG - 1

VARIABLES
    given,      \* the whole input
    rest,       \* what is not read yet
    c,          \* what the slot of c holds
    ran,        \* the argument lists of the commands that were run
    exited

xargsVars == <<given, rest, c, ran, exited>>

XargsInit ==
    /\ given \in Inputs /\ rest = given
    /\ c = "?" /\ ran = <<>> /\ exited = FALSE
---------------------------------------------------------------------------
\* The words of a line, as many as fit; buf drops what a line has beyond its size.
WordStarts(l) ==
    SelectSeq([k \in DOMAIN l |-> k], LAMBDA k : l[k] # " " /\ (k = 1 \/ l[k - 1] = " "))

ArgOf(l, k) ==
    SubSeq(l, k, Min({j \in k .. Len(l) : j = Len(l) \/ l[j + 1] = " "}))

Argv(l) ==
    LET starts == WordStarts(l)
        room == Min({Len(starts), ARGLIMIT - Len(BaseArgs)})
    IN  BaseArgs \o [n \in 1 .. room |-> ArgOf(l, starts[n])]

\* read() up to a newline or the end of the input.
LineLength(s) == Min({Len(s)} \union {k - 1 : k \in {k \in DOMAIN s : s[k] = "nl"}})

Iterate(c0) ==
    LET len == LineLength(rest)
        line == SubSeq(rest, 1, Min({len, LINEBUF - 1}))
        last == IF rest = <<>> THEN c0 ELSE rest[Min({len + 1, Len(rest)})]
    IN  /\ ~ exited
        /\ rest' = SubSeq(rest, len + 2, Len(rest))
        /\ c' = last
        /\ IF line = <<>> /\ last # "nl"
           THEN exited' = TRUE /\ UNCHANGED ran
           ELSE ran' = Append(ran, Argv(line)) /\ exited' = (last # "nl")
        /\ UNCHANGED given

\* The slot keeps its value or was used for something else in between.
XargsNext == Iterate(c) \/ Iterate("?")

XargsSpec == XargsInit /\ [][XargsNext]_xargsVars
---------------------------------------------------------------------------
LinesIn(s) == Cardinality({k \in DOMAIN s : s[k] = "nl"})
              + (IF s # <<>> /\ Last(s) # "nl" THEN 1 ELSE 0)

\* xargs runs one command for each line and stops at the end of the input, as the
\* comments "EOF" at its two break statements say (user/xargs.c:27 and :54).
StopsAtEof == Len(ran) <= LinesIn(given)
===========================================================================
