------------------------------- MODULE Sieve -------------------------------
(***************************************************************************)
(* The prime sieve (user/primes.c): main() is stage 0 and feeds 2 .. TOP   *)
(* into pipe 1; stage k reads pipe k, prints the first number as a prime,  *)
(* forks stage k + 1 and passes on what its prime does not divide.  Each   *)
(* stage inherits descriptors that it has to close, or nobody downstream   *)
(* ever sees end-of-file.                                                  *)
(***************************************************************************)
EXTENDS Naturals, Sequences, FiniteSets, SequencesExt

CONSTANTS
    TOP,        \* 280 in the program
    STAGES,     \* processes that fork() can make
    PIPECAP     \* numbers that a pipe holds

Stages == 0 .. STAGES

VARIABLES stage, pipeline, printed

sieveVars == <<stage, pipeline, printed>>

SieveInit ==
    /\ stage = [k \in Stages |-> [pc |-> IF k = 0 THEN "fork" ELSE "none", prime |-> 0, n |-> 2]]
    /\ pipeline = [k \in Stages |-> [data |-> <<>>, readers |-> {}, writers |-> {}]]
    /\ printed = <<>>

Goes(k, pc) == stage' = [stage EXCEPT ![k].pc = pc]

\* pipe() and fork(): both processes have both ends of pipe k + 1, and the child
\* also the read end that the parent reads.  A failed fork() goes unnoticed.
SieveFork(k) ==
    /\ stage[k].pc = "fork" /\ k + 1 \in Stages
    /\ stage' = [stage EXCEPT ![k].pc = "parent", ![k + 1].pc = "child"]
    /\ pipeline' = [pipeline EXCEPT ![k + 1].readers = {k, k + 1}, ![k + 1].writers = {k, k + 1},
                                    ![k].readers = @ \union (IF k = 0 THEN {} ELSE {k + 1})]
    /\ UNCHANGED printed

SieveForkFails(k) ==
    /\ stage[k].pc = "fork" /\ k + 1 \in Stages
    /\ Goes(k, "parent")
    /\ pipeline' = [pipeline EXCEPT ![k + 1].readers = {k}, ![k + 1].writers = {k}]
    /\ UNCHANGED printed

\* The child closes what it will not use: the read end above and its write end.
ChildCloses_NotWriteEnd(k) ==
    /\ stage[k].pc = "child"
    /\ Goes(k, "first")
    /\ pipeline' = [pipeline EXCEPT ![k - 1].readers = @ \ {k}]
    /\ UNCHANGED printed

ChildCloses(k) ==
    /\ stage[k].pc = "child"
    /\ Goes(k, "first")
    /\ pipeline' = [pipeline EXCEPT ![k - 1].readers = @ \ {k}, ![k].writers = @ \ {k}]
    /\ UNCHANGED printed

ParentCloses(k) ==
    /\ stage[k].pc = "parent"
    /\ Goes(k, IF k = 0 THEN "write" ELSE "read")
    /\ pipeline' = [pipeline EXCEPT ![k + 1].readers = @ \ {k}]
    /\ UNCHANGED printed

\* read() at the head of sieve(): a prime, or the end.
First(k) ==
    LET data == pipeline[k].data IN
    /\ stage[k].pc = "first"
    /\ \/ /\ data # <<>>
          /\ stage' = [stage EXCEPT ![k].pc = "fork", ![k].prime = Head(data)]
          /\ pipeline' = [pipeline EXCEPT ![k].data = Tail(data)]
          /\ printed' = Append(printed, Head(data))
       \/ /\ data = <<>> /\ pipeline[k].writers = {}
          /\ Goes(k, "exited")
          /\ pipeline' = [pipeline EXCEPT ![k].readers = @ \ {k}]
          /\ UNCHANGED printed

Filter(k) ==
    LET data == pipeline[k].data IN
    /\ stage[k].pc = "read"
    /\ \/ /\ data # <<>>
          /\ stage' = [stage EXCEPT ![k].n = Head(data),
                         ![k].pc = IF Head(data) % stage[k].prime # 0 THEN "write" ELSE "read"]
          /\ pipeline' = [pipeline EXCEPT ![k].data = Tail(data)]
       \/ /\ data = <<>> /\ pipeline[k].writers = {}
          /\ Goes(k, "close") /\ UNCHANGED pipeline
    /\ UNCHANGED printed

\* main() writes 2 .. TOP, a stage the number it passes on; write() fails without
\* a reader, which nobody checks.
SieveWrite(k) ==
    LET next == pipeline[k + 1] IN
    /\ stage[k].pc = "write"
    /\ next.readers = {} \/ Len(next.data) < PIPECAP
    /\ pipeline' = [pipeline EXCEPT ![k + 1].data =
                      IF next.readers = {} THEN @ ELSE Append(@, stage[k].n)]
    /\ stage' = [stage EXCEPT ![k] =
                   IF k > 0 THEN [@ EXCEPT !.pc = "read"]
                   ELSE IF @.n < TOP THEN [@ EXCEPT !.n = @ + 1]
                   ELSE [@ EXCEPT !.pc = "close"]]
    /\ UNCHANGED printed

CloseBoth(k) ==
    /\ stage[k].pc = "close"
    /\ Goes(k, "wait")
    /\ pipeline' = [pipeline EXCEPT ![k].readers = @ \ {k}, ![k + 1].writers = @ \ {k}]
    /\ UNCHANGED printed

\* wait(0) returns when the child has exited, or at once if there is none.
WaitExit(k) ==
    /\ stage[k].pc = "wait"
    /\ stage[k + 1].pc \in {"none", "exited"}
    /\ Goes(k, "exited")
    /\ UNCHANGED <<pipeline, printed>>

SieveNext ==
    \E k \in Stages :
        \/ SieveFork(k) \/ SieveForkFails(k) \/ ChildCloses(k) \/ ParentCloses(k)
        \/ First(k) \/ Filter(k) \/ SieveWrite(k) \/ CloseBoth(k) \/ WaitExit(k)

SieveSpec == SieveInit /\ [][SieveNext]_sieveVars
---------------------------------------------------------------------------
Primes == SelectSeq([n \in 1 .. TOP |-> n],
                    LAMBDA n : n > 1 /\ \A d \in 2 .. n - 1 : n % d # 0)

\* The sieve prints the primes in order although every stage runs on its own, and
\* it ends: when no process can move all have exited and, unless a fork failed,
\* every prime up to TOP is printed.
SieveEnds ==
    /\ IsPrefix(printed, Primes)
    /\ \/ ENABLED SieveNext
       \/ /\ \A k \in Stages : stage[k].pc \in {"none", "exited"}
          /\ printed = Primes \/ stage[Len(printed) + 1].pc = "none"
===========================================================================
