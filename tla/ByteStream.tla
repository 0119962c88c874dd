---------------------------- MODULE ByteStream ----------------------------
(***************************************************************************)
(* What a pipe promises: a bounded first-in first-out stream of bytes.     *)
(***************************************************************************)
EXTENDS Integers, Sequences

CONSTANTS Bytes, PIPESIZE, None

VARIABLES
    queue,      \* bytes written and not yet read
    last        \* the byte the reader at work received last

Init == queue = <<>> /\ last = None

Send(ch) ==
    /\ Len(queue) < PIPESIZE
    /\ queue' = Append(queue, ch)
    /\ UNCHANGED last

Receive ==
    /\ queue # <<>>
    /\ last' = Head(queue)
    /\ queue' = Tail(queue)

\* The reader's buffer is not writable: the byte is consumed all the same.
Lose ==
    /\ queue # <<>>
    /\ queue' = Tail(queue)
    /\ last' = None

\* The reader returns.
Done == last' = None /\ UNCHANGED queue

Next == Done \/ Receive \/ Lose \/ \E ch \in Bytes : Send(ch)

Spec == Init /\ [][Next]_<<queue, last>>
===========================================================================
