------------------------------- MODULE Fifo -------------------------------
(* What write() to the console promises: bytes leave in the order they     *)
(* were put, none lost and none twice.                                     *)
EXTENDS Sequences

CONSTANT Bytes
VARIABLE queue

Init == queue = <<>>
Put(c) == queue' = Append(queue, c)
Get == queue # <<>> /\ queue' = Tail(queue)
Next == Get \/ \E c \in Bytes : Put(c)
Spec == Init /\ [][Next]_queue
===========================================================================
