---------------------------- MODULE BlockStore ----------------------------
(***************************************************************************)
(* What the buffer cache promises its users: each disk block is one object *)
(* that at most one process uses at a time, between bread() and brelse(),  *)
(* and that keeps what its last user left in it.                           *)
(***************************************************************************)
CONSTANTS Procs, Blocks, Values, InitValue, None

VARIABLES
    content,    \* what a user of the block sees
    owner       \* its user, or None

Init ==
    /\ content = [b \in Blocks |-> InitValue]
    /\ owner = [b \in Blocks |-> None]

Acquire(p, b) ==
    /\ owner[b] = None
    /\ owner' = [owner EXCEPT ![b] = p]
    /\ UNCHANGED content

Modify(p, b, v) ==
    /\ owner[b] = p
    /\ content' = [content EXCEPT ![b] = v]
    /\ UNCHANGED owner

Release(p, b) ==
    /\ owner[b] = p
    /\ owner' = [owner EXCEPT ![b] = None]
    /\ UNCHANGED content

Next == \E p \in Procs, b \in Blocks :
            Acquire(p, b) \/ Release(p, b) \/ \E v \in Values : Modify(p, b, v)

Spec == Init /\ [][Next]_<<content, owner>>
===========================================================================
