--------------------------- MODULE DiskRequests ---------------------------
(***************************************************************************)
(* What virtio_disk_rw() promises the buffer cache: between the call and   *)
(* its return, the block is transferred once, in one step, between the     *)
(* buffer of the caller and the sector it asked for.                       *)
(***************************************************************************)
CONSTANTS Procs, Sectors, Values, InitValue, None

VARIABLES
    disk,       \* what each sector holds
    request     \* the request of each caller, or None

Init ==
    /\ disk = [s \in Sectors |-> InitValue]
    /\ request = [p \in Procs |-> None]

\* The cache has one buffer per block, so two calls never name one sector.
Call(p, s, w, v) ==
    /\ request[p] = None
    /\ \A q \in Procs : request[q] # None => request[q].sector # s
    /\ request' = [request EXCEPT ![p] =
                     [sector |-> s, write |-> w, data |-> v, done |-> FALSE]]
    /\ UNCHANGED disk

Serve(p) ==
    /\ request[p] # None /\ ~request[p].done
    /\ LET r == request[p] IN
         IF r.write
         THEN /\ disk' = [disk EXCEPT ![r.sector] = r.data]
              /\ request' = [request EXCEPT ![p].done = TRUE]
         ELSE /\ request' = [request EXCEPT ![p].data = disk[r.sector], ![p].done = TRUE]
              /\ UNCHANGED disk

Return(p) ==
    /\ request[p] # None /\ request[p].done
    /\ request' = [request EXCEPT ![p] = None]
    /\ UNCHANGED disk

Next == \E p \in Procs :
            \/ Serve(p) \/ Return(p)
            \/ \E s \in Sectors, w \in BOOLEAN, v \in Values : Call(p, s, w, v)

Spec == Init /\ [][Next]_<<disk, request>>
===========================================================================
