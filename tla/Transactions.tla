--------------------------- MODULE Transactions ---------------------------
(***************************************************************************)
(* What the logging layer promises the file system code above it: the      *)
(* block updates of the system calls between begin_op() and end_op() reach *)
(* the disk together, only when no system call is half way, and a crash    *)
(* takes the disk back to the last commit and to nothing in between.       *)
(* Log.tla is shown to implement this specification.                       *)
(***************************************************************************)
CONSTANTS Procs, Blocks, Values

VARIABLES
    mem,       \* what bread() of each block returns
    durable,   \* what bread() will return after a crash and a reboot
    active     \* the processes between begin_op() and end_op()

vars == <<mem, durable, active>>

Init == /\ mem \in [Blocks -> Values]
        /\ durable = mem
        /\ active = {}

Begin(p) == /\ p \notin active
            /\ active' = active \cup {p}
            /\ UNCHANGED <<mem, durable>>

Write(p, b, v) == /\ p \in active
                  /\ mem' = [mem EXCEPT ![b] = v]
                  /\ UNCHANGED <<durable, active>>

End(p) == /\ p \in active
          /\ active' = active \ {p}
          /\ UNCHANGED <<mem, durable>>

\* "The logging system only commits when there are no FS system calls
\* active" (log.c:13-14).
Commit == /\ active = {}
          /\ durable' = mem
          /\ UNCHANGED <<mem, active>>

Crash == /\ mem' = durable
         /\ active' = {}
         /\ UNCHANGED durable

Next == \/ \E p \in Procs :
              \/ Begin(p)
              \/ \E b \in Blocks, v \in Values : Write(p, b, v)
              \/ End(p)
        \/ Commit
        \/ Crash

Spec == Init /\ [][Next]_vars
===========================================================================
