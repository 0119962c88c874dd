------------------------------- MODULE Pipe -------------------------------
(***************************************************************************)
(* kernel/pipe.c: one pipe, the processes that have its ends open, and     *)
(* fileclose() as far as it leads to pipeclose().  pi->lock is a variable  *)
(* because killed() is read, and so kill() can come, while it is held.     *)
(* The counters nread and nwrite are C uints: they wrap at MODULUS.        *)
(***************************************************************************)
EXTENDS Integers, Sequences

CONSTANTS
    Procs,
    Bytes,
    PIPESIZE,
    MODULUS,    \* 2^32 in the code
    MAXN,       \* largest n of a read() or write()
    None

ASSUME PipeAssumption ==
    /\ PIPESIZE \in Nat \ {0} /\ MODULUS \in Nat /\ MAXN \in Nat
    /\ PIPESIZE < MODULUS /\ MODULUS % PIPESIZE = 0
    /\ None \notin Procs \cup Bytes

VARIABLES
    data, nread, nwrite, readopen, writeopen,   \* struct pipe
    lock,       \* holder of pi->lock
    freed,      \* kfree(pi) was called
    ends,       \* the ends each process has open
    killed,     \* p->killed
    pc,         \* where each process is
    left,       \* n - i: bytes its call has still to move
    last        \* ch of the piperead() in its copy loop, None outside it

pipeVars == <<data, nread, nwrite, readopen, writeopen>>
vars == <<data, nread, nwrite, readopen, writeopen, lock, freed, ends, killed, pc, left, last>>

End == {"r", "w"}

\* pipealloc(), and the forks and closes that spread the two file references.
Init ==
    /\ data = [k \in 0..PIPESIZE-1 |-> None]
    /\ nread = 0 /\ nwrite = 0
    /\ readopen = TRUE /\ writeopen = TRUE
    /\ lock = None /\ freed = FALSE
    /\ ends \in [Procs -> SUBSET End] /\ \A e \in End : \E p \in Procs : e \in ends[p]
    /\ killed = [p \in Procs |-> FALSE]
    /\ pc = [p \in Procs |-> "idle"]
    /\ left = [p \in Procs |-> 0]
    /\ last = None

Goto(p, l) == pc' = [pc EXCEPT ![p] = l]

\* wakeup(): every sleeper at label s goes on to reacquire pi->lock.
Wake(s, l, f) == [p \in Procs |-> IF f[p] = s THEN l ELSE f[p]]
WakeReaders(f) == Wake("r_sleep", "r_lock", f)
WakeWriters(f) == Wake("w_sleep", "w_lock", f)

Empty == nread = nwrite

Full == nwrite = (nread + PIPESIZE) % MODULUS

-----------------------------------------------------------------------------
(* pipewrite().                                                            *)

Write(p) ==
    /\ pc[p] = "idle" /\ ~killed[p] /\ "w" \in ends[p]
    /\ \E n \in 0..MAXN : left' = [left EXCEPT ![p] = n]
    /\ Goto(p, "w_lock")
    /\ UNCHANGED <<pipeVars, lock, freed, ends, killed, last>>

\* acquire(&pi->lock), on entry and when sleep() returns.
Acquire(p, from, to) ==
    /\ pc[p] = from /\ lock = None
    /\ lock' = p
    /\ Goto(p, to)
    /\ UNCHANGED <<pipeVars, freed, ends, killed, left, last>>

\* release(&pi->lock) and return; g is pc after the wakeups on the way out.
Return(p, g) ==
    /\ pc' = [g EXCEPT ![p] = "idle"]
    /\ lock' = None
    /\ left' = [left EXCEPT ![p] = 0]

\* wakeup(&pi->nread); release; return i.
WriteDone(p) == Return(p, WakeReaders(pc))

\* The head of the loop: i < n, then readopen and killed(pr).
WriteCheck(p) ==
    /\ pc[p] = "w_check"
    /\ IF left[p] = 0 THEN WriteDone(p)
       ELSE IF ~readopen \/ killed[p] THEN Return(p, pc)
       ELSE Goto(p, "w_act") /\ UNCHANGED <<lock, left>>
    /\ UNCHANGED <<pipeVars, freed, ends, killed, last>>

\* pipewrite-full: wakeup(&pi->nread), sleep(&pi->nwrite, &pi->lock).
FullSleep(p) ==
    /\ pc[p] = "w_act" /\ Full
    /\ pc' = WakeReaders([pc EXCEPT ![p] = "w_sleep"])
    /\ lock' = None
    /\ UNCHANGED <<pipeVars, freed, ends, killed, left, last>>

WriteSlot_PreIncrement == (nwrite + 1) % PIPESIZE

WriteSlot == nwrite % PIPESIZE

\* copyin() a byte and append it.
WriteByte(p, ch) ==
    /\ pc[p] = "w_act" /\ ~Full
    /\ data' = [data EXCEPT ![WriteSlot] = ch]
    /\ nwrite' = (nwrite + 1) % MODULUS
    /\ left' = [left EXCEPT ![p] = @ - 1]
    /\ Goto(p, "w_check")
    /\ UNCHANGED <<nread, readopen, writeopen, lock, freed, ends, killed, last>>

\* copyin() fails: break.
WriteFault(p) ==
    /\ pc[p] = "w_act" /\ ~Full
    /\ WriteDone(p)
    /\ UNCHANGED <<pipeVars, freed, ends, killed, last>>

-----------------------------------------------------------------------------
(* piperead().                                                             *)

Read(p) ==
    /\ pc[p] = "idle" /\ ~killed[p] /\ "r" \in ends[p]
    /\ \E n \in 0..MAXN : left' = [left EXCEPT ![p] = n]
    /\ Goto(p, "r_lock")
    /\ UNCHANGED <<pipeVars, lock, freed, ends, killed, last>>

\* while(empty && writeopen){ if(killed(pr)) return -1; ...
ReadCheck(p) ==
    /\ pc[p] = "r_check"
    /\ IF ~Empty \/ ~writeopen THEN Goto(p, "r_copy") /\ UNCHANGED <<lock, left>>
       ELSE IF killed[p] THEN Return(p, pc)
       ELSE Goto(p, "r_act") /\ UNCHANGED <<lock, left>>
    /\ UNCHANGED <<pipeVars, freed, ends, killed, last>>

\* ... sleep(&pi->nread, &pi->lock); }
EmptySleep(p) ==
    /\ pc[p] = "r_act"
    /\ lock' = None
    /\ Goto(p, "r_sleep")
    /\ UNCHANGED <<pipeVars, freed, ends, killed, left, last>>

\* One turn of piperead-copy.
ReadByte(p) ==
    /\ pc[p] = "r_copy" /\ left[p] > 0 /\ ~Empty
    /\ last' = data[nread % PIPESIZE]
    /\ nread' = (nread + 1) % MODULUS
    /\ left' = [left EXCEPT ![p] = @ - 1]
    /\ UNCHANGED <<data, nwrite, readopen, writeopen, lock, freed, ends, killed, pc>>

ReadDone_NoWakeup(p) == Return(p, pc) /\ last' = None

\* wakeup(&pi->nwrite); release; return i.
ReadDone(p) == Return(p, WakeWriters(pc)) /\ last' = None

\* copyout() fails: break; the byte is consumed all the same.
ReadFault(p) ==
    /\ pc[p] = "r_copy" /\ left[p] > 0 /\ ~Empty
    /\ nread' = (nread + 1) % MODULUS
    /\ ReadDone(p)
    /\ UNCHANGED <<data, nwrite, readopen, writeopen, freed, ends, killed>>

\* n bytes read, or the pipe is empty.
ReadEnd(p) ==
    /\ pc[p] = "r_copy" /\ (left[p] = 0 \/ Empty)
    /\ ReadDone(p)
    /\ UNCHANGED <<pipeVars, freed, ends, killed>>

-----------------------------------------------------------------------------
(* fileclose() and pipeclose(); kill().                                    *)

\* fileclose(): the last reference to an end goes on to pipeclose().  The files
\* of a killed process are closed by exit().
Close(p, e) ==
    /\ pc[p] = "idle" /\ e \in ends[p]
    /\ ends' = [ends EXCEPT ![p] = @ \ {e}]
    /\ IF \E q \in Procs : e \in ends'[q] THEN UNCHANGED pc
       ELSE Goto(p, IF e = "r" THEN "close_r" ELSE "close_w")
    /\ UNCHANGED <<pipeVars, lock, freed, killed, left, last>>

CloseWakes(e, g) == IF e = "w" THEN WakeReaders(g) ELSE WakeWriters(g)

\* Both ends are closed, now that e is.
CloseFrees(e) == IF e = "w" THEN ~readopen ELSE ~writeopen

PipeClose(p, e) ==
    /\ pc[p] = (IF e = "r" THEN "close_r" ELSE "close_w") /\ lock = None
    /\ readopen' = (readopen /\ e # "r")
    /\ writeopen' = (writeopen /\ e # "w")
    /\ pc' = CloseWakes(e, [pc EXCEPT ![p] = "idle"])
    /\ freed' = CloseFrees(e)
    /\ UNCHANGED <<data, nread, nwrite, lock, ends, killed, left, last>>

\* kill() of a process that uses the pipe; a sleeper is woken.
Kill(p) ==
    /\ ~killed[p]
    /\ killed' = [killed EXCEPT ![p] = TRUE]
    /\ pc' = [pc EXCEPT ![p] = IF @ = "r_sleep" THEN "r_lock"
                               ELSE IF @ = "w_sleep" THEN "w_lock" ELSE @]
    /\ UNCHANGED <<pipeVars, lock, freed, ends, left, last>>

Next ==
    \E p \in Procs :
        \/ Write(p) \/ Acquire(p, "w_lock", "w_check") \/ WriteCheck(p)
        \/ FullSleep(p) \/ WriteFault(p) \/ \E ch \in Bytes : WriteByte(p, ch)
        \/ Read(p) \/ Acquire(p, "r_lock", "r_check") \/ ReadCheck(p)
        \/ EmptySleep(p) \/ ReadByte(p) \/ ReadFault(p) \/ ReadEnd(p)
        \/ \E e \in End : Close(p, e) \/ PipeClose(p, e)
        \/ Kill(p)

Spec == Init /\ [][Next]_vars

-----------------------------------------------------------------------------
(* Properties.                                                             *)

\* The bytes between nread and nwrite, oldest first.
Queue == [k \in 1..((nwrite - nread) % MODULUS) |-> data[(nread + k - 1) % PIPESIZE]]

B == INSTANCE ByteStream WITH queue <- Queue

\* pipewrite() and piperead() implement the byte stream: bytes come out in the
\* order they went in, none twice, none overwritten, however readers and writers
\* interleave and wherever the counters wrap.
ImplementsByteStream == B!Spec

\* Nobody sleeps past what it waits for: when pi->lock is free, a sleeping writer
\* faces a full pipe with a reader, and a sleeping reader a pipe with a writer
\* that is empty, as long as no writer was killed.
NoLostWakeup ==
    lock = None => \A p \in Procs :
        /\ pc[p] = "r_sleep" => writeopen /\ (Empty \/ \E q \in Procs : killed[q])
        /\ pc[p] = "w_sleep" => Full /\ readopen

\* A reader sleeps only in an empty pipe.
ReaderSleepsOnEmpty ==
    lock = None => \A p \in Procs : pc[p] = "r_sleep" => Empty
===========================================================================
