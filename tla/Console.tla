------------------------------ MODULE Console -----------------------------
(***************************************************************************)
(* kernel/console.c, input: the interrupt handler that edits and commits   *)
(* lines in the ring cons.buf, and the processes that read them.           *)
(* cons.lock is held over each handler call and from one sleep of a reader *)
(* to the next; kill() does not take it.  The indices r, w and e are C     *)
(* uints and wrap at MODULUS.  Echo (consputc) is in Uart.                 *)
(***************************************************************************)
EXTENDS Words, Sequences

CONSTANTS
    Readers,
    INPUT_BUF_SIZE,
    MAXN,       \* largest n of a read()
    Chars,      \* what can be stored, Newline (also for '\r') and Eof (^D) included
    Newline, Eof

ASSUME ConsoleAssumption ==
    /\ INPUT_BUF_SIZE \in Nat \ {0} /\ MAXN \in Nat
    /\ INPUT_BUF_SIZE < MODULUS /\ MODULUS % INPUT_BUF_SIZE = 0
    /\ Newline \in Chars /\ Eof \in Chars /\ Newline # Eof
    /\ None \notin Readers \cup Chars

VARIABLES
    buf, r, w, e,   \* cons
    lock,           \* the reader that holds cons.lock, or None
    pc, n, got,     \* each reader: where it is, n, the bytes copied out so far
    killed          \* p->killed

consVars == <<buf, r, w, e, lock, pc, n, got, killed>>

Index(i) == i % INPUT_BUF_SIZE

ConsInit ==
    /\ buf = [i \in 0..INPUT_BUF_SIZE-1 |-> None]
    /\ r = 0 /\ w = 0 /\ e = 0
    /\ lock = None
    /\ pc = [p \in Readers |-> "idle"]
    /\ n = [p \in Readers |-> 0]
    /\ got = [p \in Readers |-> <<>>]
    /\ killed = [p \in Readers |-> FALSE]

-----------------------------------------------------------------------------
(* consoleintr().                                                          *)

WakeReaders_None(f) == f

\* wakeup(&cons.r)
WakeReaders(f) == [p \in Readers |-> IF f[p] = "sleep" THEN "lock" ELSE f[p]]

\* A whole line, end of file, or the buffer is full.
Commits(c, end) == c \in {Newline, Eof} \/ Distance(r, end) = INPUT_BUF_SIZE

Type(c) ==
    /\ lock = None
    /\ Distance(r, e) < INPUT_BUF_SIZE
    /\ buf' = [buf EXCEPT ![Index(e)] = c]
    /\ e' = (e + 1) % MODULUS
    /\ IF Commits(c, e')
       THEN w' = e' /\ pc' = WakeReaders(pc)
       ELSE UNCHANGED <<w, pc>>
    /\ UNCHANGED <<r, lock, n, got, killed>>

Erasable_PastLine == e # r

\* cons.e != cons.w
Erasable == e # w

\* ^H and DEL.
Backspace ==
    /\ lock = None /\ Erasable
    /\ e' = (e - 1) % MODULUS
    /\ UNCHANGED <<buf, r, w, lock, pc, n, got, killed>>

\* ^U: back to the last newline, or to w.
KillLine ==
    /\ lock = None /\ Erasable
    /\ LET stops == {k \in 0..Distance(w, e) :
                        k = Distance(w, e) \/ buf[Index(e - 1 - k)] = Newline}
       IN  e' = (e - (CHOOSE k \in stops : \A j \in stops : k <= j)) % MODULUS
    /\ UNCHANGED <<buf, r, w, lock, pc, n, got, killed>>

-----------------------------------------------------------------------------
(* consoleread().                                                          *)

Read(p, count) ==
    /\ pc[p] = "idle" /\ ~killed[p]
    /\ n' = [n EXCEPT ![p] = count]
    /\ pc' = [pc EXCEPT ![p] = "lock"]
    /\ UNCHANGED <<buf, r, w, e, lock, got, killed>>

\* acquire(&cons.lock), on entry and when sleep() returns.
ReadLock(p) ==
    /\ pc[p] = "lock" /\ lock = None
    /\ lock' = p
    /\ pc' = [pc EXCEPT ![p] = "loop"]
    /\ UNCHANGED <<buf, r, w, e, n, got, killed>>

\* release(&cons.lock), return target - n, or -1 for a killed process.
ReadReturn(p) ==
    /\ pc' = [pc EXCEPT ![p] = "idle"]
    /\ lock' = None
    /\ n' = [n EXCEPT ![p] = 0]
    /\ got' = [got EXCEPT ![p] = <<>>]

\* n == 0, a whole line, or nothing to read and killed.
ReadEnd(p) ==
    /\ \/ pc[p] = "done"
       \/ pc[p] = "loop" /\ (n[p] = 0 \/ (r = w /\ killed[p]))
    /\ ReadReturn(p)
    /\ UNCHANGED <<buf, r, w, e, killed>>

\* Nothing to read and not killed; the sleep() is the next step.
ReadEmpty(p) ==
    /\ pc[p] = "loop" /\ n[p] > 0 /\ r = w /\ ~killed[p]
    /\ pc' = [pc EXCEPT ![p] = "tosleep"]
    /\ UNCHANGED <<buf, r, w, e, lock, n, got, killed>>

ReadSleep(p) ==
    /\ pc[p] = "tosleep"
    /\ pc' = [pc EXCEPT ![p] = "sleep"]
    /\ lock' = None
    /\ UNCHANGED <<buf, r, w, e, n, got, killed>>

\* ^D after some bytes is left for the next read().
KeepEof(p) == got[p] # <<>>

ReadEof(p) ==
    /\ pc[p] = "loop" /\ n[p] > 0 /\ r # w /\ buf[Index(r)] = Eof
    /\ r' = IF KeepEof(p) THEN r ELSE (r + 1) % MODULUS
    /\ ReadReturn(p)
    /\ UNCHANGED <<buf, w, e, killed>>

\* either_copyout() fails: the byte is lost.
ReadFault(p) ==
    /\ pc[p] = "loop" /\ n[p] > 0 /\ r # w /\ buf[Index(r)] # Eof
    /\ r' = (r + 1) % MODULUS
    /\ ReadReturn(p)
    /\ UNCHANGED <<buf, w, e, killed>>

ReadByte(p) ==
    LET c == buf[Index(r)] IN
    /\ pc[p] = "loop" /\ n[p] > 0 /\ r # w /\ c # Eof
    /\ r' = (r + 1) % MODULUS
    /\ n' = [n EXCEPT ![p] = @ - 1]
    /\ got' = [got EXCEPT ![p] = Append(@, c)]
    /\ pc' = [pc EXCEPT ![p] = IF c = Newline THEN "done" ELSE "loop"]
    /\ UNCHANGED <<buf, w, e, lock, killed>>

\* kill(): a sleeper becomes runnable.
KillReader(p) ==
    /\ ~killed[p] /\ pc[p] # "idle"
    /\ killed' = [killed EXCEPT ![p] = TRUE]
    /\ pc' = [pc EXCEPT ![p] = IF @ = "sleep" THEN "lock" ELSE @]
    /\ UNCHANGED <<buf, r, w, e, lock, n, got>>

\* The killed process exits; the slot has another process.
ReaderExits(p) ==
    /\ killed[p] /\ pc[p] = "idle"
    /\ killed' = [killed EXCEPT ![p] = FALSE]
    /\ UNCHANGED <<buf, r, w, e, lock, pc, n, got>>

Reader(p) ==
    \/ \E count \in 0..MAXN : Read(p, count)
    \/ ReadLock(p) \/ ReadEnd(p) \/ ReadEmpty(p) \/ ReadSleep(p)
    \/ ReadEof(p) \/ ReadFault(p) \/ ReadByte(p) \/ KillReader(p) \/ ReaderExits(p)

ConsNext == (\E c \in Chars : Type(c)) \/ Backspace \/ KillLine \/ (\E p \in Readers : Reader(p))

-----------------------------------------------------------------------------
\* A reader sleeps on cons.r only while there is no complete line to read.
ReaderIsWoken == \A p \in Readers : pc[p] = "sleep" => r = w

Stored(i, j) == [k \in 1..Distance(i, j) |-> buf[Index(i + k - 1)]]
Lines == INSTANCE LineDiscipline WITH
    Procs <- Readers, Size <- INPUT_BUF_SIZE, ready <- Stored(r, w), edit <- Stored(w, e)

\* Readers get the bytes typed, in order, a line at most per read(), and an
\* end of file only as an empty read(), whatever is erased and wherever the
\* indices wrap: committed bytes are never erased, nor overwritten unread.
ImplementsLineDiscipline == Lines!Spec
===========================================================================
