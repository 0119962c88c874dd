---------------------------- MODULE Descriptors ----------------------------
(***************************************************************************)
(* The file table (kernel/file.c), the descriptors of the processes and    *)
(* the calls that hand them around (kernel/sysfile.c, fork() and exit() in *)
(* kernel/proc.c).  What a file stands for is one end of a pipe or an      *)
(* inode; fileclose() frees the table entry under ftable.lock and closes   *)
(* that object afterwards, from a copy.                                    *)
(***************************************************************************)
EXTENDS Naturals, Sequences, FiniteSets, FiniteSetsExt, SequencesExt

CONSTANTS
    People,     \* slots of the process table; one of them is initproc
    FirstPerson,
    NFILE, NOFILE,
    PipeIds,    \* pipes that kalloc() can give
    InodeIds    \* inodes that open() can find

Slots == 1 .. NFILE
Fds == 0 .. NOFILE - 1
PipeReadEnd(k) == <<"read", k>>
PipeWriteEnd(k) == <<"write", k>>
PipeEnds == {"read", "write"} \X PipeIds

VARIABLES
    ftable,     \* reference count of each file and what it stands for
    pipes,      \* which ends are open; a pipe with none is free
    iref,       \* references to each inode that files hold
    person      \* of each process: descriptors, the files that sys_pipe() made,
                \* and the objects that it still has to close

fileVars == <<ftable, pipes, iref, person>>

NoFile == [ref |-> 0, end |-> <<>>]
Nobody == [pc |-> "unused", ofile |-> [d \in Fds |-> 0], made |-> <<>>, closing |-> <<>>]

FileInit ==
    /\ ftable = [s \in Slots |-> NoFile]
    /\ pipes = [k \in PipeIds |-> {}]
    /\ iref = [i \in InodeIds |-> 0]
    /\ person = [p \in People |->
                   IF p = FirstPerson THEN [Nobody EXCEPT !.pc = "user"] ELSE Nobody]

Ready(p) == person[p].pc = "user" /\ person[p].closing = <<>>
FreeSlots == {s \in Slots : ftable[s].ref = 0}
FreeFds(p) == {d \in Fds : person[p].ofile[d] = 0}
---------------------------------------------------------------------------
\* sys_open() of an inode: without a file or a descriptor everything it took
\* goes back, so it changes nothing.
OpenFile(p, i) ==
    LET s == Min(FreeSlots) IN
    /\ Ready(p) /\ FreeSlots # {} /\ FreeFds(p) # {}
    /\ ftable' = [ftable EXCEPT ![s] = [ref |-> 1, end |-> <<"inode", i>>]]
    /\ iref' = [iref EXCEPT ![i] = @ + 1]
    /\ person' = [person EXCEPT ![p].ofile[Min(FreeFds(p))] = s]
    /\ UNCHANGED pipes

\* pipealloc(): a page and two files, or nothing.
PipeAlloc(p, k) ==
    LET r == Min(FreeSlots)
        w == Min(FreeSlots \ {r})
    IN  /\ Ready(p) /\ pipes[k] = {} /\ Cardinality(FreeSlots) >= 2
        /\ ftable' = [ftable EXCEPT ![r] = [ref |-> 1, end |-> PipeReadEnd(k)],
                                    ![w] = [ref |-> 1, end |-> PipeWriteEnd(k)]]
        /\ pipes' = [pipes EXCEPT ![k] = {"read", "write"}]
        /\ person' = [person EXCEPT ![p].pc = "pipe", ![p].made = <<r, w>>]
        /\ UNCHANGED iref

PipeFds(p) ==
    LET d == Min(FreeFds(p))
        e == Min(FreeFds(p) \ {d})
    IN  /\ person[p].pc = "pipe" /\ Cardinality(FreeFds(p)) >= 2
        /\ person' = [person EXCEPT ![p].pc = "user", ![p].made = <<>>,
                                    ![p].ofile[d] = person[p].made[1],
                                    ![p].ofile[e] = person[p].made[2]]
        /\ UNCHANGED <<ftable, pipes, iref>>

\* fileclose(s): the last reference frees the entry; what it stood for remains
\* to be closed.
LastClose_Early(s) == ftable[s].ref <= 2

LastClose(s) == ftable[s].ref = 1

Dropped(s) == [ftable EXCEPT ![s] = IF LastClose(s) THEN NoFile ELSE [@ EXCEPT !.ref = @ - 1]]
Remaining(s) == IF LastClose(s) THEN <<ftable[s].end>> ELSE <<>>

\* Too few descriptors, or copyout() to the user's array fails: both descriptors
\* are taken back and both files are closed; copyout() may fail at any time.
PipeFail(p) ==
    LET r == person[p].made[1]
        w == person[p].made[2]
    IN  /\ person[p].pc = "pipe"
        /\ ftable' = [Dropped(r) EXCEPT ![w] = Dropped(w)[w]]
        /\ person' = [person EXCEPT ![p].pc = "user", ![p].made = <<>>,
                                    ![p].closing = Remaining(r) \o Remaining(w)]
        /\ UNCHANGED <<pipes, iref>>

Dup(p, d) ==
    LET s == person[p].ofile[d] IN
    /\ Ready(p) /\ s # 0 /\ FreeFds(p) # {}
    /\ ftable' = [ftable EXCEPT ![s].ref = @ + 1]
    /\ person' = [person EXCEPT ![p].ofile[Min(FreeFds(p))] = s]
    /\ UNCHANGED <<pipes, iref>>

\* sys_close(), and each round of the loop in exit(), which goes upwards.
CloseFd(p, d) ==
    LET s == person[p].ofile[d] IN
    /\ person[p].pc \in {"user", "exit"} /\ person[p].closing = <<>>
    /\ person[p].pc = "exit" => \A e \in 0 .. d - 1 : e \in FreeFds(p)
    /\ s # 0
    /\ ftable' = Dropped(s)
    /\ person' = [person EXCEPT ![p].ofile[d] = 0, ![p].closing = Remaining(s)]
    /\ UNCHANGED <<pipes, iref>>

\* The rest of fileclose(), after ftable.lock is released: pipeclose() or iput().
CloseEnd(p) ==
    LET end == Head(person[p].closing) IN
    /\ person[p].closing # <<>>
    /\ IF end \in PipeEnds
       THEN pipes' = [pipes EXCEPT ![end[2]] = @ \ {end[1]}] /\ UNCHANGED iref
       ELSE iref' = [iref EXCEPT ![end[2]] = @ - 1] /\ UNCHANGED pipes
    /\ person' = [person EXCEPT ![p].closing = Tail(@)]
    /\ UNCHANGED ftable

\* fork() duplicates every open file of the parent.
Copies(p, s) == Cardinality({d \in Fds : person[p].ofile[d] = s})

ForkFiles(p, c) ==
    /\ Ready(p) /\ person[c].pc = "unused"
    /\ ftable' = [s \in Slots |-> [ftable[s] EXCEPT !.ref = @ + Copies(p, s)]]
    /\ person' = [person EXCEPT ![c] = [Nobody EXCEPT !.pc = "user", !.ofile = person[p].ofile]]
    /\ UNCHANGED <<pipes, iref>>

ExitBegin(p) ==
    /\ Ready(p) /\ p # FirstPerson
    /\ person' = [person EXCEPT ![p].pc = "exit"]
    /\ UNCHANGED <<ftable, pipes, iref>>

ExitEnd(p) ==
    /\ person[p].pc = "exit" /\ person[p].closing = <<>>
    /\ FreeFds(p) = Fds
    /\ person' = [person EXCEPT ![p] = Nobody]
    /\ UNCHANGED <<ftable, pipes, iref>>

FileNext ==
    \E p \in People :
        \/ \E i \in InodeIds : OpenFile(p, i)
        \/ \E k \in PipeIds : PipeAlloc(p, k)
        \/ PipeFds(p) \/ PipeFail(p)
        \/ \E d \in Fds : Dup(p, d) \/ CloseFd(p, d)
        \/ CloseEnd(p)
        \/ \E c \in People : ForkFiles(p, c)
        \/ ExitBegin(p) \/ ExitEnd(p)

FileSpec == FileInit /\ [][FileNext]_fileVars
---------------------------------------------------------------------------
\* The users of an object: files that stand for it and closes under way.
UsersOf(end) ==
    Cardinality({s \in Slots : ftable[s].ref > 0 /\ ftable[s].end = end})
    + MapThenSumSet(LAMBDA p : Cardinality({k \in DOMAIN person[p].closing :
                                               person[p].closing[k] = end}), People)

\* An object is open exactly as long as a descriptor leads to it: a file counts
\* its descriptors in all processes, a pipe end is open (so that readers wait
\* and do not see end-of-file, pipe.c:113) if and only if a file or a close under
\* way needs it, and an inode has one reference for each of those.
OpenWhileDescribed ==
    /\ \A s \in Slots :
          ftable[s].ref = MapThenSumSet(
              LAMBDA p : Copies(p, s)
                         + Cardinality({k \in DOMAIN person[p].made : person[p].made[k] = s}),
              People)
    /\ \A k \in PipeIds, side \in {"read", "write"} :
          UsersOf(<<side, k>>) = IF side \in pipes[k] THEN 1 ELSE 0
    /\ \A i \in InodeIds : iref[i] = UsersOf(<<"inode", i>>)
===========================================================================
