------------------------------ MODULE Bcache ------------------------------
(***************************************************************************)
(* kernel/bio.c and kernel/sleeplock.c: the buffer cache.  A step is one   *)
(* critical section under bcache.lock or under the spinlock of a           *)
(* sleep-lock, so that every gap between them can be filled by others:     *)
(* between bget()'s scan and acquiresleep(), and between brelse()'s        *)
(* releasesleep() and its refcnt--.  The clients follow bio.c's comment    *)
(* and log.c: a modified buffer is written with bwrite() or pinned.        *)
(***************************************************************************)
EXTENDS Integers, FiniteSets, Sequences

CONSTANTS
    Procs,
    Blocks,
    Values,
    InitValue,  \* contents of the disk at boot
    Bufs,       \* bcache.buf[NBUF]
    MaxPins,    \* pinned buffers the log may have
    None

ASSUME BcacheAssumption ==
    /\ InitValue \in Values /\ MaxPins \in Nat
    /\ None \notin Procs \cup Blocks \cup Bufs \cup Values
    /\ IsFiniteSet(Procs) /\ IsFiniteSet(Bufs)

VARIABLES
    blockno,    \* b->blockno, None in a buffer never used
    valid,      \* b->valid
    refcnt,     \* b->refcnt
    data,       \* b->data
    locked,     \* holder of b->lock (locked and pid), or None
    lru,        \* the list from head.next (recently released) to head.prev
    disk,       \* the blocks on the disk
    pinned,     \* buffers the log has pinned
    pc,         \* where each process is
    want,       \* the block it asked bread() for
    buf,        \* the buffer bget() chose
    panicked    \* "bget: no buffers"

bufVars == <<blockno, valid, refcnt, data, lru>>
vars == <<blockno, valid, refcnt, data, locked, lru, disk, pinned, pc, want, buf, panicked>>

\* binit(): the buffers are linked in some order.
Init ==
    /\ blockno = [f \in Bufs |-> None]
    /\ valid = [f \in Bufs |-> FALSE]
    /\ refcnt = [f \in Bufs |-> 0]
    /\ data = [f \in Bufs |-> InitValue]
    /\ locked = [f \in Bufs |-> None]
    /\ lru \in [1..Cardinality(Bufs) -> Bufs] /\ {lru[i] : i \in DOMAIN lru} = Bufs
    /\ disk = [b \in Blocks |-> InitValue]
    /\ pinned = {}
    /\ pc = [p \in Procs |-> "idle"]
    /\ want = [p \in Procs |-> None]
    /\ buf = [p \in Procs |-> None]
    /\ panicked = FALSE

Goto(p, l) == pc' = [pc EXCEPT ![p] = l]

-----------------------------------------------------------------------------
(* bget(), bread().                                                        *)

Cached(b) == {f \in Bufs : blockno[f] = b}

Unused == {f \in Bufs : refcnt[f] = 0}

\* The scan from head.prev: the least recently used unused buffer.
Victim == LET last == CHOOSE i \in 1..Len(lru) :
                          /\ lru[i] \in Unused
                          /\ \A j \in i+1..Len(lru) : lru[j] \notin Unused
          IN lru[last]

HitRefcnt(f) == [refcnt EXCEPT ![f] = @ + 1]

\* bget(): the block is cached.
BgetHit(p, b, f) ==
    /\ ~panicked /\ pc[p] = "idle" /\ f \in Cached(b)
    /\ refcnt' = HitRefcnt(f)
    /\ want' = [want EXCEPT ![p] = b]
    /\ buf' = [buf EXCEPT ![p] = f]
    /\ Goto(p, "acquire")
    /\ UNCHANGED <<blockno, valid, data, locked, lru, disk, pinned, panicked>>

MissValid_Kept(f) == valid

MissValid(f) == [valid EXCEPT ![f] = FALSE]

\* bget(): recycle the least recently used unused buffer, or panic.
BgetMiss(p, b) ==
    /\ ~panicked /\ pc[p] = "idle" /\ Cached(b) = {}
    /\ IF Unused = {}
         THEN panicked' = TRUE /\ UNCHANGED <<blockno, valid, refcnt, want, buf, pc>>
         ELSE /\ blockno' = [blockno EXCEPT ![Victim] = b]
              /\ valid' = MissValid(Victim)
              /\ refcnt' = [refcnt EXCEPT ![Victim] = 1]
              /\ want' = [want EXCEPT ![p] = b]
              /\ buf' = [buf EXCEPT ![p] = Victim]
              /\ Goto(p, "acquire")
              /\ UNCHANGED panicked
    /\ UNCHANGED <<data, locked, lru, disk, pinned>>

\* acquiresleep(&b->lock): take the lock, or sleep until it is released.
AcquireSleep(p) ==
    /\ pc[p] = "acquire"
    /\ IF locked[buf[p]] = None
         THEN locked' = [locked EXCEPT ![buf[p]] = p] /\ Goto(p, "fill")
         ELSE UNCHANGED locked /\ Goto(p, "asleep")
    /\ UNCHANGED <<bufVars, disk, pinned, want, buf, panicked>>

\* bread(): read the block unless the buffer is valid.
Fill(p) ==
    /\ pc[p] = "fill"
    /\ data' = IF valid[buf[p]] THEN data ELSE [data EXCEPT ![buf[p]] = disk[want[p]]]
    /\ valid' = [valid EXCEPT ![buf[p]] = TRUE]
    /\ Goto(p, "hold")
    /\ UNCHANGED <<blockno, refcnt, locked, lru, disk, pinned, want, buf, panicked>>

-----------------------------------------------------------------------------
(* The client: modify, then bwrite() or bpin(); later bwrite(), bunpin().  *)

\* Modify a buffer to be written at once, or one the log has pinned already.
Modify(p, v) ==
    /\ pc[p] = "hold"
    /\ data' = [data EXCEPT ![buf[p]] = v]
    /\ Goto(p, IF buf[p] \in pinned THEN "hold" ELSE "dirty")
    /\ UNCHANGED <<blockno, valid, refcnt, lru, locked, disk, pinned, want, buf, panicked>>

\* bpin(), from log_write().
Bpin(p) ==
    /\ pc[p] = "dirty" /\ Cardinality(pinned) < MaxPins
    /\ refcnt' = [refcnt EXCEPT ![buf[p]] = @ + 1]
    /\ pinned' = pinned \cup {buf[p]}
    /\ Goto(p, "hold")
    /\ UNCHANGED <<blockno, valid, data, lru, locked, disk, want, buf, panicked>>

\* bwrite(): the disk has the buffer's data when virtio_disk_rw() returns.
Bwrite(p) ==
    /\ pc[p] = "dirty" \/ (pc[p] = "hold" /\ buf[p] \in pinned)
    /\ disk' = [disk EXCEPT ![blockno[buf[p]]] = data[buf[p]]]
    /\ Goto(p, IF buf[p] \in pinned THEN "unpin" ELSE "hold")
    /\ UNCHANGED <<bufVars, locked, pinned, want, buf, panicked>>

UnpinRefcnt(f) == [refcnt EXCEPT ![f] = @ - 1]

\* bunpin(), from install_trans().
Bunpin(p) ==
    /\ pc[p] = "unpin"
    /\ refcnt' = UnpinRefcnt(buf[p])
    /\ pinned' = pinned \ {buf[p]}
    /\ Goto(p, "hold")
    /\ UNCHANGED <<blockno, valid, data, lru, locked, disk, want, buf, panicked>>

-----------------------------------------------------------------------------
(* brelse().                                                               *)

Wakeup_Forgotten(f, g) == g

\* wakeup(lk): the sleepers on buffer f try again.
Wakeup(f, g) == [q \in Procs |-> IF g[q] = "asleep" /\ buf[q] = f THEN "acquire" ELSE g[q]]

\* releasesleep(&b->lock)
ReleaseSleep(p) ==
    /\ pc[p] = "hold"
    /\ locked' = [locked EXCEPT ![buf[p]] = None]
    /\ pc' = Wakeup(buf[p], [pc EXCEPT ![p] = "put"])
    /\ UNCHANGED <<bufVars, disk, pinned, want, buf, panicked>>

\* Move f behind head, to the recently used end.
PutLru(f) == <<f>> \o SelectSeq(lru, LAMBDA g : g # f)

\* The rest of brelse(), under bcache.lock.
Put(p) ==
    /\ pc[p] = "put"
    /\ refcnt' = [refcnt EXCEPT ![buf[p]] = @ - 1]
    /\ lru' = IF refcnt'[buf[p]] = 0 THEN PutLru(buf[p]) ELSE lru
    /\ want' = [want EXCEPT ![p] = None]
    /\ buf' = [buf EXCEPT ![p] = None]
    /\ Goto(p, "idle")
    /\ UNCHANGED <<blockno, valid, data, locked, disk, pinned, panicked>>

Next ==
    \E p \in Procs :
        \/ \E b \in Blocks : BgetMiss(p, b) \/ \E f \in Bufs : BgetHit(p, b, f)
        \/ AcquireSleep(p) \/ Fill(p)
        \/ \E v \in Values : Modify(p, v)
        \/ Bpin(p) \/ Bwrite(p) \/ Bunpin(p)
        \/ ReleaseSleep(p) \/ Put(p)

Spec == Init /\ [][Next]_vars

-----------------------------------------------------------------------------
(* Properties.                                                             *)

\* The one copy of a block that a user sees, and its user.
S == INSTANCE BlockStore WITH
        content <- [b \in Blocks |->
                      IF \E f \in Bufs : blockno[f] = b /\ valid[f]
                        THEN data[CHOOSE f \in Bufs : blockno[f] = b /\ valid[f]]
                        ELSE disk[b]],
        owner <- [b \in Blocks |->
                    IF \E f \in Bufs : blockno[f] = b /\ locked[f] # None
                      THEN locked[CHOOSE f \in Bufs : blockno[f] = b /\ locked[f] # None]
                      ELSE None]

\* The cache is transparent: bread(), bwrite(), bpin(), bunpin() and brelse()
\* behave as one copy of each block, used by one process at a time; recycling
\* and rereading a buffer lose no modification.
ImplementsBlockStore == S!Spec

\* Every bread() gets its buffer: a process asleep in acquiresleep() waits for a
\* lock that some other process holds and will release, and with a buffer for
\* every process and every pin bget() never panics.
NoLostWakeup ==
    /\ ~panicked
    /\ \A p \in Procs : pc[p] = "asleep" =>
          \E q \in Procs \ {p} : locked[buf[p]] = q /\ buf[q] = buf[p]
===========================================================================
