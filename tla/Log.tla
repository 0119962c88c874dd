------------------------------- MODULE Log --------------------------------
(***************************************************************************)
(* kernel/log.c: the redo log that makes file system calls atomic across   *)
(* crashes, with group commit, log absorption, the space reservation of    *)
(* begin_op() and the recovery at boot.                                    *)
(*                                                                         *)
(* The disk is the log header, the log blocks and the home blocks.  One    *)
(* bwrite() is two steps, so that a crash can leave a half written (Torn)  *)
(* block behind; the header is written in one step, because struct         *)
(* logheader fits in the first 512-byte sector of its block.  The buffer   *)
(* cache is what bio.c shows to its clients: a block is either cached or   *)
(* read from the disk, and an unpinned, unused buffer may be recycled at   *)
(* any moment.  Critical sections under log.lock are single steps.         *)
(***************************************************************************)
EXTENDS Integers, Sequences, FiniteSets

CONSTANTS
    Procs,         \* processes that make file system calls
    Blocks,        \* home blocks
    Values,        \* contents of a block
    InitValue,     \* contents of every block in the image mkfs made
    Torn,          \* a block whose write was cut by a crash
    NoBuf,         \* no buffer of the cache holds the block
    LOGSIZE,       \* param.h: reservation limit of begin_op()
    MAXOPBLOCKS,   \* param.h: blocks begin_op() reserves per call
    NLOG,          \* superblock nlog: log blocks on disk, header included
    OPBLOCKS       \* distinct blocks a file system call really writes

ASSUME ConstantsAssumption ==
    /\ InitValue \in Values
    /\ Torn \notin Values
    /\ NoBuf \notin Values \cup {Torn}
    /\ LOGSIZE \in Nat /\ NLOG \in Nat
    /\ MAXOPBLOCKS \in Nat /\ OPBLOCKS \in Nat
    /\ OPBLOCKS <= MAXOPBLOCKS
    /\ IsFiniteSet(Procs) /\ IsFiniteSet(Blocks)

VARIABLES
    disk,         \* home blocks on the disk
    dhead,        \* block numbers of the on-disk header; its length is n
    dlog,         \* log blocks on the disk
    cache,        \* data of the buffer that caches a block, or NoBuf
    pins,         \* refcnt that bpin() added to the buffer of a block
    lh,           \* log.lh.block[0..n-1]
    outstanding,  \* log.outstanding
    committing,   \* log.committing
    pc,           \* where each process is
    written,      \* distinct blocks its current call has logged
    step,         \* where commit() or recover_from_log() is
    tail,         \* their loop variable
    recovering,   \* initlog() has not returned yet
    panicked      \* a CPU spins in panic() with log.lock held

diskVars == <<disk, dhead, dlog>>
logVars == <<lh, outstanding, committing>>
vars == <<disk, dhead, dlog, cache, pins, lh, outstanding, committing,
          pc, written, step, tail, recovering, panicked>>

PCs == {"idle", "begin", "sleep", "op", "commit"}
Steps == {"none", "read_head", "write_log", "write_log_io", "write_head",
          "install", "install_io", "end"}

Logged_Never == {}

\* The blocks already in the log: absorption looks here.
Logged == {lh[i] : i \in 1..Len(lh)}

\* The calls between begin_op() and end_op().
Active == {p \in Procs : pc[p] = "op"}

\* The mkfs image, before the first boot.
Init == /\ disk = [b \in Blocks |-> InitValue]
        /\ dhead = <<>>
        /\ dlog = [i \in 1..LOGSIZE |-> InitValue]
        /\ cache = [b \in Blocks |-> NoBuf]
        /\ pins = [b \in Blocks |-> 0]
        /\ lh = <<>>
        /\ outstanding = 0
        /\ committing = FALSE
        /\ pc = [p \in Procs |-> "idle"]
        /\ written = [p \in Procs |-> {}]
        /\ step = "read_head"
        /\ tail = 0
        /\ recovering = TRUE
        /\ panicked = FALSE

-----------------------------------------------------------------------------
(* The buffer cache, as log.c uses it.                                     *)

\* The buffer of b cannot be recycled: pinned, or held by install_trans().
InUse(b) == \/ pins[b] > 0
            \/ step = "install_io" /\ lh[tail + 1] = b

\* bread() by any reader; reads need no transaction.
Bread(b) == /\ ~recovering
            /\ cache[b] = NoBuf
            /\ cache' = [cache EXCEPT ![b] = disk[b]]
            /\ UNCHANGED <<diskVars, logVars, pins, pc, written, step, tail,
                           recovering, panicked>>

\* bget() recycles a buffer nobody references.
Recycle(b) == /\ cache[b] # NoBuf
              /\ ~InUse(b)
              /\ cache' = [cache EXCEPT ![b] = NoBuf]
              /\ UNCHANGED <<diskVars, logVars, pins, pc, written, step, tail,
                             recovering, panicked>>

-----------------------------------------------------------------------------
(* begin_op(), log_write(), end_op().                                      *)

MustWait_DuringCommit ==
    Len(lh) + (outstanding + 1) * MAXOPBLOCKS > LOGSIZE

MustWait ==
    \/ committing
    \/ Len(lh) + (outstanding + 1) * MAXOPBLOCKS > LOGSIZE

\* One turn of begin_op()'s loop, by a caller or by a sleeper just woken.
BeginOp(p) ==
    /\ ~recovering /\ ~panicked
    /\ pc[p] \in {"idle", "begin"}
    /\ IF MustWait
         THEN /\ pc' = [pc EXCEPT ![p] = "sleep"]
              /\ UNCHANGED <<outstanding, written>>
         ELSE /\ outstanding' = outstanding + 1
              /\ pc' = [pc EXCEPT ![p] = "op"]
              /\ written' = [written EXCEPT ![p] = {}]
    /\ UNCHANGED <<diskVars, lh, committing, cache, pins, step, tail,
                   recovering, panicked>>

TooBig == Len(lh) >= LOGSIZE \/ Len(lh) >= NLOG - 1

Pin_Forgotten(b) == pins' = pins

Pin(b) == pins' = [pins EXCEPT ![b] = @ + 1]

\* bread, modify, log_write, brelse: the use the comment of log_write() gives.
\* The guard on OPBLOCKS is the callers' side of the contract.  A buffer whose
\* log_write() panics stays locked, so its new data is never seen.
LogWrite(p, b, v) ==
    /\ ~panicked
    /\ pc[p] = "op"
    /\ Cardinality(written[p] \cup {b}) <= OPBLOCKS
    /\ IF TooBig \/ outstanding < 1
         THEN /\ panicked' = TRUE
              /\ UNCHANGED <<lh, cache, pins, written>>
         ELSE /\ cache' = [cache EXCEPT ![b] = v]
              /\ written' = [written EXCEPT ![p] = @ \cup {b}]
              /\ IF b \in Logged
                   THEN UNCHANGED <<lh, pins>>            \* log absorption
                   ELSE lh' = Append(lh, b) /\ Pin(b)
              /\ UNCHANGED panicked
    /\ UNCHANGED <<diskVars, outstanding, committing, pc, step, tail, recovering>>

Wakeup_Forgotten(f) == f

\* wakeup(&log): every sleeper runs begin_op()'s loop again.
Wakeup(f) == [p \in Procs |-> IF f[p] = "sleep" THEN "begin" ELSE f[p]]

EndOp(p) ==
    /\ ~panicked
    /\ pc[p] = "op"
    /\ outstanding' = outstanding - 1
    /\ IF committing
         THEN panicked' = TRUE /\ UNCHANGED <<committing, pc, step, tail>>
         ELSE /\ UNCHANGED panicked
              /\ IF outstanding' = 0
                   THEN /\ committing' = TRUE
                        /\ pc' = [pc EXCEPT ![p] = "commit"]
                        /\ step' = IF lh = <<>> THEN "end" ELSE "write_log"
                        /\ tail' = 0
                   ELSE /\ pc' = Wakeup([pc EXCEPT ![p] = "idle"])
                        /\ UNCHANGED <<committing, step, tail>>
    /\ UNCHANGED <<diskVars, lh, cache, pins, written, recovering>>

-----------------------------------------------------------------------------
(* commit() and recover_from_log(); only one of them ever runs at a time.  *)

\* write_log(): the bwrite() of log block tail reaches the disk in two steps.
WriteLog ==
    /\ step = "write_log" /\ tail < Len(lh)
    /\ dlog' = [dlog EXCEPT ![tail + 1] = Torn]
    /\ step' = "write_log_io"
    /\ UNCHANGED <<disk, dhead, logVars, cache, pins, pc, written, tail,
                   recovering, panicked>>

WriteLogDone ==
    /\ step = "write_log_io"
    /\ dlog' = [dlog EXCEPT ![tail + 1] = cache[lh[tail + 1]]]
    /\ tail' = tail + 1
    /\ step' = IF tail + 1 < Len(lh) THEN "write_log" ELSE "write_head"
    /\ UNCHANGED <<disk, dhead, logVars, cache, pins, pc, written,
                   recovering, panicked>>

\* write_head() in commit(): the commit point.
WriteHead ==
    /\ step = "write_head"
    /\ dhead' = lh
    /\ step' = "install"
    /\ tail' = 0
    /\ UNCHANGED <<disk, dlog, logVars, cache, pins, pc, written,
                   recovering, panicked>>

\* install_trans(): copy log block tail to its home, cached and on disk.
Install ==
    /\ step = "install" /\ tail < Len(lh)
    /\ cache' = [cache EXCEPT ![lh[tail + 1]] = dlog[tail + 1]]
    /\ disk' = [disk EXCEPT ![lh[tail + 1]] = Torn]
    /\ step' = "install_io"
    /\ UNCHANGED <<dhead, dlog, logVars, pins, pc, written, tail, recovering, panicked>>

\* The home block is complete; bunpin(), unless recovering.
InstallDone ==
    /\ step = "install_io"
    /\ disk' = [disk EXCEPT ![lh[tail + 1]] = cache[lh[tail + 1]]]
    /\ pins' = IF recovering THEN pins
                             ELSE [pins EXCEPT ![lh[tail + 1]] = @ - 1]
    /\ tail' = tail + 1
    /\ step' = "install"
    /\ UNCHANGED <<dhead, dlog, cache, logVars, pc, written, recovering, panicked>>

ClearCond_Early == step = "install" /\ (tail + 1 >= Len(lh))

ClearCond == step = "install" /\ tail = Len(lh)

\* log.lh.n = 0; write_head(): erase the transaction.
ClearHead ==
    /\ ClearCond
    /\ lh' = <<>>
    /\ dhead' = <<>>
    /\ tail' = 0
    /\ step' = IF recovering THEN "none" ELSE "end"
    /\ recovering' = FALSE
    /\ UNCHANGED <<disk, dlog, cache, pins, outstanding, committing, pc,
                   written, panicked>>

\* end_op() after commit().
EndCommit ==
    /\ step = "end" /\ ~panicked
    /\ committing' = FALSE
    /\ pc' = Wakeup([p \in Procs |-> IF pc[p] = "commit" THEN "idle" ELSE pc[p]])
    /\ step' = "none"
    /\ UNCHANGED <<diskVars, lh, outstanding, cache, pins, written, tail,
                   recovering, panicked>>

\* read_head() in recover_from_log().
ReadHead ==
    /\ step = "read_head"
    /\ lh' = dhead
    /\ tail' = 0
    /\ step' = "install"
    /\ UNCHANGED <<diskVars, outstanding, committing, cache, pins, pc, written,
                   recovering, panicked>>

\* Power loss and restart at any moment: only the disk survives.
Crash ==
    /\ cache' = [b \in Blocks |-> NoBuf]
    /\ pins' = [b \in Blocks |-> 0]
    /\ lh' = <<>>
    /\ outstanding' = 0
    /\ committing' = FALSE
    /\ pc' = [p \in Procs |-> "idle"]
    /\ written' = [p \in Procs |-> {}]
    /\ step' = "read_head"
    /\ tail' = 0
    /\ recovering' = TRUE
    /\ panicked' = FALSE
    /\ UNCHANGED diskVars

Next ==
    \/ \E p \in Procs :
          \/ BeginOp(p)
          \/ \E b \in Blocks, v \in Values : LogWrite(p, b, v)
          \/ EndOp(p)
    \/ \E b \in Blocks : Bread(b) \/ Recycle(b)
    \/ WriteLog \/ WriteLogDone \/ WriteHead
    \/ Install \/ InstallDone \/ ClearHead \/ EndCommit
    \/ ReadHead
    \/ Crash

Spec == Init /\ [][Next]_vars

\* Every file system call ends, a woken process runs again, and the process
\* inside commit() or recover_from_log() is scheduled.
Fairness ==
    /\ \A p \in Procs : /\ WF_vars(EndOp(p))
                        /\ WF_vars(pc[p] = "begin" /\ BeginOp(p))
    /\ WF_vars(\/ WriteLog \/ WriteLogDone \/ WriteHead \/ Install
               \/ InstallDone \/ ClearHead \/ EndCommit \/ ReadHead)

LiveSpec == Spec /\ Fairness

-----------------------------------------------------------------------------
(* Properties.                                                             *)

\* Every variable has the type of its C counterpart; no counter is negative
\* and the in-memory header never outgrows the block[LOGSIZE] array.
TypeOK ==
    /\ disk \in [Blocks -> Values \cup {Torn}]
    /\ dlog \in [1..LOGSIZE -> Values \cup {Torn}]
    /\ cache \in [Blocks -> Values \cup {Torn, NoBuf}]
    /\ dhead \in Seq(Blocks) /\ Len(dhead) <= LOGSIZE
    /\ lh \in Seq(Blocks) /\ Len(lh) <= LOGSIZE
    /\ pins \in [Blocks -> Nat]
    /\ outstanding \in Nat
    /\ tail \in Nat
    /\ pc \in [Procs -> PCs]
    /\ written \in [Procs -> SUBSET Blocks]
    /\ step \in Steps
    /\ committing \in BOOLEAN /\ recovering \in BOOLEAN /\ panicked \in BOOLEAN

(* The inductive invariant behind the theorems of LogProofs.               *)

Committing == step \in {"write_log", "write_log_io", "write_head"}
Installing == step \in {"install", "install_io"}

\* Who may run when: one committer or recoverer, never beside an open call.
ControlInv ==
    /\ outstanding = Cardinality(Active)
    /\ committing <=> (~recovering /\ step # "none")
    /\ committing \/ recovering => \A p \in Procs : pc[p] # "op"
    /\ recovering => Installing \/ step = "read_head"
    /\ step = "read_head" => recovering
    /\ step \in {"read_head", "end"} \/ (step = "none" /\ outstanding = 0) => lh = <<>>
    /\ step \in {"write_log", "write_log_io", "install_io"} => tail < Len(lh)
    /\ step = "write_head" => tail = Len(lh)
    /\ step = "install" => tail <= Len(lh)
    /\ \A p \in Procs : pc[p] = "op" => written[p] \subseteq Logged

\* The header on disk is empty or names each logged block once, with a complete
\* log block behind it; the log blocks copied so far hold the cached data.
LogInv ==
    /\ \A i, j \in 1..Len(lh) : lh[i] = lh[j] => i = j
    /\ \A i, j \in 1..Len(dhead) : dhead[i] = dhead[j] => i = j
    /\ Installing => dhead = lh
    /\ ~Installing /\ step # "read_head" => dhead = <<>>
    /\ \A i \in 1..Len(dhead) : dlog[i] # Torn
    /\ Committing => \A i \in 1..tail : dlog[i] = cache[lh[i]]

\* A half written home block is always covered by the log; installed blocks
\* equal their log block.
HomeInv ==
    /\ \A b \in Blocks : disk[b] = Torn => \E i \in 1..Len(dhead) : dhead[i] = b
    /\ Installing => \A i \in 1..tail : disk[lh[i]] = dlog[i]

\* Entry i of the header holds the newest copy of its block.
Pending(i) == i \in 1..Len(lh) /\ (Installing => tail < i)

\* The cache agrees with the disk except on pending blocks, which are pinned.
CacheInv ==
    /\ \A b \in Blocks :
          /\ cache[b] \in {NoBuf, disk[b]} \/ \E i \in 1..Len(lh) : Pending(i) /\ lh[i] = b
          /\ pins[b] = IF ~recovering /\ \E i \in 1..Len(lh) : Pending(i) /\ lh[i] = b
                         THEN 1 ELSE 0
    /\ \A i \in 1..Len(lh) : Pending(i) /\ ~recovering =>
          /\ cache[lh[i]] \in Values
          /\ Installing => cache[lh[i]] = dlog[i]
    /\ step = "install_io" => cache[lh[tail + 1]] = dlog[tail + 1]
    /\ step = "read_head" => \A b \in Blocks : cache[b] = NoBuf
    /\ recovering => \A i \in 1..Len(lh) :
          Pending(i) => cache[lh[i]] = NoBuf \/ (step = "install_io" /\ i = tail + 1)

\* The pieces together: at every moment of a commit, an installation, a crash
\* and a recovery, cache, pins, log and home blocks fit together so that the
\* newest copy of each block is never lost.
LogInvariant == ControlInv /\ LogInv /\ HomeInv /\ CacheInv

-----------------------------------------------------------------------------
\* What a reboot would leave on the disk: recover_from_log() replays the log
\* named by the header over the home blocks.
Durable ==
    [b \in Blocks |->
        IF \E i \in 1..Len(dhead) : dhead[i] = b
          THEN dlog[CHOOSE i \in 1..Len(dhead) : dhead[i] = b]
          ELSE disk[b]]

\* What bread() returns for each block.
View == [b \in Blocks |-> IF cache[b] = NoBuf THEN disk[b] ELSE cache[b]]

Mem == IF recovering THEN Durable ELSE View

T == INSTANCE Transactions WITH mem <- Mem,
                                durable <- Durable,
                                active <- Active

\* log.c gives atomic transactions: at every moment a crash and recovery take
\* the disk to the state of the last commit, commits happen only between
\* system calls, and readers see every logged write.
ImplementsTransactions == T!Spec

\* The transaction is on the disk when end_op() by the last caller returns:
\* with no call in progress and no commit running, every block is at home, the
\* header on disk is empty and no buffer is still pinned by the log.
QuietMeansInstalled ==
    outstanding = 0 /\ ~committing /\ ~recovering
       => /\ View = disk
          /\ dhead = <<>> /\ lh = <<>>
          /\ \A b \in Blocks : pins[b] = 0

\* No call panics in log_write() or end_op(): the reservation of begin_op()
\* leaves room for every block a call logs.
NoPanic == ~panicked

\* Every process that sleeps in begin_op() is woken again.
SleeperIsWoken == \A p \in Procs : pc[p] = "sleep" ~> pc[p] # "sleep"
===========================================================================
