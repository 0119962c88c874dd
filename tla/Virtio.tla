------------------------------ MODULE Virtio ------------------------------
(***************************************************************************)
(* kernel/virtio_disk.c: processes that ask for disk transfers, the        *)
(* interrupt handler, and the device they talk to through the three parts  *)
(* of the virtqueue.  vdisk_lock is a variable: the device never takes it, *)
(* so everything the driver writes that the device can see is a step of    *)
(* its own.  A process has one buffer, named after it.                     *)
(***************************************************************************)
EXTENDS Integers, FiniteSets

CONSTANTS
    Procs, Sectors, Values, InitValue,
    NUM,        \* descriptors, and entries of each ring
    IdxMod,     \* the rings' idx are uint16: 2^16 in the code
    Start,      \* where the rings' idx are after the transfers before these
    MaxCalls,   \* bound: transfers in one behaviour
    Intr,       \* the interrupt handler, as a holder of vdisk_lock
    None

ASSUME VirtioAssumption ==
    /\ NUM \in Nat /\ NUM >= 3 /\ IdxMod \in Nat \ {0} /\ IdxMod % NUM = 0
    /\ Start \in 0..IdxMod-1 /\ MaxCalls \in Nat /\ InitValue \in Values
    /\ Intr \notin Procs /\ None \notin Procs /\ Intr # None

VARIABLES
    free, desc, info, avail, used, used_idx,    \* struct disk
    lock,       \* holder of vdisk_lock
    onDisk,     \* b->disk
    bdata,      \* b->data
    pc, req,    \* each process: where it is, the transfer it asked for
    head,       \* idx[0] of its chain
    disk, seen, fetched, kicked, owed, irq,     \* the device
    calls       \* transfers so far

driver == <<free, desc, avail, used_idx, lock, onDisk, pc, req, head, calls>>
device == <<disk, used, seen, fetched, kicked, owed, irq>>
vars == <<free, desc, info, avail, used, used_idx, lock, onDisk, bdata, pc, req,
          head, disk, seen, fetched, kicked, owed, irq, calls>>

Ids == 0..NUM-1
NoDesc == [addr |-> None, next |-> 0, flags |-> {}]

Init ==
    /\ free = Ids
    /\ desc = [i \in Ids |-> NoDesc]
    /\ info = [i \in Ids |-> [b |-> None, status |-> 0]]
    /\ avail = [idx |-> Start, ring |-> [i \in Ids |-> 0]]
    /\ used = [idx |-> Start, ring |-> [i \in Ids |-> 0]]
    /\ used_idx = Start /\ lock = None
    /\ onDisk = [p \in Procs |-> FALSE]
    /\ bdata = [p \in Procs |-> InitValue]
    /\ pc = [p \in Procs |-> "idle"]
    /\ req = [p \in Procs |-> None]
    /\ head = [p \in Procs |-> 0]
    /\ disk = [s \in Sectors |-> InitValue]
    /\ seen = Start /\ fetched = {} /\ kicked = FALSE /\ owed = FALSE /\ irq = FALSE
    /\ calls = 0

-----------------------------------------------------------------------------
(* virtio_disk_rw().                                                       *)

\* The caller holds b->lock and no other buffer holds the block (Bcache).
Call(p, s, w, v) ==
    /\ pc[p] = "idle" /\ calls < MaxCalls /\ (w \/ v = InitValue)
    /\ \A q \in Procs : pc[q] # "idle" => req[q].sector # s
    /\ req' = [req EXCEPT ![p] = [sector |-> s, write |-> w]]
    /\ bdata' = [bdata EXCEPT ![p] = v]
    /\ pc' = [pc EXCEPT ![p] = "alloc"]
    /\ calls' = calls + 1
    /\ UNCHANGED <<free, desc, info, avail, used_idx, lock, onDisk, head, device>>

WakeAlloc_Nobody(f) == f

\* wakeup(&disk.free[0])
WakeAlloc(f) == [p \in Procs |-> IF f[p] = "sleep_free" THEN "alloc" ELSE f[p]]

alloc_desc(f) == CHOOSE i \in f : \A j \in f : i <= j

\* The data descriptor, with |= VRING_DESC_F_NEXT.
DataFlags(w) == (IF w THEN {} ELSE {"WRITE"}) \cup {"NEXT"}

\* Three descriptors for the request (the first one's addr stands for the header
\* ops[idx[0]] it points to), formatted, and the head in the next slot
\* of the avail ring, which the device does not look at before idx moves.
Format(p) ==
    LET i0 == alloc_desc(free)
        i1 == alloc_desc(free \ {i0})
        i2 == alloc_desc(free \ {i0, i1})
        w == req[p].write
    IN  /\ free' = free \ {i0, i1, i2}
        /\ desc' = [desc EXCEPT
              ![i0] = [addr |-> [type |-> IF w THEN "OUT" ELSE "IN", sector |-> req[p].sector],
                       next |-> i1, flags |-> {"NEXT"}],
              ![i1] = [addr |-> p, next |-> i2, flags |-> DataFlags(w)],
              ![i2] = [addr |-> i0, next |-> 0, flags |-> {"WRITE"}]]
        /\ info' = [info EXCEPT ![i0] = [b |-> p, status |-> 255]]
        /\ onDisk' = [onDisk EXCEPT ![p] = TRUE]
        /\ avail' = [avail EXCEPT !.ring[avail.idx % NUM] = i0]
        /\ head' = [head EXCEPT ![p] = i0]

Alloc(p) ==
    /\ pc[p] = "alloc" /\ lock = None /\ Cardinality(free) >= 3
    /\ lock' = p
    /\ Format(p)
    /\ pc' = [pc EXCEPT ![p] = "publish"]
    /\ UNCHANGED <<bdata, used_idx, req, calls, device>>

\* alloc3_desc() gives back the one or two it got, each with a wakeup; then
\* sleep(&disk.free[0], &disk.vdisk_lock).
AllocFail(p) ==
    /\ pc[p] = "alloc" /\ lock = None /\ Cardinality(free) < 3
    /\ pc' = [(IF free = {} THEN pc ELSE WakeAlloc(pc)) EXCEPT ![p] = "sleep_free"]
    /\ UNCHANGED <<free, desc, info, avail, used_idx, lock, onDisk, bdata, req, head, calls, device>>

\* avail->idx += 1, notify, and sleep(b): b->disk is still 1, the lock was held.
Publish(p) ==
    /\ pc[p] = "publish"
    /\ avail' = [avail EXCEPT !.idx = (@ + 1) % IdxMod]
    /\ kicked' = TRUE
    /\ lock' = None
    /\ pc' = [pc EXCEPT ![p] = "sleep_buf"]
    /\ UNCHANGED <<free, desc, info, used_idx, onDisk, bdata, req, head, calls,
                   disk, used, seen, fetched, owed, irq>>

\* kill() makes any sleeper runnable: both loops have to look again.
Kill(p) ==
    /\ pc[p] \in {"sleep_buf", "sleep_free"}
    /\ pc' = [pc EXCEPT ![p] = IF @ = "sleep_buf" THEN "woken" ELSE "alloc"]
    /\ UNCHANGED <<free, desc, info, avail, used_idx, lock, onDisk, bdata, req, head, calls, device>>

Waiting_Once(p) == FALSE

\* while(b->disk == 1)
Waiting(p) == onDisk[p]

\* sleep(b, &disk.vdisk_lock), again.
WaitMore(p) ==
    /\ pc[p] = "woken" /\ lock = None /\ Waiting(p)
    /\ pc' = [pc EXCEPT ![p] = "sleep_buf"]
    /\ UNCHANGED <<free, desc, info, avail, used_idx, lock, onDisk, bdata, req, head, calls, device>>

\* What free_chain(i) visits: along next while F_NEXT is set.
Chain(i) ==
    LET j == desc[i].next
    IN  {i} \cup (IF "NEXT" \notin desc[i].flags THEN {}
                  ELSE {j} \cup (IF "NEXT" \in desc[j].flags THEN {desc[j].next} ELSE {}))

\* info[].b = 0, free_chain() with its wakeups, return; the locals are gone and
\* the buffer is the cache's again.
Finish(p) ==
    /\ pc[p] = "woken" /\ lock = None /\ ~Waiting(p)
    /\ info' = [info EXCEPT ![head[p]].b = None]
    /\ free' = free \cup Chain(head[p])
    /\ desc' = [i \in Ids |-> IF i \in Chain(head[p]) THEN NoDesc ELSE desc[i]]
    /\ pc' = [WakeAlloc(pc) EXCEPT ![p] = "idle"]
    /\ bdata' = [bdata EXCEPT ![p] = InitValue]
    /\ req' = [req EXCEPT ![p] = None]
    /\ head' = [head EXCEPT ![p] = 0]
    /\ UNCHANGED <<avail, used_idx, lock, onDisk, calls, device>>

-----------------------------------------------------------------------------
(* The device, as the driver relies on it: it looks at the avail ring once *)
(* notified, serves what it fetched in any order, and interrupts after it  *)
(* has put an entry in the used ring.                                      *)

DevFetch ==
    /\ kicked /\ seen # avail.idx
    /\ fetched' = fetched \cup {avail.ring[seen % NUM]}
    /\ seen' = (seen + 1) % IdxMod
    /\ kicked' = (seen' # avail.idx)
    /\ UNCHANGED <<driver, info, bdata, disk, used, owed, irq>>

DevServe(h) ==
    LET d == desc[h].next
        b == desc[d].addr
        s == desc[desc[d].next].addr
        r == desc[h].addr
        ok == (r.type = "IN") <=> ("WRITE" \in desc[d].flags)
    IN  /\ h \in fetched
        /\ fetched' = fetched \ {h}
        /\ disk' = IF ok /\ r.type = "OUT" THEN [disk EXCEPT ![r.sector] = bdata[b]] ELSE disk
        /\ bdata' = IF ok /\ r.type = "IN" THEN [bdata EXCEPT ![b] = disk[r.sector]] ELSE bdata
        /\ info' = [info EXCEPT ![s].status = IF ok THEN 0 ELSE 1]
        /\ used' = [idx |-> (used.idx + 1) % IdxMod, ring |-> [used.ring EXCEPT ![used.idx % NUM] = h]]
        /\ owed' = TRUE
        /\ UNCHANGED <<driver, seen, kicked, irq>>

DevInterrupt ==
    /\ owed
    /\ owed' = FALSE /\ irq' = TRUE
    /\ UNCHANGED <<driver, info, bdata, disk, used, seen, fetched, kicked>>

-----------------------------------------------------------------------------
(* virtio_disk_intr().                                                     *)

\* Take the lock and acknowledge.
IntrAck ==
    /\ irq /\ lock = None
    /\ lock' = Intr /\ irq' = FALSE
    /\ UNCHANGED <<free, desc, info, avail, used_idx, onDisk, bdata, pc, req, head, calls,
                   disk, used, seen, fetched, kicked, owed>>

UsedId_PreIncrement == used.ring[(used_idx + 1) % NUM]

UsedId == used.ring[used_idx % NUM]

\* The panic "virtio_disk_intr status" stops the machine here.
IntrEntry ==
    /\ lock = Intr /\ used_idx # used.idx
    /\ info[UsedId].status = 0
    /\ LET b == info[UsedId].b IN
         /\ onDisk' = [onDisk EXCEPT ![b] = FALSE]
         /\ pc' = [pc EXCEPT ![b] = IF @ = "sleep_buf" THEN "woken" ELSE @]
    /\ used_idx' = (used_idx + 1) % IdxMod
    /\ UNCHANGED <<free, desc, info, avail, lock, bdata, req, head, calls, device>>

IntrExit ==
    /\ lock = Intr /\ used_idx = used.idx
    /\ lock' = None
    /\ UNCHANGED <<free, desc, info, avail, used_idx, onDisk, bdata, pc, req, head, calls, device>>

-----------------------------------------------------------------------------
Transfer(p) == Alloc(p) \/ AllocFail(p) \/ Publish(p) \/ WaitMore(p) \/ Finish(p)
Handler == IntrAck \/ IntrEntry \/ IntrExit
Device == DevFetch \/ (\E h \in Ids : DevServe(h)) \/ DevInterrupt

\* The bound is reached and every transfer is over.
Quiet == calls = MaxCalls /\ (\A p \in Procs : pc[p] = "idle") /\ ~irq /\ ~owed /\ lock = None

Next ==
    \/ \E p \in Procs : Transfer(p) \/ Kill(p)
    \/ \E p \in Procs, s \in Sectors, w \in BOOLEAN, v \in Values : Call(p, s, w, v)
    \/ Handler \/ Device
    \/ Quiet /\ UNCHANGED vars

Spec == Init /\ [][Next]_vars

-----------------------------------------------------------------------------
Between(from, to) == {i \in 0..IdxMod-1 : (i - from) % IdxMod < (to - from) % IdxMod}
Submitted == {avail.ring[i % NUM] : i \in Between(seen, avail.idx)}
Completed == {used.ring[i % NUM] : i \in Between(used_idx, used.idx)}

\* A transfer whose buffer the disk owns is in one place: submitted, in the
\* device, or completed with status 0 and not yet seen by the handler; nothing
\* else is there.  So the handler never panics on "virtio_disk_intr status" and
\* never applies a completion to a call that has returned.
TransferIsSomewhere ==
    LET waiting == {p \in Procs : pc[p] \in {"sleep_buf", "woken"} /\ onDisk[p]}
    IN  /\ {head[p] : p \in waiting} = Submitted \cup fetched \cup Completed
        /\ Submitted \cap fetched = {} /\ (Submitted \cup fetched) \cap Completed = {}
        /\ \A p \in waiting : head[p] \in Completed <=> info[head[p]].status = 0

\* No signal is lost: a process sleeps on disk.free only while fewer than three
\* descriptors are free and on its buffer only while the disk owns it; a
\* submitted chain has a notification, a completed one an interrupt, to come.
NoLostSignal ==
    /\ \A p \in Procs : /\ pc[p] = "sleep_free" => Cardinality(free) < 3
                        /\ pc[p] = "sleep_buf" => onDisk[p]
    /\ Submitted # {} => kicked
    /\ Completed # {} => owed \/ irq \/ lock = Intr

Disk == INSTANCE DiskRequests WITH
    request <- [p \in Procs |->
        IF pc[p] = "idle" THEN None
        ELSE [sector |-> req[p].sector, write |-> req[p].write, data |-> bdata[p],
              done |-> pc[p] \in {"sleep_buf", "woken"} /\ info[head[p]].status = 0]]

\* virtio_disk_rw() transfers the block it was asked for, once, between call
\* and return.
ImplementsDiskRequests == Disk!Spec
===========================================================================
