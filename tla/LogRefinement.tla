--------------------------- MODULE LogRefinement --------------------------
(***************************************************************************)
(* Every step of the log is a step of Transactions or leaves it unchanged, *)
(* for any number of processes, blocks and values and any log size.        *)
(***************************************************************************)
EXTENDS LogProofs

USE DEF IInv, LogInvariant, Installing, Committing, Pending, Logged,
        diskVars, logVars

\* With no duplicate in the header, recovery writes log block i to block i's home.
DurableFacts ==
  /\ \A i \in 1..Len(dhead) : Durable[dhead[i]] = dlog[i]
  /\ \A b \in Blocks : (\A i \in 1..Len(dhead) : dhead[i] # b) => Durable[b] = disk[b]

\* What a reboot leaves: the log block of a named block, else its home.
LEMMA DurableAt == IInv => DurableFacts
<1> SUFFICES ASSUME IInv PROVE DurableFacts
  OBVIOUS
<1>1. ASSUME NEW i \in 1..Len(dhead) PROVE Durable[dhead[i]] = dlog[i]
  <2>1. dhead[i] \in Blocks
    BY DEF TypeOK
  <2>2. \A j \in 1..Len(dhead) : dhead[j] = dhead[i] => j = i
    BY DEF LogInv
  <2>3. (CHOOSE j \in 1..Len(dhead) : dhead[j] = dhead[i]) = i
    BY <2>2
  <2> QED
    BY <2>1, <2>3 DEF Durable
<1> QED
  BY <1>1 DEF Durable, DurableFacts

\* The same after a step.
LEMMA DurableAtPrime == IInv' => DurableFacts'
  BY DurableAt, PTL

\* A step that leaves cache, disk and log in agreement is invisible above.
LEMMA SameDurable ==
  ASSUME UNCHANGED diskVars PROVE Durable' = Durable
  BY DEF Durable

\* The mkfs image is an initial state of Transactions.
LEMMA InitRefines == Init => T!Init
<1> SUFFICES ASSUME Init PROVE T!Init
  OBVIOUS
<1>1. Durable = [b \in Blocks |-> InitValue] /\ Mem = Durable
  BY EmptyHeader DEF Init, Durable, Mem
<1>2. Active = {}
  BY DEF Init, Active
<1> QED
  BY <1>1, <1>2, ConstantsAssumption DEF T!Init

\* begin_op() opens a transaction, or sleeps and changes nothing above.
LEMMA BeginOpRefines ==
  ASSUME IInv, NEW p \in Procs, BeginOp(p)
  PROVE  T!Next \/ UNCHANGED T!vars
<1>1. Durable' = Durable /\ Mem' = Mem
  BY SameDurable DEF BeginOp, Mem, View
<1>2. CASE MustWait
  <2>1. Active' = Active
    BY <1>2 DEF BeginOp, Active, TypeOK
  <2> QED
    BY <1>1, <2>1 DEF T!vars
<1>3. CASE ~MustWait
  <2>1. Active' = Active \cup {p} /\ p \notin Active
    BY <1>3 DEF BeginOp, Active, TypeOK
  <2> QED
    BY <1>1, <2>1 DEF T!Next, T!Begin
<1> QED
  BY <1>2, <1>3

\* end_op() closes a transaction, or panics and changes nothing above.
LEMMA EndOpRefines ==
  ASSUME IInv, NEW p \in Procs, EndOp(p)
  PROVE  T!Next \/ UNCHANGED T!vars
<1>1. Durable' = Durable /\ Mem' = Mem
  BY SameDurable DEF EndOp, Mem, View
<1>2. ~committing /\ pc[p] = "op"
  BY DEF EndOp, ControlInv
<1>3. Active' = Active \ {p} /\ p \in Active
  BY <1>2 DEF EndOp, Active, TypeOK, Wakeup
<1> QED
  BY <1>1, <1>3 DEF T!Next, T!End

\* log_write() is a write of an open transaction, or a panic.
LEMMA LogWriteRefines ==
  ASSUME IInv, NEW p \in Procs, NEW b \in Blocks, NEW v \in Values, LogWrite(p, b, v)
  PROVE  T!Next \/ UNCHANGED T!vars
<1>1. Durable' = Durable /\ Active' = Active /\ p \in Active
  BY SameDurable DEF LogWrite, Active
<1>2. ~recovering /\ ~recovering'
  BY DEF LogWrite, ControlInv
<1>3. CASE TooBig \/ outstanding < 1
  <2>1. Mem' = Mem
    BY <1>2, <1>3 DEF LogWrite, Mem, View
  <2> QED
    BY <1>1, <2>1 DEF T!vars
<1>4. CASE ~(TooBig \/ outstanding < 1)
  <2>1. cache' = [cache EXCEPT ![b] = v] /\ disk' = disk
    BY <1>4 DEF LogWrite
  <2>2. View' = [View EXCEPT ![b] = v]
    BY <2>1, ConstantsAssumption DEF View, TypeOK
  <2>3. Mem' = [Mem EXCEPT ![b] = v]
    BY <1>2, <2>2 DEF Mem
  <2> QED
    BY <1>1, <2>3 DEF T!Next, T!Write
<1> QED
  BY <1>3, <1>4

\* Reading and recycling buffers changes nothing that readers see.
LEMMA CacheRefines ==
  ASSUME IInv, NEW b \in Blocks, Bread(b) \/ Recycle(b)
  PROVE  UNCHANGED T!vars
<1>1. Durable' = Durable /\ Active' = Active /\ recovering' = recovering
  BY SameDurable DEF Bread, Recycle, Active
<1>2. CASE recovering
  BY <1>1, <1>2 DEF Mem, T!vars
<1>3. CASE ~recovering /\ Bread(b)
  <2>1. View' = View
    BY <1>3 DEF Bread, View, TypeOK
  <2> QED
    BY <1>1, <1>3, <2>1 DEF Mem, T!vars
<1>4. CASE ~recovering /\ Recycle(b)
  <2>1. pins[b] = 0 /\ cache[b] # NoBuf
    BY <1>4 DEF Recycle, InUse, TypeOK
  <2>2. cache[b] = disk[b]
    BY <1>4, <2>1 DEF CacheInv
  <2>3. View' = View
    BY <1>4, <2>2, ConstantsAssumption DEF Recycle, View, TypeOK
  <2> QED
    BY <1>1, <1>4, <2>3 DEF Mem, T!vars
<1> QED
  BY <1>2, <1>3, <1>4 DEF Bread, Recycle

\* Copying to the log before the header is written is invisible above.
LEMMA WriteLogRefines ==
  ASSUME IInv, WriteLog \/ WriteLogDone
  PROVE  UNCHANGED T!vars
<1>1. dhead = <<>> /\ dhead' = <<>> /\ disk' = disk
  BY DEF WriteLog, WriteLogDone, LogInv
<1>2. Durable' = Durable
  BY <1>1, EmptyHeader DEF Durable
<1>3. Active' = Active /\ Mem' = Mem
  BY <1>2 DEF WriteLog, WriteLogDone, Active, Mem, View
<1> QED
  BY <1>2, <1>3 DEF T!vars

\* The commit point: what a reboot would find becomes what readers see now.
LEMMA WriteHeadRefines == ASSUME IInv, IInv', WriteHead PROVE T!Commit
<1>1. ~recovering /\ ~recovering' /\ Active = {} /\ Active' = Active
  BY DEF WriteHead, ControlInv, Active
<1>2. View' = View
  BY DEF WriteHead, View
<1>3. Durable' = View
  <2>1. \A i \in 1..Len(lh) : dlog[i] = cache[lh[i]] /\ lh[i] \in Blocks /\ cache[lh[i]] \in Values
    <3>1. step = "write_head" /\ tail = Len(lh)
      BY DEF WriteHead, ControlInv
    <3>2. \A i \in 1..Len(lh) : lh[i] \in Blocks
      BY DEF TypeOK
    <3>3. \A i \in 1..Len(lh) : dlog[i] = cache[lh[i]]
      BY <3>1 DEF LogInv
    <3>4. \A i \in 1..Len(lh) : cache[lh[i]] \in Values
      BY <1>1, <3>1 DEF CacheInv
    <3> QED
      BY <3>2, <3>3, <3>4
  <2>2. dhead' = lh /\ dlog' = dlog /\ disk' = disk /\ cache' = cache
    BY DEF WriteHead
  <2>3. ASSUME NEW b \in Blocks PROVE Durable'[b] = View[b]
    <3>1. CASE \E i \in 1..Len(lh) : lh[i] = b
      <4>1. PICK i \in 1..Len(lh) : lh[i] = b
        BY <3>1
      <4>2. Durable'[b] = dlog[i]
        BY <2>2, <4>1, DurableAtPrime DEF DurableFacts
      <4> QED
        BY <2>1, <4>1, <4>2, ConstantsAssumption DEF View
    <3>2. CASE \A i \in 1..Len(lh) : lh[i] # b
      <4>1. cache[b] \in {NoBuf, disk[b]}
        BY <3>2 DEF CacheInv
      <4>2. Durable'[b] = disk[b]
        BY <2>2, <3>2, DurableAtPrime DEF DurableFacts
      <4> QED
        BY <4>1, <4>2 DEF View
    <3> QED
      BY <3>1, <3>2
  <2> QED
    BY <2>3 DEF Durable, View
<1> QED
  BY <1>1, <1>2, <1>3 DEF T!Commit, Mem

\* Installing a block changes neither what readers see nor what survives.
LEMMA InstallRefines ==
  ASSUME IInv, IInv', Install \/ InstallDone
  PROVE  UNCHANGED T!vars
<1>1. /\ dhead' = dhead /\ dlog' = dlog /\ lh' = lh /\ dhead = lh
      /\ recovering' = recovering /\ Active' = Active
      /\ tail + 1 \in 1..Len(lh) /\ lh[tail + 1] \in Blocks
      /\ \A b \in Blocks : b # lh[tail + 1] => disk'[b] = disk[b] /\ cache'[b] = cache[b]
      /\ cache'[lh[tail + 1]] = dlog[tail + 1]
  <2>1. /\ dhead' = dhead /\ dlog' = dlog /\ lh' = lh
        /\ recovering' = recovering /\ Active' = Active
    BY DEF Install, InstallDone, Active
  <2>2. tail \in Nat /\ tail < Len(lh) /\ dhead = lh
    BY DEF Install, InstallDone, ControlInv, LogInv, TypeOK
  <2>3. tail + 1 \in 1..Len(lh) /\ lh[tail + 1] \in Blocks
    <3>1. lh \in Seq(Blocks) /\ Len(lh) \in Nat
      BY DEF TypeOK
    <3>2. tail + 1 \in 1..Len(lh)
      BY <2>2, <3>1
    <3> QED
      BY <3>1, <3>2
  <2>4. \A b \in Blocks : b # lh[tail + 1] => disk'[b] = disk[b] /\ cache'[b] = cache[b]
    BY DEF Install, InstallDone, TypeOK
  <2>5. CASE Install
    <3>1. cache' = [cache EXCEPT ![lh[tail + 1]] = dlog[tail + 1]]
      BY <2>5 DEF Install
    <3>2. cache'[lh[tail + 1]] = dlog[tail + 1]
      BY <2>3, <3>1 DEF TypeOK
    <3> QED
      BY <2>1, <2>2, <2>3, <2>4, <3>2
  <2>6. CASE InstallDone
    <3>1. cache' = cache /\ step = "install_io"
      BY <2>6 DEF InstallDone
    <3>2. cache'[lh[tail + 1]] = dlog[tail + 1]
      BY <3>1 DEF CacheInv
    <3> QED
      BY <2>1, <2>2, <2>3, <2>4, <3>2
  <2> QED
    BY <2>5, <2>6
<1>2. Durable' = Durable
  <2>1. ASSUME NEW b \in Blocks PROVE Durable'[b] = Durable[b]
    BY <1>1, DurableAt, DurableAtPrime DEF Durable, DurableFacts
  <2> QED
    BY <2>1 DEF Durable
<1>3. CASE recovering
  BY <1>1, <1>2, <1>3 DEF T!vars, Mem
<1>4. CASE ~recovering
  <2>1. cache[lh[tail + 1]] = dlog[tail + 1] /\ cache[lh[tail + 1]] \in Values
    <3>1. Pending(tail + 1)
      BY <1>1 DEF Install, InstallDone, TypeOK
    <3> QED
      BY <1>1, <1>4, <3>1 DEF CacheInv, Install, InstallDone
  <2>2. ASSUME NEW b \in Blocks PROVE View'[b] = View[b]
    BY <1>1, <2>1, ConstantsAssumption DEF View
  <2>3. View' = View
    BY <2>2 DEF View
  <2> QED
    BY <1>1, <1>2, <1>4, <2>3 DEF T!vars, Mem
<1> QED
  BY <1>3, <1>4

\* When the log is erased every block is at home already.
LEMMA ClearHeadRefines == ASSUME IInv, IInv', ClearHead PROVE UNCHANGED T!vars
<1>1. /\ disk' = disk /\ dlog' = dlog /\ cache' = cache /\ dhead' = <<>>
      /\ Active' = Active /\ ~recovering' /\ dhead = lh /\ tail = Len(lh)
      /\ Installing
  BY DEF ClearHead, ClearCond, LogInv, Active
<1>2. Durable' = disk /\ Durable = disk
  <2>1. ASSUME NEW b \in Blocks PROVE Durable[b] = disk[b]
    BY <1>1, DurableAt DEF HomeInv, DurableFacts
  <2>2. ASSUME NEW b \in Blocks PROVE Durable'[b] = disk[b]
    BY <1>1, EmptyHeader DEF Durable
  <2>3. disk = [b \in Blocks |-> disk[b]]
    BY DEF TypeOK
  <2>4. Durable = [b \in Blocks |-> Durable[b]]
    BY DEF Durable
  <2>5. Durable' = [b \in Blocks |-> Durable'[b]]
    BY DEF Durable
  <2> QED
    BY <2>1, <2>2, <2>3, <2>4, <2>5
<1>3. View = disk /\ View' = disk
  <2>1. \A b \in Blocks : cache[b] \in {NoBuf, disk[b]}
    BY <1>1 DEF CacheInv
  <2>2. ASSUME NEW b \in Blocks PROVE View[b] = disk[b] /\ View'[b] = disk[b]
    BY <1>1, <2>1 DEF View
  <2> QED
    BY <2>2 DEF View, TypeOK
<1> QED
  BY <1>1, <1>2, <1>3 DEF Mem, T!vars

\* A power loss takes readers back to the last commit.
LEMMA CrashRefines == ASSUME IInv, Crash PROVE T!Crash
<1>1. Durable' = Durable /\ recovering' /\ Active' = {}
  BY SameDurable DEF Crash, Active
<1> QED
  BY <1>1 DEF T!Crash, Mem

\* read_head() and the end of end_op() are invisible above.
LEMMA OtherRefines == ASSUME IInv, ReadHead \/ EndCommit PROVE UNCHANGED T!vars
<1>1. Durable' = Durable /\ Mem' = Mem
  BY SameDurable DEF ReadHead, EndCommit, Mem, View
<1>2. Active' = Active
  BY DEF ReadHead, EndCommit, Active, Wakeup, TypeOK
<1> QED
  BY <1>1, <1>2 DEF T!vars

\* Every step is a step of Transactions or invisible to it.
LEMMA StepRefines == IInv /\ IInv' /\ [Next]_vars => [T!Next]_(T!vars)
<1> SUFFICES ASSUME IInv, IInv', [Next]_vars PROVE T!Next \/ UNCHANGED T!vars
  OBVIOUS
<1>1. CASE UNCHANGED vars
  BY <1>1 DEF vars, T!vars, Mem, Durable, View, Active
<1>2. CASE Next
  BY <1>2, BeginOpRefines, EndOpRefines, LogWriteRefines, CacheRefines,
     WriteLogRefines, WriteHeadRefines, InstallRefines, ClearHeadRefines,
     CrashRefines, OtherRefines DEF Next, T!Next
<1> QED
  BY <1>1, <1>2

\* log.c implements atomic transactions: for any number of processes, blocks
\* and any log size, with crashes at any step, every behaviour of the log is a
\* behaviour of Transactions.
THEOREM LogImplementsTransactions == Spec => ImplementsTransactions
<1>1. Init => T!Init
  BY InitRefines
<1> QED
  BY <1>1, InitInv, NextInv, StepRefines, PTL DEF Spec, ImplementsTransactions, T!Spec
===========================================================================
