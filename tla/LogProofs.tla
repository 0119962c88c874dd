---------------------------- MODULE LogProofs -----------------------------
(***************************************************************************)
(* Theorems about Log for any number of processes, blocks and values and   *)
(* any log size: the inductive invariant and what it says of a quiet log.  *)
(***************************************************************************)
EXTENDS Log, FiniteSetTheorems, TLAPS

IInv == TypeOK /\ LogInvariant

USE DEF IInv, LogInvariant, Installing, Committing, Pending, Logged,
        diskVars, logVars

\* The header read_head() finds after a clean shutdown: no entries.
LEMMA EmptyHeader == <<>> \in Seq(Blocks) /\ Len(<<>>) = 0
  OBVIOUS

\* What log.lh.block[log.lh.n++] = blockno does to the header.
LEMMA AppendBlock ==
  ASSUME NEW s \in Seq(Blocks), NEW b \in Blocks
  PROVE  /\ Append(s, b) \in Seq(Blocks) /\ Len(s) \in Nat
         /\ Len(Append(s, b)) = Len(s) + 1
         /\ Append(s, b)[Len(s) + 1] = b
         /\ \A i \in 1..Len(s) : Append(s, b)[i] = s[i]
  OBVIOUS

\* What each part of the invariant reads: a step that leaves it alone keeps it.
LEMMA ControlFrame ==
  ASSUME ControlInv, Active' = Active,
         UNCHANGED <<outstanding, committing, recovering, step, pc, lh, tail, written>>
  PROVE  ControlInv'
  BY DEF ControlInv

LEMMA LogFrame ==
  ASSUME LogInv, UNCHANGED <<lh, dhead, dlog, cache, step, tail>>
  PROVE  LogInv'
  BY DEF LogInv

LEMMA HomeFrame ==
  ASSUME HomeInv, UNCHANGED <<disk, dhead, dlog, lh, step, tail>>
  PROVE  HomeInv'
  BY DEF HomeInv

LEMMA CacheFrame ==
  ASSUME CacheInv, UNCHANGED <<cache, disk, dlog, pins, lh, recovering, step, tail>>
  PROVE  CacheInv'
  BY DEF CacheInv

\* Counting the open calls: outstanding is 0 exactly when there is none.
LEMMA ActiveFinite ==
  ASSUME NEW S \in SUBSET Procs
  PROVE  IsFiniteSet(S) /\ Cardinality(S) \in Nat /\ (Cardinality(S) = 0 <=> S = {})
<1>1. IsFiniteSet(S)
  BY ConstantsAssumption, FS_Subset
<1> QED
  BY <1>1, FS_CardinalityType, FS_EmptySet

\* The mkfs image satisfies the invariant.
LEMMA InitInv == Init => IInv
<1> SUFFICES ASSUME Init PROVE IInv
  OBVIOUS
<1>1. TypeOK
  <2>1. Len(<<>>) <= LOGSIZE
    BY ConstantsAssumption, EmptyHeader
  <2>2. /\ disk \in [Blocks -> Values \cup {Torn}]
        /\ dlog \in [1..LOGSIZE -> Values \cup {Torn}]
        /\ cache \in [Blocks -> Values \cup {Torn, NoBuf}]
        /\ pins \in [Blocks -> Nat]
    BY ConstantsAssumption DEF Init
  <2>3. /\ pc \in [Procs -> PCs] /\ written \in [Procs -> SUBSET Blocks]
        /\ step \in Steps /\ outstanding \in Nat /\ tail \in Nat
        /\ committing \in BOOLEAN /\ recovering \in BOOLEAN /\ panicked \in BOOLEAN
    BY DEF Init, PCs, Steps
  <2> QED
    BY <2>1, <2>2, <2>3, EmptyHeader DEF Init, TypeOK
<1>2. Active = {}
  BY DEF Init, Active
<1>3. ControlInv
  BY <1>2, FS_EmptySet, EmptyHeader DEF Init, ControlInv
<1>4. LogInv /\ HomeInv
  BY ConstantsAssumption, EmptyHeader DEF Init, LogInv, HomeInv
<1>5. CacheInv
  BY EmptyHeader DEF Init, CacheInv
<1> QED
  BY <1>1, <1>3, <1>4, <1>5

-----------------------------------------------------------------------------
(* The steps of commit() and recover_from_log().                           *)

\* write_log() begins a log block: only an uncommitted block is torn.
LEMMA WriteLogInv == ASSUME IInv, WriteLog PROVE IInv'
<1> USE ConstantsAssumption DEF TypeOK, WriteLog
<1>1. TypeOK' /\ Active' = Active
  BY DEF Steps, Active
<1>2. ControlInv'
  BY <1>1 DEF ControlInv
<1>3. LogInv' /\ HomeInv'
  BY DEF ControlInv, LogInv, HomeInv
<1>4. CacheInv'
  BY DEF CacheInv
<1> QED
  BY <1>1, <1>2, <1>3, <1>4

\* The log block is complete and equals the cached block.
LEMMA WriteLogDoneInv == ASSUME IInv, WriteLogDone PROVE IInv'
<1> USE ConstantsAssumption DEF TypeOK, WriteLogDone
<1>1. cache[lh[tail + 1]] \in Values /\ lh[tail + 1] \in Blocks
  BY DEF ControlInv, CacheInv, Steps
<1>2. TypeOK' /\ Active' = Active
  BY <1>1 DEF Steps, Active, ControlInv
<1>3. ControlInv'
  BY <1>2 DEF ControlInv
<1>4. LogInv'
  BY DEF ControlInv, LogInv
<1>5. HomeInv'
  BY DEF ControlInv, HomeInv
<1>6. CacheInv'
  BY DEF ControlInv, CacheInv
<1> QED
  BY <1>2, <1>3, <1>4, <1>5, <1>6

\* The commit point: every log block is complete, so the header may name them.
LEMMA WriteHeadInv == ASSUME IInv, WriteHead PROVE IInv'
<1> USE ConstantsAssumption DEF TypeOK, WriteHead
<1>1. TypeOK' /\ Active' = Active
  BY DEF Steps, Active
<1>2. ControlInv'
  BY <1>1 DEF ControlInv
<1>3. LogInv'
  BY DEF ControlInv, LogInv, CacheInv
<1>4. HomeInv'
  BY EmptyHeader DEF ControlInv, LogInv, HomeInv
<1>5. CacheInv'
  BY DEF ControlInv, LogInv, CacheInv
<1> QED
  BY <1>1, <1>2, <1>3, <1>4, <1>5

\* install_trans() begins a home block: it is torn, but the log covers it.
LEMMA InstallInv == ASSUME IInv, Install PROVE IInv'
<1> USE ConstantsAssumption DEF TypeOK, Install
<1>1. TypeOK' /\ Active' = Active
  BY DEF Steps, Active
<1>2. ControlInv'
  BY <1>1 DEF ControlInv
<1>3. LogInv'
  BY DEF ControlInv, LogInv
<1>4. HomeInv'
  BY DEF ControlInv, LogInv, HomeInv
<1>5. CacheInv'
  BY DEF ControlInv, LogInv, HomeInv, CacheInv
<1> QED
  BY <1>1, <1>2, <1>3, <1>4, <1>5

\* The home block is complete, equals its log block and is unpinned.
LEMMA InstallDoneInv == ASSUME IInv, InstallDone PROVE IInv'
<1> USE ConstantsAssumption DEF TypeOK, InstallDone
<1>0. /\ lh[tail + 1] \in Blocks
      /\ cache[lh[tail + 1]] = dlog[tail + 1] /\ dlog[tail + 1] \in Values
      /\ pins[lh[tail + 1]] = IF recovering THEN 0 ELSE 1
      /\ tail + 1 \in 1..Len(lh)
      /\ \A i \in 1..Len(lh) : lh[i] = lh[tail + 1] => i = tail + 1
  BY DEF ControlInv, LogInv, CacheInv
<1>1. TypeOK' /\ Active' = Active
  BY <1>0 DEF Steps, Active
<1>2. ControlInv'
  BY <1>1 DEF ControlInv
<1>3. LogInv'
  BY DEF ControlInv, LogInv
<1>4. HomeInv'
  <2>1. \A i \in 1..tail + 1 : disk'[lh[i]] = dlog[i]
    <3> SUFFICES ASSUME NEW i \in 1..tail + 1 PROVE disk'[lh[i]] = dlog[i]
      OBVIOUS
    <3>1. CASE i = tail + 1
      BY <1>0, <3>1
    <3>2. CASE i \in 1..tail
      <4>1. i \in 1..Len(lh) /\ i # tail + 1 /\ disk[lh[i]] = dlog[i]
        BY <1>0, <3>2 DEF HomeInv
      <4>2. lh[i] # lh[tail + 1] /\ lh[i] \in Blocks
        BY <1>0, <4>1
      <4> QED
        BY <4>1, <4>2, <1>0
    <3> QED
      BY <3>1, <3>2
  <2>2. \A b \in Blocks : disk'[b] = Torn => disk[b] = Torn
    BY <1>0
  <2> QED
    BY <2>1, <2>2 DEF HomeInv
<1>5. CacheInv'
  <2>2. ASSUME NEW b \in Blocks
        PROVE  /\ cache[b] \in {NoBuf, disk'[b]}
                    \/ \E i \in 1..Len(lh) : tail + 1 < i /\ lh[i] = b
               /\ pins'[b] = IF ~recovering /\ \E i \in 1..Len(lh) : tail + 1 < i /\ lh[i] = b
                               THEN 1 ELSE 0
    <3>1. CASE b = lh[tail + 1]
      BY <1>0, <3>1
    <3>2. CASE b # lh[tail + 1]
      <4>1. disk'[b] = disk[b] /\ pins'[b] = pins[b]
        BY <3>2
      <4>2. \A i \in 1..Len(lh) : lh[i] = b => (tail < i <=> tail + 1 < i)
        BY <3>2
      <4> QED
        BY <4>1, <4>2 DEF CacheInv
    <3> QED
      BY <3>1, <3>2
  <2>3. \A i \in 1..Len(lh) : tail + 1 < i =>
           /\ ~recovering => cache[lh[i]] \in Values /\ cache[lh[i]] = dlog[i]
           /\ recovering => cache[lh[i]] = NoBuf
    BY DEF CacheInv
  <2> QED
    BY <2>2, <2>3 DEF CacheInv
<1> QED
  BY <1>1, <1>2, <1>3, <1>4, <1>5

\* Every home block is installed, so the header may be erased.
LEMMA ClearHeadInv == ASSUME IInv, ClearHead PROVE IInv'
<1> USE ConstantsAssumption DEF TypeOK, ClearHead, ClearCond
<1>1. TypeOK' /\ Active' = Active
  <2>1. /\ lh' \in Seq(Blocks) /\ Len(lh') <= LOGSIZE
        /\ dhead' \in Seq(Blocks) /\ Len(dhead') <= LOGSIZE
        /\ tail' \in Nat /\ step' \in Steps /\ recovering' \in BOOLEAN
    <3>1. lh' = <<>> /\ dhead' = <<>> /\ 0 <= LOGSIZE
      OBVIOUS
    <3>2. step' \in Steps /\ tail' \in Nat /\ recovering' \in BOOLEAN
      BY DEF Steps
    <3> QED
      BY <3>1, <3>2, EmptyHeader
  <2> QED
    BY <2>1 DEF Active
<1>2. ControlInv'
  BY <1>1, EmptyHeader DEF ControlInv
<1>3. LogInv'
  BY EmptyHeader DEF LogInv
<1>4. HomeInv'
  <2>1. \A b \in Blocks : disk[b] # Torn
    BY DEF LogInv, HomeInv
  <2> QED
    BY <2>1, EmptyHeader DEF HomeInv
<1>5. CacheInv'
  BY EmptyHeader DEF CacheInv
<1> QED
  BY <1>1, <1>2, <1>3, <1>4, <1>5

\* end_op() clears committing after commit() emptied the log.
LEMMA EndCommitInv == ASSUME IInv, EndCommit PROVE IInv'
<1> USE ConstantsAssumption DEF TypeOK, EndCommit, Wakeup
<1>1. TypeOK' /\ Active' = Active
  BY DEF Steps, PCs, Active
<1>2. ControlInv'
  BY <1>1 DEF ControlInv, Active
<1>3. LogInv' /\ HomeInv' /\ CacheInv'
  BY EmptyHeader DEF ControlInv, LogInv, HomeInv, CacheInv
<1> QED
  BY <1>1, <1>2, <1>3

\* read_head() loads the header that recovery is to replay.
LEMMA ReadHeadInv == ASSUME IInv, ReadHead PROVE IInv'
<1> USE ConstantsAssumption DEF TypeOK, ReadHead
<1>1. TypeOK' /\ Active' = Active
  BY DEF Steps, Active
<1>2. ControlInv'
  BY <1>1, EmptyHeader DEF ControlInv
<1>3. LogInv' /\ HomeInv'
  BY DEF LogInv, HomeInv
<1>4. CacheInv'
  BY EmptyHeader DEF ControlInv, CacheInv
<1> QED
  BY <1>1, <1>2, <1>3, <1>4

\* Only the disk survives: what the log covers is still covered.
LEMMA CrashInv == ASSUME IInv, Crash PROVE IInv'
<1> USE ConstantsAssumption DEF TypeOK, Crash
<1>1. TypeOK'
  <2>1. lh' \in Seq(Blocks) /\ Len(lh') <= LOGSIZE
    BY EmptyHeader
  <2> QED
    BY <2>1 DEF Steps, PCs
<1>2. Active' = {}
  BY DEF Active
<1>3. ControlInv'
  BY <1>2, FS_EmptySet, EmptyHeader DEF ControlInv
<1>4. LogInv' /\ HomeInv'
  BY EmptyHeader DEF LogInv, HomeInv
<1>5. CacheInv'
  BY EmptyHeader DEF CacheInv
<1> QED
  BY <1>1, <1>3, <1>4, <1>5

-----------------------------------------------------------------------------
(* begin_op(), log_write(), end_op() and the cache.                        *)

\* begin_op() opens a call only while nobody commits or recovers.
LEMMA BeginOpInv == ASSUME IInv, NEW p \in Procs, BeginOp(p) PROVE IInv'
<1> USE ConstantsAssumption DEF TypeOK
<1>1. /\ UNCHANGED <<disk, dhead, dlog, lh, committing, cache, pins, step, tail,
                     recovering, panicked>>
      /\ ~recovering /\ pc[p] # "op"
  BY DEF BeginOp
<1>2. LogInv' /\ HomeInv' /\ CacheInv'
  BY <1>1 DEF LogInv, HomeInv, CacheInv
<1>3. CASE MustWait
  <2>1. UNCHANGED <<outstanding, written>> /\ pc' = [pc EXCEPT ![p] = "sleep"]
    BY <1>3 DEF BeginOp
  <2>2. TypeOK' /\ Active' = Active
    BY <1>1, <2>1 DEF PCs, Active
  <2>3. ControlInv'
    BY <1>1, <2>1, <2>2 DEF ControlInv
  <2> QED
    BY <1>2, <2>2, <2>3
<1>4. CASE ~MustWait
  <2>1. /\ outstanding' = outstanding + 1 /\ ~committing
        /\ pc' = [pc EXCEPT ![p] = "op"]
        /\ written' = [written EXCEPT ![p] = {}]
    BY <1>4 DEF BeginOp, MustWait
  <2>2. TypeOK' /\ Active' = Active \cup {p} /\ p \notin Active /\ Active \in SUBSET Procs
    BY <1>1, <2>1 DEF PCs, Active
  <2>3. outstanding' = Cardinality(Active')
    BY <2>1, <2>2, ActiveFinite, FS_AddElement DEF ControlInv
  <2>4. ControlInv'
    BY <1>1, <2>1, <2>3 DEF ControlInv
  <2> QED
    BY <1>2, <2>2, <2>4
<1> QED
  BY <1>3, <1>4

\* The last end_op() starts the commit; no call is open then.
LEMMA EndOpInv == ASSUME IInv, NEW p \in Procs, EndOp(p) PROVE IInv'
<1> USE ConstantsAssumption DEF TypeOK
<1>1. ~committing /\ ~recovering /\ step = "none" /\ pc[p] = "op"
  BY DEF ControlInv, EndOp
<1>2. /\ UNCHANGED <<disk, dhead, dlog, lh, cache, pins, written, recovering, panicked>>
      /\ outstanding' = outstanding - 1
      /\ \/ /\ outstanding' = 0 /\ committing' = TRUE /\ tail' = 0
            /\ pc' = [pc EXCEPT ![p] = "commit"]
            /\ step' = IF lh = <<>> THEN "end" ELSE "write_log"
         \/ /\ outstanding' # 0 /\ UNCHANGED <<committing, step, tail>>
            /\ pc' = Wakeup([pc EXCEPT ![p] = "idle"])
  BY <1>1 DEF EndOp
<1>3. /\ pc' \in [Procs -> PCs]
      /\ Active' = Active \ {p} /\ p \in Active /\ Active \in SUBSET Procs
  BY <1>1, <1>2 DEF Active, Wakeup, PCs
<1>4. outstanding \in Nat \ {0} /\ outstanding' = Cardinality(Active')
  BY <1>2, <1>3, ActiveFinite, FS_RemoveElement DEF ControlInv
<1>5. TypeOK'
  <2>1. /\ committing' = TRUE \/ committing' = FALSE
        /\ tail' \in Nat /\ step' \in {step, "end", "write_log"}
    BY <1>1, <1>2
  <2>2. committing' \in BOOLEAN
    BY <2>1
  <2>3. step' \in Steps
    BY <1>1, <2>1 DEF Steps
  <2> QED
    BY <1>2, <1>3, <1>4, <2>1, <2>2, <2>3
<1>6. ControlInv'
  <2>1. outstanding' = 0 => \A q \in Procs : pc'[q] # "op"
    BY <1>3, <1>4, ActiveFinite DEF Active
  <2>2. \A q \in Procs : pc'[q] = "op" => pc[q] = "op"
    BY <1>3 DEF Active
  <2>3. lh # <<>> => 0 < Len(lh)
    OBVIOUS
  <2> QED
    BY <1>1, <1>2, <1>4, <2>1, <2>2, <2>3 DEF ControlInv
<1>7. LogInv' /\ HomeInv' /\ CacheInv'
  BY <1>1, <1>2 DEF LogInv, HomeInv, CacheInv
<1> QED
  BY <1>5, <1>6, <1>7

\* log_write() appends and pins a block once, and absorbs repetitions.
LEMMA LogWriteInv ==
  ASSUME IInv, NEW p \in Procs, NEW b \in Blocks, NEW v \in Values, LogWrite(p, b, v)
  PROVE  IInv'
<1>0. /\ lh \in Seq(Blocks) /\ Len(lh) \in Nat /\ LOGSIZE \in Nat /\ NLOG \in Nat
      /\ cache \in [Blocks -> Values \cup {Torn, NoBuf}]
      /\ pins \in [Blocks -> Nat] /\ written \in [Procs -> SUBSET Blocks]
      /\ outstanding \in Nat /\ \A i \in 1..Len(lh) : lh[i] \in Blocks
  BY ConstantsAssumption DEF TypeOK
<1>1. ~committing /\ ~recovering /\ step = "none" /\ pc[p] = "op"
  BY DEF ControlInv, LogWrite
<1>2. /\ UNCHANGED <<disk, dhead, dlog, outstanding, committing, pc, step, tail, recovering>>
      /\ Active' = Active
  BY DEF Active, LogWrite
<1>3. CASE TooBig \/ outstanding < 1
  <2>1. UNCHANGED <<lh, cache, pins, written>> /\ panicked' = TRUE
    BY <1>3 DEF LogWrite
  <2> QED
    <3>1. TypeOK'
      BY <1>2, <2>1 DEF TypeOK
    <3>2. ControlInv'
      BY <1>2, <2>1, ControlFrame
    <3>3. LogInv' /\ HomeInv'
      BY <1>2, <2>1, LogFrame, HomeFrame
    <3>4. CacheInv'
      BY <1>2, <2>1, CacheFrame
    <3> QED
      BY <3>1, <3>2, <3>3, <3>4
<1>4. CASE ~(TooBig \/ outstanding < 1) /\ b \in Logged
  <2>1. /\ UNCHANGED <<lh, pins, panicked>>
        /\ cache' = [cache EXCEPT ![b] = v]
        /\ written' = [written EXCEPT ![p] = @ \cup {b}]
    BY <1>4 DEF LogWrite
  <2>2. TypeOK'
    BY <1>2, <2>1 DEF TypeOK
  <2>3. ControlInv'
    BY <1>0, <1>2, <1>4, <2>1 DEF ControlInv
  <2>4. LogInv' /\ HomeInv'
    <3>1. LogInv'
      BY <1>1, <1>2, <2>1 DEF LogInv
    <3>2. HomeInv'
      BY <1>2, <2>1, HomeFrame
    <3> QED
      BY <3>1, <3>2
  <2>5. CacheInv'
    <3>1. PICK k \in 1..Len(lh) : lh[k] = b
      BY <1>4
    <3>2. ASSUME NEW c \in Blocks
          PROVE  /\ cache'[c] \in {NoBuf, disk[c]} \/ \E i \in 1..Len(lh) : lh[i] = c
                 /\ pins[c] = IF \E i \in 1..Len(lh) : lh[i] = c THEN 1 ELSE 0
      <4>1. c # b => cache'[c] = cache[c]
        BY <1>0, <2>1
      <4> QED
        BY <1>1, <3>1, <4>1 DEF CacheInv
    <3>3. \A i \in 1..Len(lh) : cache'[lh[i]] \in Values
      <4>1. \A i \in 1..Len(lh) : cache[lh[i]] \in Values /\ lh[i] \in Blocks
        BY <1>0, <1>1 DEF CacheInv
      <4> QED
        BY <1>0, <2>1, <4>1
    <3> QED
      BY <1>1, <1>2, <2>1, <3>2, <3>3 DEF CacheInv
  <2> QED
    BY <2>2, <2>3, <2>4, <2>5
<1>5. CASE ~(TooBig \/ outstanding < 1) /\ b \notin Logged
  <2>1. /\ lh' = Append(lh, b) /\ UNCHANGED panicked
        /\ pins' = [pins EXCEPT ![b] = @ + 1]
        /\ cache' = [cache EXCEPT ![b] = v]
        /\ written' = [written EXCEPT ![p] = @ \cup {b}]
    BY <1>5 DEF LogWrite, Pin
  <2>2. /\ Len(lh') = Len(lh) + 1 /\ lh' \in Seq(Blocks) /\ Len(lh') <= LOGSIZE
        /\ lh'[Len(lh) + 1] = b
        /\ \A i \in 1..Len(lh) : lh'[i] = lh[i] /\ lh[i] # b
    <3> HIDE DEF IInv
    <3>1. Len(lh) < LOGSIZE
      BY <1>0, <1>5 DEF TooBig
    <3>2. \A i \in 1..Len(lh) : lh[i] # b
      BY <1>5
    <3>3. /\ lh' \in Seq(Blocks) /\ Len(lh) \in Nat /\ Len(lh') = Len(lh) + 1
          /\ lh'[Len(lh) + 1] = b /\ \A i \in 1..Len(lh) : lh'[i] = lh[i]
      BY <1>0, <2>1, AppendBlock
    <3> QED
      BY <1>0, <3>1, <3>2, <3>3
  <2>3. TypeOK'
    <3>1. /\ pins' \in [Blocks -> Nat]
          /\ cache' \in [Blocks -> Values \cup {Torn, NoBuf}]
          /\ written' \in [Procs -> SUBSET Blocks]
      BY <1>0, <2>1
    <3> QED
      BY <1>2, <2>1, <2>2, <3>1 DEF TypeOK
  <2>4. Logged \subseteq Logged' /\ b \in Logged'
    <3>1. 1..Len(lh) \subseteq 1..Len(lh') /\ Len(lh) + 1 \in 1..Len(lh')
      BY <1>0, <2>2
    <3> QED
      BY <2>2, <3>1
  <2>5. ControlInv'
    BY <1>0, <1>1, <1>2, <1>5, <2>1, <2>2, <2>4 DEF ControlInv
  <2>6. LogInv' /\ HomeInv'
    BY <1>0, <1>1, <1>2, <2>1, <2>2 DEF LogInv, HomeInv
  <2>7. CacheInv'
    <3>1. \A i \in 1..Len(lh') : i = Len(lh) + 1 \/ i \in 1..Len(lh)
      BY <1>0, <2>2
    <3>2. ASSUME NEW c \in Blocks
          PROVE  /\ cache'[c] \in {NoBuf, disk[c]} \/ \E i \in 1..Len(lh') : lh'[i] = c
                 /\ pins'[c] = IF \E i \in 1..Len(lh') : lh'[i] = c THEN 1 ELSE 0
      <4>1. CASE c = b
        <5>1. pins[b] = 0
          BY <1>1, <2>2 DEF CacheInv
        <5>2. \E i \in 1..Len(lh') : lh'[i] = b
          <6>1. Len(lh) + 1 \in 1..Len(lh')
            BY <1>0, <2>2
          <6> QED
            BY <2>2, <6>1
        <5>3. pins'[b] = 1
          BY <1>0, <2>1, <5>1
        <5> QED
          BY <4>1, <5>2, <5>3
      <4>2. CASE c # b
        <5>1. (\E i \in 1..Len(lh') : lh'[i] = c) <=> (\E i \in 1..Len(lh) : lh[i] = c)
          <6>1. 1..Len(lh) \subseteq 1..Len(lh')
            BY <1>0, <2>2
          <6> QED
            BY <2>2, <3>1, <4>2, <6>1
        <5>2. cache'[c] = cache[c] /\ pins'[c] = pins[c]
          BY <1>0, <2>1, <4>2
        <5> QED
          BY <1>1, <5>1, <5>2 DEF CacheInv
      <4> QED
        BY <4>1, <4>2
    <3>3. ASSUME NEW i \in 1..Len(lh') PROVE cache'[lh'[i]] \in Values
      <4>1. CASE i = Len(lh) + 1
        BY <1>0, <2>1, <2>2, <4>1
      <4>2. CASE i \in 1..Len(lh)
        <5>1. cache[lh[i]] \in Values /\ lh[i] \in Blocks /\ lh'[i] = lh[i]
          BY <1>0, <1>1, <2>2, <4>2 DEF CacheInv
        <5> QED
          BY <1>0, <2>1, <5>1
      <4> QED
        BY <3>1, <4>1, <4>2
    <3> QED
      BY <1>1, <1>2, <3>2, <3>3 DEF CacheInv
  <2> QED
    BY <2>3, <2>5, <2>6, <2>7
<1> QED
  BY <1>3, <1>4, <1>5

\* bread() of an uncached block finds its newest copy on the disk.
LEMMA BreadInv == ASSUME IInv, NEW b \in Blocks, Bread(b) PROVE IInv'
<1> USE ConstantsAssumption DEF TypeOK, Bread
<1>1. TypeOK' /\ Active' = Active
  BY DEF Active
<1>2. ControlInv' /\ HomeInv'
  BY <1>1 DEF ControlInv, HomeInv
<1>3. \A i \in 1..Len(lh) : Pending(i) => lh[i] # b
  BY DEF CacheInv
<1>4. LogInv'
  BY <1>3 DEF ControlInv, LogInv
<1>5. CacheInv'
  <2>1. /\ UNCHANGED <<disk, dlog, pins, lh, tail, step, recovering>>
        /\ \A c \in Blocks : cache'[c] = IF c = b THEN disk[b] ELSE cache[c]
        /\ \A i \in 1..Len(lh) : lh[i] \in Blocks
    OBVIOUS
  <2>2. /\ step # "read_head" /\ ~recovering /\ CacheInv
        /\ step = "install_io" => tail + 1 \in 1..Len(lh) /\ Pending(tail + 1)
    BY DEF ControlInv
  <2> HIDE DEF TypeOK, Bread, IInv
  <2>3. \A c \in Blocks :
          /\ cache'[c] \in {NoBuf, disk[c]} \/ \E i \in 1..Len(lh) : Pending(i) /\ lh[i] = c
          /\ pins[c] = IF ~recovering /\ \E i \in 1..Len(lh) : Pending(i) /\ lh[i] = c
                         THEN 1 ELSE 0
    BY <2>1, <2>2 DEF CacheInv
  <2>4. \A i \in 1..Len(lh) : Pending(i) => cache'[lh[i]] = cache[lh[i]]
    BY <1>3, <2>1
  <2>5. \A i \in 1..Len(lh) : Pending(i) /\ ~recovering =>
          cache'[lh[i]] \in Values /\ (Installing => cache'[lh[i]] = dlog[i])
    BY <2>2, <2>4 DEF CacheInv
  <2>6. step = "install_io" => cache'[lh[tail + 1]] = dlog[tail + 1]
    BY <2>2, <2>4 DEF CacheInv
  <2> QED
    BY <2>1, <2>2, <2>3, <2>5, <2>6 DEF CacheInv
<1> QED
  BY <1>1, <1>2, <1>4, <1>5

\* bget() recycles only buffers whose block is up to date on the disk.
LEMMA RecycleInv == ASSUME IInv, NEW b \in Blocks, Recycle(b) PROVE IInv'
<1> USE ConstantsAssumption DEF TypeOK, Recycle, InUse
<1>1. TypeOK' /\ Active' = Active
  BY DEF Active
<1>2. ControlInv' /\ HomeInv'
  BY <1>1 DEF ControlInv, HomeInv
<1>3. ~recovering => \A i \in 1..Len(lh) : Pending(i) => lh[i] # b
  <2>1. pins[b] = 0
    OBVIOUS
  <2>2. pins[b] = IF ~recovering /\ \E i \in 1..Len(lh) : Pending(i) /\ lh[i] = b
                    THEN 1 ELSE 0
    BY DEF CacheInv
  <2>3. CASE recovering
    BY <2>3
  <2>4. CASE ~recovering
    BY <2>1, <2>2, <2>4
  <2> QED
    BY <2>3, <2>4
<1>4. LogInv'
  <2>1. Committing => \A i \in 1..tail : i \in 1..Len(lh) /\ lh[i] \in Blocks /\ lh[i] # b
    BY <1>3 DEF ControlInv
  <2> QED
    BY <2>1 DEF LogInv
<1>5. CacheInv'
  <2>1. /\ UNCHANGED <<disk, dlog, pins, lh, tail, step, recovering>>
        /\ \A c \in Blocks : cache'[c] = IF c = b THEN NoBuf ELSE cache[c]
        /\ \A i \in 1..Len(lh) : lh[i] \in Blocks
    OBVIOUS
  <2>2. step = "install_io" => tail + 1 \in 1..Len(lh) /\ lh[tail + 1] # b
    BY DEF ControlInv
  <2>7. CacheInv
    OBVIOUS
  <2> HIDE DEF TypeOK, Recycle, InUse, IInv
  <2>3. \A c \in Blocks :
          /\ cache'[c] \in {NoBuf, disk[c]} \/ \E i \in 1..Len(lh) : Pending(i) /\ lh[i] = c
          /\ pins[c] = IF ~recovering /\ \E i \in 1..Len(lh) : Pending(i) /\ lh[i] = c
                         THEN 1 ELSE 0
    BY <2>1, <2>7 DEF CacheInv
  <2>4. \A i \in 1..Len(lh) : Pending(i) /\ ~recovering => cache'[lh[i]] = cache[lh[i]]
    BY <1>3, <2>1
  <2>5. step = "install_io" => cache'[lh[tail + 1]] = cache[lh[tail + 1]]
    BY <2>1, <2>2
  <2>6. \A i \in 1..Len(lh) : cache'[lh[i]] \in {NoBuf, cache[lh[i]]}
    BY <2>1
  <2>8. \A i \in 1..Len(lh) : Pending(i) /\ ~recovering =>
          cache'[lh[i]] \in Values /\ (Installing => cache'[lh[i]] = dlog[i])
    BY <2>4, <2>7 DEF CacheInv
  <2>9. /\ step = "install_io" => cache'[lh[tail + 1]] = dlog[tail + 1]
        /\ step = "read_head" => \A c \in Blocks : cache'[c] = NoBuf
    BY <2>1, <2>5, <2>7 DEF CacheInv
  <2>10. recovering => \A i \in 1..Len(lh) :
          Pending(i) => cache'[lh[i]] = NoBuf \/ (step = "install_io" /\ i = tail + 1)
    BY <2>6, <2>7 DEF CacheInv
  <2> QED
    BY <2>1, <2>3, <2>8, <2>9, <2>10 DEF CacheInv
<1> QED
  BY <1>1, <1>2, <1>4, <1>5

\* Every step of log.c, its clients and the power preserves the invariant.
LEMMA NextInv == IInv /\ [Next]_vars => IInv'
<1>1. ASSUME IInv, UNCHANGED vars PROVE IInv'
  <2>1. TypeOK'
    BY <1>1 DEF vars, TypeOK
  <2>2. ControlInv'
    BY <1>1 DEF vars, ControlInv, Active
  <2>3. LogInv' /\ HomeInv'
    BY <1>1 DEF vars, LogInv, HomeInv
  <2>4. CacheInv'
    BY <1>1 DEF vars, CacheInv
  <2> QED
    BY <2>1, <2>2, <2>3, <2>4
<1> QED
  BY <1>1, BeginOpInv, LogWriteInv, EndOpInv, BreadInv, RecycleInv, WriteLogInv,
     WriteLogDoneInv, WriteHeadInv, InstallInv, InstallDoneInv, ClearHeadInv,
     EndCommitInv, ReadHeadInv, CrashInv DEF Next

\* Every state the log reaches, through any commits, crashes and recoveries,
\* satisfies the type invariant and the inductive invariant.
THEOREM LogCorrect == Spec => [](TypeOK /\ LogInvariant)
<1> QED
  BY InitInv, NextInv, PTL DEF Spec

\* When no call is open and no commit runs, every block is at home, the log is
\* empty and no buffer is pinned.
THEOREM LogQuiet == Spec => []QuietMeansInstalled
<1>1. IInv => QuietMeansInstalled
  <2> SUFFICES ASSUME IInv, outstanding = 0, ~committing, ~recovering
               PROVE  /\ View = disk /\ dhead = <<>> /\ lh = <<>>
                      /\ \A b \in Blocks : pins[b] = 0
    BY DEF QuietMeansInstalled
  <2>1. lh = <<>> /\ dhead = <<>>
    BY DEF ControlInv, LogInv
  <2>2. \A b \in Blocks : pins[b] = 0 /\ cache[b] \in {NoBuf, disk[b]}
    BY <2>1, EmptyHeader DEF CacheInv
  <2>3. ASSUME NEW b \in Blocks PROVE View[b] = disk[b]
    BY <2>2 DEF View
  <2> QED
    BY <2>1, <2>2, <2>3 DEF View, TypeOK
<1> QED
  BY <1>1, InitInv, NextInv, PTL DEF Spec
===========================================================================
