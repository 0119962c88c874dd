---------------------------- MODULE LogReserve ----------------------------
(***************************************************************************)
(* The reservation of begin_op(): how many blocks each call may log so     *)
(* that log_write() never panics, for any number of processes.             *)
(***************************************************************************)
EXTENDS LogProofs

HIDE DEF IInv, LogInvariant, Installing, Committing, Pending, Logged

\* The log slots still reserved for open calls, one pair per slot.
Credits == {c \in Active \X (1..MAXOPBLOCKS) : Cardinality(written[c[1]]) < c[2]}

ReserveInv ==
  /\ ~panicked
  /\ \A p \in Active : Cardinality(written[p]) <= OPBLOCKS
  /\ Len(lh) + Cardinality(Credits) <= LOGSIZE

CreditsFacts ==
  /\ IsFiniteSet(Credits) /\ Cardinality(Credits) \in Nat
  /\ Cardinality(Credits) <= outstanding * MAXOPBLOCKS

\* The blocks each open call may still log are a finite count.
LEMMA CreditsFinite == IInv => CreditsFacts
<1> SUFFICES ASSUME IInv PROVE CreditsFacts
  OBVIOUS
<1>1. IsFiniteSet(Active) /\ Cardinality(Active) = outstanding
  BY ActiveFinite DEF Active, ControlInv, IInv, LogInvariant
<1>2. IsFiniteSet(1..MAXOPBLOCKS) /\ Cardinality(1..MAXOPBLOCKS) = MAXOPBLOCKS
  BY ConstantsAssumption, FS_Interval
<1>3. /\ IsFiniteSet(Active \X (1..MAXOPBLOCKS))
      /\ Cardinality(Active \X (1..MAXOPBLOCKS)) = outstanding * MAXOPBLOCKS
  BY <1>1, <1>2, FS_Product
<1>4. Credits \in SUBSET (Active \X (1..MAXOPBLOCKS))
  BY DEF Credits
<1> QED
  BY <1>3, <1>4, FS_Subset, FS_CardinalityType DEF CreditsFacts

\* The same after a step.
LEMMA CreditsFinitePrime == IInv' => CreditsFacts'
  BY CreditsFinite, PTL

\* The logged and the reserved blocks fit the log together.
LEMMA ReserveFacts ==
  ASSUME IInv, ReserveInv
  PROVE  /\ Len(lh) \in Nat /\ Cardinality(Credits) \in Nat
         /\ Len(lh) + Cardinality(Credits) <= LOGSIZE
<1>1. Cardinality(Credits) \in Nat
  BY CreditsFinite DEF CreditsFacts
<1>2. lh \in Seq(Blocks)
  BY DEF IInv, TypeOK
<1>3. Len(lh) \in Nat
  BY <1>2
<1> QED
  BY <1>1, <1>3 DEF ReserveInv

\* A step that opens no call and logs no block keeps the reservation.
LEMMA ReserveKept ==
  ASSUME IInv, IInv', ReserveInv, ~panicked', written' = written,
         Active' \subseteq Active, Len(lh') <= Len(lh)
  PROVE  ReserveInv'
<1>1. Credits' \in SUBSET Credits
  BY DEF Credits
<1>2. Cardinality(Credits') <= Cardinality(Credits)
  BY <1>1, CreditsFinite, FS_Subset DEF CreditsFacts
<1>3. Cardinality(Credits') \in Nat
  BY <1>1, CreditsFinite, FS_Subset, FS_CardinalityType DEF CreditsFacts
<1> QED
  <2>1. Len(lh') \in Nat
    BY DEF TypeOK, IInv
  <2>2. \A p \in Active' : Cardinality(written'[p]) <= OPBLOCKS
    BY DEF ReserveInv
  <2>3. Len(lh') + Cardinality(Credits') <= LOGSIZE
    BY <1>2, <1>3, <2>1, ReserveFacts, ConstantsAssumption
  <2> QED
    BY <2>2, <2>3 DEF ReserveInv

\* With no open call nothing is reserved.
LEMMA ReserveEmpty ==
  ASSUME IInv', ~panicked', Active' = {}
  PROVE  ReserveInv'
<1>1. Credits' = {}
  BY DEF Credits
<1> QED
  BY <1>1, FS_EmptySet, ConstantsAssumption DEF ReserveInv, TypeOK, IInv

\* begin_op() admits a call only if its MAXOPBLOCKS still fit.
LEMMA ReserveBegin ==
  ASSUME IInv, IInv', ReserveInv, NEW p \in Procs, BeginOp(p)
  PROVE  ReserveInv'
<1>1. lh' = lh /\ panicked' = panicked /\ pc[p] # "op"
  BY DEF BeginOp
<1>2. CASE MustWait
  <2>1. Active' = Active /\ written' = written
    BY <1>2 DEF BeginOp, Active, TypeOK, IInv
  <2> QED
    BY <1>1, <2>1, ReserveKept DEF ReserveInv, TypeOK, IInv
<1>3. CASE ~MustWait
  <2>1. /\ outstanding' = outstanding + 1
        /\ Active' = Active \cup {p}
        /\ written' = [written EXCEPT ![p] = {}]
        /\ Len(lh) + (outstanding + 1) * MAXOPBLOCKS <= LOGSIZE
    BY <1>3, ConstantsAssumption DEF BeginOp, MustWait, Active, TypeOK, IInv
  <2>2. Cardinality(Credits') \in Nat /\ Cardinality(Credits') <= (outstanding + 1) * MAXOPBLOCKS
    BY <2>1, CreditsFinitePrime DEF CreditsFacts
  <2>3. \A q \in Active' : Cardinality(written'[q]) <= OPBLOCKS
    <3> SUFFICES ASSUME NEW q \in Active' PROVE Cardinality(written'[q]) <= OPBLOCKS
      OBVIOUS
    <3>1. CASE q = p
      BY <2>1, <3>1, FS_EmptySet, ConstantsAssumption DEF TypeOK, IInv
    <3>2. CASE q # p
      BY <2>1, <3>2 DEF ReserveInv, TypeOK, Active, IInv
    <3> QED
      BY <3>1, <3>2
  <2>4. (outstanding + 1) * MAXOPBLOCKS \in Nat
    BY ConstantsAssumption DEF TypeOK, IInv
  <2> QED
    BY <1>1, <2>1, <2>2, <2>3, <2>4, ConstantsAssumption DEF ReserveInv, TypeOK, IInv
<1> QED
  BY <1>2, <1>3

\* While a call is open two of its slots are never used: no log_write() panics.
LEMMA RoomLeft ==
  ASSUME IInv, ReserveInv, OPBLOCKS + 2 <= MAXOPBLOCKS, LOGSIZE <= NLOG,
         NEW p \in Active
  PROVE  ~TooBig /\ outstanding >= 1
<1>1. <<p, MAXOPBLOCKS>> \in Credits /\ <<p, MAXOPBLOCKS - 1>> \in Credits
  <2>1. Cardinality(written[p]) \in Nat
    BY ConstantsAssumption, FS_Subset, FS_CardinalityType DEF TypeOK, Active, IInv
  <2> QED
    BY <2>1, ConstantsAssumption DEF Credits, ReserveInv
<1> DEFINE two == {<<p, MAXOPBLOCKS>>} \cup {<<p, MAXOPBLOCKS - 1>>}
<1>2. two \in SUBSET Credits
  BY <1>1
<1>3. Cardinality(two) = 2
  <2> DEFINE x == <<p, MAXOPBLOCKS>>
             y == <<p, MAXOPBLOCKS - 1>>
  <2>1. x # y
    BY ConstantsAssumption
  <2> HIDE DEF x, y
  <2>2. IsFiniteSet({x}) /\ Cardinality({x}) = 1 /\ y \notin {x}
    BY <2>1, FS_Singleton
  <2>3. Cardinality({x} \cup {y}) = 2
    BY <2>2, FS_AddElement
  <2> QED
    BY <2>3 DEF x, y
<1>4. Cardinality(Credits) >= 2
  <2> HIDE DEF two
  <2> QED
    BY <1>2, <1>3, CreditsFinite, FS_Subset DEF CreditsFacts
<1>5. Len(lh) + 2 <= LOGSIZE
  BY <1>4, CreditsFinite, ConstantsAssumption DEF CreditsFacts, ReserveInv, TypeOK, IInv
<1>6. outstanding >= 1
  <2>1. Active \in SUBSET Procs /\ Active # {}
    BY DEF Active
  <2>2. Cardinality(Active) \in Nat /\ Cardinality(Active) # 0
    BY <2>1, ActiveFinite
  <2> QED
    BY <2>2 DEF ControlInv, IInv, LogInvariant
<1> QED
  BY <1>5, <1>6, ConstantsAssumption DEF TooBig, TypeOK, IInv

\* log_write() pays for a new block from the reservation of its call.
LEMMA ReserveLogWrite ==
  ASSUME IInv, IInv', ReserveInv, OPBLOCKS + 2 <= MAXOPBLOCKS, LOGSIZE <= NLOG,
         NEW p \in Procs, NEW b \in Blocks, NEW v \in Values, LogWrite(p, b, v)
  PROVE  ReserveInv'
<1>1. p \in Active /\ Active' = Active
  BY DEF LogWrite, Active
<1>2. ~TooBig /\ ~(outstanding < 1)
  BY <1>1, RoomLeft DEF TypeOK, IInv
<1>3. /\ panicked' = panicked
      /\ written' = [written EXCEPT ![p] = @ \cup {b}]
      /\ Cardinality(written[p] \cup {b}) <= OPBLOCKS
      /\ lh' = IF b \in Logged THEN lh ELSE Append(lh, b)
  BY <1>2 DEF LogWrite
<1>4. \A q \in Procs : IsFiniteSet(written[q]) /\ Cardinality(written[q]) \in Nat
  BY ConstantsAssumption, FS_Subset, FS_CardinalityType DEF TypeOK, IInv
<1>5. \A q \in Active' : Cardinality(written'[q]) <= OPBLOCKS
  BY <1>1, <1>3 DEF ReserveInv, TypeOK, Active, IInv
<1>6. Credits' \in SUBSET Credits
  <2>1. /\ Cardinality(written[p] \cup {b}) \in Nat
        /\ Cardinality(written[p] \cup {b}) >= Cardinality(written[p])
    <3>1. IsFiniteSet(written[p]) /\ Cardinality(written[p]) \in Nat
      BY <1>4
    <3>2. Cardinality(written[p] \cup {b}) \in {Cardinality(written[p]), Cardinality(written[p]) + 1}
      BY <3>1, FS_AddElement
    <3> QED
      BY <3>1, <3>2
  <2>2. ASSUME NEW q \in Active
        PROVE  /\ Cardinality(written'[q]) \in Nat
               /\ Cardinality(written[q]) <= Cardinality(written'[q])
    <3>1. CASE q = p
      BY <1>3, <2>1, <3>1 DEF TypeOK, IInv
    <3>2. CASE q # p
      <4>1. written'[q] = written[q]
        BY <1>3, <3>2 DEF TypeOK, Active, IInv
      <4> QED
        BY <1>4, <4>1 DEF Active
    <3> QED
      BY <3>1, <3>2
  <2> QED
    BY <1>1, <1>4, <2>2 DEF Credits, Active
<1>7. CASE b \in Logged
  <2>1. Cardinality(Credits') <= Cardinality(Credits) /\ Cardinality(Credits') \in Nat
    BY <1>6, CreditsFinite, FS_Subset, FS_CardinalityType DEF CreditsFacts
  <2>2. Len(lh) \in Nat /\ Cardinality(Credits) \in Nat /\ Len(lh) + Cardinality(Credits) <= LOGSIZE
    BY ReserveFacts
  <2>3. Len(lh') + Cardinality(Credits') <= LOGSIZE
    BY <1>3, <1>7, <2>1, <2>2, ConstantsAssumption
  <2> QED
    BY <1>3, <1>5, <2>3 DEF ReserveInv
<1>8. CASE b \notin Logged
  <2> DEFINE k == Cardinality(written[p])
  <2>1. b \notin written[p]
    BY <1>1, <1>8 DEF ControlInv, Active, IInv, LogInvariant
  <2>2. Cardinality(written'[p]) = k + 1 /\ k + 1 <= OPBLOCKS /\ k \in Nat
    <3>1. written'[p] = written[p] \cup {b}
      BY <1>3 DEF TypeOK, IInv
    <3> QED
      BY <1>3, <1>4, <2>1, <3>1, FS_AddElement
  <2>3. <<p, k + 1>> \in Credits /\ <<p, k + 1>> \notin Credits'
    BY <1>1, <2>2, ConstantsAssumption DEF Credits
  <2>4. Credits' \in SUBSET (Credits \ {<<p, k + 1>>})
    BY <1>6, <2>3
  <2>5. Cardinality(Credits') <= Cardinality(Credits) - 1 /\ Cardinality(Credits') \in Nat
    <3>1. /\ IsFiniteSet(Credits \ {<<p, k + 1>>})
          /\ Cardinality(Credits \ {<<p, k + 1>>}) = Cardinality(Credits) - 1
      BY <2>3, CreditsFinite, FS_RemoveElement DEF CreditsFacts
    <3> QED
      BY <2>4, <3>1, FS_Subset, FS_CardinalityType
  <2>6. Len(lh') = Len(lh) + 1
    BY <1>3, <1>8 DEF TypeOK, IInv
  <2>7. Len(lh) \in Nat /\ Cardinality(Credits) \in Nat /\ Len(lh) + Cardinality(Credits) <= LOGSIZE
    BY ReserveFacts
  <2>8. Len(lh') + Cardinality(Credits') <= LOGSIZE
    BY <2>5, <2>6, <2>7, ConstantsAssumption
  <2> QED
    BY <1>3, <1>5, <2>8 DEF ReserveInv
<1> QED
  BY <1>7, <1>8

\* Every step keeps the reservation, and none panics.
LEMMA ReserveNext ==
  ASSUME OPBLOCKS + 2 <= MAXOPBLOCKS, LOGSIZE <= NLOG
  PROVE  IInv /\ IInv' /\ ReserveInv /\ [Next]_vars => ReserveInv'
<1> SUFFICES ASSUME IInv, IInv', ReserveInv, [Next]_vars PROVE ReserveInv'
  OBVIOUS
<1>1. ASSUME NEW p \in Procs, EndOp(p) PROVE ReserveInv'
  <2>1. ~committing /\ pc[p] = "op"
    BY <1>1 DEF EndOp, ControlInv, IInv, LogInvariant
  <2>2. panicked' = panicked /\ written' = written /\ lh' = lh
    BY <1>1, <2>1 DEF EndOp
  <2>3. Active' \subseteq Active
    BY <1>1, <2>1 DEF EndOp, Active, Wakeup, TypeOK, IInv
  <2> QED
    BY <2>2, <2>3, ReserveKept DEF ReserveInv, TypeOK, IInv
<1>2. CASE ReadHead \/ Crash \/ ClearHead
  <2>1. Active' = {} /\ ~panicked'
    BY <1>2 DEF ReadHead, Crash, ClearHead, ClearCond, Active, ControlInv, ReserveInv, IInv, LogInvariant
  <2> QED
    BY <2>1, ReserveEmpty
<1>3. CASE \/ \E b \in Blocks : Bread(b) \/ Recycle(b)
           \/ WriteLog \/ WriteLogDone \/ WriteHead \/ Install \/ InstallDone
           \/ EndCommit \/ UNCHANGED vars
  <2>1. written' = written /\ lh' = lh /\ panicked' = panicked
    BY <1>3 DEF Bread, Recycle, WriteLog, WriteLogDone, WriteHead, Install,
                InstallDone, EndCommit, vars, logVars
  <2>2. Active' \subseteq Active
    BY <1>3 DEF Bread, Recycle, WriteLog, WriteLogDone, WriteHead, Install,
                InstallDone, EndCommit, vars, Active, Wakeup, TypeOK, IInv
  <2> QED
    BY <2>1, <2>2, ReserveKept DEF ReserveInv, TypeOK, IInv
<1> QED
  BY <1>1, <1>2, <1>3, ReserveBegin, ReserveLogWrite DEF Next

\* If every call logs at most MAXOPBLOCKS - 2 distinct blocks, no log_write()
\* and no end_op() panics, even with the log mkfs lays out, which has one data
\* block less than begin_op() counts on.
THEOREM LogNeverPanics ==
  ASSUME OPBLOCKS + 2 <= MAXOPBLOCKS, LOGSIZE <= NLOG
  PROVE  Spec => []NoPanic
<1>1. Init => ReserveInv
  <2> SUFFICES ASSUME Init PROVE ReserveInv
    OBVIOUS
  <2>1. Active = {} /\ Credits = {} /\ ~panicked /\ Len(lh) = 0
    BY EmptyHeader DEF Init, Active, Credits
  <2> QED
    BY <2>1, FS_EmptySet, ConstantsAssumption DEF ReserveInv
<1>2. IInv /\ IInv' /\ ReserveInv /\ [Next]_vars => ReserveInv'
  BY ReserveNext
<1>3. ReserveInv => NoPanic
  BY DEF ReserveInv, NoPanic
<1> QED
  BY <1>1, <1>2, <1>3, InitInv, NextInv, PTL DEF Spec
===========================================================================
