-------------------------- MODULE Snowflake_proofs --------------------------
(***************************************************************************)
(* Uniqueness of snowflake ids, for any number of goroutines and data      *)
(* sources and any widths of the id's fields, without a bound on the clock *)
(* or on the ids issued: while the clock is never set back, every id is    *)
(* greater than all before it.                                             *)
(***************************************************************************)
EXTENDS Snowflake, TLAPS

-----------------------------------------------------------------------------
(***************************************************************************)
(* The order of ids.                                                       *)
(***************************************************************************)

\* Multiplication by a natural number preserves the order.
LEMMA TimesMonotone ==
  ASSUME NEW a \in Nat, NEW b \in Nat, NEW k \in Nat, a <= b
  PROVE  /\ a * k \in Nat
         /\ b * k \in Nat
         /\ a * k <= b * k
<1> DEFINE d == b - a
<1>1. d \in Nat /\ b = a + d
  OBVIOUS
<1>2. b * k = a * k + d * k
  BY <1>1
<1>3. d * k \in Nat /\ a * k \in Nat
  BY <1>1
<1> QED
  BY <1>2, <1>3

\* Ids are natural numbers.
LEMMA IdNat ==
  ASSUME NEW t \in Nat, NEW w \in Nat, NEW s \in Nat
  PROVE  Id(t, w, s) \in Nat
<1>1. t * WorkerSize + w \in Nat
  BY ConstantsAssumption
<1>2. (t * WorkerSize + w) * SequenceSize \in Nat
  BY <1>1, ConstantsAssumption
<1> QED
  BY <1>2 DEF Id

\* Within a millisecond the next sequence number gives the next id.
LEMMA IdNextSequence ==
  ASSUME NEW t \in Nat, NEW w \in Nat, NEW s \in Nat
  PROVE  Id(t, w, s + 1) = Id(t, w, s) + 1
<1> DEFINE high == (t * WorkerSize + w) * SequenceSize
<1>1. t * WorkerSize + w \in Nat
  BY ConstantsAssumption
<1>2. high \in Nat
  BY <1>1, ConstantsAssumption
<1> QED
  BY <1>2 DEF Id

\* A later millisecond gives an id that is no smaller than the first of an
\* earlier one.
LEMMA IdTimeMonotone ==
  ASSUME NEW t \in Nat, NEW u \in Nat, NEW w \in Nat, NEW s \in Nat, t <= u
  PROVE  Id(t, w, 0) <= Id(u, w, s)
<1>1. t * WorkerSize \in Nat /\ u * WorkerSize \in Nat /\ t * WorkerSize <= u * WorkerSize
  BY TimesMonotone, ConstantsAssumption
<1> DEFINE a == t * WorkerSize + w
           b == u * WorkerSize + w
<1>2. a \in Nat /\ b \in Nat /\ a <= b
  BY <1>1
<1>3. a * SequenceSize \in Nat /\ b * SequenceSize \in Nat /\ a * SequenceSize <= b * SequenceSize
  BY <1>2, TimesMonotone, ConstantsAssumption
<1> QED
  BY <1>3 DEF Id

\* No sequence number reaches into the next millisecond.
LEMMA IdNextTime ==
  ASSUME NEW t \in Nat, NEW w \in Nat, NEW s \in 0..(SequenceSize - 1)
  PROVE  Id(t, w, s) < Id(t + 1, w, 0)
<1> DEFINE a == t * WorkerSize + w
           b == (t + 1) * WorkerSize + w
<1>1. t * WorkerSize \in Nat /\ (t + 1) * WorkerSize = t * WorkerSize + WorkerSize
  BY ConstantsAssumption
<1>2. a \in Nat /\ b \in Nat /\ a + 1 <= b
  BY <1>1, ConstantsAssumption
<1>3. (a + 1) * SequenceSize <= b * SequenceSize
  BY <1>2, TimesMonotone, ConstantsAssumption
<1>4. (a + 1) * SequenceSize = a * SequenceSize + SequenceSize
  BY <1>2, ConstantsAssumption
<1>5. a * SequenceSize \in Nat /\ b * SequenceSize \in Nat
  BY <1>2, ConstantsAssumption
<1>6. a * SequenceSize + s < b * SequenceSize
  BY <1>3, <1>4, <1>5, ConstantsAssumption
<1> QED
  BY <1>5, <1>6 DEF Id

-----------------------------------------------------------------------------
(***************************************************************************)
(* Type correctness.                                                       *)
(***************************************************************************)

\* The worker id is cut to its width.
LEMMA WorkerForType ==
  ASSUME NEW d \in DataSources
  PROVE  WorkerFor(d) \in 0..(WorkerSize - 1)
<1>1. WorkerOf[d] \in Nat
  BY ConstantsAssumption
<1> QED
  BY <1>1, ConstantsAssumption DEF WorkerFor

\* Every step keeps the types: worker id and sequence number stay within their
\* widths and ids are natural numbers.  The id about to be issued needs the
\* worker id to be set, hence the second assumption.
LEMMA TypeStep ==
  ASSUME TypeOK, [Next]_vars,
         \A p \in Procs : pc[p] = "issue" => workerID # None
  PROVE  TypeOK'
<1> USE DEF TypeOK
<1>1. ASSUME NEW p \in Procs, NoIdNeeded(p) PROVE TypeOK'
  BY <1>1 DEF NoIdNeeded, vars, nodeVars, procVars
<1>2. ASSUME NEW p \in Procs, Call(p) PROVE TypeOK'
  BY <1>2 DEF Call, Goto, PCs, nodeVars
<1>3. ASSUME NEW p \in Procs, Once(p) PROVE TypeOK'
  BY <1>3, WorkerForType DEF Once, Goto, PCs
<1>4. ASSUME NEW p \in Procs, Lock(p) PROVE TypeOK'
  BY <1>4 DEF Lock, Goto, PCs
<1>5. ASSUME NEW p \in Procs, Read(p) PROVE TypeOK'
  <2>1. sequence' \in 0..(SequenceSize - 1)
    BY <1>5, ConstantsAssumption DEF Read
  <2>2. pc' \in [Procs -> PCs]
    BY <1>5 DEF Read, Goto, PCs
  <2> QED
    BY <1>5, <2>1, <2>2 DEF Read
<1>6. ASSUME NEW p \in Procs, Spin(p) PROVE TypeOK'
  BY <1>6 DEF Spin, Goto, PCs, nodeVars
<1>7. ASSUME NEW p \in Procs, Issue(p) PROVE TypeOK'
  <2>1. NewId(p) \in Nat
    <3>1. workerID \in Nat /\ sequence \in Nat /\ now[p] \in Nat
      BY <1>7, ConstantsAssumption DEF Issue
    <3> QED
      BY <3>1, IdNat DEF NewId
  <2>2. AnySource \in DataSources
    BY ConstantsAssumption DEF AnySource
  <2> QED
    BY <1>7, <2>1, <2>2 DEF Issue, Goto, PCs
<1>8. CASE Tick
  BY <1>8 DEF Tick, nodeVars, procVars
<1>9. CASE StepBack
  BY <1>9, ConstantsAssumption DEF StepBack, nodeVars, procVars
<1>10. CASE UNCHANGED vars
  BY <1>10 DEF vars, nodeVars, procVars
<1> QED
  BY <1>1, <1>2, <1>3, <1>4, <1>5, <1>6, <1>7, <1>8, <1>9, <1>10 DEF Next, Step

-----------------------------------------------------------------------------
(***************************************************************************)
(* The inductive invariant.                                                *)
(***************************************************************************)

\* The goroutine that holds the mutex is the only one between Lock and Issue.
MutexInv == \A p \in Procs : pc[p] \in {"read", "spin", "issue"} => holder = p

\* The worker id is set before a goroutine gets to the mutex, and no id was
\* issued without it.
WorkerInv ==
  /\ \A p \in Procs : pc[p] \in {"lock", "read", "spin", "issue"} => workerID # None
  /\ workerID = None => issued = {}

\* A clock that was never set back is ahead of the times read from it.
ClockInv == stepBacks = 0 =>
  /\ lastTime <= clock
  /\ \A p \in Procs : now[p] <= clock

\* Ids issued precede the next millisecond ...
NextTimeInv == stepBacks = 0 => \A i \in issued : i < Id(lastTime + 1, workerID, 0)

\* ... and do not exceed the last number taken, unless a goroutine has taken
\* one and not issued its id yet.
LastIdInv == stepBacks = 0 =>
  \/ \E p \in Procs : pc[p] \in {"spin", "issue"}
  \/ \A i \in issued : i <= Id(lastTime, workerID, sequence)

IInv == TypeOK /\ MutexInv /\ WorkerInv /\ ClockInv /\ NextTimeInv /\ LastIdInv /\ IdsIncrease

\* The invariant holds initially.
LEMMA InitIInv == Init => IInv
<1> SUFFICES ASSUME Init PROVE IInv
  OBVIOUS
<1>1. AnySource \in DataSources
  BY ConstantsAssumption DEF AnySource
<1>2. TypeOK
  BY <1>1, ConstantsAssumption DEF Init, TypeOK, PCs
<1>3. MutexInv /\ WorkerInv /\ ClockInv
  BY DEF Init, MutexInv, WorkerInv, ClockInv
<1>4. NextTimeInv /\ LastIdInv /\ IdsIncrease
  BY DEF Init, NextTimeInv, LastIdInv, IdsIncrease
<1> QED
  BY <1>2, <1>3, <1>4 DEF IInv

\* Reading the clock takes a number whose id exceeds all ids issued, or none.
LEMMA ReadFresh ==
  ASSUME IInv, NEW p \in Procs, Read(p), stepBacks = 0, pc'[p] = "issue"
  PROVE  \A i \in issued : i < Id(clock, workerID, sequence')
<1> USE DEF IInv
<1>1. /\ workerID \in Nat /\ lastTime \in Nat /\ clock \in Nat /\ sequence \in Nat
      /\ issued \subseteq Nat
  BY ConstantsAssumption DEF Read, TypeOK, WorkerInv
<1>2. CASE clock > lastTime
  <2>1. sequence' = 0
    BY <1>2, <1>1 DEF Read
  <2>2. Id(lastTime + 1, workerID, 0) <= Id(clock, workerID, 0)
    BY <1>1, <1>2, IdTimeMonotone
  <2>3. lastTime + 1 \in Nat /\ 0 \in Nat
    BY <1>1
  <2>4. Id(lastTime + 1, workerID, 0) \in Nat
    BY <1>1, <2>3, IdNat
  <2>5. Id(clock, workerID, 0) \in Nat
    BY <1>1, <2>3, IdNat
  <2> QED
    BY <1>1, <2>1, <2>2, <2>4, <2>5 DEF NextTimeInv
<1>3. CASE clock <= lastTime
  <2>1. clock = lastTime
    BY <1>1, <1>3 DEF ClockInv
  <2>2. sequence' = (sequence + 1) % SequenceSize /\ sequence' # 0
    BY <1>1, <1>3 DEF Read, Goto, TypeOK
  <2>3. sequence' = sequence + 1
    BY <2>2, ConstantsAssumption DEF TypeOK
  <2>4. \A q \in Procs : pc[q] \notin {"spin", "issue"}
    BY DEF Read, MutexInv
  <2>5. \A i \in issued : i <= Id(lastTime, workerID, sequence)
    BY <2>4 DEF LastIdInv
  <2>6. Id(clock, workerID, sequence') = Id(lastTime, workerID, sequence) + 1
    BY <1>1, <2>1, <2>3, IdNextSequence
  <2>7. Id(lastTime, workerID, sequence) \in Nat
    BY <1>1, IdNat
  <2> QED
    BY <1>1, <2>5, <2>6, <2>7
<1> QED
  BY <1>1, <1>2, <1>3

\* Every step preserves the invariant.
LEMMA NextIInv == IInv /\ [Next]_vars => IInv'
<1> SUFFICES ASSUME IInv, [Next]_vars PROVE IInv'
  OBVIOUS
<1> USE DEF IInv
<1>1. TypeOK'
  BY TypeStep DEF WorkerInv
<1>2. /\ clock \in Nat /\ clock' \in Nat /\ lastTime \in Nat
      /\ stepBacks \in Nat /\ stepBacks' \in Nat
      /\ issued \subseteq Nat
      /\ now \in [Procs -> Nat]
      /\ \A p \in Procs : now[p] \in Nat
  BY <1>1, ConstantsAssumption DEF TypeOK
<1>3. MutexInv'
  <2>1. ASSUME NEW p \in Procs, NoIdNeeded(p) PROVE MutexInv'
    BY <2>1 DEF NoIdNeeded, vars, nodeVars, procVars, MutexInv
  <2>2. ASSUME NEW p \in Procs, Call(p) PROVE MutexInv'
    BY <2>2 DEF Call, Goto, MutexInv, nodeVars, TypeOK
  <2>3. ASSUME NEW p \in Procs, Once(p) PROVE MutexInv'
    BY <2>3 DEF Once, Goto, MutexInv, TypeOK
  <2>4. ASSUME NEW p \in Procs, Lock(p) PROVE MutexInv'
    BY <2>4, ConstantsAssumption DEF Lock, Goto, MutexInv, TypeOK
  <2>5. ASSUME NEW p \in Procs, Read(p) PROVE MutexInv'
    BY <2>5 DEF Read, Goto, MutexInv, TypeOK
  <2>6. ASSUME NEW p \in Procs, Spin(p) PROVE MutexInv'
    BY <2>6 DEF Spin, Goto, MutexInv, nodeVars, TypeOK
  <2>7. ASSUME NEW p \in Procs, Issue(p) PROVE MutexInv'
    BY <2>7 DEF Issue, Goto, MutexInv, TypeOK
  <2>8. CASE Tick \/ StepBack \/ UNCHANGED vars
    BY <2>8 DEF Tick, StepBack, vars, nodeVars, procVars, MutexInv
  <2> QED
    BY <2>1, <2>2, <2>3, <2>4, <2>5, <2>6, <2>7, <2>8 DEF Next, Step
<1>4. WorkerInv'
  <2>1. ASSUME NEW p \in Procs, NoIdNeeded(p) PROVE WorkerInv'
    BY <2>1 DEF NoIdNeeded, vars, nodeVars, procVars, WorkerInv
  <2>2. ASSUME NEW p \in Procs, Call(p) PROVE WorkerInv'
    BY <2>2 DEF Call, Goto, WorkerInv, nodeVars, TypeOK
  <2>3. ASSUME NEW p \in Procs, Once(p) PROVE WorkerInv'
    <3>1. workerID' # None
      <4>1. WorkerFor(ds[p]) \in Nat
        BY WorkerForType, ConstantsAssumption DEF TypeOK
      <4> QED
        BY <2>3, <4>1, ConstantsAssumption DEF Once
    <3> QED
      BY <2>3, <3>1 DEF Once, Goto, WorkerInv
  <2>4. ASSUME NEW p \in Procs, Lock(p) PROVE WorkerInv'
    BY <2>4 DEF Lock, Goto, WorkerInv, TypeOK
  <2>5. ASSUME NEW p \in Procs, Read(p) PROVE WorkerInv'
    BY <2>5 DEF Read, Goto, WorkerInv, TypeOK
  <2>6. ASSUME NEW p \in Procs, Spin(p) PROVE WorkerInv'
    BY <2>6 DEF Spin, Goto, WorkerInv, nodeVars, TypeOK
  <2>7. ASSUME NEW p \in Procs, Issue(p) PROVE WorkerInv'
    BY <2>7 DEF Issue, Goto, WorkerInv, TypeOK
  <2>8. CASE Tick \/ StepBack \/ UNCHANGED vars
    BY <2>8 DEF Tick, StepBack, vars, nodeVars, procVars, WorkerInv
  <2> QED
    BY <2>1, <2>2, <2>3, <2>4, <2>5, <2>6, <2>7, <2>8 DEF Next, Step
<1>5. ClockInv'
  <2>1. ASSUME NEW p \in Procs, NoIdNeeded(p) \/ Call(p) \/ Once(p) \/ Lock(p) PROVE ClockInv'
    BY <2>1 DEF NoIdNeeded, Call, Once, Lock, vars, nodeVars, procVars, ClockInv
  <2>2. ASSUME NEW p \in Procs, Read(p) \/ Spin(p) PROVE ClockInv'
    BY <2>2, <1>2 DEF Read, Spin, nodeVars, ClockInv
  <2>3. ASSUME NEW p \in Procs, Issue(p) PROVE ClockInv'
    BY <2>3, <1>2 DEF Issue, ClockInv
  <2>4. CASE Tick
    BY <2>4, <1>2 DEF Tick, nodeVars, procVars, ClockInv
  <2>5. CASE StepBack
    BY <2>5, <1>2 DEF StepBack, ClockInv
  <2>6. CASE UNCHANGED vars
    BY <2>6 DEF vars, nodeVars, procVars, ClockInv
  <2> QED
    BY <2>1, <2>2, <2>3, <2>4, <2>5, <2>6 DEF Next, Step
<1>6. NextTimeInv' /\ LastIdInv' /\ IdsIncrease'
  <2> SUFFICES ASSUME stepBacks' = 0
               PROVE  NextTimeInv' /\ LastIdInv' /\ IdsIncrease'
    BY DEF NextTimeInv, LastIdInv, IdsIncrease
  <2>1. stepBacks = 0 /\ ~StepBack
    BY <1>2 DEF StepBack, Next, Step, NoIdNeeded, Call, Once, Lock, Read, Spin, Issue, Tick, vars
  <2>2. ASSUME NEW p \in Procs, NoIdNeeded(p)
        PROVE  NextTimeInv' /\ LastIdInv' /\ IdsIncrease'
    BY <2>2 DEF NoIdNeeded, vars, nodeVars, procVars, NextTimeInv, LastIdInv, IdsIncrease, NewId, Id
  <2>3. ASSUME NEW p \in Procs, Call(p)
        PROVE  NextTimeInv' /\ LastIdInv' /\ IdsIncrease'
    BY <2>3 DEF Call, Goto, nodeVars, NextTimeInv, LastIdInv, IdsIncrease, NewId, Id, TypeOK
  <2>4. ASSUME NEW p \in Procs, Once(p)
        PROVE  NextTimeInv' /\ LastIdInv' /\ IdsIncrease'
    <3>1. CASE workerID = None
      <4>1. issued' = {}
        BY <2>4, <3>1 DEF Once, WorkerInv
      <4> QED
        BY <4>1 DEF NextTimeInv, LastIdInv, IdsIncrease
    <3>2. CASE workerID # None
      <4>1. workerID' = workerID
        BY <2>4, <3>2 DEF Once
      <4> QED
        BY <2>1, <2>4, <4>1
        DEF Once, Goto, NextTimeInv, LastIdInv, IdsIncrease, NewId, Id, TypeOK
    <3> QED
      BY <3>1, <3>2
  <2>5. ASSUME NEW p \in Procs, Lock(p)
        PROVE  NextTimeInv' /\ LastIdInv' /\ IdsIncrease'
    BY <2>5 DEF Lock, Goto, NextTimeInv, LastIdInv, IdsIncrease, NewId, Id, TypeOK
  <2>6. ASSUME NEW p \in Procs, Read(p)
        PROVE  NextTimeInv' /\ LastIdInv' /\ IdsIncrease'
    <3>1. NextTimeInv'
      BY <2>1, <2>6 DEF Read, NextTimeInv, Id
    <3>2. pc'[p] \in {"spin", "issue"}
      BY <2>6 DEF Read, Goto, TypeOK
    <3>3. ASSUME NEW r \in Procs, pc'[r] = "issue" PROVE r = p
      BY <2>6, <3>3 DEF Read, Goto, MutexInv, TypeOK
    <3>4. now'[p] = clock
      BY <2>6 DEF Read, TypeOK
    <3>5. IdsIncrease'
      BY <2>1, <2>6, <3>3, <3>4, ReadFresh DEF Read, IdsIncrease, NewId, Id
    <3> QED
      BY <3>1, <3>2, <3>5 DEF LastIdInv
  <2>7. ASSUME NEW p \in Procs, Spin(p)
        PROVE  NextTimeInv' /\ LastIdInv' /\ IdsIncrease'
    <3>1. NextTimeInv'
      BY <2>1, <2>7 DEF Spin, nodeVars, NextTimeInv, Id
    <3>2. pc'[p] = "issue" /\ now'[p] = clock
      BY <2>7 DEF Spin, Goto, TypeOK
    <3>3. ASSUME NEW r \in Procs, pc'[r] = "issue" PROVE r = p
      BY <2>7, <3>3 DEF Spin, Goto, MutexInv, TypeOK
    <3>4. workerID \in Nat /\ sequence \in Nat /\ lastTime + 1 \in Nat /\ 0 \in Nat
      BY <1>2, <2>7, ConstantsAssumption DEF Spin, TypeOK, WorkerInv
    <3>5. lastTime + 1 <= clock
      BY <1>2, <2>7 DEF Spin
    <3>6. Id(lastTime + 1, workerID, 0) <= Id(clock, workerID, sequence)
      BY <1>2, <3>4, <3>5, IdTimeMonotone
    <3>7. Id(lastTime + 1, workerID, 0) \in Nat
      BY <3>4, IdNat
    <3>8. Id(clock, workerID, sequence) \in Nat
      BY <1>2, <3>4, IdNat
    <3>9. \A i \in issued : i < Id(clock, workerID, sequence)
      BY <1>2, <2>1, <3>6, <3>7, <3>8 DEF NextTimeInv
    <3>10. IdsIncrease'
      BY <2>7, <3>2, <3>3, <3>9 DEF Spin, nodeVars, IdsIncrease, NewId, Id
    <3> QED
      BY <3>1, <3>2, <3>10 DEF LastIdInv
  <2>8. ASSUME NEW p \in Procs, Issue(p)
        PROVE  NextTimeInv' /\ LastIdInv' /\ IdsIncrease'
    <3> DEFINE id == Id(now[p], workerID, sequence)
    <3>1. workerID \in Nat /\ sequence \in 0..(SequenceSize - 1) /\ sequence \in Nat
          /\ now[p] + 1 \in Nat /\ 0 \in Nat
      BY <1>2, <2>8, ConstantsAssumption DEF Issue, TypeOK, WorkerInv
    <3>2. id \in Nat
      BY <1>2, <3>1, IdNat
    <3>3. \A i \in issued : i < id
      BY <2>1, <2>8 DEF Issue, IdsIncrease, NewId
    <3>4. issued' = issued \union {id}
      BY <2>8 DEF Issue, NewId
    <3>5. id < Id(now[p] + 1, workerID, 0)
      BY <1>2, <3>1, IdNextTime
    <3>6. Id(now[p] + 1, workerID, 0) \in Nat
      BY <3>1, IdNat
    <3>7. \A i \in issued' : i <= id /\ i < Id(now[p] + 1, workerID, 0)
      BY <1>2, <3>2, <3>3, <3>4, <3>5, <3>6
    <3>8. lastTime' = now[p] /\ workerID' = workerID /\ sequence' = sequence
      BY <2>8 DEF Issue
    <3>9. \A r \in Procs : pc'[r] # "issue"
      BY <2>8 DEF Issue, Goto, MutexInv, TypeOK
    <3>10. NextTimeInv' /\ LastIdInv'
      BY <3>7, <3>8 DEF NextTimeInv, LastIdInv, Id
    <3> QED
      BY <3>9, <3>10 DEF IdsIncrease
  <2>9. CASE Tick
    BY <2>1, <2>9 DEF Tick, nodeVars, procVars, NextTimeInv, LastIdInv, IdsIncrease, NewId, Id
  <2>10. CASE UNCHANGED vars
    BY <2>1, <2>10 DEF vars, nodeVars, procVars, NextTimeInv, LastIdInv, IdsIncrease, NewId, Id
  <2> QED
    BY <2>1, <2>2, <2>3, <2>4, <2>5, <2>6, <2>7, <2>8, <2>9, <2>10 DEF Next, Step
<1> QED
  BY <1>1, <1>3, <1>4, <1>5, <1>6

-----------------------------------------------------------------------------
(***************************************************************************)
(* The theorems.                                                           *)
(***************************************************************************)

\* The inductive invariant holds throughout.
LEMMA SpecIInv == Spec => []IInv
  BY InitIInv, NextIInv, PTL DEF Spec

\* snowflakeIdGenerator keeps worker id and sequence number within their
\* widths in every reachable state.
THEOREM TypeCorrect == Spec => []TypeOK
  BY SpecIInv, PTL DEF IInv

\* Ids are unique and increase in the order they are issued, for any number of
\* goroutines and data sources, while the clock is not set back.
THEOREM IdsAlwaysIncrease == Spec => []IdsIncrease
  BY SpecIInv, PTL DEF IInv
-----------------------------------------------------------------------------
(***************************************************************************)
(* Waiting for the mutex ends at the clock.                                *)
(***************************************************************************)

\* The mutex is held only by a goroutine between Lock and Issue, and who spins has
\* found the numbers of the last id's millisecond used up.
HolderInv ==
  /\ holder # None => pc[holder] \in {"read", "spin", "issue"}
  /\ \A p \in Procs : pc[p] = "spin" => sequence = 0 /\ now[p] <= lastTime

\* Every step keeps the mutex with such a goroutine.
LEMMA NextHolder == IInv /\ HolderInv /\ [Next]_vars => HolderInv'
<1> SUFFICES ASSUME IInv, HolderInv, [Next]_vars PROVE HolderInv'
  OBVIOUS
<1> USE DEF HolderInv
<1>1. TypeOK /\ MutexInv /\ None \notin Procs
  BY ConstantsAssumption DEF IInv
<1>2. ASSUME NEW p \in Procs, Call(p) \/ Once(p) PROVE HolderInv'
  <2>1. /\ holder' = holder /\ sequence' = sequence /\ now' = now /\ lastTime' = lastTime
        /\ pc[p] \in {"idle", "once"} /\ \E l \in {"once", "lock"} : pc' = [pc EXCEPT ![p] = l]
    BY <1>2 DEF Call, Once, Goto, nodeVars
  <2> QED
    BY <1>1, <2>1 DEF TypeOK
<1>3. ASSUME NEW p \in Procs, Lock(p) PROVE HolderInv'
  BY <1>1, <1>3 DEF Lock, Goto, TypeOK
<1>4. ASSUME NEW p \in Procs, Read(p) \/ Spin(p) PROVE HolderInv'
  <2>1. holder' = holder /\ lastTime' = lastTime /\ pc[p] \in {"read", "spin"} /\ now'[p] = clock
    BY <1>1, <1>4 DEF Read, Spin, nodeVars, TypeOK
  <2>2. \E l \in {"spin", "issue"} : pc' = [pc EXCEPT ![p] = l]
    BY <1>4 DEF Read, Spin, Goto
  <2>3. pc'[p] = "spin" => sequence' = 0 /\ clock <= lastTime
    BY <1>1, <1>4 DEF Read, Spin, Goto, TypeOK
  <2>4. \A r \in Procs \ {p} : pc'[r] = pc[r] /\ pc[r] \notin {"read", "spin", "issue"}
    BY <1>1, <2>1, <2>2 DEF TypeOK, MutexInv
  <2>5. holder = p /\ pc'[p] \in {"spin", "issue"}
    BY <1>1, <2>1, <2>2 DEF TypeOK, MutexInv
  <2> QED
    BY <2>1, <2>3, <2>4, <2>5
<1>5. ASSUME NEW p \in Procs, Issue(p) PROVE HolderInv'
  <2>1. /\ holder' = None /\ pc' = [pc EXCEPT ![p] = "idle"] /\ pc[p] = "issue"
    BY <1>5 DEF Issue, Goto
  <2>2. \A r \in Procs : pc'[r] # "spin"
    BY <1>1, <2>1 DEF TypeOK, MutexInv
  <2> QED
    BY <2>1, <2>2
<1>6. CASE Tick \/ StepBack \/ UNCHANGED vars \/ \E p \in Procs : NoIdNeeded(p)
  BY <1>6 DEF Tick, StepBack, NoIdNeeded, vars, nodeVars, procVars
<1> QED
  BY <1>2, <1>3, <1>4, <1>5, <1>6 DEF Next, Step

\* What a caller waits for: the mutex is free, or exactly one other goroutine has
\* it, which can go on, or spins because the numbers of the last id's millisecond
\* are used up.
OnlyClockAwaited == \A p \in Procs : pc[p] = "lock" =>
  \/ holder = None
  \/ \E q \in Procs \ {p} :
       /\ holder = q
       /\ \A r \in Procs : pc[r] \in {"read", "spin", "issue"} <=> r = q
       /\ pc[q] = "spin" => sequence = 0 /\ now[q] <= lastTime

\* Callers wait for one goroutine that waits for nothing but the clock, wherever the
\* clock is set: the safety part of CallReturns.
THEOREM MutexNeverLost == Spec => []OnlyClockAwaited
<1>1. Init => HolderInv
  BY DEF Init, HolderInv
<1>2. IInv /\ HolderInv => OnlyClockAwaited
  BY ConstantsAssumption DEF IInv, TypeOK, MutexInv, HolderInv, OnlyClockAwaited
<1> QED
  BY <1>1, <1>2, NextHolder, SpecIInv, PTL DEF Spec

-----------------------------------------------------------------------------
(***************************************************************************)
(* Processes with different worker ids.                                    *)
(***************************************************************************)

\* A number below k on top of a multiple of k determines the multiple: if the
\* sums are equal, so are the multiples.  Stated for one direction.
LEMMA NotBelow ==
  ASSUME NEW a \in Nat, NEW b \in Nat, NEW k \in Nat \ {0},
         NEW x \in 0..(k - 1), NEW y \in 0..(k - 1),
         a * k + x = b * k + y
  PROVE  ~(a < b)
<1> SUFFICES ASSUME a < b
             PROVE  FALSE
  OBVIOUS
<1>1. /\ a + 1 \in Nat
      /\ a + 1 <= b
  OBVIOUS
<1>2. /\ (a + 1) * k \in Nat
      /\ b * k \in Nat
      /\ (a + 1) * k <= b * k
  BY <1>1, TimesMonotone
<1>3. (a + 1) * k = a * k + k
  OBVIOUS
<1>4. a * k \in Nat
  OBVIOUS
<1> DEFINE m == a * k
           n == b * k
<1>5. /\ m \in Nat
      /\ n \in Nat
      /\ m + k <= n
      /\ m + x = n + y
  BY <1>2, <1>3, <1>4
<1> HIDE DEF m, n
<1> QED
  BY <1>5

\* Both parts of such a sum are determined by it.
LEMMA PartsDetermined ==
  ASSUME NEW a \in Nat, NEW b \in Nat, NEW k \in Nat \ {0},
         NEW x \in 0..(k - 1), NEW y \in 0..(k - 1),
         a * k + x = b * k + y
  PROVE  /\ a = b
         /\ x = y
<1>1. ~(a < b)
  BY NotBelow
<1>2. ~(b < a)
  BY NotBelow
<1>3. a = b
  BY <1>1, <1>2
<1> DEFINE m == a * k
<1>4. /\ m \in Nat
      /\ m + x = m + y
  BY <1>3
<1> HIDE DEF m
<1> QED
  BY <1>3, <1>4

\* An id determines the millisecond, the worker id and the sequence number it
\* was made of: two processes whose worker ids differ after the cut of
\* snowflakeIdGenerator never issue the same id, whatever their clocks do.
THEOREM WorkersApart ==
  ASSUME NEW t \in Nat, NEW u \in Nat,
         NEW v \in 0..(WorkerSize - 1), NEW w \in 0..(WorkerSize - 1),
         NEW s \in 0..(SequenceSize - 1), NEW r \in 0..(SequenceSize - 1),
         Id(t, v, s) = Id(u, w, r)
  PROVE  /\ t = u
         /\ v = w
         /\ s = r
<1> DEFINE a == t * WorkerSize + v
           b == u * WorkerSize + w
<1>1. /\ WorkerSize \in Nat \ {0}
      /\ SequenceSize \in Nat \ {0}
  BY ConstantsAssumption
<1>2. /\ a \in Nat
      /\ b \in Nat
  BY <1>1
<1>3. a * SequenceSize + s = b * SequenceSize + r
  BY DEF Id
<1> HIDE DEF a, b
<1>4. /\ a = b
      /\ s = r
  BY <1>1, <1>2, <1>3, PartsDetermined
<1>5. t * WorkerSize + v = u * WorkerSize + w
  BY <1>4 DEF a, b
<1>6. /\ t = u
      /\ v = w
  BY <1>1, <1>5, PartsDetermined
<1> QED
  BY <1>4, <1>6

=============================================================================
