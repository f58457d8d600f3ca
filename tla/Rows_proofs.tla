----------------------------- MODULE Rows_proofs ------------------------------
(***************************************************************************)
(* What the readers of a result set deliver, for sets of any length, any   *)
(* limit, and any rows that fail.  The loops are recursive functions of    *)
(* the number of rows read; that such a function exists is proved first,   *)
(* by induction on its domain, and then every reader by an invariant of    *)
(* its loop.                                                               *)
(***************************************************************************)
EXTENDS Rows, WellFoundedInduction, TLAPS

\* What a loop has read, and the errors there are.
Errs == {"none", "limit", "lost", "no rows", "badScan", "badColumn"}
State == [rows : Seq(Rowish), err : Errs, truncated : BOOLEAN, done : BOOLEAN]

-----------------------------------------------------------------------------
(***************************************************************************)
(* Induction and recursion on natural numbers.                             *)
(***************************************************************************)

\* A set of natural numbers with 0 and, with each number, the next one has all.
LEMMA Induction ==
  ASSUME NEW S \in SUBSET Nat, 0 \in S, \A n \in S : n + 1 \in S
  PROVE  \A n \in Nat : n \in S
<1> SUFFICES ASSUME NEW m \in Nat, m \notin S PROVE FALSE
  OBVIOUS
<1> DEFINE Rest == Nat \ S
<1>1. Rest \in SUBSET Nat /\ Rest # {}
  OBVIOUS
<1>2. PICK x \in Rest : \A y \in Rest : <<y, x>> \notin OpToRel(<, Nat)
  BY <1>1, NatLessThanWellFounded, WFMin
<1>3. \A y \in Rest : ~(y < x)
  BY <1>1, <1>2 DEF OpToRel
<1>4. x \in Nat /\ x # 0 /\ x - 1 \in Nat
  BY <1>1
<1>5. x - 1 \in S
  BY <1>3, <1>4
<1> QED
  BY <1>4, <1>5

\* A function on 0..N is defined by its value at 0 and by each from the one before.
LEMMA Recursion ==
  ASSUME NEW base \in State, NEW N \in Nat, NEW step \in [State -> [1..N -> State]]
  PROVE  \E f \in [0..N -> State] :
           f[0] = base /\ \A n \in 1..N : f[n] = step[f[n - 1]][n]
<1> DEFINE Fits(m, f) == f[0] = base /\ \A n \in 1..m : f[n] = step[f[n - 1]][n]
<1> DEFINE S == {m \in Nat : m <= N => \E f \in [0..m -> State] : Fits(m, f)}
<1>1. 0 \in S
  <2>1. [n \in 0..0 |-> base] \in [0..0 -> State] /\ Fits(0, [n \in 0..0 |-> base])
    OBVIOUS
  <2> QED
    BY <2>1
<1>2. ASSUME NEW m \in S PROVE m + 1 \in S
  <2> SUFFICES ASSUME m + 1 <= N PROVE \E g \in [0..(m + 1) -> State] : Fits(m + 1, g)
    <3> HIDE DEF Fits
    <3> QED
      BY SMT
  <2>0. m \in Nat /\ m <= N
    OBVIOUS
  <2>1. PICK f \in [0..m -> State] : Fits(m, f)
    <3> HIDE DEF Fits
    <3> QED
      BY <2>0, Zenon
  <2> DEFINE g == [n \in 0..(m + 1) |-> IF n = m + 1 THEN step[f[m]][m + 1] ELSE f[n]]
  <2>2. m \in Nat /\ m + 1 \in 1..N /\ f[m] \in State
    BY <2>1
  <2>3. step[f[m]][m + 1] \in State
    BY <2>2
  <2>4. g \in [0..(m + 1) -> State]
    BY <2>1, <2>2, <2>3
  <2>5. g[0] = base
    BY <2>1, <2>2
  <2>6. ASSUME NEW n \in 1..(m + 1) PROVE g[n] = step[g[n - 1]][n]
    <3>1. n - 1 \in 0..m /\ g[n - 1] = f[n - 1]
      BY <2>2
    <3>2. CASE n = m + 1
      <4>1. n - 1 = m /\ g[n - 1] = f[m] /\ g[n] = step[f[m]][m + 1]
        BY <2>2, <3>1, <3>2
      <4> QED
        BY <3>2, <4>1
    <3>3. CASE n # m + 1
      <4>1. n \in 1..m /\ g[n] = f[n]
        BY <2>2, <3>3
      <4> QED
        BY <2>1, <3>1, <4>1
    <3> QED
      BY <3>2, <3>3
  <2> QED
    BY <2>4, <2>5, <2>6
<1>3. N \in S
  <2> HIDE DEF S
  <2>1. S \in SUBSET Nat
    BY DEF S
  <2> QED
    BY <1>1, <1>2, <2>1, Induction
<1>4. PICK f \in [0..N -> State] : Fits(N, f)
  BY <1>3
<1> QED
  BY <1>4

-----------------------------------------------------------------------------
(***************************************************************************)
(* The loop.                                                               *)
(***************************************************************************)
\* A turn leads from a state to a state.
LEMMA TurnType ==
  ASSUME NEW reader \in Readers, NEW got \in State, NEW row \in Rowish,
         NEW limit \in Int, NEW strict \in BOOLEAN
  PROVE  Turn(reader, got, row, limit, strict) \in State
<1>1. Take(reader, got, row) \in State
  <2>1. Append(got.rows, row) \in Seq(Rowish)
    BY DEF State
  <2>2. [got EXCEPT !.rows = Append(@, row)] \in State
    BY <2>1 DEF State
  <2>3. row # "good" => Failed(got, row) \in State
    BY DEF Failed, State, Errs, Rowish
  <2> QED
    BY <2>2, <2>3 DEF Take, Rowish
<1>2. AtLimit(got, strict) \in State
  BY DEF AtLimit, Failed, State, Errs
<1> QED
  BY <1>1, <1>2 DEF Turn

\* The rows are read one by one.
LEMMA ProgressSteps ==
  ASSUME NEW reader \in Readers, NEW rows \in Seq(Rowish), NEW limit \in Int, NEW strict \in BOOLEAN
  PROVE  LET got == Progress(reader, rows, limit, strict) IN
         /\ got \in [0..Len(rows) -> State]
         /\ got[0] = NothingRead
         /\ \A n \in 1..Len(rows) : got[n] = Turn(reader, got[n - 1], rows[n], limit, strict)
<1> DEFINE N == Len(rows)
<1> DEFINE step == [x \in State |-> [n \in 1..N |-> Turn(reader, x, rows[n], limit, strict)]]
<1>1. N \in Nat /\ \A n \in 1..N : rows[n] \in Rowish
  OBVIOUS
<1>2. NothingRead \in State
  BY DEF NothingRead, State, Errs
<1>3. step \in [State -> [1..N -> State]]
  BY <1>1, TurnType
<1>4. PICK f \in [0..N -> State] : f[0] = NothingRead /\ \A n \in 1..N : f[n] = step[f[n - 1]][n]
  <2> HIDE DEF step, N
  <2> QED
    BY <1>1, <1>2, <1>3, Recursion
<1>5. ASSUME NEW n \in 1..N
      PROVE  step[f[n - 1]][n] = Turn(reader, f[n - 1], rows[n], limit, strict)
  <2>1. f[n - 1] \in State
    BY <1>1, <1>4
  <2> QED
    BY <2>1
<1>6. f = [n \in 0..N |-> IF n = 0 THEN NothingRead ELSE Turn(reader, f[n - 1], rows[n], limit, strict)]
  <2> HIDE DEF step, N
  <2>1. \A n \in 0..N : f[n] = IF n = 0 THEN NothingRead ELSE Turn(reader, f[n - 1], rows[n], limit, strict)
    BY <1>1, <1>4, <1>5
  <2>2. f = [n \in 0..N |-> f[n]]
    BY <1>4
  <2> QED
    BY <2>1, <2>2
<1> DEFINE Got == Progress(reader, rows, limit, strict)
<1>7. Got = [n \in 0..N |-> IF n = 0 THEN NothingRead ELSE Turn(reader, Got[n - 1], rows[n], limit, strict)]
  BY <1>6 DEF Progress
<1>8. ASSUME NEW n \in 0..N PROVE Got[n] \in State
  <2> DEFINE S == {m \in Nat : m <= N => Got[m] \in State}
  <2> HIDE DEF Got
  <2>1. 0 \in S
    BY <1>1, <1>2, <1>7
  <2>2. ASSUME NEW m \in S PROVE m + 1 \in S
    <3> SUFFICES ASSUME m + 1 <= N PROVE Got[m + 1] \in State
      OBVIOUS
    <3>1. m + 1 \in 1..N /\ (m + 1) - 1 = m /\ Got[m] \in State
      BY <1>1
    <3>2. Got[m + 1] = Turn(reader, Got[m], rows[m + 1], limit, strict)
      BY <1>1, <1>7, <3>1
    <3> QED
      BY <1>1, <3>1, <3>2, TurnType
  <2>3. S \in SUBSET Nat
    OBVIOUS
  <2>4. n \in S
    <3> HIDE DEF S
    <3> QED
      BY <1>1, <2>1, <2>2, <2>3, Induction
  <2> QED
    BY <2>4
<1>9. Got \in [0..N -> State]
  <2> HIDE DEF Got
  <2> QED
    BY <1>7, <1>8
<1> HIDE DEF Got
<1>10. /\ Got[0] = NothingRead
       /\ \A n \in 1..N : Got[n] = Turn(reader, Got[n - 1], rows[n], limit, strict)
  BY <1>1, <1>7
<1> QED
  BY <1>9, <1>10 DEF Got

-----------------------------------------------------------------------------
(***************************************************************************)
(* The invariant of a loop, after n rows.                                  *)
(***************************************************************************)
Skipped(reader, row) == reader = "fetch" /\ row = "badScan"

\* The rows taken stand at rising positions; while the loop goes on, and before
\* the last one taken, those between were skipped.
Placed(at, reader, got, rows, n) ==
  /\ at \in [1..Len(got.rows) -> 1..n]
  /\ \A i \in 1..Len(got.rows) : got.rows[i] = rows[at[i]]
  /\ \A i, j \in 1..Len(got.rows) : i < j => at[i] < at[j]
  /\ \A k \in 1..n :
       ~got.done \/ (\E i \in 1..Len(got.rows) : k < at[i]) =>
         (\E j \in 1..Len(got.rows) : at[j] = k) \/ Skipped(reader, rows[k])
Positions(reader, got, rows, n) == \E at : Placed(at, reader, got, rows, n)

\* Some row fails, or one of its columns.
Broken(rows, n) == \E k \in 1..n : rows[k] # "good"

\* Why the loop has ended.
Status(got, rows, n, limit, strict) ==
  /\ Len(got.rows) <= n
  /\ limit < 0 \/ Len(got.rows) <= limit
  /\ ~got.done => got.err = "none" /\ ~got.truncated
  /\ got.truncated => /\ Len(got.rows) = limit /\ limit < n
                      /\ got.err = IF strict THEN "limit" ELSE "none"
  /\ got.done /\ ~got.truncated => Broken(rows, n) /\ got.err \in {"badScan", "badColumn"}

\* While it goes on, no row was given up, and if none was skipped all were taken.
Whole(reader, got, rows, n) ==
  ~got.done =>
    /\ \A k \in 1..n : /\ rows[k] = "badScan" => reader = "fetch"
                       /\ rows[k] = "badColumn" => reader # "structs"
    /\ (\A k \in 1..n : ~Skipped(reader, rows[k])) =>
         Len(got.rows) = n /\ \A k \in 1..n : got.rows[k] = rows[k]

LoopInv(reader, got, rows, n, limit, strict) ==
  /\ Positions(reader, got, rows, n)
  /\ Status(got, rows, n, limit, strict)
  /\ Whole(reader, got, rows, n)

\* Before the first row.
LEMMA LoopBegins ==
  ASSUME NEW reader \in Readers, NEW rows \in Seq(Rowish), NEW limit \in Int, NEW strict \in BOOLEAN
  PROVE  LoopInv(reader, NothingRead, rows, 0, limit, strict)
<1> USE DEF NothingRead
<1>1. Positions(reader, NothingRead, rows, 0)
  <2> DEFINE at == [i \in 1..0 |-> 0]
  <2>1. Placed(at, reader, NothingRead, rows, 0)
    BY DEF Placed
  <2> QED
    BY <2>1 DEF Positions
<1>2. Status(NothingRead, rows, 0, limit, strict)
  BY DEF Status
<1>3. Whole(reader, NothingRead, rows, 0)
  BY DEF Whole
<1> QED
  BY <1>1, <1>2, <1>3 DEF LoopInv

\* A row that is not taken leaves the positions as they are.
LEMMA PositionsKept ==
  ASSUME NEW reader \in Readers, NEW rows \in Seq(Rowish), NEW n \in Nat, n + 1 <= Len(rows),
         NEW got \in State, NEW new \in State, Positions(reader, got, rows, n),
         new.rows = got.rows, got.done => new.done,
         new.done \/ Skipped(reader, rows[n + 1])
  PROVE  Positions(reader, new, rows, n + 1)
<1> DEFINE L == Len(got.rows)
<1>0. PICK at : Placed(at, reader, got, rows, n)
  BY DEF Positions
<1>1. /\ at \in [1..L -> 1..n]
      /\ \A i \in 1..L : got.rows[i] = rows[at[i]]
      /\ \A i, j \in 1..L : i < j => at[i] < at[j]
      /\ \A k \in 1..n : ~got.done \/ (\E i \in 1..L : k < at[i]) =>
           (\E j \in 1..L : at[j] = k) \/ Skipped(reader, rows[k])
  BY <1>0 DEF Placed
<1>2. L \in Nat
  BY DEF State
<1> HIDE DEF L
<1>3. at \in [1..L -> 1..(n + 1)]
  BY <1>1
<1>4. ASSUME NEW k \in 1..(n + 1), ~new.done \/ \E i \in 1..L : k < at[i]
      PROVE  (\E j \in 1..L : at[j] = k) \/ Skipped(reader, rows[k])
  <2>1. CASE k = n + 1
    <3>1. ~(\E i \in 1..L : k < at[i])
      BY <1>1, <1>2, <2>1
    <3> QED
      BY <1>4, <2>1, <3>1
  <2>2. CASE k \in 1..n
    BY <1>1, <1>4, <2>2
  <2> QED
    BY <2>1, <2>2
<1>5. Placed(at, reader, new, rows, n + 1)
  BY <1>1, <1>3, <1>4 DEF Placed, L
<1> QED
  BY <1>5 DEF Positions

\* A row that is taken stands behind the others.
LEMMA PositionsGrow ==
  ASSUME NEW reader \in Readers, NEW rows \in Seq(Rowish), NEW n \in Nat, n + 1 <= Len(rows),
         NEW got \in State, NEW new \in State, Positions(reader, got, rows, n),
         ~got.done, new.rows = Append(got.rows, rows[n + 1])
  PROVE  Positions(reader, new, rows, n + 1)
<1> DEFINE L == Len(got.rows)
<1>0. PICK at : Placed(at, reader, got, rows, n)
  BY DEF Positions
<1>1. /\ at \in [1..L -> 1..n]
      /\ \A i \in 1..L : got.rows[i] = rows[at[i]]
      /\ \A i, j \in 1..L : i < j => at[i] < at[j]
      /\ \A k \in 1..n : ~got.done \/ (\E i \in 1..L : k < at[i]) =>
           (\E j \in 1..L : at[j] = k) \/ Skipped(reader, rows[k])
  BY <1>0 DEF Placed
<1> DEFINE next == [i \in 1..(L + 1) |-> IF i = L + 1 THEN n + 1 ELSE at[i]]
<1>2. L \in Nat /\ Len(new.rows) = L + 1 /\ new.rows[L + 1] = rows[n + 1]
  BY DEF State
<1>3. \A i \in 1..L : new.rows[i] = got.rows[i]
  BY DEF State
<1> HIDE DEF L
<1>4. next \in [1..(L + 1) -> 1..(n + 1)]
  BY <1>1, <1>2
<1>5. \A i \in 1..(L + 1) : (i = L + 1 /\ next[i] = n + 1) \/ (i \in 1..L /\ next[i] = at[i])
  BY <1>2
<1> HIDE DEF next
<1>6. \A i \in 1..(L + 1) : new.rows[i] = rows[next[i]]
  BY <1>1, <1>2, <1>3, <1>5
<1>7. \A i, j \in 1..(L + 1) : i < j => next[i] < next[j]
  <2> SUFFICES ASSUME NEW i \in 1..(L + 1), NEW j \in 1..(L + 1), i < j PROVE next[i] < next[j]
    OBVIOUS
  <2>1. i \in 1..L /\ next[i] = at[i] /\ at[i] \in 1..n
    BY <1>1, <1>2, <1>5
  <2>2. CASE j = L + 1
    BY <1>2, <1>5, <2>1, <2>2
  <2>3. CASE j \in 1..L
    BY <1>1, <1>2, <1>5, <2>1, <2>3
  <2> QED
    BY <1>2, <2>2, <2>3
<1>8. ASSUME NEW k \in 1..(n + 1)
      PROVE  (\E j \in 1..(L + 1) : next[j] = k) \/ Skipped(reader, rows[k])
  <2>1. CASE k = n + 1
    BY <1>2, <1>5, <2>1
  <2>2. CASE k \in 1..n
    <3>1. (\E j \in 1..L : at[j] = k) \/ Skipped(reader, rows[k])
      BY <1>1, <2>2
    <3>2. \A j \in 1..L : j \in 1..(L + 1) /\ next[j] = at[j]
      BY <1>2, <1>5
    <3> QED
      BY <3>1, <3>2
  <2> QED
    BY <2>1, <2>2
<1>9. Placed(next, reader, new, rows, n + 1)
  BY <1>2, <1>4, <1>6, <1>7, <1>8 DEF Placed
<1> QED
  BY <1>9 DEF Positions

\* The ways a turn of the loop can go.
Idles(got, new) == got.done /\ new = got
Stops(got, new, limit, strict) ==
  /\ ~got.done /\ Reached(limit, Len(got.rows))
  /\ new.rows = got.rows /\ new.done /\ new.truncated
  /\ new.err = IF strict THEN "limit" ELSE got.err
Skips(reader, got, new, row) == ~got.done /\ new = got /\ Skipped(reader, row)
GivesUp(got, new, row) ==
  /\ ~got.done /\ row \in {"badScan", "badColumn"}
  /\ new.rows = got.rows /\ new.done /\ new.err = row
  /\ new.truncated = got.truncated
Takes(reader, got, new, row, limit) ==
  /\ ~got.done /\ ~Reached(limit, Len(got.rows))
  /\ new.rows = Append(got.rows, row) /\ ~new.done
  /\ new.err = got.err /\ new.truncated = got.truncated
  /\ row # "badScan" /\ (row = "badColumn" => reader # "structs")

LEMMA TurnCases ==
  ASSUME NEW reader \in Readers, NEW got \in State, NEW row \in Rowish,
         NEW limit \in Int, NEW strict \in BOOLEAN
  PROVE  LET new == Turn(reader, got, row, limit, strict) IN
         \/ Idles(got, new) \/ Stops(got, new, limit, strict) \/ Skips(reader, got, new, row)
         \/ GivesUp(got, new, row) \/ Takes(reader, got, new, row, limit)
<1> DEFINE new == Turn(reader, got, row, limit, strict)
<1>1. CASE got.done
  BY <1>1 DEF Turn, Idles
<1>2. CASE ~got.done /\ Reached(limit, Len(got.rows))
  <2>1. new = AtLimit(got, strict)
    BY <1>2 DEF Turn
  <2>2. CASE strict
    <3>1. /\ new.rows = got.rows /\ new.done = TRUE /\ new.truncated = TRUE
          /\ new.err = "limit"
      BY <2>1, <2>2 DEF AtLimit, Failed, State
    <3> QED
      BY <1>2, <2>2, <3>1 DEF Stops
  <2>3. CASE ~strict
    <3>1. /\ new.rows = got.rows /\ new.done = TRUE /\ new.truncated = TRUE
          /\ new.err = got.err
      BY <2>1, <2>3 DEF AtLimit, State
    <3> QED
      BY <1>2, <2>3, <3>1 DEF Stops
  <2> QED
    BY <2>2, <2>3
<1>3. CASE ~got.done /\ ~Reached(limit, Len(got.rows))
  <2>1. new = Take(reader, got, row)
    BY <1>3 DEF Turn
  <2>2. CASE row = "badScan" /\ reader = "fetch"
    BY <1>3, <2>1, <2>2 DEF Take, Skips, Skipped
  <2>3. CASE (row = "badScan" /\ reader # "fetch") \/ (row = "badColumn" /\ reader = "structs")
    <3>1. new = Failed(got, row)
      BY <2>1, <2>3 DEF Take
    <3>2. new.rows = got.rows /\ new.done = TRUE /\ new.err = row /\ new.truncated = got.truncated
      BY <3>1 DEF Failed, State
    <3> QED
      BY <1>3, <2>3, <3>2 DEF GivesUp
  <2>4. CASE row # "badScan" /\ ~(row = "badColumn" /\ reader = "structs")
    <3>1. new = [got EXCEPT !.rows = Append(@, row)]
      BY <2>1, <2>4 DEF Take
    <3>2. /\ new.rows = Append(got.rows, row) /\ new.done = got.done
          /\ new.err = got.err /\ new.truncated = got.truncated
      BY <3>1 DEF State
    <3> QED
      BY <1>3, <2>4, <3>2 DEF Takes
  <2> QED
    BY <2>2, <2>3, <2>4
<1> QED
  BY <1>1, <1>2, <1>3

\* A turn keeps the invariant.
LEMMA TurnKeeps ==
  ASSUME NEW reader \in Readers, NEW rows \in Seq(Rowish), NEW limit \in Int, NEW strict \in BOOLEAN,
         NEW n \in Nat, n + 1 <= Len(rows), NEW got \in State
  PROVE  LoopInv(reader, got, rows, n, limit, strict) =>
           LoopInv(reader, Turn(reader, got, rows[n + 1], limit, strict), rows, n + 1, limit, strict)
<1>0. SUFFICES ASSUME LoopInv(reader, got, rows, n, limit, strict)
               PROVE  LoopInv(reader, Turn(reader, got, rows[n + 1], limit, strict), rows, n + 1, limit, strict)
  OBVIOUS
<1> DEFINE row == rows[n + 1]
<1> DEFINE new == Turn(reader, got, row, limit, strict)
<1>1. row \in Rowish /\ row \in {"good", "badScan", "badColumn"}
  BY DEF Rowish
<1>2. new \in State
  BY <1>1, TurnType
<1>3. /\ Positions(reader, got, rows, n) /\ Status(got, rows, n, limit, strict)
      /\ Whole(reader, got, rows, n)
  BY <1>0 DEF LoopInv
<1>4. \/ Idles(got, new) \/ Stops(got, new, limit, strict) \/ Skips(reader, got, new, row)
      \/ GivesUp(got, new, row) \/ Takes(reader, got, new, row, limit)
  BY <1>1, TurnCases
<1>5. /\ Len(got.rows) \in Nat /\ Len(rows) \in Nat
      /\ Len(Append(got.rows, row)) = Len(got.rows) + 1
      /\ \A k \in 1..Len(got.rows) : Append(got.rows, row)[k] = got.rows[k]
      /\ Append(got.rows, row)[Len(got.rows) + 1] = row
  BY DEF State
<1>6. \A k \in 1..(n + 1) : k = n + 1 \/ k \in 1..n
  OBVIOUS
<1> HIDE DEF new, row
<1>7. Positions(reader, new, rows, n + 1)
  <2>1. CASE Takes(reader, got, new, row, limit)
    BY <1>2, <1>3, <2>1, PositionsGrow DEF Takes, row
  <2>2. CASE ~Takes(reader, got, new, row, limit)
    <3>1. new.rows = got.rows /\ (got.done => new.done) /\ (new.done \/ Skipped(reader, row))
      BY <1>4, <2>2 DEF Idles, Stops, Skips, GivesUp
    <3> QED
      BY <1>2, <1>3, <3>1, PositionsKept DEF row
  <2> QED
    BY <2>1, <2>2
<1>8. Status(new, rows, n + 1, limit, strict)
  <2> DEFINE len == Len(got.rows)
  <2> DEFINE newlen == Len(new.rows)
  <2>0. len \in Nat /\ len <= n /\ (limit < 0 \/ len <= limit)
    BY <1>3, <1>5 DEF Status
  <2>1. /\ ~got.done => got.err = "none" /\ ~got.truncated
        /\ got.truncated => /\ len = limit /\ limit < n
                            /\ got.err = IF strict THEN "limit" ELSE "none"
        /\ got.done /\ ~got.truncated => Broken(rows, n) /\ got.err \in {"badScan", "badColumn"}
    BY <1>3, <1>5 DEF Status
  <2>2. Broken(rows, n) => Broken(rows, n + 1)
    BY DEF Broken
  <2>3. row # "good" => Broken(rows, n + 1)
    BY DEF Broken, row
  <2>4. newlen = IF Takes(reader, got, new, row, limit) THEN len + 1 ELSE len
    BY <1>4, <1>5 DEF Takes, Idles, Stops, Skips, GivesUp
  <2>5. Takes(reader, got, new, row, limit) => ~(limit >= 0 /\ len >= limit)
    BY DEF Takes, Reached
  <2>6. Stops(got, new, limit, strict) => limit >= 0 /\ len >= limit
    BY DEF Stops, Reached
  <2> HIDE DEF len, newlen
  <2>7. newlen <= n + 1 /\ (limit < 0 \/ newlen <= limit)
    <3>1. CASE Takes(reader, got, new, row, limit)
      <4>1. newlen = len + 1 /\ ~(limit >= 0 /\ len >= limit)
        BY <2>4, <2>5, <3>1
      <4> QED
        BY <2>0, <4>1
    <3>2. CASE ~Takes(reader, got, new, row, limit)
      <4>1. newlen = len
        BY <2>4, <3>2
      <4> QED
        BY <2>0, <4>1
    <3> QED
      BY <3>1, <3>2
  <2>8. ~new.done => new.err = "none" /\ ~new.truncated
    BY <1>4, <2>1 DEF Takes, Idles, Stops, Skips, GivesUp
  <2>9. ASSUME new.truncated
        PROVE  newlen = limit /\ limit < n + 1 /\ new.err = IF strict THEN "limit" ELSE "none"
    <3>1. CASE Stops(got, new, limit, strict)
      <4>1. ~got.done /\ new.err = IF strict THEN "limit" ELSE got.err
        BY <3>1 DEF Stops
      <4>2. newlen = len
        BY <3>1, <2>4 DEF Stops, Takes
      <4>3. limit >= 0 /\ len >= limit
        BY <2>6, <3>1
      <4>4. newlen = limit /\ limit < n + 1
        BY <2>0, <4>2, <4>3
      <4> QED
        BY <2>1, <4>1, <4>4
    <3>2. CASE Idles(got, new)
      <4>1. new = got /\ newlen = len
        BY <2>4, <3>2 DEF Idles, Takes
      <4>2. len = limit /\ limit < n /\ got.err = IF strict THEN "limit" ELSE "none"
        BY <2>1, <2>9, <4>1
      <4>3. limit < n
        BY <4>2
      <4>4. limit < n + 1
        BY <4>3
      <4> QED
        BY <4>1, <4>2, <4>4
    <3>3. CASE ~Stops(got, new, limit, strict) /\ ~Idles(got, new)
      BY <1>4, <2>1, <2>9, <3>3 DEF Takes, Skips, GivesUp
    <3> QED
      BY <3>1, <3>2, <3>3
  <2>10. new.done /\ ~new.truncated => Broken(rows, n + 1) /\ new.err \in {"badScan", "badColumn"}
    <3>1. row \in {"badScan", "badColumn"} => row # "good"
      OBVIOUS
    <3> QED
      BY <1>4, <2>1, <2>2, <2>3, <3>1 DEF Takes, Idles, Stops, Skips, GivesUp
  <2> QED
    BY <2>7, <2>8, <2>9, <2>10 DEF Status, newlen
<1>9. Whole(reader, new, rows, n + 1)
  <2>1. CASE new.done
    BY <2>1 DEF Whole
  <2>2. CASE ~new.done /\ Skips(reader, got, new, row)
    <3>1. row = "badScan" /\ reader = "fetch" /\ Skipped(reader, rows[n + 1]) /\ new = got /\ ~got.done
      BY <2>2 DEF Skips, Skipped, row
    <3> QED
      BY <1>3, <1>6, <3>1 DEF Whole, row
  <2>3. CASE ~new.done /\ Takes(reader, got, new, row, limit)
    <3>1. /\ ~got.done /\ new.rows = Append(got.rows, row)
          /\ row # "badScan" /\ (row = "badColumn" => reader # "structs")
      BY <2>3 DEF Takes
    <3>2. \A k \in 1..(n + 1) : /\ rows[k] = "badScan" => reader = "fetch"
                                /\ rows[k] = "badColumn" => reader # "structs"
      BY <1>3, <1>6, <3>1 DEF Whole, row
    <3>3. ASSUME \A k \in 1..(n + 1) : ~Skipped(reader, rows[k])
          PROVE  Len(new.rows) = n + 1 /\ \A k \in 1..(n + 1) : new.rows[k] = rows[k]
      <4>1. Len(got.rows) = n /\ \A k \in 1..n : got.rows[k] = rows[k]
        BY <1>3, <3>1, <3>3 DEF Whole
      <4> QED
        BY <1>5, <1>6, <3>1, <4>1 DEF row
    <3> QED
      BY <3>2, <3>3 DEF Whole
  <2> QED
    BY <1>4, <2>1, <2>2, <2>3 DEF Idles, Stops, GivesUp
<1> QED
  BY <1>7, <1>8, <1>9 DEF LoopInv, new, row

\* Every loop ends in a state of which the invariant holds.
LEMMA LoopEnds ==
  ASSUME NEW reader \in Readers, NEW set \in ResultSet, NEW limit \in Int, NEW strict \in BOOLEAN
  PROVE  /\ Loop(reader, set, limit, strict) \in State
         /\ LoopInv(reader, Loop(reader, set, limit, strict), set.rows, Len(set.rows), limit, strict)
<1> DEFINE rows == set.rows
<1> DEFINE got == Progress(reader, rows, limit, strict)
<1>1. rows \in Seq(Rowish) /\ Len(rows) \in Nat
  BY DEF ResultSet
<1>2. /\ got \in [0..Len(rows) -> State]
      /\ got[0] = NothingRead
      /\ \A n \in 1..Len(rows) : got[n] = Turn(reader, got[n - 1], rows[n], limit, strict)
  BY <1>1, ProgressSteps
<1> DEFINE S == {n \in Nat : n <= Len(rows) => LoopInv(reader, got[n], rows, n, limit, strict)}
<1> HIDE DEF got, rows
<1>3. 0 \in S
  BY <1>1, <1>2, LoopBegins
<1>4. ASSUME NEW n \in S PROVE n + 1 \in S
  <2> SUFFICES ASSUME n + 1 <= Len(rows) PROVE LoopInv(reader, got[n + 1], rows, n + 1, limit, strict)
    BY SMT
  <2>1. n \in Nat /\ n + 1 \in 1..Len(rows) /\ (n + 1) - 1 = n /\ n \in 0..Len(rows)
    BY <1>1
  <2>2. LoopInv(reader, got[n], rows, n, limit, strict)
    BY <1>1, <2>1
  <2>3. got[n] \in State /\ got[n + 1] = Turn(reader, got[n], rows[n + 1], limit, strict)
    BY <1>2, <2>1
  <2> QED
    BY <1>1, <2>1, <2>2, <2>3, TurnKeeps
<1>5. Len(rows) \in S
  <2>1. S \in SUBSET Nat
    OBVIOUS
  <2> HIDE DEF S
  <2> QED
    BY <1>1, <1>3, <1>4, <2>1, Induction
<1>6. LoopInv(reader, got[Len(rows)], rows, Len(rows), limit, strict) /\ got[Len(rows)] \in State
  BY <1>1, <1>2, <1>5
<1> QED
  BY <1>6 DEF Loop, got, rows

-----------------------------------------------------------------------------
(***************************************************************************)
(* What the readers make of the loop.                                      *)
(***************************************************************************)

\* Sequences are equal that have the same length and the same elements.
LEMMA SameRows ==
  ASSUME NEW s \in Seq(Rowish), NEW t \in Seq(Rowish), Len(s) = Len(t),
         \A k \in 1..Len(t) : s[k] = t[k]
  PROVE  s = t
<1>1. s = [k \in 1..Len(s) |-> s[k]]
  BY SMT
<1>2. t = [k \in 1..Len(t) |-> t[k]]
  BY SMT
<1> QED
  BY <1>1, <1>2, Zenon

\* The positions of a loop are the ones InOrder asks for.
LEMMA PositionsOrder ==
  ASSUME NEW reader \in Readers, NEW rows \in Seq(Rowish), NEW got \in State,
         Positions(reader, got, rows, Len(rows))
  PROVE  InOrder(reader, got.rows, rows)
<1>1. PICK at : Placed(at, reader, got, rows, Len(rows))
  BY DEF Positions
<1>2. \A i \in 1..Len(got.rows), k \in 1..Len(rows) :
        k < at[i] => \/ \E j \in 1..Len(got.rows) : at[j] = k
                     \/ reader = "fetch" /\ rows[k] = "badScan"
  BY <1>1 DEF Placed, Skipped
<1> QED
  BY <1>1, <1>2 DEF Placed, InOrder

\* A reader that fails without rows has delivered nothing wrong.
LEMMA NothingDelivered ==
  ASSUME NEW reader \in Readers, NEW set \in ResultSet, NEW limit \in Int, NEW strict \in BOOLEAN,
         NEW got \in State, got.rows = <<>>, got.err # "none", got.truncated /\ strict => got.err = "limit"
  PROVE  Delivered(reader, got, set, limit, strict)
<1>1. Len(got.rows) = 0 /\ 1..Len(got.rows) = {}
  <2>1. \A x : x = <<>> => Len(x) = 0
    OBVIOUS
  <2>2. Len(got.rows) = 0
    BY <2>1, Zenon
  <2>3. \A n : n = 0 => 1..n = {}
    OBVIOUS
  <2> QED
    BY <2>2, <2>3, Zenon
<1>2. InOrder(reader, got.rows, set.rows)
  <2>1. [i \in {} |-> 1] \in [1..Len(got.rows) -> 1..Len(set.rows)]
    BY <1>1
  <2> QED
    BY <1>1, <2>1 DEF InOrder
<1>3. limit < 0 \/ Len(got.rows) <= limit
  <2>1. limit < 0 \/ 0 <= limit
    OBVIOUS
  <2> QED
    BY <1>1, <2>1, Zenon
<1> QED
  BY <1>2, <1>3 DEF Delivered

\* The rows of the loop, with its error or the one of the last look.
LEMMA LoopDelivered ==
  ASSUME NEW reader \in Readers, NEW set \in ResultSet, NEW limit \in Int, NEW strict \in BOOLEAN,
         NEW end \in State, LoopInv(reader, end, set.rows, Len(set.rows), limit, strict),
         NEW got \in State, got.rows = end.rows,
         got.truncated => Len(end.rows) = limit /\ (strict => got.err = "limit"),
         got.err = "none" /\ ~got.truncated => ~end.done /\ (reader # "fetch" => ~set.lost)
  PROVE  Delivered(reader, got, set, limit, strict)
<1> DEFINE rows == set.rows
<1>1. rows \in Seq(Rowish)
  BY DEF ResultSet
<1>2. /\ Positions(reader, end, rows, Len(rows)) /\ Whole(reader, end, rows, Len(rows))
      /\ limit < 0 \/ Len(end.rows) <= limit
  BY DEF LoopInv, Status
<1>3. InOrder(reader, got.rows, rows)
  BY <1>1, <1>2, PositionsOrder
<1>4. ASSUME got.err = "none", ~got.truncated PROVE Complete(reader, got, set)
  <2>1. ~end.done /\ (reader # "fetch" => ~set.lost)
    BY <1>4
  <2>2. \A k \in 1..Len(rows) : /\ rows[k] = "badScan" => reader = "fetch"
                                /\ rows[k] = "badColumn" => reader # "structs"
    BY <1>2, <2>1 DEF Whole
  <2>3. ASSUME \A k \in 1..Len(rows) : ~Skipped(reader, rows[k])
        PROVE  got.rows = rows
    <3>1. Len(end.rows) = Len(rows) /\ \A k \in 1..Len(rows) : end.rows[k] = rows[k]
      BY <1>2, <2>1, <2>3 DEF Whole
    <3>2. end.rows \in Seq(Rowish)
      BY DEF State
    <3> QED
      BY <1>1, <3>1, <3>2, SameRows
  <2>4. reader # "fetch" \/ (\A k \in 1..Len(rows) : rows[k] # "badScan") => got.rows = rows
    BY <2>3 DEF Skipped
  <2>5. reader # "fetch" => got.rows = rows /\ ~set.lost
    BY <2>1, <2>4
  <2>6. (\A k \in 1..Len(rows) : rows[k] # "badScan") => got.rows = rows
    BY <2>4
  <2> QED
    BY <2>2, <2>5, <2>6 DEF Complete
<1>5. limit < 0 \/ Len(got.rows) <= limit
  BY <1>2, Zenon
<1>6. /\ got.truncated /\ strict => got.err = "limit"
      /\ got.truncated /\ got.err = "none" => Len(got.rows) = limit
  OBVIOUS
<1> QED
  BY <1>3, <1>4, <1>5, <1>6 DEF Delivered

\* On a row that is good, a turn is the same for every reader, and so is the loop.
LEMMA CleanLoops ==
  ASSUME NEW reader \in Readers, NEW set \in ResultSet, Clean(set), NEW limit \in Int, NEW strict \in BOOLEAN
  PROVE  Loop(reader, set, limit, strict) = Loop("structs", set, limit, strict)
<1> DEFINE rows == set.rows
<1> DEFINE got == Progress(reader, rows, limit, strict)
<1> DEFINE other == Progress("structs", rows, limit, strict)
<1>1. /\ rows \in Seq(Rowish) /\ Len(rows) \in Nat /\ "structs" \in Readers
      /\ \A n \in 1..Len(rows) : rows[n] = "good"
  BY DEF ResultSet, Clean, Readers
<1>2. /\ got[0] = NothingRead
      /\ \A n \in 1..Len(rows) : got[n] = Turn(reader, got[n - 1], rows[n], limit, strict)
  BY <1>1, ProgressSteps
<1>3. /\ other[0] = NothingRead
      /\ \A n \in 1..Len(rows) : other[n] = Turn("structs", other[n - 1], rows[n], limit, strict)
  BY <1>1, ProgressSteps
<1>4. ASSUME NEW x PROVE Turn(reader, x, "good", limit, strict) = Turn("structs", x, "good", limit, strict)
  <2>1. Take(reader, x, "good") = Take("structs", x, "good")
    BY DEF Take
  <2> QED
    BY <2>1 DEF Turn
<1> DEFINE S == {n \in Nat : n <= Len(rows) => got[n] = other[n]}
<1> HIDE DEF got, other, rows
<1>5. 0 \in S
  BY <1>2, <1>3
<1>6. ASSUME NEW n \in S PROVE n + 1 \in S
  <2> SUFFICES ASSUME n + 1 <= Len(rows) PROVE got[n + 1] = other[n + 1]
    OBVIOUS
  <2>1. n \in Nat /\ n + 1 \in 1..Len(rows) /\ (n + 1) - 1 = n /\ got[n] = other[n]
    BY <1>1
  <2>2. rows[n + 1] = "good"
    BY <1>1, <2>1
  <2>3. /\ got[n + 1] = Turn(reader, got[n], "good", limit, strict)
        /\ other[n + 1] = Turn("structs", other[n], "good", limit, strict)
    BY <1>2, <1>3, <2>1, <2>2
  <2> QED
    BY <1>4, <2>1, <2>3
<1>7. Len(rows) \in S
  <2>1. S \in SUBSET Nat
    OBVIOUS
  <2> HIDE DEF S
  <2> QED
    BY <1>1, <1>5, <1>6, <2>1, Induction
<1> QED
  BY <1>7 DEF Loop, got, other, rows

\* The rows of a reader that fails are a sequence too.
LEMMA EmptySeq == <<>> \in Seq(Rowish)
OBVIOUS

\* fetchRows: the rows of the loop, or none and the strict limit.
LEMMA FetchDelivers ==
  ASSUME NEW set \in ResultSet, NEW limit \in Int, NEW strict \in BOOLEAN
  PROVE  Delivered("fetch", FetchRows(set, limit, strict), set, limit, strict)
<1> DEFINE end == Loop("fetch", set, limit, strict)
<1> DEFINE got == FetchRows(set, limit, strict)
<1>1. "fetch" \in Readers
  BY DEF Readers
<1>2. end \in State /\ LoopInv("fetch", end, set.rows, Len(set.rows), limit, strict)
  BY <1>1, LoopEnds
<1>3. /\ end.truncated => Len(end.rows) = limit /\ end.err = IF strict THEN "limit" ELSE "none"
      /\ end.done /\ ~end.truncated => end.err # "none"
  BY <1>2 DEF LoopInv, Status
<1>4. got = AllOrNothing(end)
  BY DEF FetchRows
<1>0. SUFFICES Delivered("fetch", got, set, limit, strict)
  OBVIOUS
<1> HIDE DEF end, got
<1>5. got \in State /\ got.truncated = end.truncated /\ got.err = end.err
  BY <1>2, <1>4, EmptySeq DEF AllOrNothing, State
<1>6. CASE end.err = "none"
  <2>1. got.rows = end.rows
    BY <1>4, <1>6 DEF AllOrNothing
  <2> QED
    BY <1>1, <1>2, <1>3, <1>5, <1>6, <2>1, LoopDelivered
<1>7. CASE end.err # "none"
  <2>1. got.rows = <<>>
    BY <1>2, <1>4, <1>7 DEF AllOrNothing, State
  <2> QED
    BY <1>1, <1>3, <1>5, <1>7, <2>1, NothingDelivered
<1> QED
  BY <1>6, <1>7

\* scanRowsToStructSlice and the like, which look at rows.Err() as well.
LEMMA SlicesDeliver ==
  ASSUME NEW reader \in {"structs", "maps"}, NEW set \in ResultSet, NEW limit \in Int, NEW strict \in BOOLEAN
  PROVE  Delivered(reader, ScanRowsToSlice(reader, set, limit, strict), set, limit, strict)
<1> DEFINE end == Loop(reader, set, limit, strict)
<1> DEFINE seen == AfterLast(end, set)
<1> DEFINE got == ScanRowsToSlice(reader, set, limit, strict)
<1>1. reader \in Readers
  BY DEF Readers
<1>2. end \in State /\ LoopInv(reader, end, set.rows, Len(set.rows), limit, strict)
  BY <1>1, LoopEnds
<1>3. /\ end.truncated => Len(end.rows) = limit /\ end.err = IF strict THEN "limit" ELSE "none"
      /\ end.done /\ ~end.truncated => end.err # "none"
      /\ ~end.done => ~end.truncated
  BY <1>2 DEF LoopInv, Status
<1>4. seen = IF ~end.done /\ set.lost THEN Failed(end, "lost") ELSE end
  BY DEF AfterLast
<1>5. got = AllOrNothing(seen)
  BY DEF ScanRowsToSlice
<1>0. SUFFICES Delivered(reader, got, set, limit, strict)
  OBVIOUS
<1> HIDE DEF end, seen, got
<1>6. CASE ~end.done /\ set.lost
  <2>1. seen \in State /\ seen.err = "lost" /\ seen.truncated = end.truncated
    BY <1>2, <1>4, <1>6 DEF Failed, State, Errs
  <2>2. got \in State /\ got.rows = <<>> /\ got.err = "lost" /\ got.truncated = end.truncated
    BY <1>5, <2>1, EmptySeq DEF AllOrNothing, State
  <2> QED
    BY <1>1, <1>3, <1>6, <2>2, NothingDelivered
<1>7. CASE ~(~end.done /\ set.lost) /\ end.err = "none"
  <2>1. got = end
    BY <1>4, <1>5, <1>7 DEF AllOrNothing
  <2> QED
    BY <1>1, <1>2, <1>3, <1>7, <2>1, LoopDelivered
<1>8. CASE ~(~end.done /\ set.lost) /\ end.err # "none"
  <2>1. got = [end EXCEPT !.rows = <<>>]
    BY <1>4, <1>5, <1>8 DEF AllOrNothing
  <2>2. got \in State /\ got.rows = <<>> /\ got.err = end.err /\ got.truncated = end.truncated
    BY <1>2, <2>1, EmptySeq DEF State
  <2> QED
    BY <1>1, <1>3, <1>8, <2>2, NothingDelivered
<1> QED
  BY <1>6, <1>7, <1>8

\* RowStream: a last look at the limit and at rows.Err(), and an error that
\* leaves what was delivered before it.
LEMMA StreamDelivers ==
  ASSUME NEW set \in ResultSet, NEW limit \in Int, NEW strict \in BOOLEAN
  PROVE  Delivered("stream", RowStream(set, limit, strict), set, limit, strict)
<1> DEFINE end == Loop("stream", set, limit, strict)
<1> DEFINE look == IF ~end.done /\ Reached(limit, Len(end.rows)) THEN AtLimit(end, strict) ELSE end
<1> DEFINE got == RowStream(set, limit, strict)
<1>1. "stream" \in Readers
  BY DEF Readers
<1>2. end \in State /\ LoopInv("stream", end, set.rows, Len(set.rows), limit, strict)
  BY <1>1, LoopEnds
<1>3. /\ end.truncated => Len(end.rows) = limit /\ end.err = IF strict THEN "limit" ELSE "none"
      /\ end.done /\ ~end.truncated => end.err # "none"
      /\ ~end.done => ~end.truncated
      /\ limit < 0 \/ Len(end.rows) <= limit
  BY <1>2 DEF LoopInv, Status
<1>4. got = AfterLast(look, set)
  BY DEF RowStream
<1>5. /\ ~end.done /\ Reached(limit, Len(end.rows)) => look = AtLimit(end, strict)
      /\ ~(~end.done /\ Reached(limit, Len(end.rows))) => look = end
  OBVIOUS
<1>6. Len(end.rows) \in Nat
  BY <1>2 DEF State
<1>0. SUFFICES Delivered("stream", got, set, limit, strict)
  OBVIOUS
<1> HIDE DEF end, look, got
<1>7. CASE ~end.done /\ Reached(limit, Len(end.rows))
  <2>1. /\ look \in State /\ look.rows = end.rows /\ look.done = TRUE /\ look.truncated = TRUE
        /\ strict => look.err = "limit"
    BY <1>2, <1>5, <1>7 DEF AtLimit, Failed, State, Errs
  <2>2. got = look
    BY <1>4, <2>1 DEF AfterLast
  <2>3. Len(end.rows) = limit
    BY <1>3, <1>6, <1>7 DEF Reached
  <2> QED
    BY <1>1, <1>2, <2>1, <2>2, <2>3, LoopDelivered
<1>8. CASE ~(~end.done /\ Reached(limit, Len(end.rows))) /\ ~end.done /\ set.lost
  <2>1. got = Failed(end, "lost")
    BY <1>4, <1>5, <1>8 DEF AfterLast
  <2>2. got \in State /\ got.rows = end.rows /\ got.err = "lost" /\ got.truncated = end.truncated
    BY <1>2, <2>1 DEF Failed, State, Errs
  <2> QED
    BY <1>1, <1>2, <1>3, <1>8, <2>2, LoopDelivered
<1>9. CASE ~(~end.done /\ Reached(limit, Len(end.rows))) /\ ~(~end.done /\ set.lost)
  <2>1. got = end
    BY <1>4, <1>5, <1>9 DEF AfterLast
  <2> QED
    BY <1>1, <1>2, <1>3, <1>9, <2>1, LoopDelivered
<1> QED
  BY <1>7, <1>8, <1>9

\* Whatever the limit, the rows and the errors, every reader delivers rows of the
\* set in their order, no more than the limit allows; and where it reports
\* neither an error nor a truncation, all of them and whole ones, except for the
\* rows fetchRows cannot scan and the end it does not see.
THEOREM ReadersDeliver ==
  \A reader \in Readers, set \in ResultSet, limit \in Int, strict \in BOOLEAN :
    Delivered(reader, Read(reader, set, limit, strict), set, limit, strict)
<1> SUFFICES ASSUME NEW reader \in Readers, NEW set \in ResultSet, NEW limit \in Int, NEW strict \in BOOLEAN
             PROVE  Delivered(reader, Read(reader, set, limit, strict), set, limit, strict)
  OBVIOUS
<1>1. CASE reader = "fetch"
  BY <1>1, FetchDelivers DEF Read
<1>2. CASE reader = "stream"
  BY <1>2, StreamDelivers DEF Read
<1>3. CASE reader \in {"structs", "maps"}
  BY <1>3, SlicesDeliver DEF Read
<1> QED
  BY <1>1, <1>2, <1>3 DEF Readers

\* On a clean set the readers agree on the error, the truncation and the rows:
\* only a stream sees a truncation where the set just reaches the limit.
THEOREM ReadersAgree ==
  \A reader \in Readers, set \in ResultSet, limit \in Int, strict \in BOOLEAN :
    Clean(set) /\ (reader = "stream" => Len(set.rows) # limit) =>
      Agree(Read(reader, set, limit, strict), Read("structs", set, limit, strict))
<1> SUFFICES ASSUME NEW reader \in Readers, NEW set \in ResultSet, NEW limit \in Int, NEW strict \in BOOLEAN,
                    Clean(set), reader = "stream" => Len(set.rows) # limit
             PROVE  Agree(Read(reader, set, limit, strict), Read("structs", set, limit, strict))
  OBVIOUS
<1> DEFINE end == Loop("structs", set, limit, strict)
<1>1. Loop(reader, set, limit, strict) = end
  BY CleanLoops
<1>2. "structs" \in Readers /\ ~set.lost
  BY DEF Readers, Clean
<1>3. end \in State /\ LoopInv("structs", end, set.rows, Len(set.rows), limit, strict)
  BY <1>2, LoopEnds
<1>4. Read("structs", set, limit, strict) = AllOrNothing(end)
  BY <1>2 DEF Read, ScanRowsToSlice, AfterLast
<1>5. CASE reader # "stream"
  <2>1. Read(reader, set, limit, strict) = AllOrNothing(end)
    BY <1>1, <1>2, <1>5 DEF Read, FetchRows, ScanRowsToSlice, AfterLast, Readers
  <2> QED
    BY <1>4, <2>1 DEF Agree
<1>6. CASE reader = "stream"
  <2>1. ~(~end.done /\ Reached(limit, Len(end.rows)))
    <3> SUFFICES ASSUME ~end.done, Reached(limit, Len(end.rows)) PROVE FALSE
      OBVIOUS
    <3>1. \A k \in 1..Len(set.rows) : ~Skipped("structs", set.rows[k])
      BY DEF Skipped
    <3>2. Len(end.rows) = Len(set.rows) /\ (limit < 0 \/ Len(end.rows) <= limit)
      BY <1>3, <3>1 DEF LoopInv, Whole, Status
    <3>3. Len(set.rows) \in Nat
      BY DEF ResultSet
    <3>4. limit >= 0 /\ Len(end.rows) >= limit
      BY DEF Reached
    <3>5. Len(set.rows) = limit
      <4> HIDE DEF end
      <4> QED
        BY <3>2, <3>3, <3>4
    <3> QED
      BY <1>6, <3>5
  <2>2. Read(reader, set, limit, strict) = end
    BY <1>1, <1>2, <1>6, <2>1 DEF Read, RowStream, AfterLast
  <2>3. end.err = "none" => AllOrNothing(end) = end
    BY DEF AllOrNothing
  <2>4. AllOrNothing(end).err = end.err /\ AllOrNothing(end).truncated = end.truncated
    <3> HIDE DEF end
    <3> QED
      BY <1>3 DEF AllOrNothing, State
  <2> QED
    BY <1>4, <2>2, <2>3, <2>4 DEF Agree
<1> QED
  BY <1>5, <1>6

\* The helpers that read one row return the first of the set, and report that
\* there is none only of a set that is empty and was read to its end.
THEOREM FirstRowDelivers ==
  \A set \in ResultSet, maps \in BOOLEAN : FirstDelivered(ScanFirstRow(set, maps), set)
<1> SUFFICES ASSUME NEW set \in ResultSet, NEW maps \in BOOLEAN
             PROVE  FirstDelivered(ScanFirstRow(set, maps), set)
  OBVIOUS
<1>1. CASE set.rows = <<>>
  BY <1>1 DEF ScanFirstRow, Failed, NothingRead, FirstDelivered
<1>2. CASE set.rows # <<>>
  <2>1. Head(set.rows) \in Rowish
    BY <1>2 DEF ResultSet
  <2> QED
    BY <1>2, <2>1 DEF ScanFirstRow, Failed, NothingRead, FirstDelivered, Rowish
<1> QED
  BY <1>1, <1>2
=============================================================================
