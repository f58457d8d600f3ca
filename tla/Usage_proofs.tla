---------------------------- MODULE Usage_proofs -----------------------------
(***************************************************************************)
(* Concurrent updates of a statement's usage figures lose no maximum, for  *)
(* any number of goroutines, calls and durations, and the maximum never    *)
(* falls.                                                                  *)
(***************************************************************************)
EXTENDS Usage, TLAPS

\* Durations are natural numbers of nanoseconds.
DurationsNat == \A d \in Durations : d \in Nat

Before == {"sum", "loadMax", "swapMax"}

\* A goroutine that is about to swap loaded a maximum below what it reports, and
\* the maximum has not fallen since: if the swap succeeds, the maximum rises.
\* What it reports was counted as a call.
LoopInv ==
  \A p \in Procs :
    /\ at[p] \in Before => took[p] \in Durations /\ calls[took[p]] > 0
    /\ at[p] = "swapMax" => seen[p] < took[p]

MaxInv == TypeOK /\ LoopInv /\ MaxDurationExact

-----------------------------------------------------------------------------
\* Every instruction keeps the types; the figures are natural numbers.
LEMMA TypeStep ==
  ASSUME DurationsNat, TypeOK, [UpdateUsage]_figures
  PROVE  TypeOK'
<1> USE DEF TypeOK, DurationsNat, Goto
<1>1. ASSUME NEW p \in Procs, NEW d \in Durations, Report(p, d)
      PROVE  TypeOK'
  BY <1>1 DEF Report
<1>2. ASSUME NEW p \in Procs, Sum(p)
      PROVE  TypeOK'
  <2>1. took[p] \in Nat
    BY DEF TypeOK, DurationsNat
  <2> QED
    BY <1>2, <2>1 DEF Sum
<1>3. ASSUME NEW p \in Procs, LoadMax(p)
      PROVE  TypeOK'
  BY <1>3 DEF LoadMax
<1>4. ASSUME NEW p \in Procs, SwapMax(p)
      PROVE  TypeOK'
  <2>1. took[p] \in Nat
    BY DEF TypeOK, DurationsNat
  <2> QED
    BY <1>4, <2>1 DEF SwapMax
<1>5. ASSUME NEW p \in Procs, Flag(p)
      PROVE  TypeOK'
  BY <1>5 DEF Flag
<1>6. ASSUME NEW p \in Procs, StoreMin(p)
      PROVE  TypeOK'
  <2>1. took[p] \in Nat
    BY DEF TypeOK, DurationsNat
  <2> QED
    BY <1>6, <2>1 DEF StoreMin
<1>7. ASSUME NEW p \in Procs, LoadMin(p)
      PROVE  TypeOK'
  BY <1>7 DEF LoadMin
<1>8. ASSUME NEW p \in Procs, SwapMin(p)
      PROVE  TypeOK'
  <2>1. took[p] \in Nat
    BY DEF TypeOK, DurationsNat
  <2> QED
    BY <1>8, <2>1 DEF SwapMin
<1>9. CASE UNCHANGED figures
  BY <1>9 DEF figures
<1> QED
  BY <1>1, <1>2, <1>3, <1>4, <1>5, <1>6, <1>7, <1>8, <1>9 DEF UpdateUsage, Count

\* A report counts its call; a load compares with the maximum of that moment; a
\* swap leaves what the others loaded alone.
LEMMA LoopStep ==
  ASSUME DurationsNat, TypeOK, LoopInv, [UpdateUsage]_figures
  PROVE  LoopInv'
<1> USE DEF LoopInv, Before, TypeOK, DurationsNat, Goto
<1>1. ASSUME NEW p \in Procs, NEW d \in Durations, Report(p, d)
      PROVE  LoopInv'
  BY <1>1 DEF Report
<1>2. ASSUME NEW p \in Procs, Count(p)
      PROVE  LoopInv'
  <2>1. took' = took /\ calls' = calls
    BY <1>2 DEF Count, Sum, LoadMax, SwapMax, Flag, StoreMin, LoadMin, SwapMin
  <2>2. \A q \in Procs : at'[q] \in Before => at[q] \in Before
    BY <1>2 DEF Count, Sum, LoadMax, SwapMax, Flag, StoreMin, LoadMin, SwapMin
  <2>3. \A q \in Procs : at'[q] = "swapMax" => seen'[q] < took'[q]
    BY <1>2 DEF Count, Sum, LoadMax, SwapMax, Flag, StoreMin, LoadMin, SwapMin
  <2> QED
    BY <2>1, <2>2, <2>3
<1>3. CASE UNCHANGED figures
  BY <1>3 DEF figures
<1> QED
  BY <1>1, <1>2, <1>3 DEF UpdateUsage

\* The maximum never falls: a swap that succeeds found the value it loaded, which
\* is below the one it stores.
LEMMA MaxRises ==
  ASSUME DurationsNat, TypeOK, LoopInv, [UpdateUsage]_figures
  PROVE  MaxDuration <= MaxDuration'
<1>1. ASSUME NEW p \in Procs, SwapMax(p)
      PROVE  MaxDuration <= MaxDuration'
  BY <1>1 DEF SwapMax, LoopInv, Before, TypeOK, DurationsNat
<1>2. ASSUME ~ \E p \in Procs : SwapMax(p)
      PROVE  MaxDuration' = MaxDuration
  BY <1>2 DEF UpdateUsage, Count, Report, Sum, LoadMax, Flag, StoreMin, LoadMin, SwapMin, figures
<1> QED
  BY <1>1, <1>2 DEF TypeOK

\* The maximum stays the duration of a reported call, and a goroutine leaves the
\* loop only with a maximum that is not below its own duration.
LEMMA MaxStep ==
  ASSUME DurationsNat, TypeOK, LoopInv, MaxDurationExact, [UpdateUsage]_figures
  PROVE  MaxDurationExact'
<1> USE DEF MaxDurationExact
<1>1. MaxDuration <= MaxDuration' /\ TypeOK'
  BY MaxRises, TypeStep
<1>2. MaxDuration' # 0 => MaxDuration' \in Durations /\ calls'[MaxDuration'] > 0
  <2>1. ASSUME NEW p \in Procs, NEW d \in Durations, Report(p, d)
        PROVE  MaxDuration' # 0 => MaxDuration' \in Durations /\ calls'[MaxDuration'] > 0
    BY <2>1 DEF Report, TypeOK
  <2>2. ASSUME NEW p \in Procs, SwapMax(p)
        PROVE  MaxDuration' # 0 => MaxDuration' \in Durations /\ calls'[MaxDuration'] > 0
    BY <2>2 DEF SwapMax, LoopInv, Before, TypeOK
  <2>3. CASE UNCHANGED <<MaxDuration, calls>>
    BY <2>3
  <2> QED
    BY <2>1, <2>2, <2>3 DEF UpdateUsage, Count, Sum, LoadMax, Flag, StoreMin, LoadMin, SwapMin, figures
<1>3. ASSUME NEW q \in Procs, at'[q] \notin Before
      PROVE  took'[q] <= MaxDuration'
  <2> USE DEF Before, TypeOK, DurationsNat, Goto
  <2>1. at[q] \notin Before => took'[q] = took[q] /\ took[q] <= MaxDuration
    BY <1>3 DEF UpdateUsage, Count, Report, Sum, LoadMax, SwapMax, Flag, StoreMin, LoadMin, SwapMin, figures
  <2>2. at[q] \in Before => took'[q] = took[q] /\ took[q] <= MaxDuration'
    BY <1>3 DEF UpdateUsage, Count, Report, Sum, LoadMax, SwapMax, Flag, StoreMin, LoadMin, SwapMin, figures
  <2> QED
    BY <1>1, <2>1, <2>2
<1> QED
  BY <1>2, <1>3 DEF Before

-----------------------------------------------------------------------------
\* The invariant of the maximum.
LEMMA MaxInvariance ==
  ASSUME DurationsNat
  PROVE  UsageSpec => []MaxInv
<1>1. NoUsage => MaxInv
  <2> SUFFICES ASSUME NoUsage PROVE MaxInv
    OBVIOUS
  <2>1. TypeOK
    BY DEF NoUsage, TypeOK
  <2>2. LoopInv
    BY DEF NoUsage, LoopInv, Before
  <2>3. MaxDurationExact
    BY DEF NoUsage, MaxDurationExact
  <2> QED
    BY <2>1, <2>2, <2>3 DEF MaxInv
<1>2. MaxInv /\ [UpdateUsage]_figures => MaxInv'
  BY TypeStep, LoopStep, MaxStep DEF MaxInv
<1> QED
  BY <1>1, <1>2, PTL DEF UsageSpec

\* Concurrent updates do not lose a maximum: it is the duration of a reported
\* call, and not below that of any goroutine that is past the loop.
THEOREM MaximumExact ==
  ASSUME DurationsNat
  PROVE  UsageSpec => []MaxDurationExact
<1>1. MaxInv => MaxDurationExact
  BY DEF MaxInv
<1> QED
  BY <1>1, MaxInvariance, PTL

\* A reader of the statistics never sees the maximum fall.
THEOREM MaximumNeverFalls ==
  ASSUME DurationsNat
  PROVE  UsageSpec => [][MaxDuration <= MaxDuration']_figures
<1>1. MaxInv /\ [UpdateUsage]_figures => [MaxDuration <= MaxDuration']_figures
  BY MaxRises DEF MaxInv
<1> QED
  BY <1>1, MaxInvariance, PTL DEF UsageSpec
=============================================================================
