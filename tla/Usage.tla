-------------------------------- MODULE Usage ---------------------------------
(***************************************************************************)
(* The usage figures of a statement (types/sql_function.go, UpdateUsage).  *)
(* Every atomic instruction is a step: the sum, the maximum by a loop of   *)
(* compare-and-swap, and the minimum, whose flag "initialised" is set      *)
(* before its first value is stored.  FailedUsage is left out: the callers *)
(* evaluate err == nil when they defer UpdateUsage, so that no call counts *)
(* as failed.                                                              *)
(***************************************************************************)
EXTENDS Naturals, FiniteSets

CONSTANTS Procs, Durations

VARIABLES
  TotalUsage, TotalDuration, MaxDuration, MinDuration, minDurationInit,
  at,   \* the instruction a goroutine comes to
  took, \* the duration it reports
  seen, \* the value it loaded
  calls \* history: duration -> calls that took it

figures == <<TotalUsage, TotalDuration, MaxDuration, MinDuration, minDurationInit, at, took, seen, calls>>

NoUsage ==
  /\ TotalUsage = 0 /\ TotalDuration = 0 /\ MaxDuration = 0 /\ MinDuration = 0
  /\ minDurationInit = FALSE
  /\ at = [p \in Procs |-> "away"]
  /\ took = [p \in Procs |-> 0]
  /\ seen = [p \in Procs |-> 0]
  /\ calls = [d \in Durations |-> 0]

Goto(p, l) == at' = [at EXCEPT ![p] = l]

Report(p, d) ==
  /\ at[p] = "away"
  /\ TotalUsage' = TotalUsage + 1
  /\ took' = [took EXCEPT ![p] = d]
  /\ calls' = [calls EXCEPT ![d] = @ + 1]
  /\ Goto(p, "sum")
  /\ UNCHANGED <<TotalDuration, MaxDuration, MinDuration, minDurationInit, seen>>

Sum(p) ==
  /\ at[p] = "sum"
  /\ TotalDuration' = TotalDuration + took[p]
  /\ Goto(p, "loadMax")
  /\ UNCHANGED <<TotalUsage, MaxDuration, MinDuration, minDurationInit, took, seen, calls>>

\* updateMaxDuration
LoadMax(p) ==
  /\ at[p] = "loadMax"
  /\ seen' = [seen EXCEPT ![p] = MaxDuration]
  /\ Goto(p, IF took[p] <= MaxDuration THEN "flag" ELSE "swapMax")
  /\ UNCHANGED <<TotalUsage, TotalDuration, MaxDuration, MinDuration, minDurationInit, took, calls>>

SwapAlways(p) ==
  /\ at[p] = "swapMax"
  /\ MaxDuration' = took[p]
  /\ Goto(p, "flag")
  /\ UNCHANGED <<TotalUsage, TotalDuration, MinDuration, minDurationInit, took, seen, calls>>

\* The swap fails if another goroutine changed the maximum: the loop goes on.
SwapMax(p) ==
  /\ at[p] = "swapMax"
  /\ IF MaxDuration = seen[p]
     THEN MaxDuration' = took[p] /\ Goto(p, "flag")
     ELSE UNCHANGED MaxDuration /\ Goto(p, "loadMax")
  /\ UNCHANGED <<TotalUsage, TotalDuration, MinDuration, minDurationInit, took, seen, calls>>

\* updateMinDuration
Flag(p) ==
  /\ at[p] = "flag"
  /\ minDurationInit' = TRUE
  /\ Goto(p, IF minDurationInit THEN "loadMin" ELSE "storeMin")
  /\ UNCHANGED <<TotalUsage, TotalDuration, MaxDuration, MinDuration, took, seen, calls>>

StoreMin(p) ==
  /\ at[p] = "storeMin"
  /\ MinDuration' = took[p]
  /\ Goto(p, "away")
  /\ UNCHANGED <<TotalUsage, TotalDuration, MaxDuration, minDurationInit, took, seen, calls>>

LoadMin(p) ==
  /\ at[p] = "loadMin"
  /\ seen' = [seen EXCEPT ![p] = MinDuration]
  /\ Goto(p, IF took[p] >= MinDuration THEN "away" ELSE "swapMin")
  /\ UNCHANGED <<TotalUsage, TotalDuration, MaxDuration, MinDuration, minDurationInit, took, calls>>

SwapMin(p) ==
  /\ at[p] = "swapMin"
  /\ IF MinDuration = seen[p]
     THEN MinDuration' = took[p] /\ Goto(p, "away")
     ELSE UNCHANGED MinDuration /\ Goto(p, "loadMin")
  /\ UNCHANGED <<TotalUsage, TotalDuration, MaxDuration, minDurationInit, took, seen, calls>>

Count(p) ==
  \/ Sum(p) \/ LoadMax(p) \/ SwapMax(p) \/ Flag(p) \/ StoreMin(p) \/ LoadMin(p) \/ SwapMin(p)

\* Any number of calls; module Algorithms runs the same steps with a bound on
\* the calls reported.
UpdateUsage == \E p \in Procs : Count(p) \/ \E d \in Durations : Report(p, d)
UsageSpec == NoUsage /\ [][UpdateUsage]_figures

-----------------------------------------------------------------------------
TypeOK ==
  /\ TotalUsage \in Nat /\ TotalDuration \in Nat
  /\ MaxDuration \in Nat /\ MinDuration \in Nat
  /\ minDurationInit \in BOOLEAN
  /\ at \in [Procs -> {"away", "sum", "loadMax", "swapMax", "flag", "storeMin", "loadMin", "swapMin"}]
  /\ took \in [Procs -> Durations \union {0}]
  /\ seen \in [Procs -> Nat]
  /\ calls \in [Durations -> Nat]

\* The maximum is the duration of some reported call, and once a goroutine is
\* past the loop it is not below what that goroutine reported: concurrent
\* updates do not lose a maximum.
MaxDurationExact ==
  /\ MaxDuration # 0 => MaxDuration \in Durations /\ calls[MaxDuration] > 0
  /\ \A p \in Procs : at[p] \notin {"sum", "loadMax", "swapMax"} => took[p] <= MaxDuration
=============================================================================
