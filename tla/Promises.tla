------------------------------- MODULE Promises -------------------------------
(***************************************************************************)
(* What a cached *Stmt is to those who share it, without the cache: a      *)
(* promise.  Whoever makes it is the only one to settle it, once; others   *)
(* that got hold of it wait until it is settled, and all of them see the   *)
(* same outcome, which nothing changes any more: the statement, to use, or *)
(* the error.                                                              *)
(***************************************************************************)
CONSTANTS Procs, Promises, None

VARIABLES
  outcome, \* of each promise: "none" (not made yet), "pending", "ok", "error"
  stage,   \* of each goroutine: "free", "making", "waiting", "using"
  mine     \* the promise it makes, waits for or uses

vars == <<outcome, stage, mine>>

Init ==
  /\ outcome = [e \in Promises |-> "none"]
  /\ stage = [p \in Procs |-> "free"]
  /\ mine = [p \in Procs |-> None]

Now(p, s, e) ==
  /\ mine' = [mine EXCEPT ![p] = e]
  /\ stage' = [stage EXCEPT ![p] = s]

Make(p, e) ==
  /\ stage[p] = "free" /\ outcome[e] = "none"
  /\ Now(p, "making", e)
  /\ outcome' = [outcome EXCEPT ![e] = "pending"]

\* A goroutine may ask for a promise as soon as it is made.
Await(p, e) ==
  /\ stage[p] = "free" /\ outcome[e] # "none"
  /\ Now(p, "waiting", e)
  /\ UNCHANGED outcome

\* With the promise kept, the goroutine has the statement; else only the error.
Accept(p, result) ==
  \/ result = "ok" /\ Now(p, "using", mine[p])
  \/ result = "error" /\ Now(p, "free", None)

Settle(p) ==
  /\ stage[p] = "making" /\ outcome[mine[p]] = "pending"
  /\ \E result \in {"ok", "error"} :
       /\ outcome' = [outcome EXCEPT ![mine[p]] = result]
       /\ Accept(p, result)

Receive(p) ==
  /\ stage[p] = "waiting"
  /\ Accept(p, outcome[mine[p]])
  /\ UNCHANGED outcome

Leave(p) ==
  /\ stage[p] = "using"
  /\ Now(p, "free", None)
  /\ UNCHANGED outcome

Next ==
  \E p \in Procs :
    \/ Settle(p) \/ Receive(p) \/ Leave(p)
    \/ \E e \in Promises : Make(p, e) \/ Await(p, e)

Spec == Init /\ [][Next]_vars
=============================================================================
