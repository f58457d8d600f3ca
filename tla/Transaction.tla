---------------------------- MODULE Transaction -----------------------------
(***************************************************************************)
(* Transactions of one data source (orm/transaction.go and the routing in  *)
(* orm/database_connection.go): the single TCC slot DB.curTx filled by     *)
(* BeginTx and emptied by Commit/Rollback, callback transactions of WithTx *)
(* that travel in a context, and statements that go to the transaction of  *)
(* their context, else to the slot's, else to the pool.                    *)
(*                                                                         *)
(* A transaction pins one connection of the pool while it is active.       *)
(* Every section under txMu is one step, and so is every call into         *)
(* database/sql.                                                           *)
(***************************************************************************)
EXTENDS Naturals, FiniteSets

CONSTANTS
  Procs,    \* goroutines
  NoProc,   \* no goroutine
  MaxTx,    \* bound: transactions opened in one behaviour
  MaxDepth, \* bound: nesting of WithTx
  PoolSize  \* connections of the pool (MaxOpenConns)

ASSUME ConstantsAssumption ==
  /\ IsFiniteSet(Procs) /\ NoProc \notin Procs
  /\ MaxTx \in Nat \ {0}
  /\ MaxDepth \in Nat \ {0}
  /\ PoolSize \in Nat \ {0}

NoTx == 0
Txs  == 1..MaxTx

VARIABLES
  used,    \* transactions opened so far are 1..used
  state,   \* of each *sql.Tx
  once,    \* Transaction.once has fired: Commit or Rollback was called
  owner,   \* the goroutine whose WithTx opened it, NoProc for BeginTx
  curTx,   \* DB.curTx, the TCC slot
  handle,  \* the *Transaction a goroutine got from its latest BeginTx
  ctxTx,   \* the transaction in the context of a goroutine's WithTx
  depth,   \* nesting of a goroutine's WithTx calls
  pc,      \* where each goroutine is
  target   \* the transaction its statement was routed to and executes on

txVars   == <<used, state, once, owner>>
procVars == <<handle, ctxTx, depth, pc, target>>
vars     == <<txVars, curTx, procVars>>


\* "over": committed or rolled back, which of the two is not told apart.
States == {"unused", "active", "over"}

\* "run": user code; "begin", "withBegin": waiting for a connection;
\* "opened": between sql.BeginTx and setCurTx; "clearing": between once.Do and
\* clearCurTx; "routed": a statement has its transaction, but is not executed.
PCs == {"run", "begin", "opened", "clearing", "withBegin", "routed"}

Init ==
  /\ used = 0
  /\ state = [t \in Txs |-> "unused"]
  /\ once = [t \in Txs |-> FALSE]
  /\ owner = [t \in Txs |-> NoProc]
  /\ curTx = NoTx
  /\ handle = [p \in Procs |-> NoTx]
  /\ ctxTx = [p \in Procs |-> NoTx]
  /\ depth = [p \in Procs |-> 0]
  /\ pc = [p \in Procs |-> "run"]
  /\ target = [p \in Procs |-> NoTx]

Goto(p, l) == pc' = [pc EXCEPT ![p] = l]

\* A connection of the pool is free.
ConnFree == Cardinality({t \in Txs : state[t] = "active"}) < PoolSize

\* Bound: a transaction is requested only while one can still be numbered.
Room == used + Cardinality({p \in Procs : pc[p] \in {"begin", "withBegin"}}) < MaxTx

-----------------------------------------------------------------------------
(***************************************************************************)
(* The TCC API: BeginTx, Commit, Rollback.                                 *)
(***************************************************************************)

\* A goroutine begins again only after it finished what it began before.
StartBegin(p) ==
  /\ pc[p] = "run"
  /\ handle[p] # NoTx => once[handle[p]]
  /\ Room
  /\ Goto(p, "begin")
  /\ UNCHANGED <<txVars, curTx, handle, ctxTx, depth, target>>

\* sqldb.BeginTx returns the next transaction, opened by o.
Open(o) ==
  /\ ConnFree
  /\ used' = used + 1
  /\ used' \in Txs
  /\ state' = [state EXCEPT ![used'] = "active"]
  /\ owner' = [owner EXCEPT ![used'] = o]
  /\ UNCHANGED once

OpenTx(p) ==
  /\ pc[p] = "begin"
  /\ Open(NoProc)
  /\ handle' = [handle EXCEPT ![p] = used']
  /\ Goto(p, "opened")
  /\ UNCHANGED <<curTx, ctxTx, depth, target>>

\* sqldb.BeginTx fails, in BeginTx or in WithTx.
OpenErr(p) ==
  /\ pc[p] \in {"begin", "withBegin"}
  /\ Goto(p, "run")
  /\ UNCHANGED <<txVars, curTx, handle, ctxTx, depth, target>>

RegisterNoRollback(p) ==
  /\ pc[p] = "opened"
  /\ \/ /\ curTx = NoTx
        /\ curTx' = handle[p]
        /\ UNCHANGED handle
     \/ /\ curTx # NoTx
        /\ handle' = [handle EXCEPT ![p] = NoTx]
        /\ UNCHANGED curTx
  /\ Goto(p, "run")
  /\ UNCHANGED <<txVars, ctxTx, depth, target>>

\* setCurTx; if the slot is taken, BeginTx rolls its transaction back and fails.
Register(p) ==
  /\ pc[p] = "opened"
  /\ \/ /\ curTx = NoTx
        /\ curTx' = handle[p]
        /\ UNCHANGED <<state, handle>>
     \/ /\ curTx # NoTx
        /\ state' = [state EXCEPT ![handle[p]] = "over"]
        /\ handle' = [handle EXCEPT ![p] = NoTx]
        /\ UNCHANGED curTx
  /\ Goto(p, "run")
  /\ UNCHANGED <<used, once, owner, ctxTx, depth, target>>

\* once.Do(tx.Commit) or once.Do(tx.Rollback): whatever they return, the
\* transaction is over then (if its context expired, it was before).
Do(t) ==
  /\ once' = [once EXCEPT ![t] = TRUE]
  /\ state' = [state EXCEPT ![t] = IF once[t] THEN @ ELSE "over"]
  /\ UNCHANGED <<used, owner>>

FinishErrReturns(p) ==
  /\ pc[p] = "run"
  /\ handle[p] # NoTx
  /\ Do(handle[p])
  /\ Goto(p, IF once[handle[p]] \/ state[handle[p]] = "active" THEN "clearing" ELSE "run")
  /\ UNCHANGED <<curTx, handle, ctxTx, depth, target>>

\* Commit or Rollback on the handle, once or repeatedly (a deferred Rollback
\* after Commit is the documented idiom).
Finish(p) ==
  /\ pc[p] = "run"
  /\ handle[p] # NoTx
  /\ Do(handle[p])
  /\ Goto(p, "clearing")
  /\ UNCHANGED <<curTx, handle, ctxTx, depth, target>>

ClearAny(t) == curTx' = NoTx

\* clearCurTx(t)
ClearCurTx(t) == curTx' = IF curTx = t THEN NoTx ELSE curTx

\* Commit or Rollback returns; its caller still has the handle.
Clear(p) ==
  /\ pc[p] = "clearing"
  /\ ClearCurTx(handle[p])
  /\ Goto(p, "run")
  /\ UNCHANGED <<txVars, handle, ctxTx, depth, target>>

-----------------------------------------------------------------------------
(***************************************************************************)
(* WithTx.                                                                 *)
(***************************************************************************)

\* The context carries no transaction: open one.
StartWithTx(p) ==
  /\ pc[p] = "run"
  /\ ctxTx[p] = NoTx
  /\ Room
  /\ Goto(p, "withBegin")
  /\ UNCHANGED <<txVars, curTx, handle, ctxTx, depth, target>>

OpenIntoSlot(p) ==
  /\ pc[p] = "withBegin"
  /\ Open(p)
  /\ ctxTx' = [ctxTx EXCEPT ![p] = used']
  /\ curTx' = IF curTx = NoTx THEN used' ELSE curTx
  /\ depth' = [depth EXCEPT ![p] = 1]
  /\ Goto(p, "run")
  /\ UNCHANGED <<handle, target>>

\* beginDetachedTx, then fn runs with the transaction in its context.
OpenDetached(p) ==
  /\ pc[p] = "withBegin"
  /\ Open(p)
  /\ ctxTx' = [ctxTx EXCEPT ![p] = used']
  /\ depth' = [depth EXCEPT ![p] = 1]
  /\ Goto(p, "run")
  /\ UNCHANGED <<curTx, handle, target>>

\* A nested WithTx reuses the transaction of its context ...
EnterNested(p) ==
  /\ pc[p] = "run"
  /\ depth[p] \in 1..(MaxDepth - 1)
  /\ depth' = [depth EXCEPT ![p] = @ + 1]
  /\ UNCHANGED <<txVars, curTx, handle, ctxTx, pc, target>>

NestedCommits(p) ==
  /\ pc[p] = "run"
  /\ depth[p] > 1
  /\ depth' = [depth EXCEPT ![p] = @ - 1]
  /\ Do(ctxTx[p])
  /\ UNCHANGED <<curTx, handle, ctxTx, pc, target>>

LeaveNestedTwice(p) ==
  /\ pc[p] = "run"
  /\ depth[p] > 1
  /\ depth' = [depth EXCEPT ![p] = @ - 2]
  /\ UNCHANGED <<txVars, curTx, handle, ctxTx, pc, target>>

\* ... and leaves it alone, whatever its fn returned.
LeaveNested(p) ==
  /\ pc[p] = "run"
  /\ depth[p] > 1
  /\ depth' = [depth EXCEPT ![p] = @ - 1]
  /\ UNCHANGED <<txVars, curTx, handle, ctxTx, pc, target>>

LeaveOnPanic(p) ==
  /\ pc[p] = "run"
  /\ depth[p] = 1
  /\ Do(ctxTx[p]) \/ UNCHANGED txVars
  /\ ClearCurTx(ctxTx[p])
  /\ ctxTx' = [ctxTx EXCEPT ![p] = NoTx]
  /\ depth' = [depth EXCEPT ![p] = 0]
  /\ UNCHANGED <<handle, pc, target>>

\* The outermost fn returns nil: commit.  It returns an error or panics: roll
\* back.  (clearCurTx follows, without effect: the slot holds another.)
LeaveWithTx(p) ==
  /\ pc[p] = "run"
  /\ depth[p] = 1
  /\ Do(ctxTx[p])
  /\ ClearCurTx(ctxTx[p])
  /\ ctxTx' = [ctxTx EXCEPT ![p] = NoTx]
  /\ depth' = [depth EXCEPT ![p] = 0]
  /\ UNCHANGED <<handle, pc, target>>

\* The context given to BeginTx or WithTx expires: database/sql rolls back.
CtxExpires(t) ==
  /\ state[t] = "active"
  /\ state' = [state EXCEPT ![t] = "over"]
  /\ UNCHANGED <<used, once, owner, curTx, procVars>>

-----------------------------------------------------------------------------
(***************************************************************************)
(* Statements: DB.ExecContext, QueryContext, QueryRowContext.              *)
(***************************************************************************)

\* TxFromContext(ctx), else currentTx(), else (NoTx) the pool.
RouteTo(p, inCtx) == IF inCtx THEN ctxTx[p] ELSE curTx

\* A statement is routed to a transaction.  inCtx: the caller passes the context
\* of its WithTx.
Route(p) ==
  /\ pc[p] = "run"
  /\ \E inCtx \in {FALSE, ctxTx[p] # NoTx} :
       /\ RouteTo(p, inCtx) # NoTx
       /\ target' = [target EXCEPT ![p] = RouteTo(p, inCtx)]
  /\ Goto(p, "routed")
  /\ UNCHANGED <<txVars, curTx, handle, ctxTx, depth>>

\* t.tx.ExecContext returns: its effect, or ErrTxDone if the transaction is over
\* by then, is not told apart here.
ExecInTx(p) ==
  /\ pc[p] = "routed"
  /\ Goto(p, "run")
  /\ target' = [target EXCEPT ![p] = NoTx]
  /\ UNCHANGED <<txVars, curTx, handle, ctxTx, depth>>

\* A statement goes to the pool.  (If no connection is free it waits for one,
\* and withExecTimeout makes it fail in the end.)
ExecInPool(p) ==
  /\ pc[p] = "run"
  /\ RouteTo(p, FALSE) = NoTx
  /\ UNCHANGED vars

-----------------------------------------------------------------------------
Next ==
  \/ \E p \in Procs :
       \/ StartBegin(p) \/ OpenTx(p) \/ OpenErr(p) \/ Register(p) \/ Finish(p) \/ Clear(p)
       \/ StartWithTx(p) \/ OpenDetached(p) \/ EnterNested(p) \/ LeaveNested(p) \/ LeaveWithTx(p)
       \/ Route(p) \/ ExecInTx(p) \/ ExecInPool(p)
  \/ \E t \in Txs : CtxExpires(t)

\* Goroutines are scheduled, database/sql hands out a connection that stays
\* free, and statements return.  The functions given to WithTx return, and
\* whoever began a transaction finishes it: user code does so again and again
\* reaches a point where it can, hence strong fairness.
Fairness ==
  \A p \in Procs :
    /\ WF_vars(OpenTx(p) \/ OpenDetached(p))
    /\ WF_vars(Register(p) \/ Clear(p) \/ ExecInTx(p))
    /\ SF_vars(LeaveNested(p) \/ LeaveWithTx(p))
    /\ SF_vars(Finish(p))

Spec == Init /\ [][Next]_vars /\ Fairness

-----------------------------------------------------------------------------
TypeOK ==
  /\ used \in 0..MaxTx
  /\ state \in [Txs -> States]
  /\ once \in [Txs -> BOOLEAN]
  /\ owner \in [Txs -> Procs \union {NoProc}]
  /\ curTx \in Txs \union {NoTx}
  /\ handle \in [Procs -> Txs \union {NoTx}]
  /\ ctxTx \in [Procs -> Txs \union {NoTx}]
  /\ depth \in [Procs -> 0..MaxDepth]
  /\ \A p \in Procs : depth[p] = 0 <=> ctxTx[p] = NoTx
  /\ pc \in [Procs -> PCs]
  /\ target \in [Procs -> Txs \union {NoTx}]

\* A WithTx transaction executes its own goroutine's statements only: no
\* interleaving of TCC transactions, routed statements and other WithTx calls
\* lets a foreign statement join it (and be committed or rolled back with it).
DetachedIsolated ==
  \A p \in Procs : target[p] # NoTx => owner[target[p]] \in {NoProc, p}

\* No transaction is lost: whoever opened it still holds it, so it can be
\* finished and its connection goes back to the pool.
ActiveTxOwned ==
  \A t \in Txs : state[t] = "active" => \E p \in Procs : t \in {handle[p], ctxTx[p]}

\* The slot never stays behind its transaction: as long as it is occupied, a
\* goroutine has the handle and either has not finished the transaction or is
\* on its way to clear the slot.
SlotReachable ==
  curTx # NoTx => \E p \in Procs :
    handle[p] = curTx /\ (~once[curTx] \/ pc[p] = "clearing")

\* A Commit or Rollback, repeated or late, never takes the slot away from the
\* unfinished transaction of another goroutine.
SlotNotStolen == [][curTx # NoTx /\ curTx' # curTx => once[curTx] /\ curTx' = NoTx]_vars

\* The outermost WithTx alone decides: its transaction is committed or rolled
\* back by Commit/Rollback in no other step, however its fn nests.
OutermostDecides ==
  [][\A t \in Txs, p \in Procs : owner[t] = p /\ once'[t] # once[t] =>
       depth[p] = 1 /\ depth'[p] = 0]_vars

\* With one connection more than goroutines, BeginTx and WithTx always get
\* one, although a goroutine may hold one transaction and ask for a second.
BeginReturns == \A p \in Procs : pc[p] \in {"begin", "withBegin"} ~> pc[p] = "run"

\* What the comment on Commit says: the slot is released so that a finished
\* transaction does not hijack the SQL that follows.
NoRouteToFinishedTx ==
  [][\A p \in Procs : target'[p] # target[p] /\ target'[p] # NoTx => ~once[target'[p]]]_vars
=============================================================================
