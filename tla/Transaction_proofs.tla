-------------------------- MODULE Transaction_proofs --------------------------
(***************************************************************************)
(* The safety properties of transactions for any number of goroutines and  *)
(* transactions, any nesting of WithTx and any pool size.                  *)
(***************************************************************************)
EXTENDS Transaction, FiniteSetTheorems, TLAPS

-----------------------------------------------------------------------------
(***************************************************************************)
(* The inductive invariant.                                                *)
(***************************************************************************)

\* Transactions are numbered as they are opened; whatever refers to one refers
\* to an opened one.
UsedInv ==
  /\ \A t \in Txs : t > used => state[t] = "unused" /\ ~once[t]
  /\ curTx <= used
  /\ \A p \in Procs : handle[p] <= used /\ ctxTx[p] <= used /\ target[p] <= used

\* BeginTx handles and the slot refer to transactions of nobody's WithTx, a
\* WithTx context to one of its own goroutine.
OwnerInv ==
  /\ curTx # NoTx => owner[curTx] = NoProc
  /\ \A p \in Procs :
       /\ handle[p] # NoTx => owner[handle[p]] = NoProc
       /\ ctxTx[p] # NoTx => owner[ctxTx[p]] = p

\* A finished transaction is over.
OnceInv == \A t \in Txs : once[t] => state[t] = "over"

\* No two goroutines got the same handle.
HandleInv == \A p, r \in Procs : handle[p] # NoTx /\ handle[p] = handle[r] => p = r

\* What a goroutine's handle and context are where.
PcInv == \A p \in Procs :
  /\ pc[p] = "begin" /\ handle[p] # NoTx => once[handle[p]]
  /\ pc[p] = "opened" => handle[p] # NoTx /\ ~once[handle[p]] /\ handle[p] # curTx
  /\ pc[p] = "clearing" => handle[p] # NoTx /\ once[handle[p]]
  /\ pc[p] = "withBegin" => ctxTx[p] = NoTx
  /\ pc[p] = "routed" => target[p] # NoTx

IInv ==
  /\ TypeOK /\ UsedInv /\ OwnerInv /\ OnceInv /\ HandleInv /\ PcInv
  /\ DetachedIsolated /\ ActiveTxOwned /\ SlotReachable

LEMMA InitIInv == Init => IInv
<1> SUFFICES ASSUME Init PROVE IInv
  OBVIOUS
<1>1. TypeOK
  BY ConstantsAssumption DEF Init, TypeOK, Txs, NoTx, States, PCs
<1>2. UsedInv /\ OwnerInv /\ OnceInv /\ HandleInv /\ PcInv
  BY DEF Init, UsedInv, OwnerInv, OnceInv, HandleInv, PcInv, Txs, NoTx
<1>3. DetachedIsolated /\ ActiveTxOwned /\ SlotReachable
  BY DEF Init, DetachedIsolated, ActiveTxOwned, SlotReachable
<1> QED
  BY <1>1, <1>2, <1>3 DEF IInv

-----------------------------------------------------------------------------
(***************************************************************************)
(* Every step preserves it.                                                *)
(***************************************************************************)

\* Steps that only move a goroutine on, its nesting and its target apart.
LEMMA StartBeginStep ==
  ASSUME IInv, NEW p \in Procs, StartBegin(p)
  PROVE  IInv'
<1> USE DEF IInv, StartBegin, Goto, txVars, TypeOK
<1>1. TypeOK'
  BY DEF PCs
<1>2. UsedInv' /\ OwnerInv' /\ OnceInv' /\ HandleInv'
  BY DEF UsedInv, OwnerInv, OnceInv, HandleInv
<1>3. PcInv'
  BY DEF PcInv
<1>4. DetachedIsolated' /\ ActiveTxOwned' /\ SlotReachable'
  BY DEF DetachedIsolated, ActiveTxOwned, SlotReachable
<1> QED
  BY <1>1, <1>2, <1>3, <1>4

LEMMA StartWithTxStep ==
  ASSUME IInv, NEW p \in Procs, StartWithTx(p)
  PROVE  IInv'
<1> USE DEF IInv, StartWithTx, Goto, txVars, TypeOK
<1>1. TypeOK'
  BY DEF PCs
<1>2. UsedInv' /\ OwnerInv' /\ OnceInv' /\ HandleInv'
  BY DEF UsedInv, OwnerInv, OnceInv, HandleInv
<1>3. PcInv'
  BY DEF PcInv
<1>4. DetachedIsolated' /\ ActiveTxOwned' /\ SlotReachable'
  BY DEF DetachedIsolated, ActiveTxOwned, SlotReachable
<1> QED
  BY <1>1, <1>2, <1>3, <1>4

LEMMA OpenErrStep ==
  ASSUME IInv, NEW p \in Procs, OpenErr(p)
  PROVE  IInv'
<1> USE DEF IInv, OpenErr, Goto, txVars, TypeOK
<1>1. TypeOK'
  BY DEF PCs
<1>2. UsedInv' /\ OwnerInv' /\ OnceInv' /\ HandleInv'
  BY DEF UsedInv, OwnerInv, OnceInv, HandleInv
<1>3. PcInv'
  BY DEF PcInv
<1>4. DetachedIsolated' /\ ActiveTxOwned' /\ SlotReachable'
  BY DEF DetachedIsolated, ActiveTxOwned, SlotReachable
<1> QED
  BY <1>1, <1>2, <1>3, <1>4

LEMMA NestingStep ==
  ASSUME IInv, NEW p \in Procs, EnterNested(p) \/ LeaveNested(p)
  PROVE  IInv'
<1> USE DEF IInv, EnterNested, LeaveNested, txVars
<1>1. depth' \in [Procs -> 0..MaxDepth] /\ \A r \in Procs : depth'[r] = 0 <=> depth[r] = 0
  BY ConstantsAssumption DEF TypeOK
<1>2. TypeOK'
  BY <1>1 DEF TypeOK
<1>3. UsedInv' /\ OwnerInv' /\ OnceInv' /\ HandleInv' /\ PcInv'
  BY DEF UsedInv, OwnerInv, OnceInv, HandleInv, PcInv
<1>4. DetachedIsolated' /\ ActiveTxOwned' /\ SlotReachable'
  BY DEF DetachedIsolated, ActiveTxOwned, SlotReachable
<1> QED
  BY <1>2, <1>3, <1>4

\* What sqldb.BeginTx does to transactions: one more, active and unfinished.
LEMMA OpenEffect ==
  ASSUME IInv, NEW o \in Procs \union {NoProc}, Open(o)
  PROVE  /\ used' = used + 1 /\ used' \in Txs /\ used' # NoTx
         /\ state' = [state EXCEPT ![used'] = "active"]
         /\ owner' = [owner EXCEPT ![used'] = o]
         /\ once' = once
         /\ \A t \in Txs : t <= used => t # used'
         /\ \A t \in Txs : t > used' => t > used
         /\ ~once[used']
         /\ used' \in 0..MaxTx
         /\ state' \in [Txs -> States] /\ owner' \in [Txs -> Procs \union {NoProc}]
<1>1. used' = used + 1 /\ used' \in Txs /\ used \in Nat
  BY ConstantsAssumption DEF IInv, TypeOK, Open, Txs
<1> QED
  BY <1>1, ConstantsAssumption DEF IInv, TypeOK, UsedInv, Open, Txs, NoTx, States

LEMMA OpenTxStep ==
  ASSUME IInv, NEW p \in Procs, OpenTx(p)
  PROVE  IInv'
<1> USE DEF IInv
<1>1. /\ pc[p] = "begin" /\ pc' = [pc EXCEPT ![p] = "opened"]
      /\ handle' = [handle EXCEPT ![p] = used']
      /\ curTx' = curTx /\ ctxTx' = ctxTx /\ depth' = depth /\ target' = target
  BY DEF OpenTx, Goto
<1>2. /\ used' = used + 1 /\ used' \in Txs /\ used' # NoTx
      /\ state' = [state EXCEPT ![used'] = "active"]
      /\ owner' = [owner EXCEPT ![used'] = NoProc]
      /\ once' = once
      /\ \A t \in Txs : t <= used => t # used'
      /\ \A t \in Txs : t > used' => t > used
      /\ ~once[used']
      /\ used' \in 0..MaxTx
      /\ state' \in [Txs -> States] /\ owner' \in [Txs -> Procs \union {NoProc}]
  BY OpenEffect DEF OpenTx
<1>3. TypeOK'
  BY <1>1, <1>2 DEF TypeOK, PCs
<1>4. \A r \in Procs : handle[r] # used' /\ ctxTx[r] # used' /\ target[r] # used'
  BY <1>2 DEF TypeOK, UsedInv, NoTx
<1>5. curTx # used'
  BY <1>2 DEF TypeOK, UsedInv, NoTx
<1>6. UsedInv'
  <2>1. used \in Nat /\ used' \in Nat /\ used <= used'
    BY <1>2, ConstantsAssumption DEF TypeOK
  <2>2. \A t \in Txs : t > used' => state'[t] = "unused" /\ ~once'[t]
    BY <1>2, <2>1 DEF TypeOK, UsedInv, Txs
  <2>3. curTx' <= used'
    BY <1>1, <2>1 DEF TypeOK, UsedInv, NoTx, Txs
  <2>4. ASSUME NEW r \in Procs PROVE handle'[r] <= used'
    <3>1. handle[r] \in Nat /\ handle[r] <= used
      BY ConstantsAssumption DEF TypeOK, UsedInv, NoTx, Txs
    <3>2. handle'[r] \in {handle[r], used'}
      BY <1>1 DEF TypeOK
    <3> QED
      BY <2>1, <3>1, <3>2
  <2>5. \A r \in Procs : ctxTx'[r] <= used' /\ target'[r] <= used'
    BY <1>1, <2>1 DEF TypeOK, UsedInv, NoTx, Txs
  <2> QED
    BY <2>2, <2>3, <2>4, <2>5 DEF UsedInv
<1>7. OwnerInv'
  BY <1>1, <1>2, <1>4, <1>5 DEF TypeOK, OwnerInv
<1>8. OnceInv'
  BY <1>2 DEF TypeOK, OnceInv
<1>9. HandleInv'
  BY <1>1, <1>4 DEF TypeOK, HandleInv
<1>10. PcInv'
  BY <1>1, <1>2, <1>5 DEF TypeOK, PcInv
<1>11. DetachedIsolated'
  BY <1>1, <1>2, <1>4 DEF TypeOK, DetachedIsolated
<1>12. ActiveTxOwned'
  <2> SUFFICES ASSUME NEW t \in Txs, state'[t] = "active"
               PROVE  \E r \in Procs : t \in {handle'[r], ctxTx'[r]}
    BY DEF ActiveTxOwned
  <2>1. CASE t = used'
    BY <1>1, <2>1 DEF TypeOK
  <2>2. CASE t # used'
    <3>1. state[t] = "active"
      BY <1>2, <2>2 DEF TypeOK
    <3>2. PICK r \in Procs : t \in {handle[r], ctxTx[r]}
      BY <3>1 DEF ActiveTxOwned
    <3>3. r = p => t # handle[r]
      BY <1>1, <3>1 DEF PcInv, OnceInv, TypeOK, Txs, NoTx
    <3> QED
      BY <1>1, <3>2, <3>3 DEF TypeOK
  <2> QED
    BY <2>1, <2>2
<1>13. SlotReachable'
  BY <1>1, <1>2 DEF TypeOK, PcInv, SlotReachable
<1> QED
  BY <1>3, <1>6, <1>7, <1>8, <1>9, <1>10, <1>11, <1>12, <1>13

LEMMA OpenDetachedStep ==
  ASSUME IInv, NEW p \in Procs, OpenDetached(p)
  PROVE  IInv'
<1> USE DEF IInv
<1>1. /\ pc[p] = "withBegin" /\ pc' = [pc EXCEPT ![p] = "run"]
      /\ ctxTx' = [ctxTx EXCEPT ![p] = used'] /\ depth' = [depth EXCEPT ![p] = 1]
      /\ curTx' = curTx /\ handle' = handle /\ target' = target
  BY DEF OpenDetached, Goto
<1>2. /\ used' = used + 1 /\ used' \in Txs /\ used' # NoTx
      /\ state' = [state EXCEPT ![used'] = "active"]
      /\ owner' = [owner EXCEPT ![used'] = p]
      /\ once' = once
      /\ \A t \in Txs : t <= used => t # used'
      /\ \A t \in Txs : t > used' => t > used
      /\ ~once[used']
      /\ used' \in 0..MaxTx
      /\ state' \in [Txs -> States] /\ owner' \in [Txs -> Procs \union {NoProc}]
  BY OpenEffect DEF OpenDetached
<1>3. TypeOK'
  BY <1>1, <1>2, ConstantsAssumption DEF TypeOK, PCs
<1>4. \A r \in Procs : handle[r] # used' /\ ctxTx[r] # used' /\ target[r] # used'
  BY <1>2 DEF TypeOK, UsedInv, NoTx
<1>5. curTx # used'
  BY <1>2 DEF TypeOK, UsedInv, NoTx
<1>6. UsedInv'
  BY <1>1, <1>2, ConstantsAssumption DEF TypeOK, UsedInv, NoTx, Txs
<1>7. OwnerInv'
  BY <1>1, <1>2, <1>4, <1>5 DEF TypeOK, OwnerInv
<1>8. OnceInv'
  BY <1>2 DEF TypeOK, OnceInv
<1>9. HandleInv'
  BY <1>1 DEF HandleInv
<1>10. PcInv'
  BY <1>1, <1>2 DEF TypeOK, PcInv
<1>11. DetachedIsolated'
  BY <1>1, <1>2, <1>4 DEF TypeOK, DetachedIsolated
<1>12. ActiveTxOwned'
  <2> SUFFICES ASSUME NEW t \in Txs, state'[t] = "active"
               PROVE  \E r \in Procs : t \in {handle'[r], ctxTx'[r]}
    BY DEF ActiveTxOwned
  <2>1. CASE t = used'
    BY <1>1, <2>1 DEF TypeOK
  <2>2. CASE t # used'
    <3>1. state[t] = "active"
      BY <1>2, <2>2 DEF TypeOK
    <3>2. PICK r \in Procs : t \in {handle[r], ctxTx[r]}
      BY <3>1 DEF ActiveTxOwned
    <3>3. r = p => t # ctxTx[r]
      BY <1>1 DEF PcInv, Txs, NoTx
    <3> QED
      BY <1>1, <3>2, <3>3 DEF TypeOK
  <2> QED
    BY <2>1, <2>2
<1>13. SlotReachable'
  BY <1>1, <1>2 DEF TypeOK, SlotReachable
<1> QED
  BY <1>3, <1>6, <1>7, <1>8, <1>9, <1>10, <1>11, <1>12, <1>13

\* BeginTx ends: the transaction gets the free slot or is rolled back.
LEMMA RegisterStep ==
  ASSUME IInv, NEW p \in Procs, Register(p)
  PROVE  IInv'
<1> USE DEF IInv
<1>1. /\ pc[p] = "opened" /\ pc' = [pc EXCEPT ![p] = "run"]
      /\ UNCHANGED <<used, once, owner, ctxTx, depth, target>>
  BY DEF Register, Goto
<1>2. handle[p] \in Txs /\ ~once[handle[p]] /\ handle[p] # curTx
  BY <1>1 DEF PcInv, TypeOK
<1>3. CASE curTx = NoTx
  <2>1. curTx' = handle[p] /\ UNCHANGED <<state, handle>>
    BY <1>3 DEF Register
  <2>2. TypeOK'
    BY <1>1, <1>2, <2>1 DEF TypeOK, PCs
  <2>3. UsedInv' /\ OwnerInv' /\ OnceInv' /\ HandleInv'
    BY <1>1, <1>2, <2>1 DEF UsedInv, OwnerInv, OnceInv, HandleInv
  <2>4. PcInv'
    BY <1>1, <1>2, <2>1 DEF TypeOK, PcInv, HandleInv
  <2>5. DetachedIsolated' /\ ActiveTxOwned'
    BY <1>1, <2>1 DEF DetachedIsolated, ActiveTxOwned
  <2>6. SlotReachable'
    BY <1>1, <1>2, <2>1 DEF SlotReachable
  <2> QED
    BY <2>2, <2>3, <2>4, <2>5, <2>6
<1>4. CASE curTx # NoTx
  <2>1. /\ state' = [state EXCEPT ![handle[p]] = "over"]
        /\ handle' = [handle EXCEPT ![p] = NoTx] /\ UNCHANGED curTx
    BY <1>4 DEF Register
  <2>2. TypeOK'
    BY <1>1, <1>2, <2>1 DEF TypeOK, PCs, States
  <2>3. UsedInv' /\ OwnerInv' /\ OnceInv' /\ HandleInv'
    <3>1. handle[p] <= used
      BY DEF UsedInv
    <3>2. UsedInv'
      BY <1>1, <1>2, <2>1, <3>1 DEF UsedInv, TypeOK, NoTx, Txs
    <3>3. OwnerInv' /\ HandleInv'
      BY <1>1, <2>1 DEF OwnerInv, HandleInv, TypeOK
    <3>4. OnceInv'
      BY <1>1, <2>1 DEF OnceInv, TypeOK
    <3> QED
      BY <3>2, <3>3, <3>4
  <2>4. PcInv'
    BY <1>1, <2>1 DEF TypeOK, PcInv
  <2>5. DetachedIsolated'
    BY <1>1, <2>1 DEF DetachedIsolated
  <2>6. ActiveTxOwned'
    BY <1>1, <1>2, <2>1 DEF TypeOK, ActiveTxOwned
  <2>7. SlotReachable'
    BY <1>1, <1>2, <2>1 DEF TypeOK, SlotReachable
  <2> QED
    BY <2>2, <2>3, <2>4, <2>5, <2>6, <2>7
<1> QED
  BY <1>3, <1>4

\* What the first Commit or Rollback does, and a later one does not.
LEMMA DoEffect ==
  ASSUME IInv, NEW t \in Txs, Do(t)
  PROVE  /\ once' \in [Txs -> BOOLEAN] /\ state' \in [Txs -> States]
         /\ once'[t] /\ state'[t] = "over"
         /\ \A u \in Txs : u # t => once'[u] = once[u] /\ state'[u] = state[u]
         /\ UNCHANGED <<used, owner>>
<1> USE DEF IInv, TypeOK, Do, States
<1>1. once' \in [Txs -> BOOLEAN] /\ once'[t]
  OBVIOUS
<1>2. state' \in [Txs -> States] /\ \A u \in Txs : u # t => once'[u] = once[u] /\ state'[u] = state[u]
  OBVIOUS
<1>3. state'[t] = "over"
  BY DEF OnceInv
<1> QED
  BY <1>1, <1>2, <1>3

LEMMA FinishStep ==
  ASSUME IInv, NEW p \in Procs, Finish(p)
  PROVE  IInv'
<1> USE DEF IInv
<1> DEFINE t == handle[p]
<1>1. /\ pc[p] = "run" /\ pc' = [pc EXCEPT ![p] = "clearing"] /\ Do(t)
      /\ UNCHANGED <<curTx, handle, ctxTx, depth, target>>
  BY DEF Finish, Goto
<1>2. t \in Txs /\ t # NoTx
  BY DEF Finish, TypeOK
<1>3. /\ once' \in [Txs -> BOOLEAN] /\ state' \in [Txs -> States]
      /\ once'[t] /\ state'[t] = "over"
      /\ \A u \in Txs : u # t => once'[u] = once[u] /\ state'[u] = state[u]
      /\ UNCHANGED <<used, owner>>
  BY <1>1, <1>2, DoEffect
<1>4. TypeOK'
  BY <1>1, <1>3 DEF TypeOK, PCs
<1>5. UsedInv'
  <2>1. t <= used /\ used \in Nat
    BY ConstantsAssumption DEF UsedInv, TypeOK
  <2> QED
    BY <1>1, <1>2, <1>3, <2>1 DEF UsedInv, Txs
<1>6. OwnerInv' /\ OnceInv' /\ HandleInv'
  BY <1>1, <1>3 DEF OwnerInv, OnceInv, HandleInv
<1>7. \A r \in Procs : r # p => handle[r] # t
  BY <1>2 DEF HandleInv
<1>8. PcInv'
  <2> SUFFICES ASSUME NEW r \in Procs
               PROVE  /\ pc'[r] = "begin" /\ handle'[r] # NoTx => once'[handle'[r]]
                      /\ pc'[r] = "opened" =>
                           handle'[r] # NoTx /\ ~once'[handle'[r]] /\ handle'[r] # curTx'
                      /\ pc'[r] = "clearing" => handle'[r] # NoTx /\ once'[handle'[r]]
                      /\ pc'[r] = "withBegin" => ctxTx'[r] = NoTx
                      /\ pc'[r] = "routed" => target'[r] # NoTx
    BY DEF PcInv
  <2>1. CASE r = p
    BY <1>1, <1>2, <1>3, <2>1 DEF TypeOK
  <2>2. CASE r # p
    <3>1. handle[r] # NoTx => once'[handle[r]] = once[handle[r]]
      BY <1>3, <1>7, <2>2 DEF TypeOK
    <3> QED
      BY <1>1, <2>2, <3>1 DEF TypeOK, PcInv
  <2> QED
    BY <2>1, <2>2
<1>9. DetachedIsolated'
  BY <1>1, <1>3 DEF DetachedIsolated
<1>10. ActiveTxOwned'
  BY <1>1, <1>2, <1>3 DEF ActiveTxOwned
<1>11. SlotReachable'
  BY <1>1, <1>2, <1>3 DEF TypeOK, SlotReachable
<1> QED
  BY <1>4, <1>5, <1>6, <1>8, <1>9, <1>10, <1>11

LEMMA ClearStep ==
  ASSUME IInv, NEW p \in Procs, Clear(p)
  PROVE  IInv'
<1> USE DEF IInv
<1>1. /\ pc[p] = "clearing" /\ pc' = [pc EXCEPT ![p] = "run"]
      /\ curTx' = IF curTx = handle[p] THEN NoTx ELSE curTx
      /\ UNCHANGED <<used, state, once, owner, handle, ctxTx, depth, target>>
  BY DEF Clear, ClearCurTx, Goto, txVars
<1>2. TypeOK'
  BY <1>1 DEF TypeOK, PCs
<1>3. UsedInv'
  BY <1>1, ConstantsAssumption DEF UsedInv, TypeOK, NoTx
<1>4. OwnerInv' /\ OnceInv' /\ HandleInv'
  BY <1>1 DEF OwnerInv, OnceInv, HandleInv
<1>5. PcInv'
  BY <1>1 DEF TypeOK, PcInv
<1>6. DetachedIsolated' /\ ActiveTxOwned'
  BY <1>1 DEF DetachedIsolated, ActiveTxOwned
<1>7. SlotReachable'
  BY <1>1 DEF TypeOK, SlotReachable
<1> QED
  BY <1>2, <1>3, <1>4, <1>5, <1>6, <1>7

\* The end of the outermost WithTx: its transaction is nobody's handle and not
\* in the slot.
LEMMA LeaveWithTxStep ==
  ASSUME IInv, NEW p \in Procs, LeaveWithTx(p)
  PROVE  IInv'
<1> USE DEF IInv
<1> DEFINE t == ctxTx[p]
<1>1. /\ pc[p] = "run" /\ depth[p] = 1 /\ Do(t)
      /\ ctxTx' = [ctxTx EXCEPT ![p] = NoTx] /\ depth' = [depth EXCEPT ![p] = 0]
      /\ UNCHANGED <<handle, pc, target>>
  BY DEF LeaveWithTx
<1>2. t \in Txs /\ t # NoTx
  BY <1>1 DEF TypeOK
<1>3. owner[t] = p /\ p # NoProc
  BY <1>2, ConstantsAssumption DEF OwnerInv
<1>4. curTx # t /\ \A r \in Procs : handle[r] # t
  BY <1>2, <1>3 DEF OwnerInv
<1>5. curTx' = curTx
  BY <1>4 DEF LeaveWithTx, ClearCurTx
<1>6. /\ once' \in [Txs -> BOOLEAN] /\ state' \in [Txs -> States]
      /\ once'[t] /\ state'[t] = "over"
      /\ \A u \in Txs : u # t => once'[u] = once[u] /\ state'[u] = state[u]
      /\ UNCHANGED <<used, owner>>
  BY <1>1, <1>2, DoEffect
<1>7. TypeOK'
  BY <1>1, <1>5, <1>6, ConstantsAssumption DEF TypeOK
<1>8. UsedInv'
  <2>1. t <= used /\ used \in Nat
    BY ConstantsAssumption DEF UsedInv, TypeOK
  <2> QED
    BY <1>1, <1>2, <1>5, <1>6, <2>1 DEF UsedInv, Txs, NoTx, TypeOK
<1>9. OwnerInv' /\ OnceInv' /\ HandleInv'
  BY <1>1, <1>5, <1>6 DEF OwnerInv, OnceInv, HandleInv, TypeOK
<1>10. \A r \in Procs : handle[r] # NoTx => once'[handle[r]] = once[handle[r]]
  BY <1>4, <1>6 DEF TypeOK
<1>11. PcInv'
  BY <1>1, <1>5, <1>10 DEF TypeOK, PcInv
<1>12. DetachedIsolated'
  BY <1>1, <1>6 DEF DetachedIsolated
<1>13. ActiveTxOwned'
  BY <1>1, <1>2, <1>6 DEF TypeOK, ActiveTxOwned
<1>14. SlotReachable'
  BY <1>1, <1>4, <1>5, <1>6 DEF TypeOK, SlotReachable
<1> QED
  BY <1>7, <1>8, <1>9, <1>11, <1>12, <1>13, <1>14

LEMMA CtxExpiresStep ==
  ASSUME IInv, NEW t \in Txs, CtxExpires(t)
  PROVE  IInv'
<1> USE DEF IInv, CtxExpires, procVars
<1>1. TypeOK'
  BY DEF TypeOK, States
<1>2. UsedInv' /\ OwnerInv' /\ OnceInv' /\ HandleInv' /\ PcInv'
  BY DEF TypeOK, UsedInv, OwnerInv, OnceInv, HandleInv, PcInv
<1>3. DetachedIsolated' /\ SlotReachable'
  BY DEF DetachedIsolated, SlotReachable
<1>4. ActiveTxOwned'
  BY DEF TypeOK, ActiveTxOwned
<1> QED
  BY <1>1, <1>2, <1>3, <1>4

\* Routing: the context's transaction is the goroutine's own, the slot's is
\* nobody's.
LEMMA RouteStep ==
  ASSUME IInv, NEW p \in Procs, Route(p)
  PROVE  IInv'
<1> USE DEF IInv
<1>1. PICK inCtx \in {FALSE, ctxTx[p] # NoTx} :
        RouteTo(p, inCtx) # NoTx /\ target' = [target EXCEPT ![p] = RouteTo(p, inCtx)]
  BY DEF Route
<1>2. /\ pc' = [pc EXCEPT ![p] = "routed"]
      /\ UNCHANGED <<used, state, once, owner, curTx, handle, ctxTx, depth>>
  BY DEF Route, Goto, txVars
<1> DEFINE t == RouteTo(p, inCtx)
<1>3. t \in {ctxTx[p], curTx} /\ t # NoTx
  BY <1>1 DEF RouteTo
<1>4. t \in Txs /\ t <= used /\ owner[t] \in {NoProc, p}
  BY <1>3 DEF TypeOK, UsedInv, OwnerInv
<1>5. TypeOK'
  BY <1>1, <1>2, <1>4 DEF TypeOK, PCs
<1>6. UsedInv' /\ OwnerInv' /\ OnceInv' /\ HandleInv'
  BY <1>1, <1>2, <1>4 DEF TypeOK, UsedInv, OwnerInv, OnceInv, HandleInv
<1>7. PcInv'
  BY <1>1, <1>2 DEF TypeOK, PcInv
<1>8. DetachedIsolated'
  BY <1>1, <1>2, <1>4 DEF TypeOK, DetachedIsolated
<1>9. ActiveTxOwned' /\ SlotReachable'
  BY <1>2 DEF TypeOK, PcInv, ActiveTxOwned, SlotReachable, Route
<1> QED
  BY <1>5, <1>6, <1>7, <1>8, <1>9

LEMMA ExecInTxStep ==
  ASSUME IInv, NEW p \in Procs, ExecInTx(p)
  PROVE  IInv'
<1> USE DEF IInv, ExecInTx, Goto, txVars, TypeOK
<1>1. TypeOK'
  BY DEF PCs
<1>2. UsedInv' /\ OwnerInv' /\ OnceInv' /\ HandleInv'
  BY ConstantsAssumption DEF UsedInv, OwnerInv, OnceInv, HandleInv, NoTx
<1>3. PcInv'
  BY DEF PcInv
<1>4. DetachedIsolated' /\ ActiveTxOwned' /\ SlotReachable'
  BY DEF DetachedIsolated, ActiveTxOwned, SlotReachable
<1> QED
  BY <1>1, <1>2, <1>3, <1>4

\* Every step preserves the invariant.
LEMMA NextIInv == IInv /\ [Next]_vars => IInv'
<1> SUFFICES ASSUME IInv, [Next]_vars PROVE IInv'
  OBVIOUS
<1>1. CASE UNCHANGED vars
  BY <1>1 DEF vars, txVars, procVars, IInv, TypeOK, UsedInv, OwnerInv, OnceInv, HandleInv, PcInv,
              DetachedIsolated, ActiveTxOwned, SlotReachable
<1>2. ASSUME NEW p \in Procs, ExecInPool(p) PROVE IInv'
  BY <1>1, <1>2 DEF ExecInPool
<1> QED
  BY <1>1, <1>2, StartBeginStep, StartWithTxStep, OpenErrStep, NestingStep, OpenTxStep,
     OpenDetachedStep, RegisterStep, FinishStep, ClearStep, LeaveWithTxStep, CtxExpiresStep,
     RouteStep, ExecInTxStep DEF Next

-----------------------------------------------------------------------------
(***************************************************************************)
(* The theorems.                                                           *)
(***************************************************************************)

\* The inductive invariant holds throughout.
LEMMA SpecIInv == Spec => []IInv
  BY InitIInv, NextIInv, PTL DEF Spec

\* Slot, handles, contexts and nesting have their types in every reachable
\* state, and a WithTx is open exactly while its context has a transaction.
THEOREM TypeCorrect == Spec => []TypeOK
  BY SpecIInv, PTL DEF IInv

\* No statement of another goroutine is ever routed to a WithTx transaction.
THEOREM WithTxIsolated == Spec => []DetachedIsolated
  BY SpecIInv, PTL DEF IInv

\* Every active transaction is still held by the goroutine that opened it.
THEOREM NoTxLost == Spec => []ActiveTxOwned
  BY SpecIInv, PTL DEF IInv

\* An occupied slot always has a goroutine that can, or is about to, empty it.
THEOREM SlotNeverLeaks == Spec => []SlotReachable
  BY SpecIInv, PTL DEF IInv

\* The slot is only ever emptied by the end of the transaction in it.
THEOREM SlotKept == Spec => SlotNotStolen
<1>1. IInv /\ [Next]_vars => [curTx # NoTx /\ curTx' # curTx => once[curTx] /\ curTx' = NoTx]_vars
  <2> SUFFICES ASSUME IInv, Next, curTx # NoTx, curTx' # curTx
               PROVE  once[curTx] /\ curTx' = NoTx
    OBVIOUS
  <2>1. ASSUME NEW p \in Procs, Clear(p) PROVE once[curTx] /\ curTx' = NoTx
    BY <2>1 DEF Clear, ClearCurTx, IInv, PcInv
  <2>2. ASSUME NEW p \in Procs, LeaveWithTx(p) PROVE FALSE
    BY <2>2, ConstantsAssumption DEF LeaveWithTx, ClearCurTx, IInv, OwnerInv
  <2>3. ASSUME NEW p \in Procs, Register(p) PROVE FALSE
    BY <2>3 DEF Register
  <2> QED
    BY <2>1, <2>2, <2>3
    DEF Next, StartBegin, OpenTx, OpenErr, Finish, StartWithTx, OpenDetached, EnterNested,
        LeaveNested, Route, ExecInTx, ExecInPool, CtxExpires, vars
<1> QED
  BY <1>1, SpecIInv, PTL DEF Spec, SlotNotStolen

\* A WithTx transaction is committed or rolled back by its outermost WithTx
\* only.
THEOREM OnlyOutermostDecides == Spec => OutermostDecides
<1>1. IInv /\ [Next]_vars =>
        [\A t \in Txs, p \in Procs : owner[t] = p /\ once'[t] # once[t] =>
           depth[p] = 1 /\ depth'[p] = 0]_vars
  <2> SUFFICES ASSUME IInv, Next, NEW t \in Txs, NEW p \in Procs,
                      owner[t] = p, once'[t] # once[t]
               PROVE  depth[p] = 1 /\ depth'[p] = 0
    OBVIOUS
  <2>1. ASSUME NEW r \in Procs, Finish(r) PROVE FALSE
    <3>1. t = handle[r]
      BY <2>1 DEF Finish, Do, IInv, TypeOK
    <3> QED
      BY <2>1, <3>1, ConstantsAssumption DEF Finish, IInv, OwnerInv
  <2>2. ASSUME NEW r \in Procs, LeaveWithTx(r) PROVE depth[p] = 1 /\ depth'[p] = 0
    <3>1. once' = [once EXCEPT ![ctxTx[r]] = TRUE] /\ depth[r] = 1
      BY <2>2 DEF LeaveWithTx, Do
    <3>2. t = ctxTx[r]
      BY <3>1 DEF IInv, TypeOK
    <3>3. ctxTx[r] # NoTx
      BY <3>1 DEF IInv, TypeOK
    <3>4. r = p
      BY <3>2, <3>3 DEF IInv, OwnerInv
    <3> QED
      BY <2>2, <3>4 DEF LeaveWithTx, IInv, TypeOK
  <2> QED
    BY <2>1, <2>2
    DEF Next, StartBegin, OpenTx, Open, OpenErr, Register, Clear, StartWithTx, OpenDetached,
        EnterNested, LeaveNested, Route, ExecInTx, ExecInPool, CtxExpires, vars, txVars
<1> QED
  BY <1>1, SpecIInv, PTL DEF Spec, OutermostDecides

-----------------------------------------------------------------------------
(***************************************************************************)
(* The pool and the goroutines that wait for it.                           *)
(***************************************************************************)

Waits(p)  == pc[p] \in {"begin", "withBegin"}
ActiveTxs == {t \in Txs : state[t] = "active"}
Holds(p)  == {handle[p], ctxTx[p]} \intersect ActiveTxs

\* Whenever BeginTx or WithTx would have to wait, some goroutine pins a
\* connection and does not wait itself.
ExhaustedPoolDrains == ~ConnFree => \E p \in Procs : ~Waits(p) /\ Holds(p) # {}

\* One active transaction at most is held by a goroutine that waits: before
\* BeginTx its earlier handle is finished, before WithTx it has no context.
LEMMA WaiterHoldsOne ==
  ASSUME IInv, NEW p \in Procs, Waits(p), NEW t \in Holds(p), NEW u \in Holds(p)
  PROVE  t = u
<1>1. /\ t \in Txs /\ u \in Txs /\ state[t] = "active" /\ state[u] = "active"
      /\ t \in {handle[p], ctxTx[p]} /\ u \in {handle[p], ctxTx[p]}
      /\ NoTx \notin Txs
  BY DEF Holds, ActiveTxs, Txs, NoTx
<1>2. CASE pc[p] = "begin"
  <2>1. handle[p] \in Txs => state[handle[p]] = "over"
    BY <1>1, <1>2 DEF IInv, PcInv, OnceInv
  <2> QED
    BY <1>1, <2>1
<1>3. CASE pc[p] = "withBegin"
  BY <1>1, <1>3 DEF IInv, PcInv
<1> QED
  BY <1>2, <1>3 DEF Waits

\* With one connection more than goroutines the pool cannot be exhausted by
\* goroutines that wait for it: two of its transactions are held by one
\* goroutine, which is then not waiting.
THEOREM PoolNeverStuck ==
  ASSUME PoolSize > Cardinality(Procs)
  PROVE  Spec => []ExhaustedPoolDrains
<1>1. IInv => ExhaustedPoolDrains
  <2> SUFFICES ASSUME IInv, ~ConnFree
               PROVE  \E p \in Procs : ~Waits(p) /\ Holds(p) # {}
    BY DEF ExhaustedPoolDrains
  <2>1. PICK f \in [ActiveTxs -> Procs] : \A t \in ActiveTxs : t \in Holds(f[t])
    <3>1. ASSUME NEW t \in ActiveTxs PROVE \E p \in Procs : t \in Holds(p)
      BY DEF IInv, ActiveTxOwned, ActiveTxs, Holds
    <3> DEFINE g == [t \in ActiveTxs |-> CHOOSE p \in Procs : t \in Holds(p)]
    <3>2. \A t \in ActiveTxs : g[t] \in Procs /\ t \in Holds(g[t])
      BY <3>1
    <3>3. g \in [ActiveTxs -> Procs]
      BY <3>2
    <3> HIDE DEF g
    <3> QED
      BY <3>2, <3>3
  <2>2. /\ IsFiniteSet(ActiveTxs) /\ IsFiniteSet(Procs)
        /\ Cardinality(Procs) < Cardinality(ActiveTxs)
    <3>1. IsFiniteSet(Txs) /\ ActiveTxs \subseteq Txs
      BY ConstantsAssumption, FS_Interval DEF Txs, ActiveTxs
    <3>2. IsFiniteSet(ActiveTxs) /\ IsFiniteSet(Procs)
      BY <3>1, FS_Subset, ConstantsAssumption
    <3>3. Cardinality(ActiveTxs) \in Nat /\ Cardinality(Procs) \in Nat
      BY <3>2, FS_CardinalityType
    <3> QED
      BY <3>2, <3>3, ConstantsAssumption DEF ConnFree, ActiveTxs
  <2>3. PICK t \in ActiveTxs, u \in ActiveTxs : t # u /\ f[t] = f[u]
    BY <2>2, FS_PigeonHole
  <2>4. f[t] \in Procs /\ t \in Holds(f[t]) /\ u \in Holds(f[t])
    BY <2>1, <2>3
  <2> QED
    BY <2>3, <2>4, WaiterHoldsOne
<1> QED
  BY <1>1, SpecIInv, PTL

-----------------------------------------------------------------------------
(***************************************************************************)
(* What the two ways to begin a transaction promise those who use them.    *)
(***************************************************************************)

\* BeginTx has handed p its transaction, and p has not begun to end it.
Began(p) == handle[p] # NoTx /\ ~once[handle[p]] /\ pc[p] # "opened"

\* A transaction that was begun is in the slot, one in a context is unfinished.
BegunInv == \A p \in Procs :
  /\ Began(p) => curTx = handle[p]
  /\ ctxTx[p] # NoTx => ~once[ctxTx[p]]

\* Steps that neither touch the slot and the handles nor let a registration pass.
LEMMA SlotUntouched ==
  ASSUME IInv, BegunInv, curTx' = curTx, handle' = handle, ctxTx' = ctxTx, once' = once,
         \A p \in Procs : pc[p] = "opened" => pc'[p] = "opened"
  PROVE  BegunInv'
  BY DEF BegunInv, Began

\* BeginTx and WithTx.
LEMMA BeginKeepsBegun ==
  ASSUME IInv, BegunInv, NEW p \in Procs, OpenTx(p) \/ OpenDetached(p) \/ Register(p)
  PROVE  BegunInv'
<1> USE DEF BegunInv, Began
<1>1. TypeOK /\ UsedInv /\ HandleInv /\ PcInv
  BY DEF IInv
<1>2. CASE OpenTx(p)
  <2>1. /\ handle' = [handle EXCEPT ![p] = used'] /\ pc' = [pc EXCEPT ![p] = "opened"]
        /\ once' = once /\ curTx' = curTx /\ ctxTx' = ctxTx
    BY <1>2 DEF OpenTx, Open, Goto
  <2> QED
    BY <1>1, <2>1 DEF TypeOK
<1>3. CASE OpenDetached(p)
  <2>1. /\ ctxTx' = [ctxTx EXCEPT ![p] = used'] /\ pc' = [pc EXCEPT ![p] = "run"] /\ pc[p] = "withBegin"
        /\ once' = once /\ curTx' = curTx /\ handle' = handle /\ Open(p)
    BY <1>3 DEF OpenDetached, Open, Goto
  <2>2. ~once[used']
    BY <1>1, <2>1, OpenEffect, ConstantsAssumption DEF UsedInv, TypeOK, Txs
  <2> QED
    BY <1>1, <2>1, <2>2 DEF TypeOK
<1>4. CASE Register(p)
  <2>1. pc' = [pc EXCEPT ![p] = "run"] /\ once' = once /\ ctxTx' = ctxTx /\ pc[p] = "opened" /\ handle[p] # NoTx
    BY <1>1, <1>4 DEF Register, Goto, PcInv
  <2>2. \/ curTx = NoTx /\ curTx' = handle[p] /\ handle' = handle
        \/ curTx # NoTx /\ curTx' = curTx /\ handle' = [handle EXCEPT ![p] = NoTx]
    BY <1>4 DEF Register
  <2> QED
    BY <1>1, <2>1, <2>2 DEF TypeOK
<1> QED
  BY <1>2, <1>3, <1>4

\* Commit, Rollback, and the end of the outermost WithTx: no transaction of
\* another goroutine is finished or leaves the slot.
LEMMA EndKeepsBegun ==
  ASSUME IInv, BegunInv, NEW p \in Procs, Finish(p) \/ Clear(p) \/ LeaveWithTx(p)
  PROVE  BegunInv'
<1> USE DEF BegunInv, Began
<1>1. TypeOK /\ OwnerInv /\ HandleInv /\ PcInv /\ NoProc \notin Procs
  BY ConstantsAssumption DEF IInv
<1>2. CASE Finish(p)
  <2>1. /\ once' = [once EXCEPT ![handle[p]] = TRUE] /\ pc' = [pc EXCEPT ![p] = "clearing"]
        /\ curTx' = curTx /\ ctxTx' = ctxTx /\ handle' = handle /\ handle[p] \in Txs /\ pc[p] = "run"
    BY <1>1, <1>2 DEF Finish, Do, Goto, TypeOK
  <2>2. ASSUME NEW r \in Procs, ctxTx[r] # NoTx PROVE ctxTx[r] # handle[p]
    BY <1>1, <1>2, <2>2 DEF OwnerInv, Finish
  <2> QED
    BY <1>1, <2>1, <2>2 DEF TypeOK
<1>3. CASE Clear(p)
  <2>1. /\ once' = once /\ pc' = [pc EXCEPT ![p] = "run"] /\ ctxTx' = ctxTx /\ handle' = handle
        /\ pc[p] = "clearing" /\ once[handle[p]] /\ curTx' = IF curTx = handle[p] THEN NoTx ELSE curTx
    BY <1>1, <1>3 DEF Clear, ClearCurTx, Goto, PcInv, txVars
  <2> QED
    BY <1>1, <2>1 DEF TypeOK
<1>4. CASE LeaveWithTx(p)
  <2>1. /\ once' = [once EXCEPT ![ctxTx[p]] = TRUE] /\ pc' = pc /\ handle' = handle
        /\ ctxTx' = [ctxTx EXCEPT ![p] = NoTx] /\ ctxTx[p] # NoTx
        /\ curTx' = IF curTx = ctxTx[p] THEN NoTx ELSE curTx
    BY <1>1, <1>4 DEF LeaveWithTx, Do, ClearCurTx, TypeOK
  <2>2. curTx' = curTx
    BY <1>1, <2>1 DEF OwnerInv
  <2>3. ASSUME NEW r \in Procs, r # p, ctxTx[r] # NoTx PROVE ctxTx[r] # ctxTx[p]
    BY <1>1, <2>1, <2>3 DEF OwnerInv
  <2> QED
    BY <1>1, <2>1, <2>2, <2>3 DEF TypeOK
<1> QED
  BY <1>2, <1>3, <1>4

\* Every step keeps the slot with the transaction that was begun.
LEMMA NextBegun == IInv /\ BegunInv /\ [Next]_vars => BegunInv'
<1> SUFFICES ASSUME IInv, BegunInv, [Next]_vars PROVE BegunInv'
  OBVIOUS
<1>1. ASSUME UNCHANGED vars PROVE BegunInv'
  BY <1>1, SlotUntouched DEF vars, txVars, procVars
<1>2. ASSUME NEW p \in Procs,
             \/ StartBegin(p) \/ StartWithTx(p) \/ OpenErr(p) \/ EnterNested(p) \/ LeaveNested(p)
             \/ Route(p) \/ ExecInTx(p)
      PROVE  BegunInv'
  <2>1. /\ curTx' = curTx /\ handle' = handle /\ ctxTx' = ctxTx /\ once' = once
        /\ pc[p] # "opened"
        /\ pc' = pc \/ \E l \in PCs : pc' = [pc EXCEPT ![p] = l]
    BY <1>2 DEF StartBegin, StartWithTx, OpenErr, EnterNested, LeaveNested, Route, ExecInTx,
                Goto, txVars, PCs
  <2>2. ASSUME NEW r \in Procs, pc[r] = "opened" PROVE pc'[r] = "opened"
    BY <2>1, <2>2 DEF IInv, TypeOK
  <2> QED
    BY <2>1, <2>2, SlotUntouched
<1>3. ASSUME NEW t \in Txs, CtxExpires(t) PROVE BegunInv'
  BY <1>3, SlotUntouched DEF CtxExpires, procVars
<1>4. ASSUME NEW p \in Procs, ExecInPool(p) PROVE BegunInv'
  BY <1>1, <1>4 DEF ExecInPool
<1> QED
  BY <1>1, <1>2, <1>3, <1>4, BeginKeepsBegun, EndKeepsBegun DEF Next

\* The invariant of those who began a transaction holds throughout.
LEMMA SpecBegun == Spec => []BegunInv
<1>1. Init => BegunInv
  BY DEF Init, BegunInv, Began
<1> QED
  BY <1>1, NextBegun, SpecIInv, PTL DEF Spec

\* No two goroutines have a transaction of BeginTx at the same time, and whatever
\* statement its goroutine sends without a context goes to it.
BeginIsExclusive ==
  /\ \A p, r \in Procs : Began(p) /\ Began(r) => p = r
  /\ \A p \in Procs : Began(p) => RouteTo(p, FALSE) = handle[p]

\* BeginTx is a lock: from its return to the Commit or Rollback of the same
\* goroutine nobody else gets a transaction from it, and all statements of that
\* goroutine that carry no WithTx run in the transaction, none in the pool.
THEOREM TccExclusive == Spec => []BeginIsExclusive
<1>1. IInv /\ BegunInv => BeginIsExclusive
  BY DEF IInv, HandleInv, BegunInv, Began, BeginIsExclusive, RouteTo
<1> QED
  BY <1>1, SpecIInv, SpecBegun, PTL

\* A statement routed through the context of a WithTx.
InTime == \A p \in Procs : target[p] # NoTx /\ target[p] = ctxTx[p] => ~once[target[p]]

\* Statements of a WithTx are executed before its Commit or Rollback: the race
\* that sends a statement to a finished transaction is one of the slot only.
THEOREM WithTxInTime == Spec => []InTime
<1>1. BegunInv => InTime
  BY DEF BegunInv, InTime
<1> QED
  BY <1>1, SpecBegun, PTL

=============================================================================
