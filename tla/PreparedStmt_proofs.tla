------------------------- MODULE PreparedStmt_proofs -------------------------
(***************************************************************************)
(* The safety properties of the prepared-statement cache for any number of *)
(* goroutines, queries, entries and reconnects and any cache limit.        *)
(***************************************************************************)
EXTENDS PreparedStmt, FiniteSetTheorems, TLAPS

-----------------------------------------------------------------------------
(***************************************************************************)
(* The inductive invariant.                                                *)
(***************************************************************************)

\* Entries are numbered as they are allocated; nothing refers to later ones.
UsedInv ==
  /\ \A e \in Entries : e > used =>
       phase[e] = "unused" /\ e \notin prepared /\ e \notin open /\ e \notin closing
  /\ \A q \in Queries : Stmts[q] <= used
  /\ \A p \in Procs : held[p] <= used

\* How far the entry has got that a goroutine holds.
HeldInv == \A p \in Procs :
  /\ pc[p] \in {"idle", "lookup", "insert"} => held[p] = NoEntry
  /\ pc[p] \in {"wait", "use", "evict"} \union Owning => held[p] \in Entries
  /\ pc[p] \in {"prepare", "publish"} => phase[held[p]] = "preparing"
  /\ pc[p] = "unpublish" => phase[held[p]] = "failed"
  /\ pc[p] = "signal" => phase[held[p]] \in {"ready", "failed"}
  /\ pc[p] \in {"use", "evict"} => phase[held[p]] = "ready"
  /\ pc[p] = "publish" /\ pool[held[p]] \in openPools => held[p] \in open

\* An entry is cached under one query, that of the goroutines that hold it.
QueryInv ==
  /\ \A q, r \in Queries : Stmts[q] # NoEntry /\ Stmts[q] = Stmts[r] => q = r
  /\ \A p \in Procs, q \in Queries :
       held[p] # NoEntry /\ Stmts[q] = held[p] => q = query[p]

\* Only published statements are closed.
ClosingInv == \A e \in closing : e # NoEntry => phase[e] = "ready"

\* No goroutine and no entry has a pool newer than PreparedStmtDB.ConnPool.
PoolInv ==
  /\ \A p \in Procs : conn[p] <= psPool
  /\ \A e \in Entries : pool[e] <= psPool
  /\ rc = "closeOld" => psPool > 0

SafeInv ==
  /\ TypeOK /\ UsedInv /\ HeldInv /\ QueryInv /\ ClosingInv /\ PoolInv
  /\ ChannelClosedOnce /\ ClosedNeverCached /\ TrafficNeverPanics

\* The typing facts that the steps below need of the values they compare.
LEMMA TypeFacts ==
  ASSUME TypeOK
  PROVE  /\ NoEntry = 0 /\ NoEntry \in Nat /\ AnyQuery \in Queries
         /\ used \in Nat /\ psPool \in Nat
         /\ \A e \in Entries : e \in Nat /\ e # NoEntry /\ e > 0
         /\ \A q \in Queries : Stmts[q] \in Nat
         /\ \A p \in Procs : held[p] \in Nat /\ conn[p] \in Nat
         /\ \A e \in Entries : pool[e] \in Nat
         /\ NoEntry \notin Entries
  BY ConstantsAssumption DEF TypeOK, Entries, NoEntry, AnyQuery

LEMMA InitSafe == Init => SafeInv
<1> SUFFICES ASSUME Init PROVE SafeInv
  OBVIOUS
<1>1. AnyQuery \in Queries
  BY ConstantsAssumption DEF AnyQuery
<1>2. TypeOK
  <2>1. /\ Stmts \in [Queries -> Entries \union {NoEntry}]
        /\ PreparedSQL \subseteq Queries
        /\ used \in Nat /\ used <= MaxEntries
    BY ConstantsAssumption DEF Init
  <2>2. /\ phase \in [Entries -> Phases] /\ pool \in [Entries -> Nat]
        /\ prepared \subseteq {e \in Entries : phase[e] \in {"ready", "failed"}}
        /\ open \subseteq Entries /\ closing \subseteq Entries \union {NoEntry}
    BY DEF Init, Phases
  <2>3. /\ psPool \in Nat /\ openPools \subseteq Nat /\ rc \in RCs
    BY DEF Init, RCs
  <2>4. crashed \in BOOLEAN
    BY Zenon DEF Init
  <2>5. /\ pc \in [Procs -> PCs] /\ query \in [Procs -> Queries]
        /\ conn \in [Procs -> Nat] /\ held \in [Procs -> Entries \union {NoEntry}]
    BY <1>1 DEF Init, PCs
  <2> QED
    BY <2>1, <2>2, <2>3, <2>4, <2>5 DEF TypeOK
<1>3. UsedInv /\ HeldInv /\ QueryInv /\ ClosingInv /\ PoolInv
  BY DEF Init, UsedInv, HeldInv, QueryInv, ClosingInv, PoolInv, Owning, NoEntry
<1>4. ChannelClosedOnce /\ ClosedNeverCached /\ TrafficNeverPanics
  BY DEF Init, ChannelClosedOnce, ClosedNeverCached, TrafficNeverPanics, Owning, NoEntry
<1> QED
  BY <1>2, <1>3, <1>4 DEF SafeInv

-----------------------------------------------------------------------------
(***************************************************************************)
(* Every step preserves it.                                                *)
(***************************************************************************)

\* A call captures the current pool.
LEMMA StartCallStep ==
  ASSUME SafeInv, NEW p \in Procs, StartCall(p)
  PROVE  SafeInv'
<1>1. /\ TypeOK /\ UsedInv /\ HeldInv /\ QueryInv /\ ClosingInv /\ PoolInv
      /\ ChannelClosedOnce /\ ClosedNeverCached /\ TrafficNeverPanics
  BY DEF SafeInv
<1> USE <1>1, TypeFacts DEF StartCall, Goto, stmtVars, poolVars
<1>2. TypeOK'
  <2>1. pc' \in [Procs -> PCs]
    BY DEF TypeOK, PCs
  <2>2. query' \in [Procs -> Queries]
    BY DEF TypeOK
  <2>3. conn' \in [Procs -> Nat]
    BY DEF TypeOK
  <2> QED
    BY <2>1, <2>2, <2>3 DEF TypeOK
<1>3. UsedInv' /\ ClosingInv' /\ ClosedNeverCached' /\ TrafficNeverPanics'
  BY DEF UsedInv, ClosingInv, ClosedNeverCached, TrafficNeverPanics
<1>4. HeldInv'
  BY DEF HeldInv, Owning
<1>5. QueryInv'
  BY DEF QueryInv, HeldInv
<1>6. PoolInv'
  BY DEF PoolInv
<1>7. ChannelClosedOnce'
  BY DEF ChannelClosedOnce, Owning
<1> QED
  BY <1>2, <1>3, <1>4, <1>5, <1>6, <1>7 DEF SafeInv

\* A hit: the entry is that of the query.
LEMMA LookupStep ==
  ASSUME SafeInv, NEW p \in Procs, Lookup(p)
  PROVE  SafeInv'
<1>1. /\ TypeOK /\ UsedInv /\ HeldInv /\ QueryInv /\ ClosingInv /\ PoolInv
      /\ ChannelClosedOnce /\ ClosedNeverCached /\ TrafficNeverPanics
  BY DEF SafeInv
<1> USE <1>1, TypeFacts DEF Lookup, AwaitEntry, Goto, stmtVars, poolVars
<1>2. TypeOK'
  <2>1. pc' \in [Procs -> PCs]
    BY DEF TypeOK, PCs
  <2>2. conn' \in [Procs -> Nat]
    BY DEF TypeOK
  <2>3. held' \in [Procs -> Entries \union {NoEntry}]
    BY DEF TypeOK
  <2> QED
    BY <2>1, <2>2, <2>3 DEF TypeOK
<1>3. ClosingInv' /\ ClosedNeverCached' /\ TrafficNeverPanics'
  BY DEF ClosingInv, ClosedNeverCached, TrafficNeverPanics
<1>4. UsedInv'
  BY DEF TypeOK, UsedInv
<1>5. HeldInv'
  BY DEF TypeOK, HeldInv, Owning
<1>6. QueryInv'
  BY DEF TypeOK, QueryInv
<1>7. PoolInv'
  BY DEF TypeOK, PoolInv
<1>8. ChannelClosedOnce'
  BY DEF TypeOK, ChannelClosedOnce, Owning
<1> QED
  BY <1>2, <1>3, <1>4, <1>5, <1>6, <1>7, <1>8 DEF SafeInv

\* A new entry is nobody else's.
LEMMA InsertStep ==
  ASSUME SafeInv, NEW p \in Procs, Insert(p)
  PROVE  SafeInv'
<1>1. /\ TypeOK /\ UsedInv /\ HeldInv /\ QueryInv /\ ClosingInv /\ PoolInv
      /\ ChannelClosedOnce /\ ClosedNeverCached /\ TrafficNeverPanics
  BY DEF SafeInv
<1> USE <1>1, TypeFacts DEF Insert, AwaitEntry, AllocEntry, Goto, stmtVars, poolVars
<1>2. TypeOK'
  <2>1. Stmts' \in [Queries -> Entries \union {NoEntry}]
    BY DEF TypeOK
  <2>2. used' \in Nat /\ used' <= MaxEntries
    <3>1. used' = used \/ (used' = used + 1 /\ used + 1 \in Entries)
      OBVIOUS
    <3>2. used \in Nat /\ used <= MaxEntries /\ MaxEntries \in Nat
      BY ConstantsAssumption DEF TypeOK
    <3> HIDE <1>1, TypeFacts DEF Insert
    <3> QED
      BY <3>1, <3>2 DEF Entries
  <2>3. phase' \in [Entries -> Phases]
    BY DEF TypeOK, Phases
  <2>4. pool' \in [Entries -> Nat]
    BY DEF TypeOK
  <2>5. prepared' \subseteq {e \in Entries : phase'[e] \in {"ready", "failed"}}
    BY DEF TypeOK, UsedInv
  <2>6. pc' \in [Procs -> PCs]
    BY DEF TypeOK, PCs, Owning
  <2>7. conn' \in [Procs -> Nat]
    BY DEF TypeOK
  <2>8. held' \in [Procs -> Entries \union {NoEntry}]
    BY DEF TypeOK
  <2> QED
    BY <2>1, <2>2, <2>3, <2>4, <2>5, <2>6, <2>7, <2>8 DEF TypeOK
<1>3. TrafficNeverPanics'
  BY DEF TrafficNeverPanics
<1>4. UsedInv'
  BY DEF TypeOK, UsedInv
<1>5. HeldInv'
  BY DEF TypeOK, HeldInv, Owning, UsedInv
<1>6. QueryInv'
  BY DEF TypeOK, QueryInv, UsedInv
<1>7. ClosingInv'
  BY DEF TypeOK, ClosingInv, UsedInv
<1>8. PoolInv'
  BY DEF TypeOK, PoolInv
<1>9. ChannelClosedOnce'
  BY DEF TypeOK, ChannelClosedOnce, Owning, UsedInv
<1>10. ClosedNeverCached'
  BY DEF TypeOK, ClosedNeverCached, UsedInv
<1> QED
  BY <1>2, <1>3, <1>4, <1>5, <1>6, <1>7, <1>8, <1>9, <1>10 DEF SafeInv

\* The statement is open when it is published, unless its pool is closed.
LEMMA PrepareOKStep ==
  ASSUME SafeInv, NEW p \in Procs, PrepareOK(p)
  PROVE  SafeInv'
<1>1. /\ TypeOK /\ UsedInv /\ HeldInv /\ QueryInv /\ ClosingInv /\ PoolInv
      /\ ChannelClosedOnce /\ ClosedNeverCached /\ TrafficNeverPanics
  BY DEF SafeInv
<1> USE <1>1, TypeFacts DEF PrepareOK, Goto, poolVars
<1>2. TypeOK'
  <2>1. open' \subseteq Entries
    BY DEF TypeOK, HeldInv, Owning
  <2>2. pc' \in [Procs -> PCs]
    BY DEF TypeOK, PCs, Owning
  <2> QED
    BY <2>1, <2>2 DEF TypeOK
<1>3. QueryInv' /\ ClosingInv' /\ PoolInv' /\ TrafficNeverPanics'
  BY DEF QueryInv, ClosingInv, PoolInv, TrafficNeverPanics
<1>4. UsedInv'
  BY DEF UsedInv
<1>5. HeldInv'
  BY DEF HeldInv, Owning
<1>6. ChannelClosedOnce'
  BY DEF ChannelClosedOnce, Owning
<1>7. ClosedNeverCached'
  BY DEF ClosedNeverCached
<1> QED
  BY <1>2, <1>3, <1>4, <1>5, <1>6, <1>7 DEF SafeInv

\* Nobody executes an entry whose preparation fails.
LEMMA PrepareErrStep ==
  ASSUME SafeInv, NEW p \in Procs, PrepareErr(p)
  PROVE  SafeInv'
<1>1. /\ TypeOK /\ UsedInv /\ HeldInv /\ QueryInv /\ ClosingInv /\ PoolInv
      /\ ChannelClosedOnce /\ ClosedNeverCached /\ TrafficNeverPanics
  BY DEF SafeInv
<1> USE <1>1, TypeFacts DEF PrepareErr, Goto, poolVars
<1>2. TypeOK'
  <2>1. phase' \in [Entries -> Phases]
    BY DEF TypeOK, Phases
  <2>2. prepared' \subseteq {e \in Entries : phase'[e] \in {"ready", "failed"}}
    BY DEF TypeOK
  <2>3. pc' \in [Procs -> PCs]
    BY DEF TypeOK, PCs, Owning
  <2> QED
    BY <2>1, <2>2, <2>3 DEF TypeOK
<1>3. QueryInv' /\ PoolInv' /\ TrafficNeverPanics'
  BY DEF QueryInv, PoolInv, TrafficNeverPanics
<1>4. UsedInv'
  BY DEF UsedInv
<1>5. HeldInv'
  BY DEF TypeOK, HeldInv, Owning, ChannelClosedOnce
<1>6. ClosingInv'
  BY DEF ClosingInv, HeldInv
<1>7. ChannelClosedOnce'
  BY DEF ChannelClosedOnce, Owning
<1>8. ClosedNeverCached'
  BY DEF ClosedNeverCached
<1> QED
  BY <1>2, <1>3, <1>4, <1>5, <1>6, <1>7, <1>8 DEF SafeInv

\* The entry becomes usable, and is not being closed.
LEMMA PublishStep ==
  ASSUME SafeInv, NEW p \in Procs, Publish(p)
  PROVE  SafeInv'
<1>1. /\ TypeOK /\ UsedInv /\ HeldInv /\ QueryInv /\ ClosingInv /\ PoolInv
      /\ ChannelClosedOnce /\ ClosedNeverCached /\ TrafficNeverPanics
  BY DEF SafeInv
<1> USE <1>1, TypeFacts DEF Publish, Goto, poolVars
<1>2. TypeOK'
  <2>1. PreparedSQL' \subseteq Queries
    BY DEF TypeOK
  <2>2. phase' \in [Entries -> Phases]
    BY DEF TypeOK, Phases
  <2>3. prepared' \subseteq {e \in Entries : phase'[e] \in {"ready", "failed"}}
    BY DEF TypeOK
  <2>4. pc' \in [Procs -> PCs]
    BY DEF TypeOK, PCs, Owning
  <2> QED
    BY <2>1, <2>2, <2>3, <2>4 DEF TypeOK
<1>3. QueryInv' /\ PoolInv' /\ TrafficNeverPanics'
  BY DEF QueryInv, PoolInv, TrafficNeverPanics
<1>4. UsedInv'
  BY DEF UsedInv
<1>5. HeldInv'
  BY DEF TypeOK, HeldInv, Owning, ChannelClosedOnce
<1>6. ClosingInv'
  BY DEF ClosingInv
<1>7. ChannelClosedOnce'
  BY DEF ChannelClosedOnce, Owning
<1>8. ClosedNeverCached'
  BY DEF ClosedNeverCached, HeldInv
<1> QED
  BY <1>2, <1>3, <1>4, <1>5, <1>6, <1>7, <1>8 DEF SafeInv

\* Dropping an entry from the map.
LEMMA UnpublishStep ==
  ASSUME SafeInv, NEW p \in Procs, Unpublish(p)
  PROVE  SafeInv'
<1>1. /\ TypeOK /\ UsedInv /\ HeldInv /\ QueryInv /\ ClosingInv /\ PoolInv
      /\ ChannelClosedOnce /\ ClosedNeverCached /\ TrafficNeverPanics
  BY DEF SafeInv
<1> USE <1>1, TypeFacts DEF Unpublish, Goto, poolVars
<1>2. TypeOK'
  <2>1. Stmts' \in [Queries -> Entries \union {NoEntry}]
    BY DEF TypeOK
  <2>2. pc' \in [Procs -> PCs]
    BY DEF TypeOK, PCs, Owning
  <2> QED
    BY <2>1, <2>2 DEF TypeOK
<1>3. ClosingInv' /\ PoolInv' /\ TrafficNeverPanics'
  BY DEF ClosingInv, PoolInv, TrafficNeverPanics
<1>4. UsedInv'
  BY DEF UsedInv
<1>5. HeldInv'
  BY DEF HeldInv, Owning
<1>6. QueryInv'
  BY DEF QueryInv
<1>7. ChannelClosedOnce'
  BY DEF ChannelClosedOnce, Owning
<1>8. ClosedNeverCached'
  BY DEF ClosedNeverCached
<1> QED
  BY <1>2, <1>3, <1>4, <1>5, <1>6, <1>7, <1>8 DEF SafeInv

\* The channel is closed by the only owner of the entry.
LEMMA SignalStep ==
  ASSUME SafeInv, NEW p \in Procs, Signal(p)
  PROVE  SafeInv'
<1>1. /\ TypeOK /\ UsedInv /\ HeldInv /\ QueryInv /\ ClosingInv /\ PoolInv
      /\ ChannelClosedOnce /\ ClosedNeverCached /\ TrafficNeverPanics
  BY DEF SafeInv
<1> USE <1>1, TypeFacts DEF Signal, Proceed, Return, Goto, poolVars
<1>2. TypeOK'
  <2>1. prepared' \subseteq {e \in Entries : phase'[e] \in {"ready", "failed"}}
    BY DEF TypeOK, Owning, HeldInv
  <2>2. pc' \in [Procs -> PCs]
    BY DEF TypeOK, PCs
  <2>3. query' \in [Procs -> Queries]
    BY DEF TypeOK
  <2>4. conn' \in [Procs -> Nat]
    BY DEF TypeOK
  <2>5. held' \in [Procs -> Entries \union {NoEntry}]
    BY DEF TypeOK
  <2> QED
    BY <2>1, <2>2, <2>3, <2>4, <2>5 DEF TypeOK
<1>3. ClosingInv' /\ ClosedNeverCached' /\ TrafficNeverPanics'
  BY DEF ClosingInv, ClosedNeverCached, TrafficNeverPanics
<1>4. UsedInv'
  BY DEF TypeOK, UsedInv
<1>5. HeldInv'
  BY DEF TypeOK, HeldInv, Owning
<1>6. QueryInv'
  BY DEF TypeOK, QueryInv
<1>7. PoolInv'
  BY DEF TypeOK, PoolInv
<1>8. ChannelClosedOnce'
  BY DEF TypeOK, ChannelClosedOnce, Owning
<1> QED
  BY <1>2, <1>3, <1>4, <1>5, <1>6, <1>7, <1>8 DEF SafeInv

\* A waiter is released by an entry that is ready or failed.
LEMMA WaitStep ==
  ASSUME SafeInv, NEW p \in Procs, Wait(p)
  PROVE  SafeInv'
<1>1. /\ TypeOK /\ UsedInv /\ HeldInv /\ QueryInv /\ ClosingInv /\ PoolInv
      /\ ChannelClosedOnce /\ ClosedNeverCached /\ TrafficNeverPanics
  BY DEF SafeInv
<1> USE <1>1, TypeFacts DEF Wait, Proceed, Return, Goto, stmtVars, poolVars
<1>2. TypeOK'
  <2>1. pc' \in [Procs -> PCs]
    BY DEF TypeOK, PCs
  <2>2. query' \in [Procs -> Queries]
    BY DEF TypeOK
  <2>3. conn' \in [Procs -> Nat]
    BY DEF TypeOK
  <2>4. held' \in [Procs -> Entries \union {NoEntry}]
    BY DEF TypeOK
  <2> QED
    BY <2>1, <2>2, <2>3, <2>4 DEF TypeOK
<1>3. ClosingInv' /\ ClosedNeverCached' /\ TrafficNeverPanics'
  BY DEF ClosingInv, ClosedNeverCached, TrafficNeverPanics
<1>4. UsedInv'
  BY DEF TypeOK, UsedInv
<1>5. HeldInv'
  BY DEF TypeOK, HeldInv, Owning
<1>6. QueryInv'
  BY DEF TypeOK, QueryInv
<1>7. PoolInv'
  BY DEF TypeOK, PoolInv
<1>8. ChannelClosedOnce'
  BY DEF TypeOK, ChannelClosedOnce, Owning
<1> QED
  BY <1>2, <1>3, <1>4, <1>5, <1>6, <1>7, <1>8 DEF SafeInv

\* The call returns.
LEMMA UseOKStep ==
  ASSUME SafeInv, NEW p \in Procs, UseOK(p)
  PROVE  SafeInv'
<1>1. /\ TypeOK /\ UsedInv /\ HeldInv /\ QueryInv /\ ClosingInv /\ PoolInv
      /\ ChannelClosedOnce /\ ClosedNeverCached /\ TrafficNeverPanics
  BY DEF SafeInv
<1> USE <1>1, TypeFacts DEF UseOK, Return, Goto, stmtVars, poolVars
<1>2. TypeOK'
  <2>1. pc' \in [Procs -> PCs]
    BY DEF TypeOK, PCs
  <2>2. query' \in [Procs -> Queries]
    BY DEF TypeOK
  <2>3. conn' \in [Procs -> Nat]
    BY DEF TypeOK
  <2>4. held' \in [Procs -> Entries \union {NoEntry}]
    BY DEF TypeOK
  <2> QED
    BY <2>1, <2>2, <2>3, <2>4 DEF TypeOK
<1>3. ClosingInv' /\ ClosedNeverCached' /\ TrafficNeverPanics'
  BY DEF ClosingInv, ClosedNeverCached, TrafficNeverPanics
<1>4. UsedInv'
  BY DEF UsedInv
<1>5. HeldInv'
  BY DEF TypeOK, HeldInv, Owning
<1>6. QueryInv'
  BY DEF TypeOK, QueryInv
<1>7. PoolInv'
  BY DEF PoolInv
<1>8. ChannelClosedOnce'
  BY DEF ChannelClosedOnce, Owning
<1> QED
  BY <1>2, <1>3, <1>4, <1>5, <1>6, <1>7, <1>8 DEF SafeInv

\* The call fails.
LEMMA UseErrStep ==
  ASSUME SafeInv, NEW p \in Procs, UseErr(p)
  PROVE  SafeInv'
<1>1. /\ TypeOK /\ UsedInv /\ HeldInv /\ QueryInv /\ ClosingInv /\ PoolInv
      /\ ChannelClosedOnce /\ ClosedNeverCached /\ TrafficNeverPanics
  BY DEF SafeInv
<1> USE <1>1, TypeFacts DEF UseErr, Return, Goto, stmtVars, poolVars, Kinds
<1>2. TypeOK'
  <2>1. pc' \in [Procs -> PCs]
    BY DEF TypeOK, PCs
  <2>2. query' \in [Procs -> Queries]
    BY DEF TypeOK
  <2>3. conn' \in [Procs -> Nat]
    BY DEF TypeOK
  <2>4. held' \in [Procs -> Entries \union {NoEntry}]
    BY DEF TypeOK
  <2> QED
    BY <2>1, <2>2, <2>3, <2>4 DEF TypeOK
<1>3. ClosingInv' /\ ClosedNeverCached' /\ TrafficNeverPanics'
  BY DEF ClosingInv, ClosedNeverCached, TrafficNeverPanics
<1>4. UsedInv'
  BY DEF TypeOK, UsedInv
<1>5. HeldInv'
  BY DEF TypeOK, HeldInv, Owning
<1>6. QueryInv'
  BY DEF TypeOK, QueryInv
<1>7. PoolInv'
  BY DEF TypeOK, PoolInv
<1>8. ChannelClosedOnce'
  BY DEF TypeOK, ChannelClosedOnce, Owning
<1> QED
  BY <1>2, <1>3, <1>4, <1>5, <1>6, <1>7, <1>8 DEF SafeInv

\* The caller's statement is closed; it is not cached under another query.
LEMMA EvictStep ==
  ASSUME SafeInv, NEW p \in Procs, Evict(p)
  PROVE  SafeInv'
<1>1. /\ TypeOK /\ UsedInv /\ HeldInv /\ QueryInv /\ ClosingInv /\ PoolInv
      /\ ChannelClosedOnce /\ ClosedNeverCached /\ TrafficNeverPanics
  BY DEF SafeInv
<1> USE <1>1, TypeFacts DEF Evict, Return, Goto, poolVars
<1>2. TypeOK'
  <2>1. Stmts' \in [Queries -> Entries \union {NoEntry}]
    BY DEF TypeOK
  <2>2. closing' \subseteq Entries \union {NoEntry}
    BY DEF TypeOK
  <2>3. pc' \in [Procs -> PCs]
    BY DEF TypeOK, PCs
  <2>4. query' \in [Procs -> Queries]
    BY DEF TypeOK
  <2>5. conn' \in [Procs -> Nat]
    BY DEF TypeOK
  <2>6. held' \in [Procs -> Entries \union {NoEntry}]
    BY DEF TypeOK
  <2> QED
    BY <2>1, <2>2, <2>3, <2>4, <2>5, <2>6 DEF TypeOK
<1>3. UsedInv'
  BY DEF UsedInv
<1>4. HeldInv'
  BY DEF TypeOK, HeldInv, Owning
<1>5. QueryInv'
  BY DEF TypeOK, QueryInv
<1>6. ClosingInv'
  BY DEF ClosingInv, HeldInv
<1>7. PoolInv'
  BY DEF PoolInv
<1>8. ChannelClosedOnce'
  BY DEF ChannelClosedOnce, Owning
<1>9. ClosedNeverCached'
  BY DEF TypeOK, ClosedNeverCached, QueryInv
<1>10. TrafficNeverPanics'
  BY DEF TrafficNeverPanics, HeldInv
<1> QED
  BY <1>2, <1>3, <1>4, <1>5, <1>6, <1>7, <1>8, <1>9, <1>10 DEF SafeInv

\* A statement that is closed is not cached.
LEMMA CloseStmtStep ==
  ASSUME SafeInv, NEW e \in Entries, CloseStmt(e)
  PROVE  SafeInv'
<1>1. /\ TypeOK /\ UsedInv /\ HeldInv /\ QueryInv /\ ClosingInv /\ PoolInv
      /\ ChannelClosedOnce /\ ClosedNeverCached /\ TrafficNeverPanics
  BY DEF SafeInv
<1> USE <1>1, TypeFacts DEF CloseStmt, poolVars, callVars
<1>2. TypeOK'
  <2>1. open' \subseteq Entries
    BY DEF TypeOK
  <2>2. closing' \subseteq Entries \union {NoEntry}
    BY DEF TypeOK
  <2> QED
    BY <2>1, <2>2 DEF TypeOK
<1>3. QueryInv' /\ PoolInv' /\ ChannelClosedOnce'
  BY DEF QueryInv, PoolInv, ChannelClosedOnce
<1>4. UsedInv'
  BY DEF UsedInv
<1>5. HeldInv'
  BY DEF HeldInv, ClosingInv
<1>6. ClosingInv'
  BY DEF ClosingInv
<1>7. ClosedNeverCached'
  BY DEF ClosedNeverCached
<1>8. TrafficNeverPanics'
  BY DEF TrafficNeverPanics
<1> QED
  BY <1>2, <1>3, <1>4, <1>5, <1>6, <1>7, <1>8 DEF SafeInv

\* Only the sweeps of Reset and Close let a nil statement be closed.
LEMMA CloseNilStep ==
  ASSUME SafeInv, CloseNil
  PROVE  SafeInv'
<1>1. /\ TypeOK /\ UsedInv /\ HeldInv /\ QueryInv /\ ClosingInv /\ PoolInv
      /\ ChannelClosedOnce /\ ClosedNeverCached /\ TrafficNeverPanics
  BY DEF SafeInv
<1> USE <1>1, TypeFacts DEF CloseNil, stmtVars, poolVars, callVars
<1>2. TypeOK'
  <2>1. crashed' \in BOOLEAN
    OBVIOUS
  <2> QED
    BY <2>1 DEF TypeOK
<1>3. UsedInv' /\ HeldInv' /\ QueryInv' /\ ClosingInv' /\ PoolInv' /\ ChannelClosedOnce' /\ ClosedNeverCached'
  BY DEF UsedInv, HeldInv, QueryInv, ClosingInv, PoolInv, ChannelClosedOnce, ClosedNeverCached
<1>4. TrafficNeverPanics'
  BY DEF TrafficNeverPanics
<1> QED
  BY <1>2, <1>3, <1>4 DEF SafeInv

\* No entry is bound to the new pool yet.
LEMMA ReconnectOpenStep ==
  ASSUME SafeInv, ReconnectOpen
  PROVE  SafeInv'
<1>1. /\ TypeOK /\ UsedInv /\ HeldInv /\ QueryInv /\ ClosingInv /\ PoolInv
      /\ ChannelClosedOnce /\ ClosedNeverCached /\ TrafficNeverPanics
  BY DEF SafeInv
<1> USE <1>1, TypeFacts DEF ReconnectOpen, stmtVars, callVars
<1>2. TypeOK'
  <2>1. openPools' \subseteq Nat
    BY DEF TypeOK
  <2>2. rc' \in RCs
    BY DEF RCs
  <2> QED
    BY <2>1, <2>2 DEF TypeOK
<1>3. UsedInv' /\ QueryInv' /\ ClosingInv' /\ ChannelClosedOnce'
  BY DEF UsedInv, QueryInv, ClosingInv, ChannelClosedOnce
<1>4. HeldInv'
  BY DEF HeldInv, PoolInv, Owning
<1>5. PoolInv'
  BY DEF PoolInv
<1>6. ClosedNeverCached'
  BY DEF TypeOK, ClosedNeverCached, PoolInv
<1>7. TrafficNeverPanics'
  BY DEF TrafficNeverPanics
<1> QED
  BY <1>2, <1>3, <1>4, <1>5, <1>6, <1>7 DEF SafeInv

\* Every cached statement is closed and nothing stays cached.
LEMMA ResetStep ==
  ASSUME SafeInv, Reset
  PROVE  SafeInv'
<1>1. /\ TypeOK /\ UsedInv /\ HeldInv /\ QueryInv /\ ClosingInv /\ PoolInv
      /\ ChannelClosedOnce /\ ClosedNeverCached /\ TrafficNeverPanics
  BY DEF SafeInv
<1> USE <1>1, TypeFacts DEF Reset, CloseReceiver, Cached, callVars
<1>2. TypeOK'
  <2>1. Stmts' \in [Queries -> Entries \union {NoEntry}]
    OBVIOUS
  <2>2. PreparedSQL' \subseteq Queries
    OBVIOUS
  <2>3. closing' \subseteq Entries \union {NoEntry}
    BY DEF TypeOK
  <2>4. rc' \in RCs
    BY DEF RCs
  <2> QED
    BY <2>1, <2>2, <2>3, <2>4 DEF TypeOK
<1>3. HeldInv' /\ ChannelClosedOnce'
  BY DEF HeldInv, ChannelClosedOnce
<1>4. UsedInv'
  BY DEF UsedInv
<1>5. QueryInv'
  BY DEF QueryInv
<1>6. ClosingInv'
  BY DEF ClosingInv
<1>7. PoolInv'
  BY DEF PoolInv
<1>8. ClosedNeverCached'
  BY DEF ClosedNeverCached
<1>9. TrafficNeverPanics'
  BY DEF TrafficNeverPanics
<1> QED
  BY <1>2, <1>3, <1>4, <1>5, <1>6, <1>7, <1>8, <1>9 DEF SafeInv

\* Later calls use the new pool.
LEMMA RepointStep ==
  ASSUME SafeInv, Repoint
  PROVE  SafeInv'
<1>1. /\ TypeOK /\ UsedInv /\ HeldInv /\ QueryInv /\ ClosingInv /\ PoolInv
      /\ ChannelClosedOnce /\ ClosedNeverCached /\ TrafficNeverPanics
  BY DEF SafeInv
<1> USE <1>1, TypeFacts DEF Repoint, stmtVars, callVars
<1>2. TypeOK'
  <2>1. psPool' \in Nat
    OBVIOUS
  <2>2. rc' \in RCs
    BY DEF RCs
  <2> QED
    BY <2>1, <2>2 DEF TypeOK
<1>3. UsedInv' /\ HeldInv' /\ QueryInv' /\ ClosingInv' /\ ChannelClosedOnce' /\ ClosedNeverCached'
  BY DEF UsedInv, HeldInv, QueryInv, ClosingInv, ChannelClosedOnce, ClosedNeverCached
<1>4. PoolInv'
  BY DEF PoolInv
<1>5. TrafficNeverPanics'
  BY DEF TrafficNeverPanics
<1> QED
  BY <1>2, <1>3, <1>4, <1>5 DEF SafeInv

\* A closed pool takes its statements along.
LEMMA CloseOldStep ==
  ASSUME SafeInv, CloseOld
  PROVE  SafeInv'
<1>1. /\ TypeOK /\ UsedInv /\ HeldInv /\ QueryInv /\ ClosingInv /\ PoolInv
      /\ ChannelClosedOnce /\ ClosedNeverCached /\ TrafficNeverPanics
  BY DEF SafeInv
<1> USE <1>1, TypeFacts DEF CloseOld, ClosePoolOf, callVars
<1>2. TypeOK'
  <2>1. open' \subseteq Entries
    BY DEF TypeOK
  <2>2. openPools' \subseteq Nat
    BY DEF TypeOK
  <2>3. rc' \in RCs
    BY DEF RCs
  <2> QED
    BY <2>1, <2>2, <2>3 DEF TypeOK
<1>3. QueryInv' /\ ClosingInv' /\ ChannelClosedOnce'
  BY DEF QueryInv, ClosingInv, ChannelClosedOnce
<1>4. UsedInv'
  BY DEF UsedInv
<1>5. HeldInv'
  BY DEF HeldInv
<1>6. PoolInv'
  BY DEF PoolInv
<1>7. ClosedNeverCached'
  BY DEF ClosedNeverCached
<1>8. TrafficNeverPanics'
  BY DEF TrafficNeverPanics, PoolInv
<1> QED
  BY <1>2, <1>3, <1>4, <1>5, <1>6, <1>7, <1>8 DEF SafeInv

\* The swept entries are not cached under a query that stays.
LEMMA CloseCacheStep ==
  ASSUME SafeInv, CloseCache
  PROVE  SafeInv'
<1>1. /\ TypeOK /\ UsedInv /\ HeldInv /\ QueryInv /\ ClosingInv /\ PoolInv
      /\ ChannelClosedOnce /\ ClosedNeverCached /\ TrafficNeverPanics
  BY DEF SafeInv
<1> USE <1>1, TypeFacts DEF CloseCache, CloseReceiver, Cached, callVars
<1>2. TypeOK'
  <2>1. Stmts' \in [Queries -> Entries \union {NoEntry}]
    BY DEF TypeOK
  <2>2. closing' \subseteq Entries \union {NoEntry}
    BY DEF TypeOK
  <2>3. rc' \in RCs
    BY DEF RCs
  <2> QED
    BY <2>1, <2>2, <2>3 DEF TypeOK
<1>3. HeldInv' /\ ChannelClosedOnce'
  BY DEF HeldInv, ChannelClosedOnce
<1>4. UsedInv'
  BY DEF UsedInv
<1>5. QueryInv'
  BY DEF QueryInv
<1>6. ClosingInv'
  BY DEF ClosingInv
<1>7. PoolInv'
  BY DEF PoolInv
<1>8. ClosedNeverCached'
  BY DEF ClosedNeverCached, QueryInv
<1>9. TrafficNeverPanics'
  BY DEF TrafficNeverPanics
<1> QED
  BY <1>2, <1>3, <1>4, <1>5, <1>6, <1>7, <1>8, <1>9 DEF SafeInv

\* A closed pool takes its statements along.
LEMMA ClosePoolStep ==
  ASSUME SafeInv, ClosePool
  PROVE  SafeInv'
<1>1. /\ TypeOK /\ UsedInv /\ HeldInv /\ QueryInv /\ ClosingInv /\ PoolInv
      /\ ChannelClosedOnce /\ ClosedNeverCached /\ TrafficNeverPanics
  BY DEF SafeInv
<1> USE <1>1, TypeFacts DEF ClosePool, ClosePoolOf, callVars
<1>2. TypeOK'
  <2>1. open' \subseteq Entries
    BY DEF TypeOK
  <2>2. openPools' \subseteq Nat
    BY DEF TypeOK
  <2>3. rc' \in RCs
    BY DEF RCs
  <2> QED
    BY <2>1, <2>2, <2>3 DEF TypeOK
<1>3. QueryInv' /\ ClosingInv' /\ ChannelClosedOnce'
  BY DEF QueryInv, ClosingInv, ChannelClosedOnce
<1>4. UsedInv'
  BY DEF UsedInv
<1>5. HeldInv'
  BY DEF HeldInv
<1>6. PoolInv'
  BY DEF PoolInv
<1>7. ClosedNeverCached'
  BY DEF ClosedNeverCached
<1>8. TrafficNeverPanics'
  BY DEF TrafficNeverPanics
<1> QED
  BY <1>2, <1>3, <1>4, <1>5, <1>6, <1>7, <1>8 DEF SafeInv

\* Every step of the system preserves the invariant.
LEMMA NextSafe == SafeInv /\ [Next]_vars => SafeInv'
<1> SUFFICES ASSUME SafeInv, [Next]_vars PROVE SafeInv'
  OBVIOUS
<1>1. ASSUME NEW p \in Procs, Step(p) PROVE SafeInv'
  BY <1>1, LookupStep, InsertStep, PrepareOKStep, PrepareErrStep, PublishStep, UnpublishStep,
     SignalStep, WaitStep, UseOKStep, UseErrStep, EvictStep DEF Step
<1>2. ASSUME UNCHANGED vars PROVE SafeInv'
  <2>1. UNCHANGED <<stmtVars, poolVars, callVars, crashed>>
    BY <1>2 DEF vars
  <2>2. TypeOK' /\ UsedInv' /\ HeldInv'
    BY <2>1 DEF SafeInv, TypeOK, UsedInv, HeldInv, stmtVars, poolVars, callVars
  <2>3. QueryInv' /\ ClosingInv' /\ PoolInv'
    BY <2>1 DEF SafeInv, QueryInv, ClosingInv, PoolInv, stmtVars, poolVars, callVars
  <2>4. ChannelClosedOnce' /\ ClosedNeverCached' /\ TrafficNeverPanics'
    BY <2>1 DEF SafeInv, ChannelClosedOnce, ClosedNeverCached, TrafficNeverPanics,
                stmtVars, poolVars, callVars
  <2> QED
    BY <2>2, <2>3, <2>4 DEF SafeInv
<1>3. ASSUME NEW p \in Procs, DirectExec(p) PROVE SafeInv'
  BY <1>2, <1>3 DEF DirectExec
<1>4. ASSUME Admin PROVE SafeInv'
  BY <1>4, ReconnectOpenStep, ResetStep, RepointStep, CloseOldStep, CloseCacheStep,
     ClosePoolStep DEF Admin
<1>5. ASSUME Crashed PROVE SafeInv'
  BY <1>2, <1>5 DEF Crashed
<1> QED
  BY <1>1, <1>2, <1>3, <1>4, <1>5, StartCallStep, CloseStmtStep, CloseNilStep DEF Next

LEMMA SpecSafe == Spec => []SafeInv
  BY InitSafe, NextSafe, PTL DEF Spec

-----------------------------------------------------------------------------
\* Every variable keeps its type: a channel is closed only when its entry is
\* ready or failed, whoever prepares, evicts or sweeps it.
THEOREM TypeCorrect == Spec => []TypeOK
<1>1. SafeInv => TypeOK
  BY DEF SafeInv
<1> QED
  BY <1>1, SpecSafe, PTL

\* The deferred close of a `prepared` channel never meets a closed channel.
THEOREM NoDoubleClose == Spec => []ChannelClosedOnce
<1>1. SafeInv => ChannelClosedOnce
  BY DEF SafeInv
<1> QED
  BY <1>1, SpecSafe, PTL

\* prepare never hands out an unfinished or failed entry.
THEOREM OnlyReadyUsed == Spec => []UsesReadyStmt
<1>1. SafeInv => UsesReadyStmt
  BY DEF SafeInv, HeldInv, UsesReadyStmt, Owning
<1> QED
  BY <1>1, SpecSafe, PTL

\* No statement that was given to `go stmt.Close()` is found in the cache.
THEOREM ClosedStaysOut == Spec => []ClosedNeverCached
<1>1. SafeInv => ClosedNeverCached
  BY DEF SafeInv
<1> QED
  BY <1>1, SpecSafe, PTL

\* Without Reconnect and close, no interleaving of calls closes a nil statement.
THEOREM TrafficSafe == Spec => []TrafficNeverPanics
<1>1. SafeInv => TrafficNeverPanics
  BY DEF SafeInv
<1> QED
  BY <1>1, SpecSafe, PTL

-----------------------------------------------------------------------------
(***************************************************************************)
(* The cache limit.  Goroutines past the cacheFull check count as entries, *)
(* so that Insert moves a unit from one set to the other.                  *)
(***************************************************************************)

\* Both sets are finite, and Procs has at least one member.
LEMMA CacheFinite ==
  /\ IsFiniteSet(Cached) /\ IsFiniteSet(Inserting)
  /\ Cardinality(Cached) \in Nat /\ Cardinality(Inserting) \in Nat
  /\ Cardinality(Inserting) <= Cardinality(Procs)
  /\ Cardinality(Procs) \in Nat \ {0}
<1>1. Cached \subseteq Queries /\ Inserting \subseteq Procs
  BY DEF Cached, Inserting
<1>2. IsFiniteSet(Cached) /\ Cardinality(Cached) \in Nat
  BY <1>1, ConstantsAssumption, FS_Subset, FS_CardinalityType
<1>3. /\ IsFiniteSet(Inserting) /\ Cardinality(Inserting) \in Nat
      /\ Cardinality(Inserting) <= Cardinality(Procs)
  BY <1>1, ConstantsAssumption, FS_Subset, FS_CardinalityType
<1>4. Cardinality(Procs) \in Nat \ {0}
  BY ConstantsAssumption, FS_CardinalityType, FS_EmptySet
<1> QED
  BY <1>2, <1>3, <1>4

\* A step that adds to neither set keeps the bound.
LEMMA NoGrowth ==
  ASSUME CacheBound, Cached' \subseteq Cached, Inserting' \subseteq Inserting
  PROVE  CacheBound'
<1>1. /\ Cardinality(Cached') \in Nat /\ Cardinality(Cached') <= Cardinality(Cached)
      /\ Cardinality(Inserting') \in Nat /\ Cardinality(Inserting') <= Cardinality(Inserting)
  BY CacheFinite, FS_Subset, FS_CardinalityType
<1>2. maxPreparedStmts + Cardinality(Procs) - 1 \in Nat
  BY CacheFinite, ConstantsAssumption
<1> QED
  BY <1>1, <1>2, CacheFinite DEF CacheBound

\* The check leaves room for an entry, and every other goroutine may be past it.
LEMMA StartCallBounded ==
  ASSUME TypeOK, NEW p \in Procs, StartCall(p)
  PROVE  CacheBound'
<1>1. Cardinality(Cached) < maxPreparedStmts
  <2>1. ~cacheFull
    BY DEF StartCall, Degrades
  <2> QED
    BY <2>1, CacheFinite, ConstantsAssumption DEF cacheFull
<1>2. Cached' = Cached
  BY DEF StartCall, stmtVars, Cached
<1>3. /\ Cardinality(Inserting') \in Nat
      /\ Cardinality(Inserting') <= Cardinality(Procs)
  <2>1. Inserting' \subseteq Procs
    BY DEF Inserting
  <2> QED
    BY <2>1, ConstantsAssumption, FS_Subset, FS_CardinalityType
<1> QED
  BY <1>1, <1>2, <1>3, CacheFinite, ConstantsAssumption DEF CacheBound

\* A placeholder takes the place that its goroutine counted for.
LEMMA InsertBounded ==
  ASSUME TypeOK, CacheBound, NEW p \in Procs, Insert(p)
  PROVE  CacheBound'
<1>1. CASE Stmts[query[p]] # NoEntry
  <2>1. AwaitEntry(p) /\ UNCHANGED stmtVars
    BY <1>1 DEF Insert
  <2>2. Cached' = Cached
    BY <2>1 DEF stmtVars, Cached
  <2>3. Inserting' \subseteq Inserting
    BY <2>1 DEF AwaitEntry, Goto, TypeOK, Inserting
  <2> QED
    BY <2>2, <2>3, NoGrowth
<1>2. CASE Stmts[query[p]] = NoEntry
  <2>1. AllocEntry(p) /\ pc[p] = "insert" /\ query[p] \in Queries
    BY <1>2 DEF Insert, TypeOK
  <2>2. Cached' = Cached \union {query[p]}
    BY <2>1 DEF AllocEntry, Cached, TypeOK, Entries, NoEntry
  <2>3. Inserting' = Inserting \ {p} /\ p \in Inserting
    BY <2>1 DEF AllocEntry, Goto, Inserting, TypeOK
  <2>4. query[p] \notin Cached
    BY <1>2 DEF Cached
  <2>5. Cardinality(Cached') = Cardinality(Cached) + 1
    BY <2>2, <2>4, CacheFinite, FS_AddElement
  <2>6. Cardinality(Inserting') = Cardinality(Inserting) - 1
    BY <2>3, CacheFinite, FS_RemoveElement
  <2>7. maxPreparedStmts + Cardinality(Procs) - 1 \in Nat
    BY CacheFinite, ConstantsAssumption
  <2> QED
    BY <2>5, <2>6, <2>7, CacheFinite DEF CacheBound
<1> QED
  BY <1>1, <1>2

\* No other step of a call inserts an entry or passes the check.
LEMMA StepBounded ==
  ASSUME TypeOK, CacheBound, NEW p \in Procs, Step(p)
  PROVE  CacheBound'
<1>1. CASE Lookup(p)
  BY <1>1, NoGrowth DEF Lookup, AwaitEntry, Goto, stmtVars, Cached, Inserting, TypeOK
<1>2. CASE Insert(p)
  BY <1>2, InsertBounded
<1>3. CASE PrepareOK(p) \/ PrepareErr(p) \/ Publish(p)
  BY <1>3, NoGrowth DEF PrepareOK, PrepareErr, Publish, Goto, Cached, Inserting, TypeOK
<1>4. CASE Unpublish(p)
  BY <1>4, NoGrowth DEF Unpublish, Goto, Cached, Inserting, TypeOK
<1>5. CASE Signal(p)
  BY <1>5, NoGrowth DEF Signal, Proceed, Return, Goto, Cached, Inserting, TypeOK
<1>6. CASE Wait(p)
  BY <1>6, NoGrowth DEF Wait, Proceed, Return, Goto, stmtVars, Cached, Inserting, TypeOK
<1>7. CASE UseOK(p) \/ UseErr(p)
  BY <1>7, NoGrowth DEF UseOK, UseErr, Return, Goto, stmtVars, Cached, Inserting, TypeOK
<1>8. CASE Evict(p)
  BY <1>8, NoGrowth DEF Evict, Return, Goto, Cached, Inserting, TypeOK
<1> QED
  BY <1>1, <1>2, <1>3, <1>4, <1>5, <1>6, <1>7, <1>8 DEF Step

\* The sweeps only remove entries.
LEMMA AdminBounded ==
  ASSUME TypeOK, CacheBound, Admin
  PROVE  CacheBound'
<1>1. Inserting' = Inserting
  BY DEF Admin, ReconnectOpen, Reset, Repoint, CloseOld, CloseCache, ClosePool, callVars, Inserting
<1>2. CASE ReconnectOpen \/ Repoint \/ CloseOld \/ ClosePool
  BY <1>1, <1>2, NoGrowth DEF ReconnectOpen, Repoint, CloseOld, ClosePool, stmtVars, Cached
<1>3. CASE Reset \/ CloseCache
  BY <1>1, <1>3, NoGrowth DEF Reset, CloseCache, Cached
<1> QED
  BY <1>2, <1>3 DEF Admin

\* The check-then-insert race overshoots the limit by at most one entry for
\* each other goroutine, whatever their number and the limit.
THEOREM CacheLimited == Spec => []CacheBound
<1>1. Init => CacheBound
  <2> SUFFICES ASSUME Init PROVE CacheBound
    OBVIOUS
  <2>1. Cached = {} /\ Inserting = {}
    BY DEF Init, Cached, Inserting
  <2> QED
    BY <2>1, CacheFinite, FS_EmptySet, ConstantsAssumption DEF CacheBound
<1>2. TypeOK /\ CacheBound /\ [Next]_vars => CacheBound'
  <2> SUFFICES ASSUME TypeOK, CacheBound, [Next]_vars PROVE CacheBound'
    OBVIOUS
  <2>1. ASSUME UNCHANGED <<Stmts, pc>> PROVE CacheBound'
    BY <2>1, NoGrowth DEF Cached, Inserting
  <2>2. CASE UNCHANGED vars \/ CloseNil \/ (\E e \in Entries : CloseStmt(e)) \/ Crashed
    BY <2>1, <2>2 DEF vars, stmtVars, callVars, CloseNil, CloseStmt, Crashed
  <2>3. CASE \E p \in Procs : DirectExec(p)
    BY <2>1, <2>3 DEF DirectExec, vars, stmtVars, callVars
  <2> QED
    BY <2>2, <2>3, StartCallBounded, StepBounded, AdminBounded DEF Next
<1> QED
  BY <1>1, <1>2, TypeCorrect, PTL DEF Spec

-----------------------------------------------------------------------------
(***************************************************************************)
(* Those who wait.  CallReturns is a matter of fairness, but that there is *)
(* always somebody to wait for, and that what is read after the wait does  *)
(* not change any more, is not.                                            *)
(***************************************************************************)

\* Every entry whose channel is open has a goroutine on its way to close it.
Owns(p, e) == pc[p] \in Owning /\ held[p] = e
Owned(e) == \E p \in Procs : Owns(p, e)
OwnedInv == \A e \in Entries : e <= used /\ e \notin prepared => Owned(e)

\* Owners that stay owners.
LEMMA OwnersStay ==
  ASSUME OwnedInv, used' = used, prepared \subseteq prepared',
         \A p \in Procs : pc[p] \in Owning => pc'[p] \in Owning /\ held'[p] = held[p]
  PROVE  OwnedInv'
<1> SUFFICES ASSUME NEW e \in Entries, e <= used, e \notin prepared' PROVE Owned(e)'
  BY DEF OwnedInv
<1>1. PICK p \in Procs : Owns(p, e)
  BY DEF OwnedInv, Owned
<1>2. Owns(p, e)'
  BY <1>1 DEF Owns
<1> QED
  BY <1>2 DEF Owned

\* The goroutine that allocates an entry owns it.
LEMMA AllocOwned ==
  ASSUME SafeInv, OwnedInv, NEW p \in Procs, pc[p] \notin Owning, AllocEntry(p)
  PROVE  OwnedInv'
<1> SUFFICES ASSUME NEW e \in Entries, e <= used', e \notin prepared' PROVE Owned(e)'
  BY DEF OwnedInv
<1>1. TypeOK /\ used \in Nat /\ e \in Nat
  BY TypeFacts DEF SafeInv
<1>2. CASE e = used + 1
  <2>1. Owns(p, e)'
    BY <1>1, <1>2 DEF AllocEntry, Goto, Owns, Owning, TypeOK
  <2> QED
    BY <2>1 DEF Owned
<1>3. CASE e # used + 1
  <2>1. e <= used /\ e \notin prepared
    BY <1>1, <1>3 DEF AllocEntry
  <2>2. PICK r \in Procs : Owns(r, e)
    BY <2>1 DEF OwnedInv, Owned
  <2>3. Owns(r, e)'
    BY <1>1, <2>2 DEF AllocEntry, Goto, Owns, TypeOK
  <2> QED
    BY <2>3 DEF Owned
<1> QED
  BY <1>2, <1>3

\* An owner leaves only when its entry's channel is closed.
LEMMA SignalOwned ==
  ASSUME SafeInv, OwnedInv, NEW p \in Procs, Signal(p)
  PROVE  OwnedInv'
<1> SUFFICES ASSUME NEW e \in Entries, e <= used', e \notin prepared' PROVE Owned(e)'
  BY DEF OwnedInv
<1>1. e <= used /\ e \notin prepared /\ e # held[p]
  BY DEF Signal
<1>2. PICK r \in Procs : Owns(r, e)
  BY <1>1 DEF OwnedInv, Owned
<1>3. Owns(r, e)'
  BY <1>1, <1>2 DEF SafeInv, TypeOK, Signal, Proceed, Goto, Return, Owns
<1> QED
  BY <1>3 DEF Owned

\* Every other step leaves the owners where they are.
LEMMA NextOwned == SafeInv /\ OwnedInv /\ [Next]_vars => OwnedInv'
<1> SUFFICES ASSUME SafeInv, OwnedInv, [Next]_vars PROVE OwnedInv'
  OBVIOUS
<1>0. pc \in [Procs -> PCs] /\ held \in [Procs -> Entries \union {NoEntry}]
  BY DEF SafeInv, TypeOK
<1>1. ASSUME UNCHANGED <<stmtVars, callVars>> PROVE OwnedInv'
  BY <1>1, OwnersStay DEF stmtVars, callVars
<1>2. ASSUME NEW p \in Procs, Step(p) PROVE OwnedInv'
  <2>1. CASE Insert(p)
    <3>1. CASE Stmts[query[p]] = NoEntry
      BY <2>1, <3>1, AllocOwned DEF Insert, Owning
    <3>2. CASE Stmts[query[p]] # NoEntry
      BY <1>0, <2>1, <3>2, OwnersStay DEF Insert, AwaitEntry, Goto, Owning, stmtVars
    <3> QED
      BY <3>1, <3>2
  <2>2. CASE Signal(p)
    BY <2>2, SignalOwned
  <2>3. CASE PrepareOK(p) \/ PrepareErr(p) \/ Publish(p) \/ Unpublish(p)
    BY <1>0, <2>3, OwnersStay DEF PrepareOK, PrepareErr, Publish, Unpublish, Goto, Owning
  <2>4. CASE Lookup(p) \/ Wait(p)
    BY <1>0, <2>4, OwnersStay DEF Lookup, AwaitEntry, Wait, Proceed, Goto, Return, Owning, stmtVars
  <2>5. CASE UseOK(p) \/ UseErr(p) \/ Evict(p)
    BY <1>0, <2>5, OwnersStay DEF UseOK, UseErr, Evict, Goto, Return, Owning, stmtVars
  <2> QED
    BY <1>2, <2>1, <2>2, <2>3, <2>4, <2>5 DEF Step
<1>3. ASSUME NEW p \in Procs, StartCall(p) PROVE OwnedInv'
  BY <1>0, <1>3, OwnersStay DEF StartCall, Goto, Owning, stmtVars
<1>4. ASSUME NEW e \in Entries, CloseStmt(e) PROVE OwnedInv'
  BY <1>4, OwnersStay DEF CloseStmt, callVars
<1>5. ASSUME Admin PROVE OwnedInv'
  BY <1>5, OwnersStay DEF Admin, ReconnectOpen, Reset, Repoint, CloseOld, CloseCache, ClosePool,
     ClosePoolOf, stmtVars, callVars
<1>6. ASSUME UNCHANGED vars \/ CloseNil \/ Crashed \/ \E p \in Procs : DirectExec(p) PROVE OwnedInv'
  BY <1>1, <1>6 DEF vars, CloseNil, Crashed, DirectExec
<1> QED
  BY <1>2, <1>3, <1>4, <1>5, <1>6 DEF Next

\* Nobody waits for a channel in vain: as long as it is open, a goroutine
\* between placeholder and deferred close owns the entry, even if it was
\* evicted, reset or replaced in the meantime.
THEOREM WaitersHaveOwner ==
  Spec => [](\A p \in Procs : pc[p] = "wait" /\ held[p] \notin prepared => Owned(held[p]))
<1>1. Init => OwnedInv
  BY TypeFacts, InitSafe DEF Init, OwnedInv, SafeInv, Entries
<1>2. SafeInv /\ OwnedInv => \A p \in Procs : pc[p] = "wait" /\ held[p] \notin prepared => Owned(held[p])
  BY DEF SafeInv, UsedInv, HeldInv, OwnedInv
<1> QED
  BY <1>1, <1>2, NextOwned, SpecSafe, PTL DEF Spec

\* An entry is settled when its channel is closed.
EntriesSettled ==
  [][\A e \in prepared : e \in prepared' /\ phase'[e] = phase[e] /\ pool'[e] = pool[e]]_vars

\* What waiters read of an entry without the lock, after `<-stmt.prepared`, is not
\* written any more, and its channel stays closed.
THEOREM EntriesSettle == Spec => EntriesSettled
<1>1. SafeInv /\ [Next]_vars =>
        [\A e \in prepared : e \in prepared' /\ phase'[e] = phase[e] /\ pool'[e] = pool[e]]_vars
  <2> SUFFICES ASSUME SafeInv, Next, NEW e \in prepared
               PROVE  e \in prepared' /\ phase'[e] = phase[e] /\ pool'[e] = pool[e]
    OBVIOUS
  <2>0. /\ TypeOK /\ UsedInv /\ HeldInv /\ ChannelClosedOnce
        /\ e \in Entries /\ e \in Nat /\ used \in Nat
    BY TypeFacts DEF SafeInv, TypeOK
  <2>1. ASSUME UNCHANGED <<phase, pool, prepared>>
        PROVE  e \in prepared' /\ phase'[e] = phase[e] /\ pool'[e] = pool[e]
    BY <2>1
  <2>2. ASSUME NEW p \in Procs, Step(p)
        PROVE  e \in prepared' /\ phase'[e] = phase[e] /\ pool'[e] = pool[e]
    <3>1. CASE Insert(p)
      <4>1. e # used + 1
        BY <2>0 DEF UsedInv
      <4> QED
        BY <2>0, <3>1, <4>1 DEF Insert, AllocEntry, TypeOK, stmtVars
    <3>2. CASE PrepareErr(p) \/ Publish(p)
      <4>1. e # held[p]
        BY <2>0, <3>2 DEF PrepareErr, Publish, ChannelClosedOnce, Owning
      <4> QED
        BY <2>0, <3>2, <4>1 DEF PrepareErr, Publish, TypeOK
    <3>3. CASE Signal(p)
      BY <3>3 DEF Signal
    <3> QED
      BY <2>1, <2>2, <3>1, <3>2, <3>3 DEF Step, Lookup, PrepareOK, Unpublish, Wait, UseOK, UseErr, Evict, stmtVars
  <2>3. ASSUME Admin PROVE UNCHANGED <<phase, pool, prepared>>
    BY <2>3 DEF Admin, ReconnectOpen, Reset, Repoint, CloseOld, CloseCache, ClosePool, stmtVars
  <2> QED
    BY <2>1, <2>2, <2>3 DEF Next, StartCall, DirectExec, CloseStmt, CloseNil, Crashed, vars, stmtVars
<1> QED
  BY <1>1, SpecSafe, PTL DEF Spec, EntriesSettled
-----------------------------------------------------------------------------
(***************************************************************************)
(* The cache hands out promises: every step is one of Promises, or changes *)
(* neither what the entries are to their users nor where these are.        *)
(***************************************************************************)

\* The stages, place by place.
LEMMA Stages ==
  /\ \A l \in {"idle", "lookup", "insert"} : StageAt(l) = "free"
  /\ \A l \in Owning : StageAt(l) = "making"
  /\ StageAt("wait") = "waiting"
  /\ \A l \in {"use", "evict"} : StageAt(l) = "using"
  BY DEF StageAt, Owning

\* A goroutine that moves on changes its own stage alone.
LEMMA StageMoves ==
  ASSUME TypeOK, NEW p \in Procs, NEW l \in PCs, pc' = [pc EXCEPT ![p] = l]
  PROVE  /\ Stage' = [Stage EXCEPT ![p] = StageAt(l)]
         /\ StageAt(l) = StageAt(pc[p]) => Stage' = Stage
<1>1. /\ pc \in [Procs -> PCs]
      /\ Stage \in [Procs -> {StageAt(k) : k \in PCs}]
      /\ \A q \in Procs : Stage[q] = StageAt(pc[q]) /\ Stage'[q] = StageAt(pc'[q])
      /\ Stage' = [q \in Procs |-> StageAt(pc'[q])]
  BY DEF TypeOK, Stage
<1>2. Stage' = [Stage EXCEPT ![p] = StageAt(l)]
  BY <1>1 DEF Stage
<1>3. StageAt(l) = StageAt(pc[p]) => [Stage EXCEPT ![p] = StageAt(l)] = Stage
  BY <1>1
<1> QED
  BY <1>2, <1>3

\* A goroutine whose call returns is free.
LEMMA ReturnFrees ==
  ASSUME TypeOK, NEW p \in Procs, Return(p)
  PROVE  held' = [held EXCEPT ![p] = NoEntry] /\ Stage' = [Stage EXCEPT ![p] = "free"]
<1>1. /\ pc' = [pc EXCEPT ![p] = "idle"] /\ held' = [held EXCEPT ![p] = NoEntry]
      /\ "idle" \in PCs /\ StageAt("idle") = "free"
  BY Stages DEF Return, Goto, PCs
<1> QED
  BY <1>1, StageMoves

\* Outcomes change only with an allocation or with a channel that is closed.
LEMMA OutcomesKept ==
  ASSUME UNCHANGED <<used, prepared>>,
         \A e \in prepared \cap Entries : phase'[e] = phase[e]
  PROVE  Outcome' = Outcome
<1>1. ASSUME NEW e \in Entries PROVE OutcomeOf(e)' = OutcomeOf(e)
  BY <1>1 DEF OutcomeOf
<1> QED
  BY <1>1 DEF Outcome

\* An allocation makes the promise.
LEMMA AllocPromises ==
  ASSUME SafeInv, NEW p \in Procs, pc[p] = "insert", AllocEntry(p)
  PROVE  Promise!Make(p, used + 1)
<1> DEFINE e == used + 1
<1>1. /\ TypeOK /\ UsedInv /\ HeldInv
      /\ e \in Entries /\ e \in Nat /\ used \in Nat
      /\ \A d \in Entries : d \in Nat
  BY TypeFacts DEF SafeInv, AllocEntry
<1>2. Stage[p] = "free" /\ Outcome[e] = "none"
  BY <1>1, Stages DEF Stage, Outcome, OutcomeOf
<1>3. Outcome' = [Outcome EXCEPT ![e] = "pending"]
  <2>1. used' = e /\ prepared' = prepared /\ e \notin prepared
    BY <1>1 DEF AllocEntry, UsedInv
  <2>2. ASSUME NEW d \in Entries
        PROVE  OutcomeOf(d)' = IF d = e THEN "pending" ELSE OutcomeOf(d)
    <3>1. CASE d = e
      BY <1>1, <2>1, <3>1 DEF OutcomeOf
    <3>2. CASE d # e
      <4>1. phase'[d] = phase[d] /\ (d > used' <=> d > used)
        BY <1>1, <2>1, <3>2 DEF AllocEntry, TypeOK
      <4> QED
        BY <2>1, <3>2, <4>1 DEF OutcomeOf
    <3> QED
      BY <3>1, <3>2
  <2> HIDE DEF e
  <2>3. Outcome' = [d \in Entries |-> OutcomeOf(d)']
    BY DEF Outcome
  <2>4. [Outcome EXCEPT ![e] = "pending"] = [d \in Entries |-> IF d = e THEN "pending" ELSE OutcomeOf(d)]
    BY DEF Outcome
  <2> QED
    BY <2>2, <2>3, <2>4
<1>4. Stage' = [Stage EXCEPT ![p] = "making"]
  <2>1. pc' = [pc EXCEPT ![p] = "prepare"] /\ "prepare" \in PCs /\ StageAt("prepare") = "making"
    BY Stages DEF AllocEntry, Goto, PCs, Owning
  <2> QED
    BY <1>1, <2>1, StageMoves
<1>5. held' = [held EXCEPT ![p] = e]
  BY DEF AllocEntry
<1> QED
  BY <1>2, <1>3, <1>4, <1>5 DEF Promise!Make, Promise!Now

\* Closing the channel settles the promise, for the goroutine that does as well.
LEMMA SignalSettles ==
  ASSUME SafeInv, NEW p \in Procs, Signal(p)
  PROVE  Promise!Settle(p)
<1> DEFINE e == held[p]
           result == IF phase[e] = "ready" THEN "ok" ELSE "error"
<1>1. /\ TypeOK /\ UsedInv /\ HeldInv /\ ChannelClosedOnce
      /\ pc[p] = "signal" /\ pc[p] \in Owning
      /\ e \in Entries /\ e \in Nat /\ used \in Nat /\ e <= used
      /\ e \notin prepared /\ phase[e] \in {"ready", "failed"}
  BY TypeFacts DEF SafeInv, Signal, HeldInv, UsedInv, ChannelClosedOnce, Owning
<1>2. Stage[p] = "making" /\ Outcome[e] = "pending"
  BY <1>1, Stages DEF Stage, Outcome, OutcomeOf
<1>3. Outcome' = [Outcome EXCEPT ![e] = result]
  <2>1. ASSUME NEW d \in Entries
        PROVE  OutcomeOf(d)' = IF d = e THEN result ELSE OutcomeOf(d)
    <3>1. used' = used /\ phase' = phase /\ prepared' = prepared \union {e}
      BY DEF Signal
    <3> QED
      BY <1>1, <3>1 DEF OutcomeOf
  <2> HIDE DEF e, result
  <2>2. Outcome' = [d \in Entries |-> OutcomeOf(d)']
    BY DEF Outcome
  <2>3. [Outcome EXCEPT ![e] = result] = [d \in Entries |-> IF d = e THEN result ELSE OutcomeOf(d)]
    BY DEF Outcome
  <2> QED
    BY <2>1, <2>2, <2>3
<1>4. Promise!Accept(p, result)
  <2>1. CASE phase[e] = "failed"
    <3>1. Return(p)
      BY <2>1 DEF Signal, Proceed
    <3>2. held' = [held EXCEPT ![p] = NoEntry] /\ Stage' = [Stage EXCEPT ![p] = "free"]
      BY <1>1, <3>1, ReturnFrees
    <3> QED
      BY <2>1, <3>2 DEF Promise!Accept, Promise!Now
  <2>2. CASE phase[e] = "ready"
    <3>1. /\ pc' = [pc EXCEPT ![p] = "use"] /\ held' = held
          /\ "use" \in PCs /\ StageAt("use") = "using"
      BY <2>2, Stages DEF Signal, Proceed, Goto, PCs
    <3>2. Stage' = [Stage EXCEPT ![p] = "using"]
      BY <1>1, <3>1, StageMoves
    <3>3. held' = [held EXCEPT ![p] = e]
      BY <1>1, <3>1 DEF TypeOK
    <3> QED
      BY <2>2, <3>2, <3>3 DEF Promise!Accept, Promise!Now
  <2> QED
    BY <1>1, <2>1, <2>2
<1>5. result \in {"ok", "error"}
  OBVIOUS
<1> HIDE DEF e, result
<1>6. Outcome' = [Outcome EXCEPT ![held[p]] = result] /\ Outcome[held[p]] = "pending"
  BY <1>2, <1>3 DEF e
<1> QED
  BY <1>2, <1>4, <1>5, <1>6 DEF Promise!Settle

\* Whoever finds the entry, in the lookup or in the double check, waits for a
\* promise that has been made.
LEMMA HitAwaits ==
  ASSUME SafeInv, NEW p \in Procs, pc[p] \in {"lookup", "insert"},
         Stmts[query[p]] # NoEntry, AwaitEntry(p), UNCHANGED stmtVars
  PROVE  \E e \in Entries : Promise!Await(p, e)
<1> DEFINE e == Stmts[query[p]]
<1>1. /\ TypeOK /\ UsedInv /\ query[p] \in Queries
      /\ e \in Entries /\ e \in Nat /\ used \in Nat /\ e <= used
  BY TypeFacts DEF SafeInv, UsedInv, TypeOK
<1>2. Outcome[e] # "none"
  BY <1>1 DEF Outcome, OutcomeOf
<1>3. Stage[p] = "free" /\ Stage' = [Stage EXCEPT ![p] = "waiting"]
  <2>1. /\ pc' = [pc EXCEPT ![p] = "wait"]
        /\ "wait" \in PCs /\ StageAt("wait") = "waiting" /\ StageAt(pc[p]) = "free"
    BY Stages DEF AwaitEntry, Goto, PCs
  <2> QED
    BY <1>1, <2>1, StageMoves DEF Stage
<1>4. held' = [held EXCEPT ![p] = e]
  BY DEF AwaitEntry
<1>5. Outcome' = Outcome
  BY OutcomesKept DEF stmtVars
<1> HIDE DEF e
<1>6. Promise!Await(p, e)
  BY <1>2, <1>3, <1>4, <1>5 DEF Promise!Await, Promise!Now
<1> QED
  BY <1>1, <1>6

\* Past the channel, a waiter accepts the outcome of the entry.
LEMMA WaitReceives ==
  ASSUME SafeInv, NEW p \in Procs, Wait(p)
  PROVE  Promise!Receive(p)
<1>1. /\ TypeOK /\ pc[p] = "wait" /\ Stage[p] = "waiting"
      /\ held[p] \in Entries /\ held[p] \in Nat /\ used \in Nat /\ held[p] <= used
      /\ held[p] \in prepared /\ phase[held[p]] \in {"ready", "failed"}
  BY TypeFacts, Stages DEF SafeInv, Wait, HeldInv, UsedInv, TypeOK, Stage
<1>2. Outcome[held[p]] = IF phase[held[p]] = "ready" THEN "ok" ELSE "error"
  BY <1>1 DEF Outcome, OutcomeOf
<1>3. Outcome' = Outcome
  BY OutcomesKept DEF Wait, stmtVars
<1>4. Promise!Accept(p, Outcome[held[p]])
  <2>1. CASE phase[held[p]] = "failed"
    <3>1. held' = [held EXCEPT ![p] = NoEntry] /\ Stage' = [Stage EXCEPT ![p] = "free"]
      BY <1>1, <2>1, ReturnFrees DEF Wait, Proceed
    <3> QED
      BY <1>2, <2>1, <3>1 DEF Promise!Accept, Promise!Now
  <2>2. CASE phase[held[p]] = "ready"
    <3>1. /\ pc' = [pc EXCEPT ![p] = "use"] /\ held' = held
          /\ "use" \in PCs /\ StageAt("use") = "using"
      BY <2>2, Stages DEF Wait, Proceed, Goto, PCs
    <3>2. Stage' = [Stage EXCEPT ![p] = "using"]
      BY <1>1, <3>1, StageMoves
    <3>3. held' = [held EXCEPT ![p] = held[p]]
      BY <1>1, <3>1 DEF TypeOK
    <3> QED
      BY <1>2, <2>2, <3>2, <3>3 DEF Promise!Accept, Promise!Now
  <2> QED
    BY <1>1, <2>1, <2>2
<1> QED
  BY <1>1, <1>3, <1>4 DEF Promise!Receive

\* A call that has used its statement, or evicts it, leaves.
LEMMA UserLeaves ==
  ASSUME SafeInv, NEW p \in Procs, pc[p] \in {"use", "evict"}, Return(p),
         UNCHANGED <<used, phase, prepared>>
  PROVE  Promise!Leave(p)
<1>1. Stage[p] = "using"
  BY Stages DEF Stage
<1>2. held' = [held EXCEPT ![p] = NoEntry] /\ Stage' = [Stage EXCEPT ![p] = "free"]
  BY ReturnFrees DEF SafeInv
<1>3. Outcome' = Outcome
  BY OutcomesKept
<1> QED
  BY <1>1, <1>2, <1>3 DEF Promise!Leave, Promise!Now

\* A move within a stage, that settles nothing, is not seen by the users.
LEMMA StageKept ==
  ASSUME SafeInv, NEW p \in Procs, NEW l \in PCs, Goto(p, l), StageAt(l) = StageAt(pc[p]),
         UNCHANGED <<used, prepared, held>>,
         \A e \in prepared \cap Entries : phase'[e] = phase[e]
  PROVE  UNCHANGED Promise!vars
<1>1. Stage' = Stage
  BY StageMoves DEF SafeInv, Goto
<1>2. Outcome' = Outcome
  BY OutcomesKept
<1> QED
  BY <1>1, <1>2 DEF Promise!vars

\* The steps of the goroutine that prepares, up to the close of the channel,
\* and a lookup that finds nothing.
LEMMA QuietSteps ==
  ASSUME SafeInv, NEW p \in Procs,
         \/ StartCall(p) \/ PrepareOK(p) \/ PrepareErr(p) \/ Publish(p) \/ Unpublish(p)
         \/ Lookup(p) /\ Stmts[query[p]] = NoEntry
         \/ UseErr(p) /\ ~Return(p)
  PROVE  UNCHANGED Promise!vars
<1>1. /\ TypeOK /\ HeldInv /\ ChannelClosedOnce
      /\ PCs = {"idle", "lookup", "insert", "wait", "use", "evict"} \union Owning
      /\ Owning = {"prepare", "publish", "unpublish", "signal"}
  BY DEF SafeInv, PCs, Owning
<1>2. ASSUME NEW l \in PCs, Goto(p, l), StageAt(l) = StageAt(pc[p]), UNCHANGED <<used, prepared, held>>,
             \/ phase' = phase
             \/ pc[p] \in Owning /\ \E f \in Phases : phase' = [phase EXCEPT ![held[p]] = f]
      PROVE  UNCHANGED Promise!vars
  <2>1. ASSUME NEW e \in prepared \cap Entries PROVE phase'[e] = phase[e]
    BY <1>1, <1>2 DEF ChannelClosedOnce, TypeOK
  <2> QED
    BY <1>2, <2>1, StageKept
<1>3. CASE StartCall(p)
  <2>1. "lookup" \in PCs /\ Goto(p, "lookup") /\ StageAt("lookup") = StageAt(pc[p])
    BY <1>1, <1>3, Stages DEF StartCall
  <2> QED
    BY <1>2, <1>3, <2>1 DEF StartCall, stmtVars
<1>4. CASE Lookup(p) /\ Stmts[query[p]] = NoEntry
  <2>1. "insert" \in PCs /\ Goto(p, "insert") /\ StageAt("insert") = StageAt(pc[p]) /\ UNCHANGED held
    BY <1>1, <1>4, Stages DEF Lookup
  <2> QED
    BY <1>2, <1>4, <2>1 DEF Lookup, stmtVars
<1>5. CASE PrepareOK(p)
  <2>1. "publish" \in PCs /\ Goto(p, "publish") /\ StageAt("publish") = StageAt(pc[p])
    BY <1>1, <1>5, Stages DEF PrepareOK
  <2> QED
    BY <1>2, <1>5, <2>1 DEF PrepareOK
<1>6. CASE PrepareErr(p)
  <2>1. /\ "unpublish" \in PCs /\ Goto(p, "unpublish") /\ StageAt("unpublish") = StageAt(pc[p])
        /\ pc[p] \in Owning /\ "failed" \in Phases
    BY <1>1, <1>6, Stages DEF PrepareErr, Phases
  <2> QED
    BY <1>2, <1>6, <2>1 DEF PrepareErr
<1>7. CASE Publish(p)
  <2>1. /\ "signal" \in PCs /\ Goto(p, "signal") /\ StageAt("signal") = StageAt(pc[p])
        /\ pc[p] \in Owning /\ "ready" \in Phases
    BY <1>1, <1>7, Stages DEF Publish, Phases
  <2> QED
    BY <1>2, <1>7, <2>1 DEF Publish
<1>8. CASE Unpublish(p)
  <2>1. "signal" \in PCs /\ Goto(p, "signal") /\ StageAt("signal") = StageAt(pc[p])
    BY <1>1, <1>8, Stages DEF Unpublish
  <2> QED
    BY <1>2, <1>8, <2>1 DEF Unpublish
<1>9. CASE UseErr(p) /\ ~Return(p)
  <2>1. "evict" \in PCs /\ Goto(p, "evict") /\ StageAt("evict") = StageAt(pc[p]) /\ UNCHANGED held
    BY <1>1, <1>9, Stages DEF UseErr
  <2> QED
    BY <1>2, <1>9, <2>1 DEF UseErr, stmtVars
<1> QED
  BY <1>3, <1>4, <1>5, <1>6, <1>7, <1>8, <1>9

\* A step of a call.
LEMMA StepPromises ==
  ASSUME SafeInv, NEW p \in Procs, Step(p)
  PROVE  [Promise!Next]_Promise!vars
<1>1. CASE Lookup(p)
  <2>1. Stmts[query[p]] # NoEntry => \E e \in Entries : Promise!Await(p, e)
    BY <1>1, HitAwaits DEF Lookup
  <2> QED
    BY <1>1, <2>1, QuietSteps DEF Promise!Next
<1>2. CASE Insert(p)
  <2>1. CASE Stmts[query[p]] # NoEntry
    BY <1>2, <2>1, HitAwaits DEF Insert, Promise!Next
  <2>2. CASE Stmts[query[p]] = NoEntry
    <3>1. pc[p] = "insert" /\ AllocEntry(p) /\ used + 1 \in Entries
      BY <1>2, <2>2 DEF Insert, AllocEntry
    <3> QED
      BY <3>1, AllocPromises DEF Promise!Next
  <2> QED
    BY <2>1, <2>2
<1>3. CASE Signal(p)
  BY <1>3, SignalSettles DEF Promise!Next
<1>4. CASE Wait(p)
  BY <1>4, WaitReceives DEF Promise!Next
<1>5. CASE UseOK(p) \/ (UseErr(p) /\ Return(p)) \/ Evict(p)
  <2>1. pc[p] \in {"use", "evict"} /\ Return(p) /\ UNCHANGED <<used, phase, prepared>>
    BY <1>5 DEF UseOK, UseErr, Evict, stmtVars
  <2> QED
    BY <2>1, UserLeaves DEF Promise!Next
<1> QED
  BY <1>1, <1>2, <1>3, <1>4, <1>5, QuietSteps DEF Step

\* Every step of the system is a step of Promises or leaves its state alone:
\* Reconnect, close and the closing goroutines never settle, withdraw or
\* reopen a promise.
LEMMA NextPromises == SafeInv /\ [Next]_vars => [Promise!Next]_Promise!vars
<1> SUFFICES ASSUME SafeInv, [Next]_vars PROVE [Promise!Next]_Promise!vars
  OBVIOUS
<1>1. ASSUME UNCHANGED <<used, phase, prepared, pc, held>> PROVE UNCHANGED Promise!vars
  <2>1. Outcome' = Outcome
    BY <1>1, OutcomesKept
  <2>2. Stage' = Stage
    BY <1>1 DEF Stage
  <2> QED
    BY <1>1, <2>1, <2>2 DEF Promise!vars
<1>2. ASSUME NEW p \in Procs, StartCall(p) PROVE UNCHANGED Promise!vars
  BY <1>2, QuietSteps
<1>3. ASSUME NEW p \in Procs, Step(p) PROVE [Promise!Next]_Promise!vars
  BY <1>3, StepPromises
<1>4. ASSUME \/ UNCHANGED vars \/ Admin \/ CloseNil \/ Crashed
             \/ \E e \in Entries : CloseStmt(e)
             \/ \E p \in Procs : DirectExec(p)
      PROVE  UNCHANGED <<used, phase, prepared, pc, held>>
  BY <1>4 DEF vars, stmtVars, callVars, Admin, CloseNil, Crashed, CloseStmt, DirectExec,
              ReconnectOpen, Reset, Repoint, CloseOld, CloseCache, ClosePool
<1> QED
  BY <1>1, <1>2, <1>3, <1>4 DEF Next

\* At first nothing is promised and everybody is free.
LEMMA InitPromises == Init => Promise!Init
<1> SUFFICES ASSUME Init PROVE Promise!Init
  OBVIOUS
<1>1. ASSUME NEW e \in Entries PROVE OutcomeOf(e) = "none"
  BY ConstantsAssumption DEF Init, OutcomeOf, Entries
<1>2. ASSUME NEW p \in Procs PROVE StageAt(pc[p]) = "free"
  BY Stages DEF Init
<1> QED
  BY <1>1, <1>2 DEF Init, Promise!Init, Outcome, Stage

\* The cache implements Promises: whoever shares an entry gets the outcome of
\* its one preparation, and nobody uses a statement without it.
THEOREM CacheHandsOutPromises == Spec => EntriesArePromises
  BY InitPromises, NextPromises, SpecSafe, PTL DEF Spec, EntriesArePromises, Promise!Spec

=============================================================================
