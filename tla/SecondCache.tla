----------------------------- MODULE SecondCache -----------------------------
(***************************************************************************)
(* The second-level cache of orm/namespace_cache.go as executeMethod of    *)
(* orm/base_mapper.go uses it: selects look up, query and fill in separate *)
(* steps, writes execute and flush in separate steps, transactions flush   *)
(* before they commit, and the cache may be switched off and on meanwhile. *)
(*                                                                         *)
(* The data of a namespace is reduced to the number of writes committed to *)
(* it.  A cached result is the version it was read at, the parameters it   *)
(* was read for, and whether it is `clean`: read while no write of the     *)
(* namespace was under way and untouched by writes that never flush.       *)
(* Statements with useCache="false" neither look up nor fill and are left  *)
(* out; so are writes that fail without effect.                            *)
(***************************************************************************)
EXTENDS Naturals

CONSTANTS
  Procs,      \* goroutines
  TxProcs,    \* those of them that also write in transactions
  Namespaces, \* mapper namespaces, each with a table of its own
  Ids,        \* select statements of a namespace
  Params,     \* values of a statement's parameters
  None,       \* no cached value, no value read, no call
  MaxVersion, \* bound: committed writes of a namespace
  MaxSilent   \* bound: writes that take effect without a flush

ASSUME ConstantsAssumption ==
  /\ TxProcs \subseteq Procs
  /\ MaxVersion \in Nat
  /\ MaxSilent \in Nat

VARIABLES
  enabled, \* secondLevelCache.enabled
  caches,  \* secondLevelCache.caches: namespace -> statement -> entry
  db,      \* writes committed to each namespace
  pending, \* namespaces a goroutine's open transaction has written
  silent,  \* writes so far that took effect without a flush
  pc,      \* where each goroutine is
  call,    \* the namespace, statement and parameters of its select or write
  got      \* what its query read

vars == <<enabled, caches, db, pending, silent, pc, call, got>>

Calls    == [ns : Namespaces, id : Ids, arg : Params]
Versions == 0..(MaxVersion + 1)
Reads    == [ver : Versions, clean : BOOLEAN]
Entries  == [read : Reads, arg : Params]

\* "query", "fill": a select that missed; "flush": a write that took effect.
PCs == {"idle", "query", "fill", "flush"}

ASSUME NoneAssumption == None \notin Calls /\ None \notin Reads /\ None \notin Entries

EmptyCache == [n \in Namespaces |-> [s \in Ids |-> None]]

\* initSecondCache, with the cache enabled or not.
Init ==
  /\ enabled \in BOOLEAN
  /\ caches = EmptyCache
  /\ db = [n \in Namespaces |-> 0]
  /\ pending = [p \in Procs |-> {}]
  /\ silent = 0
  /\ pc = [p \in Procs |-> "idle"]
  /\ call = [p \in Procs |-> None]
  /\ got = [p \in Procs |-> None]

Goto(p, l) == pc' = [pc EXCEPT ![p] = l]

Return(p) ==
  /\ Goto(p, "idle")
  /\ call' = [call EXCEPT ![p] = None]
  /\ got' = [got EXCEPT ![p] = None]

\* A write of n took effect without its flush, or waits in a transaction.
Flushing(n)  == \E p \in Procs : pc[p] = "flush" /\ call[p].ns = n
InProgress(n) == Flushing(n) \/ \E p \in Procs : n \in pending[p]

-----------------------------------------------------------------------------
(***************************************************************************)
(* Selects.                                                                *)
(***************************************************************************)

\* cacheKey(namespace, id, sqlargs): GenerateSQL puts the parameters into the
\* SQL text and returns no sqlargs, so the key does not depend on them.
cacheKey(n, s, a) == <<n, s>>

\* secondLevelCache.Get: nothing while disabled.
Get(n, s, a) ==
  LET k == cacheKey(n, s, a) IN IF enabled THEN caches[k[1]][k[2]] ELSE None

SelectHit(p) ==
  /\ pc[p] = "idle"
  /\ \E c \in Calls : Get(c.ns, c.id, c.arg) # None
  /\ UNCHANGED vars

SelectMiss(p) ==
  /\ pc[p] = "idle"
  /\ \E c \in Calls :
       /\ Get(c.ns, c.id, c.arg) = None
       /\ call' = [call EXCEPT ![p] = c]
  /\ Goto(p, "query")
  /\ UNCHANGED <<enabled, caches, db, pending, silent, got>>

\* queryRows reads what is committed and, in its own transaction, the writes
\* of that transaction.
Query(p) ==
  LET n == call[p].ns IN
  /\ pc[p] = "query"
  /\ got' = [got EXCEPT ![p] = [ver |-> IF n \in pending[p] THEN db[n] + 1 ELSE db[n],
                                clean |-> ~InProgress(n)]]
  /\ Goto(p, "fill")
  /\ UNCHANGED <<enabled, caches, db, pending, silent, call>>

QueryErrIgnored(p) ==
  /\ pc[p] = "query"
  /\ Goto(p, "fill")
  /\ UNCHANGED <<enabled, caches, db, pending, silent, call, got>>

\* queryRows fails, or the conversion does in strict mode: nothing is cached.
QueryErr(p) ==
  /\ pc[p] = "query"
  /\ Return(p)
  /\ UNCHANGED <<enabled, caches, db, pending, silent>>

\* secondLevelCache.Set, if the cache is (still, or again) enabled.
Fill(p) ==
  LET k == cacheKey(call[p].ns, call[p].id, call[p].arg) IN
  /\ pc[p] = "fill"
  /\ caches' = IF enabled
               THEN [caches EXCEPT ![k[1]][k[2]] = [read |-> got[p], arg |-> call[p].arg]]
               ELSE caches
  /\ Return(p)
  /\ UNCHANGED <<enabled, db, pending, silent>>

\* An entry's TTL elapses or the LRU list drops it.
Drop(n, s) ==
  /\ caches[n][s] # None
  /\ caches' = [caches EXCEPT ![n][s] = None]
  /\ UNCHANGED <<enabled, db, pending, silent, pc, call, got>>

-----------------------------------------------------------------------------
(***************************************************************************)
(* Writes and transactions.                                                *)
(***************************************************************************)

\* Results of n read but not cached yet are not clean any more.
SpoilReads(n) ==
  got' = [r \in Procs |-> IF got[r] # None /\ call[r].ns = n
                          THEN [got[r] EXCEPT !.clean = FALSE] ELSE got[r]]

\* The statement takes effect, at once or in the goroutine's transaction.  (A
\* goroutine with a transaction open passes its context along.)
Exec(p) ==
  /\ pc[p] = "idle"
  /\ \E n \in Namespaces :
       /\ db[n] < MaxVersion
       /\ \/ pending[p] = {} /\ db' = [db EXCEPT ![n] = @ + 1] /\ UNCHANGED pending
          \/ p \in TxProcs /\ pending' = [pending EXCEPT ![p] = @ \union {n}] /\ UNCHANGED db
       /\ \E c \in Calls : c.ns = n /\ call' = [call EXCEPT ![p] = c]
       /\ SpoilReads(n)
  /\ Goto(p, "flush")
  /\ UNCHANGED <<enabled, caches, silent>>

FlushStatement(p) ==
  /\ pc[p] = "flush"
  /\ caches' = IF enabled
               THEN [caches EXCEPT ![call[p].ns][call[p].id] = None]
               ELSE caches
  /\ Return(p)
  /\ UNCHANGED <<enabled, db, pending, silent>>

\* secondLevelCache.Flush, if the cache is enabled.
Flush(p) ==
  /\ pc[p] = "flush"
  /\ caches' = IF enabled
               THEN [caches EXCEPT ![call[p].ns] = [s \in Ids |-> None]]
               ELSE caches
  /\ Return(p)
  /\ UNCHANGED <<enabled, db, pending, silent>>

\* Nothing is flushed at the end of a transaction.
Commit(p) ==
  /\ pc[p] = "idle"
  /\ pending[p] # {}
  /\ \A n \in pending[p] : db[n] < MaxVersion
  /\ db' = [n \in Namespaces |-> IF n \in pending[p] THEN db[n] + 1 ELSE db[n]]
  /\ pending' = [pending EXCEPT ![p] = {}]
  /\ UNCHANGED <<enabled, caches, silent, pc, call, got>>

Rollback(p) ==
  /\ pc[p] = "idle"
  /\ pending[p] # {}
  /\ pending' = [pending EXCEPT ![p] = {}]
  /\ UNCHANGED <<enabled, caches, db, silent, pc, call, got>>

\* A write that takes effect but never flushes n: executeWithResult returned an
\* error after the effect (a timeout), orm.Execute or a batch wrote, another
\* namespace's mapper or another process did.
SilentWrite(n) ==
  /\ db[n] < MaxVersion
  /\ silent < MaxSilent
  /\ db' = [db EXCEPT ![n] = @ + 1]
  /\ silent' = silent + 1
  /\ caches' = [caches EXCEPT ![n] = [s \in Ids |->
                  IF caches[n][s] = None THEN None
                  ELSE [caches[n][s] EXCEPT !.read.clean = FALSE]]]
  /\ SpoilReads(n)
  /\ UNCHANGED <<enabled, pending, pc, call>>

SetEnabledOnly(on) ==
  /\ enabled' = on
  /\ UNCHANGED <<caches, db, pending, silent, pc, call, got>>

\* Enabling starts with new, empty caches.
SetCacheEnabled(on) ==
  /\ enabled' = on
  /\ caches' = IF on /\ ~enabled THEN EmptyCache ELSE caches
  /\ UNCHANGED <<db, pending, silent, pc, call, got>>

-----------------------------------------------------------------------------
Next ==
  \/ \E p \in Procs :
       \/ SelectHit(p) \/ SelectMiss(p) \/ Query(p) \/ QueryErr(p) \/ Fill(p)
       \/ Exec(p) \/ Flush(p) \/ Commit(p) \/ Rollback(p)
  \/ \E n \in Namespaces, s \in Ids : Drop(n, s)
  \/ \E n \in Namespaces : SilentWrite(n)
  \/ \E on \in BOOLEAN : SetCacheEnabled(on)

Spec == Init /\ [][Next]_vars

-----------------------------------------------------------------------------
TypeOK ==
  /\ enabled \in BOOLEAN
  /\ caches \in [Namespaces -> [Ids -> Entries \union {None}]]
  /\ db \in [Namespaces -> 0..MaxVersion]
  /\ pending \in [Procs -> SUBSET Namespaces]
  /\ silent \in 0..MaxSilent
  /\ pc \in [Procs -> PCs]
  /\ call \in [Procs -> Calls \union {None}]
  /\ got \in [Procs -> Reads \union {None}]

\* A result that was read and cached while no write of its namespace was under
\* way is never served stale once the write that outdated it has returned or
\* committed, however selects, flushes, transactions and switching the cache
\* off and on interleave: stale hits only come from the overlaps and from the
\* writes that never flush.
CleanEntryFresh ==
  \A c \in Calls :
    LET e == Get(c.ns, c.id, c.arg) IN
    e # None /\ e.read.clean /\ ~Flushing(c.ns) => e.read.ver = db[c.ns]

\* What CHANGELOG.md says: the whole namespace is flushed after any of its
\* writes.  So once the writes of a namespace have returned, no hit is older
\* than they are.
NoStaleHitAfterFlush ==
  \A c \in Calls :
    LET e == Get(c.ns, c.id, c.arg) IN
    e # None /\ ~InProgress(c.ns) => e.read.ver = db[c.ns]

\* What CHANGELOG.md says of the key: it is composed of the statement and its
\* arguments, so a hit returns what was read for the same arguments.
HitMatchesParams ==
  \A c \in Calls :
    LET e == Get(c.ns, c.id, c.arg) IN e # None => e.arg = c.arg
=============================================================================
