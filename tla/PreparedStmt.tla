---------------------------- MODULE PreparedStmt ----------------------------
(***************************************************************************)
(* The prepared-statement cache of orm/prepared_stmt.go (PreparedStmtDB)   *)
(* under concurrent callers, the asynchronous `go stmt.Close()` goroutines *)
(* and DB.Reconnect / DB.close of the data source that owns it.            *)
(*                                                                         *)
(* A cache entry is one *Stmt object.  Its identity matters (the map may   *)
(* hold another entry of the same query by the time a caller comes back),  *)
(* so entries are numbered in order of allocation; NoEntry is an absent    *)
(* map key and, in `closing`, a nil *sql.Stmt receiver.  Every section     *)
(* under Mux is one step, and so is every call into database/sql.          *)
(***************************************************************************)
EXTENDS Naturals, FiniteSets

CONSTANTS
  Procs,            \* goroutines that execute statements
  Queries,          \* SQL texts, the keys of the cache
  maxPreparedStmts, \* the cache limit
  MaxEntries,       \* bound: *Stmt objects allocated in one behaviour
  MaxAdmin          \* bound: calls of Reconnect and close in one behaviour

ASSUME ConstantsAssumption ==
  /\ IsFiniteSet(Procs) /\ Procs # {}
  /\ IsFiniteSet(Queries) /\ Queries # {}
  /\ maxPreparedStmts \in Nat \ {0}
  /\ MaxEntries \in Nat \ {0}
  /\ MaxAdmin \in Nat

VARIABLES
  Stmts,        \* PreparedStmtDB.Stmts: query -> entry
  PreparedSQL,  \* PreparedStmtDB.PreparedSQL, as the set of queries it lists
  used,         \* entries allocated so far are 1..used
  phase,        \* of each *Stmt object: how far its preparation got
  pool,         \* of each *Stmt object: the pool it is prepared on
  prepared,     \* entries whose `prepared` channel is closed
  open,         \* entries with a live statement on the server
  closing,      \* receivers of pending `go stmt.Close()` goroutines
  psPool,       \* PreparedStmtDB.ConnPool, a pool number
  openPools,    \* pools (*sql.DB) not closed
  rc,           \* progress of Reconnect / close on the owning DB
  pc,           \* where each goroutine is
  query,        \* the SQL text of its call ...
  conn,         \* ... the pool it captured, while prepare may still need it ...
  held,         \* ... and the entry it allocated, waits for or executes
  crashed       \* a goroutine panicked: the process is gone

stmtVars == <<Stmts, PreparedSQL, used, phase, pool, prepared, open, closing>>
poolVars == <<psPool, openPools, rc>>
callVars == <<pc, query, conn, held>>
vars == <<stmtVars, poolVars, callVars, crashed>>

NoEntry == 0
Entries == 1..MaxEntries
Kinds   == {"exec", "queryRow"}  \* QueryContext treats the cache exactly as ExecContext does

\* "ready": the embedded *sql.Stmt is set; "failed": prepareErr is set.
Phases == {"unused", "preparing", "ready", "failed"}

\* The steps of the goroutine that allocated an entry, up to the deferred
\* close of the entry's channel.
Owning == {"prepare", "publish", "unpublish", "signal"}
PCs    == {"idle", "lookup", "insert", "wait", "use", "evict"} \union Owning
RCs    == {"idle", "reset", "repoint", "closeOld", "closePool", "closed"}

AnyQuery == CHOOSE q \in Queries : TRUE
Cached   == {q \in Queries : Stmts[q] # NoEntry}

\* Goroutines past the cacheFull check that have not seen or made an entry.
Inserting == {p \in Procs : pc[p] \in {"lookup", "insert"}}

Init ==
  /\ Stmts = [q \in Queries |-> NoEntry]
  /\ PreparedSQL = {}
  /\ used = 0
  /\ phase = [e \in Entries |-> "unused"]
  /\ pool = [e \in Entries |-> 0]
  /\ prepared = {}
  /\ open = {}
  /\ closing = {}
  /\ psPool = 0
  /\ openPools = {0}
  /\ rc = "idle"
  /\ pc = [p \in Procs |-> "idle"]
  /\ query = [p \in Procs |-> AnyQuery]
  /\ conn = [p \in Procs |-> 0]
  /\ held = [p \in Procs |-> NoEntry]
  /\ crashed = FALSE

Goto(p, l) == pc' = [pc EXCEPT ![p] = l]

\* The call returns; its locals go out of scope.
Return(p) ==
  /\ Goto(p, "idle")
  /\ query' = [query EXCEPT ![p] = AnyQuery]
  /\ conn' = [conn EXCEPT ![p] = 0]
  /\ held' = [held EXCEPT ![p] = NoEntry]

-----------------------------------------------------------------------------
(***************************************************************************)
(* ExecContext, QueryContext and QueryRowContext up to `prepare`.          *)
(***************************************************************************)

NeverFull == FALSE
cacheFull == Cardinality(Cached) >= maxPreparedStmts

\* Statements without arguments never enter the cache, except through
\* QueryRowContext, which only looks at the limit.
Degrades(k, hasArgs) == cacheFull \/ (k # "queryRow" /\ ~hasArgs)

\* The statement runs on the pool itself and leaves the cache alone; only the
\* counter and the one-off warning of noteDirectExec change.
DirectExec(p) ==
  /\ pc[p] = "idle"
  /\ \E k \in Kinds, hasArgs \in BOOLEAN : Degrades(k, hasArgs)
  /\ UNCHANGED vars

\* Bound: a call starts only while its entry can still be allocated.
Room == used + Cardinality(Inserting) < MaxEntries

\* The call passes the cacheFull check and evaluates db.ConnPool, the
\* argument of prepare.  (While DB.ConnPool is the bare pool, DB sends no call
\* here, but one sent before Reconnect may only now get to the check.)
StartCall(p) ==
  /\ pc[p] = "idle"
  /\ Room
  /\ \E k \in Kinds, hasArgs \in BOOLEAN : ~Degrades(k, hasArgs)
  /\ \E q \in Queries : query' = [query EXCEPT ![p] = q]
  /\ conn' = [conn EXCEPT ![p] = psPool]
  /\ Goto(p, "lookup")
  /\ UNCHANGED <<stmtVars, poolVars, held, crashed>>

-----------------------------------------------------------------------------
(***************************************************************************)
(* prepare(ctx, conn, query)                                               *)
(***************************************************************************)

\* A hit: remember the entry and wait for its channel.
AwaitEntry(p) ==
  /\ held' = [held EXCEPT ![p] = Stmts[query[p]]]
  /\ conn' = [conn EXCEPT ![p] = 0]
  /\ Goto(p, "wait")

\* Under RLock.
Lookup(p) ==
  /\ pc[p] = "lookup"
  /\ \/ Stmts[query[p]] # NoEntry /\ AwaitEntry(p)
     \/ Stmts[query[p]] = NoEntry /\ Goto(p, "insert") /\ UNCHANGED <<conn, held>>
  /\ UNCHANGED <<stmtVars, poolVars, query, crashed>>

\* cacheStmt := Stmt{prepared: make(chan struct{})}; db.Stmts[query] = &cacheStmt
AllocEntry(p) ==
  LET e == used + 1 IN
  /\ e \in Entries
  /\ used' = e
  /\ phase' = [phase EXCEPT ![e] = "preparing"]
  /\ pool' = [pool EXCEPT ![e] = conn[p]]
  /\ Stmts' = [Stmts EXCEPT ![query[p]] = e]
  /\ held' = [held EXCEPT ![p] = e]
  /\ conn' = [conn EXCEPT ![p] = 0]
  /\ Goto(p, "prepare")
  /\ UNCHANGED <<PreparedSQL, prepared, open, closing>>

InsertHitPrepares(p) ==
  /\ pc[p] = "insert"
  /\ \/ /\ Stmts[query[p]] # NoEntry
        /\ held' = [held EXCEPT ![p] = Stmts[query[p]]]
        /\ conn' = [conn EXCEPT ![p] = 0]
        /\ Goto(p, "prepare")
        /\ UNCHANGED stmtVars
     \/ Stmts[query[p]] = NoEntry /\ AllocEntry(p)
  /\ UNCHANGED <<poolVars, query, crashed>>

\* Under Lock: the double check, else the placeholder goes into the map.
Insert(p) ==
  /\ pc[p] = "insert"
  /\ \/ Stmts[query[p]] # NoEntry /\ AwaitEntry(p) /\ UNCHANGED stmtVars
     \/ Stmts[query[p]] = NoEntry /\ AllocEntry(p)
  /\ UNCHANGED <<poolVars, query, crashed>>

\* conn.PrepareContext succeeds; it cannot on a closed pool.
PrepareOK(p) ==
  /\ pc[p] = "prepare"
  /\ pool[held[p]] \in openPools
  /\ open' = open \union {held[p]}
  /\ Goto(p, "publish")
  /\ UNCHANGED <<Stmts, PreparedSQL, used, phase, pool, prepared, closing, poolVars,
                 query, conn, held, crashed>>

PrepareErrLost(p) ==
  /\ pc[p] = "prepare"
  /\ Goto(p, "unpublish")
  /\ UNCHANGED <<stmtVars, poolVars, query, conn, held, crashed>>

\* conn.PrepareContext fails and prepareErr is set.
PrepareErr(p) ==
  /\ pc[p] = "prepare"
  /\ phase' = [phase EXCEPT ![held[p]] = "failed"]
  /\ Goto(p, "unpublish")
  /\ UNCHANGED <<Stmts, PreparedSQL, used, pool, prepared, open, closing, poolVars,
                 query, conn, held, crashed>>

\* Under Lock, after success: the *sql.Stmt becomes visible.
Publish(p) ==
  /\ pc[p] = "publish"
  /\ phase' = [phase EXCEPT ![held[p]] = "ready"]
  /\ PreparedSQL' = PreparedSQL \union {query[p]}
  /\ Goto(p, "signal")
  /\ UNCHANGED <<Stmts, used, pool, prepared, open, closing, poolVars,
                 query, conn, held, crashed>>

\* Under Lock, after failure: delete(db.Stmts, query), whatever entry is there.
Unpublish(p) ==
  /\ pc[p] = "unpublish"
  /\ Stmts' = [Stmts EXCEPT ![query[p]] = NoEntry]
  /\ Goto(p, "signal")
  /\ UNCHANGED <<PreparedSQL, used, phase, pool, prepared, open, closing, poolVars,
                 query, conn, held, crashed>>

\* What prepare returns: the prepareErr of the entry, or its statement.
Proceed(p) ==
  \/ phase[held[p]] = "failed" /\ Return(p)
  \/ phase[held[p]] # "failed" /\ Goto(p, "use") /\ UNCHANGED <<query, conn, held>>

SignalOnSuccess(p) ==
  /\ pc[p] = "signal"
  /\ prepared' = IF phase[held[p]] = "ready" THEN prepared \union {held[p]} ELSE prepared
  /\ Proceed(p)
  /\ UNCHANGED <<Stmts, PreparedSQL, used, phase, pool, open, closing, poolVars,
                 crashed>>

\* defer close(cacheStmt.prepared)
Signal(p) ==
  /\ pc[p] = "signal"
  /\ prepared' = prepared \union {held[p]}
  /\ Proceed(p)
  /\ UNCHANGED <<Stmts, PreparedSQL, used, phase, pool, open, closing, poolVars,
                 crashed>>

WaitUnchecked(p) ==
  /\ pc[p] = "wait"
  /\ held[p] \in prepared
  /\ Goto(p, "use")
  /\ UNCHANGED <<stmtVars, poolVars, query, conn, held, crashed>>

\* <-stmt.prepared, then the prepareErr check.
Wait(p) ==
  /\ pc[p] = "wait"
  /\ held[p] \in prepared
  /\ Proceed(p)
  /\ UNCHANGED <<stmtVars, poolVars, crashed>>

-----------------------------------------------------------------------------
(***************************************************************************)
(* Executing the statement that prepare returned.                          *)
(***************************************************************************)

\* The statement executes; a closed one, or one of a closed pool, cannot.
UseOK(p) ==
  /\ pc[p] = "use"
  /\ held[p] \in open
  /\ Return(p)
  /\ UNCHANGED <<stmtVars, poolVars, crashed>>

\* It fails.  QueryRowContext leaves the entry, the other two evict it.  (Which
\* method was called matters here first, so it is chosen here.)
UseErr(p) ==
  /\ pc[p] = "use"
  /\ \E k \in Kinds :
       \/ k = "queryRow" /\ Return(p)
       \/ k = "exec" /\ Goto(p, "evict") /\ UNCHANGED <<query, conn, held>>
  /\ UNCHANGED <<stmtVars, poolVars, crashed>>

\* The receiver `go stmt.Close()` captures from entry e: nil until published.
CloseReceiver(e) == IF phase[e] = "ready" THEN e ELSE NoEntry

EvictWhatIsCached(p) ==
  /\ pc[p] = "evict"
  /\ closing' = IF Stmts[query[p]] = NoEntry THEN closing
                ELSE closing \union {CloseReceiver(Stmts[query[p]])}
  /\ Stmts' = [Stmts EXCEPT ![query[p]] = NoEntry]
  /\ Return(p)
  /\ UNCHANGED <<PreparedSQL, used, phase, pool, prepared, open, poolVars,
                 crashed>>

EvictIfAnother(p) ==
  /\ pc[p] = "evict"
  /\ closing' = closing \union {held[p]}
  /\ Stmts' = [Stmts EXCEPT ![query[p]] = IF @ = held[p] THEN @ ELSE NoEntry]
  /\ Return(p)
  /\ UNCHANGED <<PreparedSQL, used, phase, pool, prepared, open, poolVars,
                 crashed>>

\* Under Lock: close the caller's own statement, drop whatever the map holds
\* for its query.
Evict(p) ==
  /\ pc[p] = "evict"
  /\ closing' = closing \union {held[p]}
  /\ Stmts' = [Stmts EXCEPT ![query[p]] = NoEntry]
  /\ Return(p)
  /\ UNCHANGED <<PreparedSQL, used, phase, pool, prepared, open, poolVars,
                 crashed>>

\* A pending `go stmt.Close()` runs.
CloseStmt(e) ==
  /\ e \in closing
  /\ closing' = closing \ {e}
  /\ open' = open \ {e}
  /\ UNCHANGED <<Stmts, PreparedSQL, used, phase, pool, prepared, poolVars, callVars,
                 crashed>>

\* The same with a nil receiver: sql.Stmt.Close dereferences it and panics.
CloseNil ==
  /\ NoEntry \in closing
  /\ crashed' = TRUE
  /\ UNCHANGED <<stmtVars, poolVars, callVars>>

-----------------------------------------------------------------------------
(***************************************************************************)
(* DB.Reconnect and DB.close, run by one administrator goroutine.          *)
(***************************************************************************)

\* Dialector.Initialize succeeds and DB.ConnPool becomes the bare new pool,
\* which calls use without the cache until Repoint.
ReconnectOpen ==
  /\ rc = "idle"
  /\ psPool < MaxAdmin
  /\ openPools' = openPools \union {psPool + 1}
  /\ rc' = "reset"
  /\ UNCHANGED <<stmtVars, callVars, psPool, crashed>>

\* PreparedStmtDB.Reset, under Lock: every entry goes, published or not.
Reset ==
  /\ rc = "reset"
  /\ closing' = closing \union {CloseReceiver(Stmts[q]) : q \in Cached}
  /\ Stmts' = [q \in Queries |-> NoEntry]
  /\ PreparedSQL' = {}
  /\ rc' = "repoint"
  /\ UNCHANGED <<used, phase, pool, prepared, open, callVars, psPool, openPools, crashed>>

\* preparedStmt.ConnPool = db.ConnPool, not under Mux, and then db.ConnPool =
\* preparedStmt.
Repoint ==
  /\ rc = "repoint"
  /\ psPool' = psPool + 1
  /\ rc' = "closeOld"
  /\ UNCHANGED <<stmtVars, callVars, openPools, crashed>>

\* sql.DB.Close: the pool's statements die with its connections.
ClosePoolOf(n) ==
  /\ openPools' = openPools \ {n}
  /\ open' = {e \in open : pool[e] # n}

\* oldSQLDB.Close()
CloseOld ==
  /\ rc = "closeOld"
  /\ ClosePoolOf(psPool - 1)
  /\ rc' = "idle"
  /\ UNCHANGED <<Stmts, PreparedSQL, used, phase, pool, prepared, closing, callVars, psPool, crashed>>

\* PreparedStmtDB.Close, under Lock: only queries listed in PreparedSQL go.
CloseCache ==
  LET listed == Cached \intersect PreparedSQL IN
  /\ rc = "idle"
  /\ psPool < MaxAdmin
  /\ closing' = closing \union {CloseReceiver(Stmts[q]) : q \in listed}
  /\ Stmts' = [q \in Queries |-> IF q \in listed THEN NoEntry ELSE Stmts[q]]
  /\ rc' = "closePool"
  /\ UNCHANGED <<PreparedSQL, used, phase, pool, prepared, open, callVars, psPool, openPools,
                 crashed>>

\* The second half of DB.close.
ClosePool ==
  /\ rc = "closePool"
  /\ ClosePoolOf(psPool)
  /\ rc' = "closed"
  /\ UNCHANGED <<Stmts, PreparedSQL, used, phase, pool, prepared, closing, callVars, psPool, crashed>>

-----------------------------------------------------------------------------
\* The steps of a call in progress.
Step(p) ==
  \/ Lookup(p) \/ Insert(p)
  \/ PrepareOK(p) \/ PrepareErr(p) \/ Publish(p) \/ Unpublish(p) \/ Signal(p) \/ Wait(p)
  \/ UseOK(p) \/ UseErr(p) \/ Evict(p)

Admin ==
  \/ ReconnectOpen \/ Reset \/ Repoint \/ CloseOld
  \/ CloseCache \/ ClosePool

\* The process is gone.
Crashed == crashed /\ UNCHANGED vars

Next ==
  \/ ~crashed /\ \E p \in Procs : DirectExec(p) \/ StartCall(p) \/ Step(p)
  \/ ~crashed /\ \E e \in Entries : CloseStmt(e)
  \/ ~crashed /\ CloseNil
  \/ ~crashed /\ Admin
  \/ Crashed

\* Goroutines are scheduled, PrepareContext and ExecContext return (they run
\* under withExecTimeout, 5 minutes by default).  Nobody has to start a call
\* or to reconnect.
Fairness == \A p \in Procs : WF_vars(~crashed /\ Step(p))

Spec == Init /\ [][Next]_vars /\ Fairness

-----------------------------------------------------------------------------
TypeOK ==
  /\ Stmts \in [Queries -> Entries \union {NoEntry}]
  /\ PreparedSQL \subseteq Queries
  /\ used \in Nat /\ used <= MaxEntries
  /\ phase \in [Entries -> Phases]
  /\ pool \in [Entries -> Nat]
  /\ prepared \subseteq {e \in Entries : phase[e] \in {"ready", "failed"}}
  /\ open \subseteq Entries
  /\ closing \subseteq Entries \union {NoEntry}
  /\ psPool \in Nat
  /\ openPools \subseteq Nat
  /\ rc \in RCs
  /\ pc \in [Procs -> PCs]
  /\ query \in [Procs -> Queries]
  /\ conn \in [Procs -> Nat]
  /\ held \in [Procs -> Entries \union {NoEntry}]
  /\ crashed \in BOOLEAN

\* The prepare protocol never closes a channel twice (which would panic): the
\* goroutine between placeholder and deferred close is the only one that owns
\* its entry, and the entry's channel is still open.
ChannelClosedOnce ==
  \A p \in Procs : pc[p] \in Owning =>
    /\ held[p] \notin prepared
    /\ \A r \in Procs \ {p} : pc[r] \in Owning => held[r] # held[p]

\* What an entry is to its users: pending until its channel is closed.
OutcomeOf(e) ==
  IF e > used THEN "none"
  ELSE IF e \notin prepared THEN "pending"
  ELSE IF phase[e] = "ready" THEN "ok" ELSE "error"

StageAt(l) ==
  CASE l \in Owning -> "making"
    [] l = "wait" -> "waiting"
    [] l \in {"use", "evict"} -> "using"
    [] OTHER -> "free"

Outcome == [e \in Entries |-> OutcomeOf(e)]
Stage   == [p \in Procs |-> StageAt(pc[p])]

Promise == INSTANCE Promises
             WITH Promises <- Entries, None <- NoEntry, outcome <- Outcome, stage <- Stage, mine <- held

\* The cache hands out promises: of the goroutines that race for a query one
\* allocates the entry and settles it, once, whatever limits, failures,
\* evictions, Reset and Close do to the map meanwhile; the others see the outcome
\* only then, and all the same one.
EntriesArePromises == Promise!Spec

\* A caller only ever executes a statement whose preparation succeeded: no
\* path through placeholder, failure and concurrent eviction hands out the
\* zero Stmt of a failed or unfinished entry.
UsesReadyStmt ==
  \A p \in Procs : pc[p] \in {"use", "evict"} => held[p] \in Entries /\ phase[held[p]] = "ready"

\* Once a statement has been given to `go stmt.Close()`, no later lookup can
\* return it: whatever the map holds is neither closed nor about to be.
ClosedNeverCached ==
  \A q \in Queries : Stmts[q] # NoEntry =>
    /\ Stmts[q] \notin closing
    /\ phase[Stmts[q]] = "ready" /\ pool[Stmts[q]] \in openPools => Stmts[q] \in open

\* The limit of maxPreparedStmts entries is checked before the placeholder is
\* inserted, not with it.  Entries cached, and calls past the check that may
\* still insert one, exceed the limit by at most one for each other goroutine.
CacheBound == Cardinality(Cached) + Cardinality(Inserting) <= maxPreparedStmts + Cardinality(Procs) - 1

\* Statement traffic alone never kills the process: a nil *sql.Stmt is only
\* ever closed by the sweeps of Reset and Close.
TrafficNeverPanics == rc = "idle" /\ psPool = 0 => ~crashed /\ NoEntry \notin closing

\* Every call returns: in particular whoever waits on the `prepared` channel
\* of another goroutine's placeholder is released, whether that preparation
\* succeeds, fails or its entry is evicted, reset or closed meanwhile.
CallReturns == \A p \in Procs : []<>(pc[p] = "idle" \/ crashed)

\* What the comment on Reconnect says: after a reconnect the cache is reset and
\* points to the new pool, so no usable entry is bound to an old connection.
NoStaleStmtAfterReconnect ==
  rc = "idle" => \A q \in Queries :
    Stmts[q] # NoEntry /\ phase[Stmts[q]] = "ready" => pool[Stmts[q]] = psPool
=============================================================================
