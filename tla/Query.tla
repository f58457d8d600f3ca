-------------------------------- MODULE Query ---------------------------------
(***************************************************************************)
(* Statements of one data source between its pool of connections and its   *)
(* caches of the database's tables: the names that the table prefix is     *)
(* applied to (orm/table_prefix.go) and the column types that help to read *)
(* a result (orm/schema_cache.go).  A query keeps its rows, and with them  *)
(* a connection, while it looks for the column types; a fetch of the       *)
(* tables takes a connection of the same pool with the cache's lock held;  *)
(* DDL drops both caches when it returns (orm/database_connection.go).     *)
(* A cache is followed for one table: whether its name is known, and what  *)
(* is known of its structure; empty, the cache lacks that table, whatever  *)
(* it has of others.                                                       *)
(***************************************************************************)
EXTENDS Naturals, Sequences, FiniteSets

CONSTANTS
  Procs, NoProc,
  MaxConns,   \* MaxOpenConns of the pool
  TxProcs,    \* goroutines that may run their calls in a transaction
  DdlProcs,   \* goroutines that may run DDL
  MaxVersion, \* bound: changes of the schema
  MaxObjs,    \* bound: cache objects made in one behaviour
  MaxExpiries, \* bound: caches that go stale in one behaviour
  MaxCalls    \* bound: calls and transactions of each goroutine

ASSUME ConstantsAssumption ==
  /\ IsFiniteSet(Procs) /\ NoProc \notin Procs
  /\ TxProcs \subseteq Procs /\ DdlProcs \subseteq Procs
  /\ MaxConns \in Nat \ {0} /\ MaxVersion \in Nat /\ MaxObjs \in Nat
  /\ MaxExpiries \in Nat
  /\ MaxCalls \in [Procs -> Nat]

NoVersion == MaxVersion + 1
Empty     == MaxVersion + 2
Versions  == 0..MaxVersion
Keys      == {"names", "structures"} \* of cacheStore
NoObj     == 0
Objs      == 1..MaxObjs

VARIABLES
  \* the database and its pool
  schema,  \* the committed version of the schema
  pending, \* changes made in the goroutine's transaction
  conns,   \* connections a goroutine holds, by purpose: "tx", "call", "fetch"
  \* the caches
  store,   \* cacheStore
  obj,     \* the cache objects: tables, done, stale
  made,
  lock,    \* who holds an object's mu for writing
  \* calls
  kind,    \* "query" (queryRows, QueryStream), "ddl"
  pc,
  key,     \* the cache looked into
  cur,     \* its object
  read,    \* version read by a fetch
  todo,    \* what a DDL statement has left to do
  mine,    \* version a DDL statement made
  expired, \* the deadline of the call's context has passed
  count,   \* calls made
  expiries, \* TTLs run out
  \* history
  announced, failed, low, answer

Fresh == INSTANCE FreshLookup

database == <<schema, pending, conns>>
caches   == <<store, obj, made, lock, expiries>>
callVars == <<kind, pc, key, cur, read, todo, mine, expired, count>>
history  == <<announced, failed, low, answer>>
vars     == <<database, caches, callVars, history>>

Kinds == {"query", "ddl"}
PCs   == {"idle", "load", "peek", "lock", "fetch", "singles", "acquire", "types", "read", "finish", "return"}

Unfetched == [tables |-> NoVersion, done |-> FALSE, stale |-> FALSE]

Free == MaxConns > Cardinality({x \in Procs \X {"tx", "call", "fetch"} : x[2] \in conns[x[1]]})

InTx(p) == "tx" \in conns[p]
Hold(p, c) == conns' = [conns EXCEPT ![p] = @ \union {c}]
Release(p, c) == conns' = [conns EXCEPT ![p] = @ \ {c}]
Goto(p, l) == pc' = [pc EXCEPT ![p] = l]

Init ==
  /\ schema = 0
  /\ pending = [p \in Procs |-> FALSE]
  /\ conns = [p \in Procs |-> {}]
  /\ store = [k \in Keys |-> NoObj]
  /\ obj = [o \in Objs |-> Unfetched]
  /\ made = 0
  /\ expiries = 0
  /\ lock = [o \in Objs |-> NoProc]
  /\ kind = [p \in Procs |-> "query"]
  /\ pc = [p \in Procs |-> "idle"]
  /\ key = [p \in Procs |-> "names"]
  /\ cur = [p \in Procs |-> NoObj]
  /\ read = [p \in Procs |-> NoVersion]
  /\ todo = [p \in Procs |-> <<>>]
  /\ mine = [p \in Procs |-> 0]
  /\ expired = [p \in Procs |-> FALSE]
  /\ count = [p \in Procs |-> 0]
  /\ announced = 0
  /\ failed = FALSE
  /\ low = [p \in Procs |-> NoVersion]
  /\ answer = [p \in Procs |-> NoVersion]

-----------------------------------------------------------------------------
(***************************************************************************)
(* Looking tables up: tableNameSet, tableStructureSet.                     *)
(***************************************************************************)

\* The object of the store, made if there is none.
Load(p) ==
  /\ pc[p] = "load"
  /\ \/ /\ store[key[p]] # NoObj
        /\ cur' = [cur EXCEPT ![p] = store[key[p]]]
        /\ UNCHANGED <<store, made>>
     \/ /\ store[key[p]] = NoObj
        /\ made < MaxObjs
        /\ made' = made + 1
        /\ store' = [store EXCEPT ![key[p]] = made']
        /\ cur' = [cur EXCEPT ![p] = made']
  /\ low' = [low EXCEPT ![p] = announced]
  /\ answer' = [answer EXCEPT ![p] = NoVersion]
  /\ Goto(p, "peek")
  /\ UNCHANGED <<database, obj, lock, expiries, kind, key, read, todo, mine, expired, count, announced, failed>>

\* The call goes on with the tables it got: with names before it executes, with
\* structures before it reads.
Answer(p, tables) ==
  /\ answer' = [answer EXCEPT ![p] = tables]
  /\ low' = [low EXCEPT ![p] = NoVersion]
  /\ cur' = [cur EXCEPT ![p] = NoObj]
  /\ Goto(p, IF key[p] = "structures" THEN "read" ELSE "acquire")

Usable(o) == obj[o].done /\ ~obj[o].stale

\* Under RLock, which waits for a goroutine that fetches.
Peek(p) ==
  /\ pc[p] = "peek"
  /\ lock[cur[p]] = NoProc
  /\ IF Usable(cur[p])
     THEN Answer(p, obj[cur[p]].tables)
     ELSE Goto(p, "lock") /\ UNCHANGED <<cur, answer, low>>
  /\ UNCHANGED <<database, caches, kind, key, read, todo, mine, expired, count, announced, failed>>

LockUnchecked(p) ==
  /\ pc[p] = "lock"
  /\ lock[cur[p]] = NoProc
  /\ lock' = [lock EXCEPT ![cur[p]] = p]
  /\ Goto(p, "fetch")
  /\ UNCHANGED <<database, store, obj, made, expiries, kind, key, cur, read, todo, mine, expired, count, history>>

\* The second look with the lock held.
Lock(p) ==
  /\ pc[p] = "lock"
  /\ lock[cur[p]] = NoProc
  /\ IF Usable(cur[p])
     THEN Answer(p, obj[cur[p]].tables) /\ UNCHANGED lock
     ELSE /\ lock' = [lock EXCEPT ![cur[p]] = p]
          /\ Goto(p, "fetch")
          /\ UNCHANGED <<cur, answer, low>>
  /\ UNCHANGED <<database, store, obj, made, expiries, kind, key, read, todo, mine, expired, count, announced, failed>>

Unlock(p) == lock' = [lock EXCEPT ![cur[p]] = NoProc]

\* A query for tables takes its connection and reads one of these versions; the
\* connection is given back in a step of its own.
Ask(p, versions) ==
  /\ "fetch" \notin conns[p] /\ Free
  /\ Hold(p, "fetch")
  /\ \E v \in versions : read' = [read EXCEPT ![p] = v]
  /\ UNCHANGED <<obj, lock, cur, answer, low, pc>>

\* The fetch is done.
Publish(p, tables) ==
  /\ obj' = [obj EXCEPT ![cur[p]] = [tables |-> tables, done |-> TRUE, stale |-> FALSE]]
  /\ Unlock(p)
  /\ Answer(p, tables)
  /\ read' = [read EXCEPT ![p] = NoVersion]

\* fetchTableNames, and the list fetchTableStructures begins with.
Fetch(p) ==
  /\ pc[p] = "fetch"
  /\ \/ Ask(p, {schema})
     \/ /\ "fetch" \in conns[p]
        /\ Release(p, "fetch")
        /\ IF key[p] = "structures"
           THEN Goto(p, "singles") /\ UNCHANGED <<read, obj, lock, cur, answer, low>>
           ELSE Publish(p, read[p])
  /\ UNCHANGED <<schema, pending, store, made, expiries, kind, key, todo, mine, expired, count, announced, failed>>

\* fetchSingleTableStructure of the table, a query of its own: what it reads may be
\* newer than the list, but of a table that was not listed it reads nothing.
Singles(p) ==
  /\ pc[p] = "singles"
  /\ \/ Ask(p, {read[p], schema})
     \/ /\ "fetch" \in conns[p]
        /\ Release(p, "fetch")
        /\ Publish(p, read[p])
  /\ UNCHANGED <<schema, pending, store, made, expiries, kind, key, todo, mine, expired, count, announced, failed>>

\* It fails, by an error, by its deadline, also while it waits for a connection, or
\* because it can read no column: the table is left out, and the fetch is done.
SingleFails(p) ==
  /\ pc[p] = "singles"
  /\ Release(p, "fetch")
  /\ failed' = TRUE
  /\ Publish(p, Empty)
  /\ UNCHANGED <<schema, pending, store, made, expiries, kind, key, todo, mine, expired, count, announced>>

EmptyOnFailure(o) == [tables |-> Empty, done |-> TRUE, stale |-> FALSE]

\* What a failed fetch leaves: the tables that were there, still stale, or none.
AfterFailure(o) ==
  IF obj[o].done THEN obj[o] ELSE [tables |-> Empty, done |-> TRUE, stale |-> FALSE]

NeverFails(p) == FALSE

\* An error of the database or the pool, or the deadline withExecTimeout gives the
\* fetch, also while it waits for a connection.
FetchFails(p) ==
  /\ pc[p] = "fetch"
  /\ Release(p, "fetch")
  /\ failed' = TRUE
  /\ obj' = [obj EXCEPT ![cur[p]] = AfterFailure(cur[p])]
  /\ Unlock(p)
  /\ Answer(p, obj'[cur[p]].tables)
  /\ read' = [read EXCEPT ![p] = NoVersion]
  /\ UNCHANGED <<schema, pending, store, made, expiries, kind, key, todo, mine, expired, count, announced>>

\* The TTL of a filled object runs out.
Expire(o) ==
  /\ Usable(o)
  /\ expiries < MaxExpiries
  /\ expiries' = expiries + 1
  /\ obj' = [obj EXCEPT ![o].stale = TRUE]
  /\ UNCHANGED <<database, store, made, lock, callVars, history>>

-----------------------------------------------------------------------------
(***************************************************************************)
(* Calls.                                                                  *)
(***************************************************************************)
InvalidateFirst == <<"structures", "names", "exec">>

WrongKey == <<"exec", "structure", "names">>

\* ExecContext of DDL; the deferred invalidations run in reverse order.
DdlSteps == <<"exec", "structures", "names">>

Call(p) ==
  /\ pc[p] = "idle"
  /\ count[p] < MaxCalls[p]
  /\ count' = [count EXCEPT ![p] = @ + 1]
  /\ \E k \in IF p \in DdlProcs THEN Kinds ELSE Kinds \ {"ddl"} :
       /\ kind' = [kind EXCEPT ![p] = k]
       /\ todo' = [todo EXCEPT ![p] = IF k = "ddl" THEN DdlSteps ELSE <<>>]
  /\ key' = [key EXCEPT ![p] = "names"]
  /\ Goto(p, "load")
  /\ UNCHANGED <<database, caches, cur, read, mine, expired, history>>

\* The statement is executed: rows on a connection of their own or on that of the
\* transaction.
Acquire(p) ==
  /\ pc[p] = "acquire" /\ kind[p] # "ddl" /\ ~expired[p]
  /\ IF InTx(p) THEN UNCHANGED conns ELSE Free /\ Hold(p, "call")
  /\ Goto(p, "types")
  /\ UNCHANGED <<schema, pending, caches, kind, key, cur, read, todo, mine, expired, count, history>>

\* ColumnTypes, then the column types of the tables the SQL names, if any.
Types(p) ==
  /\ pc[p] = "types"
  /\ key' = [key EXCEPT ![p] = "structures"]
  /\ pc' \in {[pc EXCEPT ![p] = l] : l \in {"load", "read"}}
  /\ UNCHANGED <<database, caches, kind, cur, read, todo, mine, expired, count, history>>

FailKeepingRows(p) ==
  /\ pc[p] = "types"
  /\ Goto(p, "return")
  /\ UNCHANGED <<database, caches, kind, key, cur, read, todo, mine, expired, count, history>>

\* ColumnTypes fails: both readers close the rows.
TypesFail(p) ==
  /\ pc[p] = "types"
  /\ Release(p, "call")
  /\ Goto(p, "return")
  /\ UNCHANGED <<schema, pending, caches, kind, key, cur, read, todo, mine, expired, count, history>>

\* The rows are read and closed; a stream's by its user.
Read(p) ==
  /\ pc[p] = "read"
  /\ Release(p, "call")
  /\ Goto(p, "return")
  /\ UNCHANGED <<schema, pending, caches, kind, key, cur, read, todo, mine, expired, count, history>>

\* The deadline of the call's context passes: database/sql closes open rows, and
\* their connection is free again.  One that passes before is noticed here.
Deadline(p) ==
  /\ ~expired[p]
  /\ pc[p] = "acquire" \/ "call" \in conns[p]
  /\ expired' = [expired EXCEPT ![p] = TRUE]
  /\ Release(p, "call")
  /\ UNCHANGED <<schema, pending, caches, kind, pc, key, cur, read, todo, mine, count, history>>

\* What is not executed yet, waiting for a connection or not, is not any more:
\* DDL goes on behind "exec".
ContextDone(p) ==
  /\ pc[p] = "acquire" /\ expired[p]
  /\ Goto(p, IF kind[p] = "ddl" THEN "finish" ELSE "return")
  /\ todo' = [todo EXCEPT ![p] = IF kind[p] = "ddl" THEN Tail(@) ELSE @]
  /\ UNCHANGED <<database, caches, kind, key, cur, read, mine, expired, count, history>>

Doing(p, step) ==
  /\ pc[p] \in {"acquire", "finish"} /\ kind[p] = "ddl"
  /\ todo[p] # <<>> /\ Head(todo[p]) = step
  /\ step = "exec" => ~expired[p]
  /\ todo' = [todo EXCEPT ![p] = Tail(@)]
  /\ Goto(p, "finish")

\* In a transaction the change is not visible to others before the commit.
DdlExec(p) ==
  /\ Doing(p, "exec")
  /\ IF InTx(p)
     THEN pending' = [pending EXCEPT ![p] = TRUE] /\ UNCHANGED <<schema, mine>>
     ELSE /\ Free /\ schema < MaxVersion
          /\ schema' = schema + 1
          /\ mine' = [mine EXCEPT ![p] = schema']
          /\ UNCHANGED pending
  /\ UNCHANGED <<conns, caches, kind, key, cur, read, expired, count, history>>

DdlFails(p) ==
  /\ Doing(p, "exec")
  /\ UNCHANGED <<database, caches, kind, key, cur, read, mine, expired, count, history>>

\* invalidateTableStructures, invalidateTableNames
Invalidate(p, k) ==
  /\ Doing(p, k)
  /\ store' = [store EXCEPT ![k] = NoObj]
  /\ UNCHANGED <<database, obj, made, lock, expiries, kind, key, cur, read, mine, expired, count, history>>

\* DDL returns: others may rely on what it changed.
DdlReturns(p) ==
  /\ pc[p] = "finish" /\ todo[p] = <<>>
  /\ announced' = IF mine[p] > announced THEN mine[p] ELSE announced
  /\ mine' = [mine EXCEPT ![p] = 0]
  /\ Goto(p, "return")
  /\ UNCHANGED <<database, caches, kind, key, cur, read, todo, expired, count, failed, low, answer>>

Return(p) ==
  /\ pc[p] = "return"
  /\ Goto(p, "idle")
  /\ expired' = [expired EXCEPT ![p] = FALSE]
  /\ kind' = [kind EXCEPT ![p] = "query"]
  /\ key' = [key EXCEPT ![p] = "names"]
  /\ answer' = [answer EXCEPT ![p] = NoVersion]
  /\ UNCHANGED <<database, caches, cur, read, todo, mine, count, announced, failed, low>>

\* Begin and Commit or Rollback around calls.
Begin(p) ==
  /\ pc[p] = "idle" /\ ~InTx(p) /\ Free /\ count[p] < MaxCalls[p]
  /\ Hold(p, "tx")
  /\ count' = [count EXCEPT ![p] = @ + 1]
  /\ UNCHANGED <<schema, pending, caches, kind, pc, key, cur, read, todo, mine, expired, history>>

End(p) ==
  /\ pc[p] = "idle" /\ InTx(p)
  /\ Release(p, "tx")
  /\ pending' = [pending EXCEPT ![p] = FALSE]
  /\ schema' \in {schema} \union (IF pending[p] /\ schema < MaxVersion THEN {schema + 1} ELSE {})
  /\ UNCHANGED <<caches, callVars, history>>

\* What a call does once it has begun.
Proceed(p) ==
  \/ Load(p) \/ Peek(p) \/ Lock(p) \/ Fetch(p) \/ Singles(p)
  \/ Acquire(p) \/ Types(p) \/ Read(p) \/ DdlExec(p) \/ DdlFails(p)
  \/ ContextDone(p) \/ (\E k \in Keys : Invalidate(p, k)) \/ DdlReturns(p) \/ Return(p)

Next ==
  \/ \E p \in Procs : Call(p) \/ Proceed(p) \/ FetchFails(p) \/ SingleFails(p) \/ TypesFail(p) \/ Deadline(p)
  \/ \E p \in TxProcs : Begin(p) \/ End(p)
  \/ \E o \in Objs : Expire(o)

\* Go runs every goroutine; the timers of withExecTimeout fire; a goroutine ends
\* its transaction.
Fairness ==
  /\ \A p \in Procs : WF_vars(Proceed(p)) /\ WF_vars(Deadline(p))
  /\ \A p \in Procs : WF_vars(FetchFails(p)) /\ WF_vars(SingleFails(p))
  /\ \A p \in TxProcs : WF_vars(End(p))

Spec == Init /\ [][Next]_vars /\ Fairness

-----------------------------------------------------------------------------
TypeOK ==
  /\ schema \in Versions /\ announced \in Versions
  /\ pending \in [Procs -> BOOLEAN]
  /\ conns \in [Procs -> SUBSET {"tx", "call", "fetch"}]
  /\ store \in [Keys -> Objs \union {NoObj}]
  /\ obj \in [Objs -> [tables : Versions \union {NoVersion, Empty}, done : BOOLEAN, stale : BOOLEAN]]
  /\ made \in 0..MaxObjs
  /\ lock \in [Objs -> Procs \union {NoProc}]
  /\ kind \in [Procs -> Kinds] /\ pc \in [Procs -> PCs] /\ key \in [Procs -> Keys]
  /\ cur \in [Procs -> Objs \union {NoObj}]
  /\ \A p \in Procs : todo[p] \in Seq(Keys \union {"exec"})
  /\ expired \in [Procs -> BOOLEAN]

\* Whatever fetches, failures, expiries and invalidations overlap, a look-up that
\* begins after a DDL statement returned sees its change.
LookupsFresh == Fresh!Spec

\* What is known of a table is never lost because the list of tables cannot be
\* fetched: it is kept, or replaced by what is not older.  A table's structure is
\* lost only to the failure of that table's own query; a table's name never is.
KnownSetKept ==
  [][\A o \in Objs : obj[o].tables \in Versions =>
       \/ obj[o].tables <= obj'[o].tables /\ obj'[o].tables \in Versions
       \/ /\ obj'[o].tables = Empty
          /\ \E p \in Procs : lock[o] = p /\ pc[p] = "singles" /\ key[p] = "structures"]_vars

\* One goroutine at a time asks the database for the tables of a cache, and only
\* if they are missing or stale: those that waited for it use its result.
SingleFlight ==
  \A p \in Procs : pc[p] \in {"fetch", "singles"} => lock[cur[p]] = p /\ ~Usable(cur[p])

\* A call that has returned holds no connection, whichever way it ended.
ConnectionsReturned ==
  \A p \in Procs : pc[p] \in {"idle", "return"} => conns[p] \subseteq {"tx"}

\* Calls end, even with a single connection and the rows of a query open while
\* its tables are fetched on another one: the deadlines resolve that wait.
CallsReturn == \A p \in Procs : pc[p] # "idle" ~> pc[p] = "idle"
=============================================================================
