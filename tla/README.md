# TLA+ models of mybatis-go

mybatis-go maps XML mapper statements to Go functions and runs them on one or more
`database/sql` pools. This directory holds specifications of its concurrent parts and of the
algorithms a statement passes through (dynamic SQL, rewriting, row reading, conversion), the TLC
runs that check them, and proofs of the concurrent parts' safety properties for the TLA+ proof
system. File and line references are to `src/`.

## 1. The system

A mapper proxy calls `BaseMapper.executeMethod`, which renders the SQL text
(`types.SqlFunction.GenerateSQL`), chooses a data source, runs hooks, and goes through
`DB.ExecContext` / `QueryContext`. `DB` rewrites the text, routes the statement to a
transaction or to its `ConnPool`, and the pool is normally a `PreparedStmtDB`. Nothing in the
library owns a goroutine except `go stmt.Close()` and the pool-statistics ticker: concurrency
comes from the application's goroutines sharing these objects.

| component | state | operations | hard part | status |
|---|---|---|---|---|
| prepared-statement cache (`orm/prepared_stmt.go`) | `Stmts`, `PreparedSQL`, `Mux`, the inner `ConnPool` | Exec/Query/QueryRow, `prepare`, `Reset`, `Close` | placeholders others wait for, check-then-insert limit, asynchronous close, reconnect underneath | `PreparedStmt` |
| transactions (`orm/transaction.go`, `orm/database_connection.go`) | `curTx` slot, `Transaction.once`, context values | `BeginTx`, `Commit`, `Rollback`, `WithTx`, statement routing | one slot for all goroutines, repeated and late Commit/Rollback, nesting, expiring contexts, the bounded pool | `Transaction` |
| second-level cache (`orm/namespace_cache.go`, `orm/base_mapper.go`) | `gSecondCache`, one LRU per namespace | `Get`, `Set`, `Flush`, `SetCacheEnabled` | look-up, query and fill are separate steps, and so are write and flush | `SecondCache` |
| id generation (`orm/id_generator.go`) | `snowflakeOnce`, `sfNode` | `snowflakeIdGenerator` | exhausted milliseconds, clock set back, who creates the node | `Snowflake` |
| data-source registry, reconnect (`orm/multi_datasource.go`, `orm/namespace_datasource.go`, `orm/orm_init.go`) | `gDbConn`, `gDataSources`, bindings | initialise, add, use, bind, close, `Reconnect` | the active source is a global that one call reads several times | `DataSources`; `Reconnect` and `close` in `PreparedStmt` |
| read/write splitting (`orm/readwrite_split.go`) | replica list, round robin, switch | `routeReadDB`, `RegisterReplica` | check of the slot, then choice, then execution | `DataSources` |
| schema and table-name caches (`orm/schema_cache.go`, `orm/table_prefix.go`) | cached sets with TTL | fetch, refresh, invalidate by DDL | fetch under the lock on a pooled connection, DDL inside transactions | `Query`, `FreshLookup` |
| row reading (`orm/row_stream.go`, `orm/sql_execute.go`, `orm/scan_rows.go`) | cursor, count, limit | `Next`, `Close`, `fetchRows`, scan helpers | limit boundaries, errors between rows | `Rows`; connections in `Query` |
| statistics (`types/sql_function.go`, `orm/statement.go`, `orm/pool_stats.go`) | counters, ticker goroutines | update, start, stop | compare-and-swap loops, restart race | `Usage`, `PoolStats`; `DB.Statement` is not modelled |
| dynamic SQL (`types/sqlfragment/`, `types/sql_function.go`) | none | compile tests, render in three ways, collect names | nesting, dropped children, values in the order of their marks | `IfTest`, `DynamicSql`, `Params`, `Mapper` |
| SQL text (`orm/table_prefix.go`, `orm/sql_rewrite.go`, `orm/wrapper_rewrite.go`, `orm/dialector/`) | none | prefix tables, number placeholders, page, count, wrap | telling names, strings, operators and brackets apart | `SqlText` |
| result conversion (`orm/common.go`, `orm/result_convert.go`, `utils/change_type.go`) | none | scan, convert, fill models | widths, NULL, hints, discriminators | `Convert` |
| gormish (`orm/gormish/`) | builder values | chain, find, create, update, delete | arguments and marks in separate lists, batches | `Gormish` |
| hooks, fill handlers, registration by reflection, configuration, generators, logging | registries filled at start-up | – | reflection and text | not modelled |

`PROJECT.json` lists every component with its files, and every hazard at its line.

What makes each modelled component correct:

* prepared-statement cache: whoever executes a statement has one that was prepared
  successfully; a statement being closed cannot be found again; a channel is closed once; the
  limit is overshot by no more than the goroutines that raced for it; every call returns.
* transactions: no statement joins another goroutine's `WithTx`; no transaction is lost with
  its connection; the slot never outlives its transaction and is never taken from its owner;
  only the outermost `WithTx` decides.
* second-level cache: a result that did not overlap a write is not served once it is outdated.
* id generation: ids grow as long as the clock does; callers are never stuck.
* data sources: a bound namespace keeps its source, a transaction its statements, a statement's
  text is written for the source that runs it, and no open pool is lost.
* schema caches: a look-up sees every change announced before it began; a known set is not lost
  because the list of tables cannot be read; one goroutine fetches; connections come back.
* algorithms: what a statement means survives compilation, rendering, rewriting, paging, and the
  way of its rows back into Go values.

## 2. Modules

Each component has a module with its state and one action per atomic step, an `MC` module that
TLC instantiates, and, where theorems are proved, a `_proofs` module. A step is one section under the code's lock, or one
call into `database/sql`. `Reconnect` and `close` are part of `PreparedStmt` because they exist to
change its state. `DataSources` composes the registry with `PoolStats` (INSTANCE), since
initialisation and `Close` start and stop the logger; `PreparedStmt` refines `Promises` and `Query`
refines `FreshLookup`, both abstract specifications without a cache; `Algorithms`
extends `Usage` and brings the modules of pure functions under one next-state relation with it. `Rows_proofs`
is about operators only and states what `Algorithms` checks as part of `RowsComplete`.

Mutated forms of actions (`EvictIfAnother`, `NeverFull`, `NestedCommits`, ...) stand before the
action they change. They are not part of the specifications; putting one in the place of its
action shows that the property it is meant for depends on that piece of code.

### PreparedStmt and Promises

`Stmts` maps a query to a numbered entry, since the identity of a `*Stmt` matters: the map may
hold a newer entry of the same query. `phase` says whether the entry's `*sql.Stmt` or
`prepareErr` is set, `prepared` which channels are closed, `open` which statements live on the
server, `closing` which `go stmt.Close()` goroutines are pending; 0 in `closing` is one with a
nil receiver. A goroutine goes `lookup` → `insert` → `prepare` → `publish` or `unpublish` →
`signal` → `use` → `evict`, or to `wait` on a hit. The method that was called is chosen where
it first matters (the limit check, and the reaction to an error). A goroutine of the model is a
slot for calls, not an identity; hence calls that `DB` dispatched before `Reconnect` may start
at any time, and `StartCall` needs no guard on the reconnect. `Lookup` and `Insert` are separate
because `RLock` is released between them. `CloseNil` models what `sql.Stmt.Close` does with a
nil receiver: the process is gone.

`Promises` is what an entry is to those who share it, without map, limit, eviction or pools: one
goroutine makes a promise and settles it once, others wait for it and proceed with its outcome only. The
mapping (`Promise == INSTANCE Promises`) reads the outcome of an entry off its channel, `prepareErr` and
statement (`OutcomeOf`), as a waiter does after `<-stmt.prepared`, and the stage of a goroutine off its program point
(`StageAt`); steps on the map, the limit and the pools are stutters.

### Transaction

Transactions are numbered; `state` is that of the `*sql.Tx`, `once` that of
`Transaction.once`. Committed and rolled back are both `over`: no property tells them apart.
`handle` is the `*Transaction` a goroutine got from `BeginTx` and may finish more than once;
`ctxTx` the one in its `WithTx` context. `Finish` (once.Do) and `Clear` (clearCurTx) are
separate steps; in `LeaveWithTx` they are one, because a `WithTx` transaction is never in the
slot, so that its clearCurTx changes nothing whenever it runs. `Route` reads the slot and
`ExecInTx` executes later, as in `DB.ExecContext`. `CtxExpires` is what `database/sql` does when
the context of a transaction is done.

### SecondCache

The rows of a namespace are reduced to the number of writes committed to its table. A cached
result records that version, the parameters it was read for, and `clean`: no write of the
namespace was under way when it was read, and none that never flushes happened since. `clean`
is history, not code; it is what separates the staleness the design has (overlaps) from
staleness it must not have. A select looks up, queries and fills; a write takes effect and
flushes; transactions keep their writes in `pending` until `Commit`. `isEnabled`, the look-up of
the namespace's cache and the operation on it take three locks in the code and are one step
here: between them only `SetCacheEnabled` could interfere, and then the operation goes to a map
that is about to be dropped or has just been replaced, as if it had come before it. `SilentWrite`
is a write that takes effect without a flush: an error after the effect (`executeMethod`,
408-411), a batch, `orm.Execute`, another process.

### Snowflake

`Once` is `snowflakeOnce.Do`, `Lock` … `Issue` the section under `sfNode.mu` with each reading
of the clock a step of its own. `Spin` is the iteration of the waiting loop that reads a later
time; the ones before it change only a local. `SequenceSize` and `WorkerSize` are 4096 and 1024
in the code. The 41 bits of the time are not bounded (they last until 2093).

### DataSources and PoolStats

A mapper call goes `match` (the binding's name) → `resolve` (its pool) → `enter` (`execDB`, then
`routedDB`) → `route` → `compare` → `replica` (routeReadDB, in the order of its checks) → `exec` →
`run`. Each arrow reads shared state that the administrator may change between them: `gDbConn` has
no lock at all. `orm.Execute` starts at `exec`. An administrative operation is a script, the list
of its atomic steps; a step that did not find its data source skips what needs it (`Skip`).
`InitializeDataSourcesFromSettings` ranges over a map: its script takes any order of the names.
Initialisation empties the bindings (`Unbind`) and sets the configured ones (`Rebind`) in separate steps; that the latter
takes the lock once for each binding is not modelled. Pools are
numbered, because a name can stand for one pool after the other; `unpinged` are those whose `Ping`
failed in `Open`, which then forgets them. `expect` is history: where a call has to run, fixed
when it starts and revised when a binding or the active source changes under it. `why` tells
whether it has to because of its own `WithTx`, a binding, or its transaction in the slot.
In `PoolStats` the channel of a logger and its goroutine have one number; `waitsOn` is the channel
its `select` evaluated, which is the global at that moment.

### Query and FreshLookup

A query holds its rows, hence a connection, through `types` → `load` → `peek` → `lock` → `fetch` →
`singles` (the look-up of column types) until `read`. A look-up is that of `tableNameSet` or of
`tableStructureSet`, which have the same shape; a cache object carries tables, `done` and `stale`
(its TTL has passed). The schema is a version number, so that a set of tables is the version it
was read from; what a set says is followed for one table. The structures are read by the list of tables (`Fetch`) and a
query for the table (`Singles`), whose answer may be newer than the list. If the list fails, the object keeps what it had
(`FetchFails`); if the table's own query fails, the table is left out and the fetch counts as done (`SingleFails`). DDL executes and then drops both caches, in the order of the code, whatever the
outcome; in a transaction its change is `pending` until the end. `Deadline` is what
`withExecTimeout` and `database/sql` do with open rows.

`FreshLookup` promises, without a cache: an answer is not older than the last change announced
when the look-up began, or it is empty, and then some fetch has failed. `announced` is history in
`Query`: DDL outside of transactions that has returned. The mapping is the identity on the history
variables (`Fresh == INSTANCE FreshLookup`); every step of `Query` is a step of `FreshLookup` or
stutters.

### IfTest, DynamicSql, Params, Mapper

A text is a sequence of tokens: words, blanks, slots `#{}` / `${}`, marks with the value bound to
them. `DynamicSql` renders a tree in the code's ways: prepared (marks and values), generated (values
inlined), static (`ExtractStaticSQL`), each for a map of parameters, a scalar, a slice or none.
Missing keys, nil and panics are results of their own; where the code ranges over a map the result is a set. `IfTest`
is the scanner's tokens, the recursive descent parser, the evaluation, and the older parser kept as
fallback, which cuts a test at the letters `and` wherever they stand (`Pieces` lists the names of the inputs that hold them).
Placeholders are replaced one after another in the growing text, as `strings.ReplaceAll` does (`RenderText`): two characters of
the model's strings stand for the texts `#{a}` and `#{b}`, so that a value written into the text may bring a placeholder along. `Mapper` goes from XML events to the tree, with the code's rule for what a fragment that
does not parse takes with it. Numbers are small integers; formatting of dates and floats is not
modelled.

### SqlText, Rows, Convert, Gormish, Usage

`SqlText` takes a statement as tokens `[k, t]`; a name is the sequence of its parts, so that a
prefix is its first part. The scanners disagree in what they take for comments (`#`) and strings,
and keep their own operators. The wrapper's patterns see neither strings nor brackets: they search a text whose strings are
opened into words (`Opened`). `Rows` reads a set of rows of three qualities (good, a Scan that fails, a column
that cannot be converted) and a connection that may be lost at the end; what a loop has read after n rows is a
recursive function of n (`Progress`), and what a reader owes is stated with it (`Delivered`, `Agree`). `Convert` follows one cell
from the scan type to a field of a model; integer types have the scaled widths of `Bits` (3 bits
for 8-bit types up to 6 for 64), which keep every order between widths that decides an overflow.
`Gormish` builds a statement by a chain of calls as a value (handles are copied by `clone`) and then
SQL and arguments. `Usage` has one step per atomic instruction of `UpdateUsage`,
except for `FailedUsage`, which never counts (section 5).

## 3. Runs

| run | instance | shows |
|---|---|---|
| `prepared_stmt` | 2 goroutines, 2 queries, limit 1, 3 entries, 1 reconnect or close (837 161 states) | `PreparedStmt` implements `Promises` (`EntriesArePromises`); channels, closing, limit; `CallReturns` |
| `prepared_stmt_stale` | 1 goroutine, 1 query, 1 reconnect | `NoStaleStmtAfterReconnect` is violated |
| `transaction` | 2 goroutines, 4 transactions, nesting 2, 3 connections (214 277 states) | all safety and action properties and `BeginReturns` |
| `transaction_dead_slot` | 2 goroutines, 1 transaction | `NoRouteToFinishedTx` is violated |
| `second_cache` | 3 goroutines (2 with transactions), 1 namespace, 2 statements, 2 versions, 1 silent write (713 600 states or so) | `CleanEntryFresh` |
| `second_cache_race` | 2 goroutines, 1 statement | `NoStaleHitAfterFlush` is violated |
| `second_cache_key` | 2 goroutines, 2 parameter values | `HitMatchesParams` is violated |
| `snowflake` | 2 goroutines, 2 sequence numbers, 3 data sources, 1 step back (122 000 states or so) | `IdsIncrease`, `CallReturns` |
| `snowflake_worker` | 1 goroutine | `WorkerIdOfDataSource` is violated |
| `data_sources` | 1 goroutine of a namespace with two matching patterns, 2 names, 4 pools, 2 administrative operations, 2 loggers (2 743 974 states) | calls of bound namespaces and transactions stay where they belong, text and connection agree, no pool is lost, a restart strands no logger |
| `query` | 2 goroutines (1 with DDL and transactions), 1 connection, 1 schema change, 1 expiry (212 000 states or so) | `Query` implements `FreshLookup`; single flight, connections returned, `CallsReturn` |
| `algorithms` | about 29 000 inputs, listed in `MCAlgorithms`; 2 goroutines with 3 usages | the algorithms agree with their reference definitions |

Bounds. `MaxEntries`, `MaxAdmin`, `MaxTx`, `MaxDepth`, `MaxVersion`, `MaxSilent`, `MaxClock` and
`MaxStepBacks` cut off behaviours, always in the guard of an action that starts something new
(a call, a transaction, a write), so that what has started can finish. Each is the least value
that lets its case happen: three entries are two concurrent placeholders and the second
preparation of an evicted query; a limit of one can be overshot by two goroutines; four
transactions are a TCC and a `WithTx` transaction of each goroutine at once; two versions let a
filled entry be outdated and refilled; two sequence numbers run out at the second id of a
millisecond. The proofs below do not depend on any of these values. The runs deadlock-check:
a system whose calls have all returned can still take a direct execution or a fresh look-up.
`data_sources`, `query` and `algorithms` do not: administrative operations, calls and inputs are
bounded there, and the system may stop when they are used up. In `data_sources` four pools are those of one
initialisation with a second source, an `AddDataSource` or a new initialisation after it; two operations are an
administrator's interference with what the first one did; the round robin of 2 wraps as 2^64 does.
In `query` one connection is the case that can wait for itself. In `algorithms` a statement has at most two
elements, each tag under each other that treats it differently, and calls give every
combination of present, absent and nil parameters, and values that hold the text of a placeholder; names and strings hold
the letters `and`, and literals the words that end a query; SQL templates hold a table at every place the scanner
knows and a parameter beside every kind of token; a column has every scan type with cells at
the bounds of its width.

Fairness. `PreparedStmt`: a call in progress takes its next step (goroutines are scheduled, and
`PrepareContext`/`ExecContext` return since `withExecTimeout` gives them a deadline, five minutes by
default); nobody has to start a call or to reconnect. `Transaction`: connections are handed out
while one stays free, steps inside the library are taken, and user code, whenever it can again
and again, finishes what it began. The last is the application's duty, not the library's:
`BeginTx` with `context.Background()` has no deadline of its own. `BeginReturns` also needs a pool
with more connections than goroutines that may hold one transaction while asking for a second;
with fewer they can wait for each other for ever, which the library cannot prevent. `Snowflake`:
the clock advances and a waiter for the mutex that can get it again and again gets it
(`sync.Mutex` hands over to starving waiters). `Query`: goroutines run (`Proceed`), a fetch that gets
no connection fails when its own deadline passes (`FetchFails`), the deadline of a query closes its rows (`Deadline`:
`withExecTimeout` gives every context one, five minutes unless `SetDefaultTimeout(0)`), and a
goroutine ends its transaction. Nobody has to begin a call.

### Divergences the runs show

1. `prepared_stmt_stale`: after `Reconnect` the cache may hold a statement of the old, closed pool
   (a caller passes the old pool to `prepare` and takes the lock after `Reset`), although the
   comment at `orm/orm_init.go:100` has the cache reset because its statements are bound to the old
   connection.
2. `transaction_dead_slot`: between `tx.Commit` and `clearCurTx` the slot still routes foreign statements
   to the finished transaction, which the comment at `orm/transaction.go:160` says it does not.
3. `second_cache_race`: a select that queried before a write fills the cache after the write's flush.
   `CHANGELOG.md:129` promises the flush after any write, and the entry stays stale afterwards.
4. `second_cache_key`: the key hashes the arguments `GenerateSQL` returns, and it returns none: all
   parameters of a statement share one entry, where `CHANGELOG.md:129` says they are part of the key.
5. `snowflake_worker`: the worker id is read inside `sync.Once`, so the first data source decides for
   all, where the comment at `orm/id_generator.go:120` and `docs/features.md:667` say each has its own.

Each run leaves out everything that could explain the violation otherwise (transactions, silent
writes, clock steps, a second goroutine where one suffices).

## 4. Proofs

All theorems about behaviours are of the form `Spec => []Inv`, `Spec => [][A]_vars` or
`Spec => Abstract!Spec`; those of `Rows_proofs` and `WorkersApart` are about functions. All hold for
every value of the constants that satisfies the assumptions stated with them (finite non-empty sets, positive bounds,
distinguished values outside their sets), and are checked by `tlapm`.

* `PreparedStmt_proofs` proves the five invariants of its run and the refinement. `SafeInv` strengthens them: nothing refers to an entry not
  allocated (`UsedInv`); what each program point says of the entry its goroutine holds (`HeldInv`);
  an entry is cached only under the query of whoever holds it (`QueryInv`: this is why evicting by
  query name cannot leave a closed statement under another name); only published entries are closed
  (`ClosingInv`); pool numbers never run ahead (`PoolInv`: a statement cannot be prepared on a pool
  that is opened later, so publishing it on an open pool finds it open). Channel ownership is the heart of it:
  a fresh entry belongs to its allocator alone, and only an owner closes the channel.
  `CacheLimited` counts: a goroutine past the limit check stands for the entry it will insert, and
  `Insert` moves it from one count to the other (`FiniteSetTheorems`). Two more theorems are about those
  who wait: `WaitersHaveOwner` (as long as a channel is open, a goroutine between placeholder and
  deferred close owns its entry, evicted or reset as the entry may be by then), without which no fairness
  would make `CallReturns` true; and `EntriesSettle` (once the channel is closed, error, statement
  and pool of the entry are never written again), which is why waiters may read them without the lock.
  `CacheHandsOutPromises` is the refinement, for every schedule: each step of `PreparedStmt` maps to a step of `Promises` or to
  none (`NextPromises`). Allocating an entry makes a promise (`AllocPromises`), `signal` settles it with what
  `publish` or `unpublish` has written before (`SignalSettles`: by `HeldInv` the signaller owns the entry), a hit
  awaits (`HitAwaits`), and a waiter leaves with the outcome the owner left (`WaitReceives`); that all other steps
  keep outcomes and stages is `QuietSteps`. `OnlyReadyUsed` follows from the same invariant: whatever `prepare` returns was prepared.
* `Transaction_proofs` proves `TypeOK`, `DetachedIsolated`, `ActiveTxOwned`, `SlotReachable`,
  `SlotNotStolen` and `OutermostDecides` from one invariant that says who may hold which transaction:
  the slot, handles and routed statements only ever refer to transactions opened by `BeginTx` or to
  one's own (`OwnerInv`), no two goroutines hold the same (`HandleInv`), nothing refers to a
  transaction not yet opened (`UsedInv`), a finished one is over (`OnceInv`), and `PcInv` ties handle and context to the program point, so that the slot's
  transaction is held by someone who has not yet cleared it. Three more theorems are not stated by a run.
  `TccExclusive`: a TCC is a lock. From the return of `BeginTx` until its goroutine ends it, the transaction is in the
  slot (`BegunInv`: the slot is cleared of a finished transaction only, and never filled while occupied), so nobody else has one and statements of that
  goroutine go nowhere else. `WithTxInTime`: through a context no statement reaches a finished
  transaction; that race (divergence 2) is one of the slot. `PoolNeverStuck`: with more
  connections than goroutines, whoever waits for one waits for a goroutine that has one and waits for none. In an exhausted
  pool some goroutine holds two of the transactions (pigeonhole, `FiniteSetTheorems`), and one that waits holds at
  most one (`WaiterHoldsOne`: before `BeginTx` its handle is finished, before `WithTx` it has no context). The bound is tight: with as many
  connections as goroutines TLC finds all of them waiting.
* `SecondCache_proofs` proves `TypeOK` and `CleanEntryFresh`. The strengthening extends the property
  to results that are read but not cached yet (`ReadInv`): a clean one has the current version and no
  write of its namespace is under way, because every write spoils the reads of its namespace
  that are in flight. `EntryInv` says that a clean entry is about to be flushed, or current
  and no open transaction has written its namespace.
* `Snowflake_proofs` proves `TypeOK` and `IdsIncrease`. The strengthening bounds every issued id by
  the one made of `lastTime` and `sequence`, and says what the holder of the mutex has read; the
  arithmetic is that of mixed-radix numbers for any widths. `WorkersApart` is the other half of uniqueness: an
  id determines the time, worker id and sequence number it was made of, so processes whose worker ids
  differ after the cut to ten bits never issue the same id, whatever their clocks do (the 41 bits
  of time and the sign of `int64` are not part of it). `MutexNeverLost` is the safety part of `CallReturns`: whoever
  waits for the mutex waits for one goroutine, and that one for nothing but the clock, however often it was set back.

* `Query_proofs` proves all five safety properties of its run, the refinement `LookupsFresh` among
  them, from one invariant. `LockInv`: whoever fetches holds the lock of its object and nobody else
  does, so two fetches never fill one object. `ConnInv` and `CallInv` say at which program points a
  connection, an object and a fetched version are held. `OrderInv`: no version is ahead of the
  database, and a fetched one is not older than the one it replaces. The heart are `StoreInv` and
  `HandInv`, about every version an object shows or is about to show (`AtLeast`): in the
  store it is not older than what was announced, nor than the change of a DDL statement that has
  emptied this place of the store already; in hand not older than what was announced when the
  look-up began. So what DDL announces when it returns is shown by all objects in the store, because
  it emptied both places after the change; an object that began to be filled before the change may
  still be in hand, but only of look-ups that began before the announcement. Every step then maps to a
  step of `FreshLookup` or to none (`NextMaps`). `KnownSetsAreKept` says by which step alone a known table can be lost: the
failure of its own structure query (`SingleFails`), by the goroutine that holds the lock. `LocksNeverCycle` is the safety part of `CallsReturn`: waiting for
  a cache object's lock ends at a goroutine that fetches that object and waits for no lock. It may wait
  for a connection, and those who wait for it may hold one: that circle the deadlines break, which is why
  `CallsReturn` needs their fairness.

* `DataSources_proofs` proves all seven invariants of its run, for any number of goroutines, names, namespaces,
  pools and operations. The assumption `MaxDb >= Cardinality(Names)` only says that the bound on pools does not cut an
  initialisation in two. About the registry, the invariant speaks of what the rest of the script will
  do. `Shape`: `reset` follows `closeAll` at once, and an opened pool is registered before the next one is
  opened, under a name no other step registers. `Owed` says that the newest pool is still to be registered;
  it is then nobody's (`PoolFresh`), every pool that is neither closed nor dropped by a failed `Ping` is
  registered or owed (`Reachable`), and a name about to be registered is free by then, because the name
  was looked for, or the registry will have been emptied (`AddsFree`). Closed pools are registered only when
  `reset` comes next, and then all are closed (`ClosedTogether`). Every operation begins with a script of this
  shape that owes nothing (`Fits`); every step takes the first element away and pays for what that changes. At the
  beginning the pools of the default and the named sources are numbered: a bijection between names and numbers, by
  cardinality. About a call, `BoundOf`, `SlotOf` and `TextInv` say at each program point which pool each of its
  variables holds, as long as it has to run on one; the steps of other goroutines and of the administrator either
  leave that alone or revise what is expected. `LoggerInv`: the logger runs exactly if the current channel is open.
* `Usage_proofs` proves `MaxDurationExact` and that the maximum never falls, if durations are natural
  numbers (`DurationsNat`; the code's are milliseconds of `time.Since`, which is monotonic). A goroutine's loaded value is
  never above the maximum, so a compare-and-swap that succeeds raises it; a goroutine leaves the loop only
  with the maximum at its duration or above; and the maximum is a duration that was counted.
* `Rows_proofs` is about functions: `ReadersDeliver`, `ReadersAgree` and `FirstRowDelivers` hold for result
  sets of any length, any limit and any rows that fail, where TLC checks three rows. The loop is a recursive
  function on `0..Len(rows)`; that a function satisfying the recursion exists is proved by induction over sets of
  numbers (`Induction`, `Recursion`), which needs no operator parameter. The loop invariant (`LoopInv`) says
  where the rows taken stand in the set (`Placed`: at rising positions, with nothing but skipped rows between), why
  the loop has ended (`Status`), and that nothing has been left out while it has not (`Whole`). Two readers agree
  on a clean set because a turn on a good row is the same for all.

The theorems about `Query` and `DataSources` say nothing of fairness: they hold for every schedule. Those about
`PreparedStmt`, `Transaction` and `Snowflake` use fairness nowhere either.

Only model-checked:
* the liveness properties (`CallReturns` twice, `BeginReturns`, `CallsReturn`), which need fairness and ENABLED and are
  out of the prover's reach. Of each, what makes it true whatever the schedule is proved: that who waits, waits for someone who can
  go on (`WaitersHaveOwner`, `PoolNeverStuck`, `MutexNeverLost`, `LocksNeverCycle`);
* the five violations;
* `IfTestsFaithful`, `TreeKept`, `RenderingsAgree`, `PlaceholdersResolved`, `NoDanglingWords` and `StatementTextKept`:
  their modules compute over trees and token sequences with RECURSIVE operators, for which the prover has no SMT;
* of `RowsComplete`, the conversion of cells and the filling of models: texts of digits need induction over their
  length, widths powers of two. Its part about readers
  is what `Rows_proofs` proves, but the property itself stands in a module that also reaches the recursive ones.

## 5. Faults seen while modelling

The models contain these as the code has them, and the properties name the conditions under which
they hold, so that each exclusion is one of the following.

Text of a statement.
- `update` is taken for the beginning of a statement wherever it stands: `for update nowait`, `on
  duplicate key update c = …` and `do update set` get a table prefix on the next word, among them the
  generated upserts (`orm/upsert.go`). The comment of `orm/table_prefix.go` says that nothing but table names changes.
- The target of `ALTER TABLE … RENAME TO` and a table that follows a derived table or a table
  function after a comma get no prefix; a CTE whose name has a mapped prefix is renamed at its use only; of two
  map entries that fit a random one is taken.
- A `?` between two words (`between ? and ?`, `limit ? offset ?`) is taken for a jsonb operator
  and is not numbered (`orm/dialector/placeholder.go:194`, against the comment above it); `find_in_set(?, c)` is rewritten into `?||`, likewise.
- A wrapper's condition is joined with `AND` to `a or b` without brackets, finds WHERE and tails
  inside subqueries and string literals, and goes behind a final `;`: for `where d = ' limit 3'` it is put inside the literal,
  for a literal with ` where ` it is joined with `AND` to a query that has none (`orm/wrapper_rewrite.go:14` and `:17`); a page of a query with `FOR UPDATE` loses or misplaces it; a count
  ignores DISTINCT, GROUP BY and UNION.
Dynamic SQL.
- A plain `<sql>` fragment keeps its placeholders at run time, while the static extraction, which
  claims the same semantics (`static_extract.go:18`), substitutes them; `<otherwise>` without arguments
  keeps raw placeholders; children of `<foreach>` are glued without a blank; a child that does not
  parse takes the whole `<where>` with it; a nil collection panics.
- The older reading of a test splits it at the letters `and` wherever they stand (`types/sqlfragment/if.go:447`), in `brand`,
  `standard` or `'android'` too: with a brand given, `brand != null` is true compiled and false in the older reading. It decides only
  where the compiler refuses the test.
- Placeholders are replaced one after another in the growing text (`types/sqlfragment/simple.go:26-66`): a value that `${}`, or
  `GenerateSQL` for any parameter, writes into it and that holds the text of a later placeholder is substituted again; one
  that holds an earlier placeholder leaves it unresolved. `BaseMapper.executeMethod` executes what `GenerateSQL` returns (`orm/base_mapper.go:357`).
- A suffix override is stripped inside a word as well: `or` off `color` (`types/sqlfragment/trim.go:62`).
Rows and values.
- `fetchRows` skips rows it cannot scan and ignores `rows.Err()`: a lost connection or a deadline
  looks like the end, and the partial result is returned without an error. `RowStream` reports a truncation at exactly `limit` rows.
- An unsigned 32-bit value beyond 2^31 fails its scan and drops the row; nullable doubles and
  booleans have no converter and are left out; a column of known structure whose type the driver does not tell reads 0
  for int, float and time hints; BIT 1 is left out; integers narrow silently.
- A discriminator that names another model panics in `reflect.Append`; properties only its map has are lost.
Gormish.
- `Table()` forgets the model, so that `Delete(&item)` ignores the item's key; a batch whose first
  item has no key drops the later ones' keys; string conditions are joined without brackets; an
  empty condition gives `()`; `Count` ignores grouping and limit.
Shared state.
- `FailedUsage` never counts: `defer sqlFunc.UpdateUsage(start, err == nil)` evaluates `err` when it is
  deferred (`orm/base_mapper.go:335`). The usage minimum can lose a smaller concurrent value.
- A logger stopped while it is outside of its `select` waits on a nil channel for ever and keeps logging.
- `InitializeFromSettings` registers only the default source before it looks for replicas, so that
  none is found; `InitializeDataSourcesFromSettings` never turns splitting on (`docs/features.md:598`).
- With a source active that a namespace is bound to, its reads go to the default source's replicas.
  `orm.ExecuteContext` in a `WithTxForNamespace` is written for the active source and runs on the
  transaction's. A failed `Ping` in `Open` leaks its pool; an initialisation whose default source fails leaves `gDbConn` closed.
- A table whose own structure query fails is left out and the fetch is marked done (`orm/schema_cache.go:112`): a refresh trades a
  known structure for nothing, until the TTL or for ever without one, while a failing list keeps what was known.
- The first fetch of the table structures that fails is cached as an empty set, for ever without a TTL; DDL in a
  transaction lets the old schema be cached again before the commit.
- A failed count query leaves a page with a total of 0 and no error (`orm/base_mapper.go:306`).

## 6. Not modelled, and why

Reflection (building proxies and models, back-fill of keys), parsing of configuration files, code
generation, logging and pretty printing have no protocol to check; configuration values are
constants of the models. Hooks, fill and type handlers are user callbacks. `DB.Statement`'s counters and the
diagnostics of transaction scopes only report. Reading the catalogue of each database is external. Torn reads of interface values are
below the atomicity chosen here; return values of repeated `Commit`/`Rollback` are left out. Two
administrators at once would need another copy of `script` and more pools than TLC can take
together with calls; `AddDataSource`'s check-then-add is listed as a hazard.

## 7. Plan

1. `Convert` with functions in the place of recursive operators, so that what a cell becomes can be proved for
   every width. (That `DataSources` implements `PoolStats` is no theorem: it takes the steps of the latter as they are.)
2. An abstract specification for `SecondCache`: a register per namespace that it implements for clean reads.
3. Reading each database's catalogue, the key back-fill and hooks around `executeMethod`.
