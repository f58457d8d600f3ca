----------------------------- MODULE DataSources ------------------------------
(***************************************************************************)
(* The registry of data sources and the choice of one for every statement: *)
(* the global active source gDbConn (orm/multi_datasource.go,              *)
(* orm/orm_init.go), the bindings of namespaces                            *)
(* (orm/namespace_datasource.go), read/write splitting                     *)
(* (orm/readwrite_split.go), and the way a mapper call passes all of them  *)
(* (orm/base_mapper.go, orm/database_connection.go).                       *)
(*                                                                         *)
(* A call reads the shared state at several points; each is a step.  One   *)
(* goroutine administers: initialisation, AddDataSource, Close and the     *)
(* like are scripts of steps between which calls run.  Opened pools are    *)
(* numbered, since a name can stand for one pool after the other.          *)
(***************************************************************************)
EXTENDS Naturals, Sequences, FiniteSets

CONSTANTS
  Procs,        \* goroutines that begin transactions
  Callers,      \* those that also run statements
  NoProc,       \* no goroutine
  Names,        \* names of data sources
  Default,      \* "default"
  NoName,       \* no name
  Namespaces,   \* mapper namespaces
  NoNs,         \* of a statement that belongs to no mapper
  Patterns,     \* binding patterns, normalised
  Matching,     \* Matching[ns]: the patterns that are prefixes of ns, longest first
  SettingsBind, \* SettingsBind[pattern]: the name it is bound to in the settings
  SettingsReplicas, \* mybatis.replicas
  RoundRobinSize, \* the replica counter wraps there, 2^64 in the code
  MaxDb,        \* bound: pools opened in one behaviour
  MaxOps,       \* bound: administrative operations in one behaviour
  MaxStarts     \* bound: starts of the pool-statistics logger

ASSUME ConstantsAssumption ==
  /\ IsFiniteSet(Procs) /\ NoProc \notin Procs /\ Callers \subseteq Procs
  /\ IsFiniteSet(Names) /\ Default \in Names /\ NoName \notin Names
  /\ NoNs \notin Namespaces
  /\ Matching \in [Namespaces -> Seq(Patterns)]
  /\ SettingsBind \in [Patterns -> Names \union {NoName}]
  /\ SettingsReplicas \in Seq(Names)
  /\ RoundRobinSize \in Nat \ {0}
  /\ MaxDb \in Nat /\ Cardinality(Names) <= MaxDb
  /\ MaxOps \in Nat
  /\ MaxStarts \in Nat

NoDb == 0
Dbs  == 1..MaxDb

VARIABLES
  \* the registry and the pools
  sources,  \* gDataSources.sources: name -> pool
  gDbConn,  \* the active pool
  opened,   \* pools opened so far are 1..opened
  closed,   \* pools closed
  unpinged, \* pools whose Ping failed in Open, which then returned an error
  \* routing
  nsBindings,        \* pattern -> name
  rwSplitting,       \* rwSplittingEnabled
  replicaNames,
  replicaRoundRobin, \* a counter
  \* administration
  script,  \* the steps the current operation has left
  pool,    \* the pool it has just opened
  ops,     \* operations started
  \* the TCC slot of every pool, and the transaction of a goroutine's WithTx
  curTx,   \* pool -> goroutine that began the transaction in its slot
  ctxTx,   \* goroutine -> pool of the transaction in its context
  \* calls
  pc, ns, kind,
  match,   \* dsName of the binding found
  route,   \* the pool in the context, rwRouteKey
  execDB,  \* executeMethod's local
  base,    \* routeReadDB's local
  target,  \* the pool whose ExecContext/QueryContext runs the statement
  inTx,    \* it runs in a transaction
  expect,  \* history: where the statement has to run, see Expected
  \* the pool-statistics logger
  stopChan, running, started, closedChans, loop, waitsOn

Stats == INSTANCE PoolStats WITH closed <- closedChans

registry == <<sources, gDbConn, opened, closed, unpinged>>
routing  == <<nsBindings, rwSplitting, replicaNames, replicaRoundRobin>>
admin    == <<script, pool, ops>>
txs      == <<curTx, ctxTx>>
callVars == <<pc, ns, kind, match, route, execDB, base, target, inTx, expect>>
logger   == <<stopChan, running, started, closedChans, loop, waitsOn>>
vars     == <<registry, routing, admin, txs, callVars, logger>>

\* "select", "stream" (executeStream, executePage), "write", "returning" (an
\* insert that reads its key by RETURNING), "api" (orm.Execute, orm.Query).
Kinds == {"select", "stream", "write", "returning", "api"}
Reads == {"select", "stream"}

PCs == {"idle", "match", "resolve", "enter", "route", "compare", "replica", "exec", "run", "done"}

-----------------------------------------------------------------------------
(***************************************************************************)
(* Look-ups.                                                               *)
(***************************************************************************)

First(positions) == CHOOSE i \in positions : \A j \in positions : i <= j

\* matchNamespaceBinding: the longest pattern that is a prefix and bound.
MatchBinding(n, bindings) ==
  LET bound == {i \in DOMAIN Matching[n] : bindings[Matching[n][i]] # NoName}
  IN IF bound = {} THEN NoName ELSE bindings[Matching[n][First(bound)]]

\* gDataSources.get
Get(name) == IF name = NoName THEN NoDb ELSE sources[name]

RoutedActive(p) == gDbConn

\* routedDB(ctx)
RoutedDB(p) == IF route[p] # NoDb THEN route[p] ELSE gDbConn

NoSlot(d) == FALSE

\* db.currentTx() # nil
SlotTaken(d) == d # NoDb /\ curTx[d] # NoProc

\* inTransactionWith(ctx)
InTransactionWith(p) == ctxTx[p] # NoDb \/ SlotTaken(RoutedDB(p))

\* Where the statement of a call that starts now has to run, whatever other
\* goroutines do meanwhile: in the transaction of its context; on the data source
\* its namespace is bound to, unless that is the active one; in the TCC
\* transaction its goroutine began on the active source.
Expected(p, n, k) ==
  LET bound == IF n = NoNs THEN NoDb ELSE Get(MatchBinding(n, nsBindings)) IN
  CASE ctxTx[p] # NoDb -> [why |-> "ctx", db |-> ctxTx[p]]
    [] ctxTx[p] = NoDb /\ bound \notin {NoDb, gDbConn} -> [why |-> "bound", db |-> bound]
    [] ctxTx[p] = NoDb /\ bound = NoDb /\ gDbConn # NoDb /\ curTx[gDbConn] = p ->
         [why |-> "slot", db |-> gDbConn]
    [] OTHER -> [why |-> "none", db |-> NoDb]

Nothing == [why |-> "none", db |-> NoDb]

\* What a change of the registry, the bindings or the active source leaves of
\* the expectations: a call whose own source was touched may run elsewhere.
Revise ==
  expect' = [p \in Procs |->
    LET e == expect[p]
        name == IF ns[p] = NoNs THEN NoName ELSE MatchBinding(ns[p], nsBindings)'
        bound == IF name = NoName THEN NoDb ELSE sources'[name]
    IN IF \/ e.why = "bound" /\ (bound # e.db \/ gDbConn' = e.db)
          \/ e.why = "slot" /\ (bound # NoDb \/ gDbConn' # e.db \/ Get(match[p])' # NoDb)
       THEN Nothing ELSE e]

-----------------------------------------------------------------------------
(***************************************************************************)
(* Calls.                                                                  *)
(***************************************************************************)
Goto(p, l) == pc' = [pc EXCEPT ![p] = l]

Start(p) ==
  /\ pc[p] = "idle"
  /\ \E k \in Kinds, n \in Namespaces \union {NoNs} :
       /\ k = "api" <=> n = NoNs
       /\ kind' = [kind EXCEPT ![p] = k]
       /\ ns' = [ns EXCEPT ![p] = n]
       /\ expect' = [expect EXCEPT ![p] = Expected(p, n, k)]
       /\ Goto(p, IF k = "api" THEN "exec" ELSE "match")
  /\ UNCHANGED <<registry, routing, admin, txs, match, route, execDB, base, target, inTx, logger>>

MatchIgnoringTx(p) ==
  /\ pc[p] = "match"
  /\ match' = [match EXCEPT ![p] = MatchBinding(ns[p], nsBindings)]
  /\ Goto(p, "resolve")
  /\ UNCHANGED <<registry, routing, admin, txs, ns, kind, route, execDB, base, target, inTx, expect, logger>>

\* routeNamespaceDB: a transaction in the context decides; else the binding.
Match(p) ==
  /\ pc[p] = "match"
  /\ \/ /\ ctxTx[p] # NoDb
        /\ route' = [route EXCEPT ![p] = ctxTx[p]]
        /\ Goto(p, "enter")
        /\ UNCHANGED match
     \/ /\ ctxTx[p] = NoDb
        /\ match' = [match EXCEPT ![p] = MatchBinding(ns[p], nsBindings)]
        /\ Goto(p, "resolve")
        /\ UNCHANGED route
  /\ UNCHANGED <<registry, routing, admin, txs, ns, kind, execDB, base, target, inTx, expect, logger>>

\* dbForNamespace's look-up; without a pool of that name the call falls back.
Resolve(p) ==
  /\ pc[p] = "resolve"
  /\ route' = [route EXCEPT ![p] = Get(match[p])]
  /\ Goto(p, "enter")
  /\ UNCHANGED <<registry, routing, admin, txs, ns, kind, match, execDB, base, target, inTx, expect, logger>>

\* executeMethod takes its execDB and fails if there is none; executeStream and
\* executePage do not ask.  Reads are routed next, writes are not.
Enter(p) ==
  /\ pc[p] = "enter"
  /\ IF kind[p] = "stream"
     THEN UNCHANGED execDB
     ELSE execDB' = [execDB EXCEPT ![p] = RoutedDB(p)]
  /\ Goto(p, IF kind[p] # "stream" /\ RoutedDB(p) = NoDb THEN "done"
             ELSE IF kind[p] \in Reads THEN "route" ELSE "exec")
  /\ UNCHANGED <<registry, routing, admin, txs, ns, kind, match, route, base, target, inTx, expect, logger>>

\* routeReadDB: off, or its base.
RouteRead(p) ==
  /\ pc[p] = "route"
  /\ IF rwSplitting
     THEN base' = [base EXCEPT ![p] = RoutedDB(p)] /\ Goto(p, "compare")
     ELSE UNCHANGED base /\ Goto(p, "exec")
  /\ UNCHANGED <<registry, routing, admin, txs, ns, kind, match, route, execDB, target, inTx, expect, logger>>

\* Sources other than the active one have no replicas, and a transaction none.
Compare(p) ==
  /\ pc[p] = "compare"
  /\ Goto(p, IF base[p] \notin {NoDb, gDbConn} \/ InTransactionWith(p) THEN "exec" ELSE "replica")
  /\ base' = [base EXCEPT ![p] = NoDb]
  /\ UNCHANGED <<registry, routing, admin, txs, ns, kind, match, route, execDB, target, inTx, expect, logger>>

Unwrapped == replicaRoundRobin + 1

\* The counter is an unsigned integer that wraps.
NextReplica == (replicaRoundRobin + 1) % RoundRobinSize

\* routeReplica: the next name of the list; a name that is not registered leaves
\* the call where it was.
Replica(p) ==
  /\ pc[p] = "replica"
  /\ IF ~rwSplitting \/ SlotTaken(gDbConn) \/ replicaNames = <<>>
     THEN UNCHANGED <<route, replicaRoundRobin>>
     ELSE LET db == Get(replicaNames[(NextReplica % Len(replicaNames)) + 1])
          IN /\ replicaRoundRobin' = NextReplica
             /\ route' = [route EXCEPT ![p] = IF db # NoDb THEN db ELSE @]
  /\ Goto(p, "exec")
  /\ UNCHANGED <<registry, nsBindings, rwSplitting, replicaNames, admin, txs,
                 ns, kind, match, execDB, base, target, inTx, expect, logger>>

\* executeWithResult, queryRows, QueryStream: routedDB(ctx) once more.  Without
\* any pool the method call on nil panics.  RETURNING runs on execDB.
Exec(p) ==
  /\ pc[p] = "exec"
  /\ LET db == IF kind[p] = "returning" THEN execDB[p] ELSE RoutedDB(p) IN
       /\ target' = [target EXCEPT ![p] = db]
       /\ Goto(p, IF db = NoDb THEN "done" ELSE "run")
  /\ UNCHANGED <<registry, routing, admin, txs, ns, kind, match, route, execDB, base, inTx, expect, logger>>

\* DB.ExecContext, DB.QueryContext: the transaction of the context, else that of
\* the slot, else the pool.  (On a closed pool the statement fails.)
Run(p) ==
  /\ pc[p] = "run"
  /\ inTx' = [inTx EXCEPT ![p] = ctxTx[p] # NoDb \/ SlotTaken(target[p])]
  /\ Goto(p, "done")
  /\ UNCHANGED <<registry, routing, admin, txs, ns, kind, match, route, execDB, base, target, expect, logger>>

\* The pool whose connection the statement used.
Connection(p) == IF ctxTx[p] # NoDb THEN ctxTx[p] ELSE target[p]

Return(p) ==
  /\ pc[p] = "done"
  /\ Goto(p, "idle")
  /\ ns' = [ns EXCEPT ![p] = NoNs]
  /\ kind' = [kind EXCEPT ![p] = "api"]
  /\ match' = [match EXCEPT ![p] = NoName]
  /\ route' = [route EXCEPT ![p] = NoDb]
  /\ execDB' = [execDB EXCEPT ![p] = NoDb]
  /\ target' = [target EXCEPT ![p] = NoDb]
  /\ inTx' = [inTx EXCEPT ![p] = FALSE]
  /\ expect' = [expect EXCEPT ![p] = Nothing]
  /\ UNCHANGED <<registry, routing, admin, txs, base, logger>>

\* Begin on the active source, and Commit or Rollback of what was begun.
Begin(p) ==
  /\ pc[p] = "idle"
  /\ gDbConn # NoDb /\ gDbConn \notin closed
  /\ curTx[gDbConn] = NoProc
  /\ \A d \in Dbs : curTx[d] # p
  /\ curTx' = [curTx EXCEPT ![gDbConn] = p]
  /\ UNCHANGED <<registry, routing, admin, ctxTx, callVars, logger>>

Finish(p) ==
  /\ pc[p] = "idle"
  /\ \E d \in Dbs : curTx[d] = p /\ curTx' = [curTx EXCEPT ![d] = NoProc]
  /\ UNCHANGED <<registry, routing, admin, ctxTx, callVars, logger>>

\* WithTx and WithTxForNamespace: the source of the namespace, else the active
\* one; statements of fn carry the transaction in their context.
EnterWithTx(p) ==
  /\ pc[p] = "idle"
  /\ ctxTx[p] = NoDb
  /\ \E n \in Namespaces \union {NoNs} :
       LET bound == IF n = NoNs THEN NoDb ELSE Get(MatchBinding(n, nsBindings))
           db == IF bound # NoDb THEN bound ELSE gDbConn
       IN /\ db \notin closed \union {NoDb}
          /\ ctxTx' = [ctxTx EXCEPT ![p] = db]
  /\ UNCHANGED <<registry, routing, admin, curTx, callVars, logger>>

LeaveWithTx(p) ==
  /\ pc[p] = "idle"
  /\ ctxTx[p] # NoDb
  /\ ctxTx' = [ctxTx EXCEPT ![p] = NoDb]
  /\ UNCHANGED <<registry, routing, admin, curTx, callVars, logger>>

Call(p) ==
  \/ Start(p) \/ Match(p) \/ Resolve(p) \/ Enter(p) \/ RouteRead(p) \/ Compare(p) \/ Replica(p)
  \/ Exec(p) \/ Run(p) \/ Return(p)

-----------------------------------------------------------------------------
(***************************************************************************)
(* Administration.  A step of a script that needs a pool is skipped if the *)
(* pool could not be opened.                                               *)
(***************************************************************************)
Step(do, name)  == [do |-> do, name |-> name, needs |-> NoName]
Needs(do, name) == [do |-> do, name |-> name, needs |-> name]

AddFirst ==
  <<Step("open", Default), Needs("use", Default),
    Needs("add", Default), Needs("closeAll", Default), Needs("unbind", Default), Needs("rebind", Default),
    Step("startStats", NoName), Step("replicas", NoName)>>

\* InitializeFromSettings: the rest of the initialisation happens whether or not
\* the pool could be opened.
InitializeScript ==
  <<Step("open", Default), Needs("use", Default), Needs("closeAll", Default),
    Needs("reset", Default), Needs("add", Default), Needs("unbind", Default), Needs("rebind", Default),
    Step("startStats", NoName), Step("replicas", NoName)>>

ResetThenClose(first, second) ==
  <<Step("reset", NoName), Step("closeAll", NoName), Step("open", first), Needs("add", first)>>
    \o (IF second = NoName THEN <<>> ELSE <<Step("open", second), Needs("add", second)>>)
    \o <<Step("pick", Default), Step("unbind", NoName), Step("rebind", NoName)>>

\* InitializeDataSourcesFromSettings: the configured names in the order in which a
\* map yields them; the active source is set when all are open.
InitializeAllScript(first, second) ==
  IF second = NoName
  THEN <<Step("closeAll", NoName), Step("reset", NoName),
         Step("open", first), Needs("add", first),
         Step("pick", Default), Step("unbind", NoName), Step("rebind", NoName)>>
  ELSE <<Step("closeAll", NoName), Step("reset", NoName),
         Step("open", first), Needs("add", first),
         Step("open", second), Needs("add", second),
         Step("pick", Default), Step("unbind", NoName), Step("rebind", NoName)>>

\* AddDataSource and RegisterReplica fail if the name is taken.
AddScript(name) == <<Step("find", name), Step("open", name), Needs("add", name)>>
RegisterReplicaScript(name) ==
  <<Step("find", name), Step("open", name), Needs("add", name), Needs("addReplica", name)>>

UseScript(name) == <<Step("pick", name)>>

\* Close
CloseScript ==
  <<Step("stopStats", NoName), Step("unbind", NoName),
    Step("closeAll", NoName), Step("reset", NoName), Step("deactivate", NoName)>>

Begins(s) ==
  /\ script = <<>>
  /\ ops < MaxOps
  /\ ops' = ops + 1
  /\ script' = s
  /\ UNCHANGED <<registry, routing, pool, txs, callVars, logger>>

Operate ==
  \/ Begins(InitializeScript) \/ Begins(CloseScript)
  \/ Begins(InitializeAllScript(Default, NoName))
  \/ \E m, n \in Names : Default \in {m, n} /\ m # n /\ Begins(InitializeAllScript(m, n))
  \/ \E n \in Names \ {Default} : Begins(AddScript(n)) \/ Begins(RegisterReplicaScript(n))
  \/ \E n \in Names : Begins(UseScript(n))

Missing == Head(script).needs # NoName /\ pool = NoDb
Now(step) == script # <<>> /\ Head(script).do = step /\ ~Missing
Name == Head(script).name
Advance == script' = Tail(script)

\* Open: the pool, then its Ping.
Open ==
  /\ Now("open")
  /\ opened < MaxDb
  /\ opened' = opened + 1
  /\ Advance
  /\ pool' = opened'
  /\ UNCHANGED <<sources, gDbConn, closed, unpinged, routing, ops, txs, callVars, logger>>

\* It fails: the dialect's Initialize, before there is a pool, or Ping, when the
\* caller drops the pool without closing it.
OpenFails ==
  /\ Now("open")
  /\ \/ UNCHANGED <<opened, unpinged>>
     \/ opened < MaxDb /\ opened' = opened + 1 /\ unpinged' = unpinged \union {opened'}
  /\ Advance
  /\ pool' = NoDb
  /\ UNCHANGED <<sources, gDbConn, closed, routing, ops, txs, callVars, logger>>

\* What the caller of Open leaves out when it returns an error.
Skip ==
  /\ script # <<>> /\ Missing
  /\ Advance
  /\ UNCHANGED <<registry, routing, pool, ops, txs, callVars, logger>>

\* A step that changes the registry or the active source.
Change(step) ==
  /\ Now(step)
  /\ Advance
  /\ UNCHANGED <<opened, unpinged, routing, pool, ops, txs,
                 pc, ns, kind, match, route, execDB, base, target, inTx, logger>>

AddOpened ==
  /\ Change("add")
  /\ sources' = [sources EXCEPT ![Name] = pool]
  /\ UNCHANGED <<gDbConn, closed>>
  /\ Revise

UseOpened ==
  /\ Change("use")
  /\ gDbConn' = pool
  /\ UNCHANGED <<sources, closed>>
  /\ Revise

\* UseDataSource; an unknown name is an error and changes nothing.
PickRegistered ==
  /\ Change("pick")
  /\ gDbConn' = IF Get(Name) # NoDb THEN Get(Name) ELSE gDbConn
  /\ UNCHANGED <<sources, closed>>
  /\ Revise

Deactivate ==
  /\ Change("deactivate")
  /\ gDbConn' = NoDb
  /\ UNCHANGED <<sources, closed>>
  /\ Revise

\* closeAll
CloseAll ==
  /\ Change("closeAll")
  /\ closed' = closed \union {sources[n] : n \in {m \in Names : sources[m] # NoDb}}
  /\ UNCHANGED <<sources, gDbConn>>
  /\ Revise

Reset ==
  /\ Change("reset")
  /\ sources' = [n \in Names |-> NoDb]
  /\ UNCHANGED <<gDbConn, closed>>
  /\ Revise

\* AddDataSource fails if the name is registered.
Find ==
  /\ Now("find")
  /\ script' = IF Get(Name) # NoDb THEN <<>> ELSE Tail(script)
  /\ UNCHANGED <<registry, routing, pool, ops, txs, callVars, logger>>

\* A step that changes the bindings.
ChangeBindings(step) ==
  /\ Now(step)
  /\ Advance
  /\ UNCHANGED <<registry, rwSplitting, replicaNames, replicaRoundRobin, pool, ops, txs,
                 pc, ns, kind, match, route, execDB, base, target, inTx, logger>>

\* ResetNamespaceDataSourceBindings
Unbind ==
  /\ ChangeBindings("unbind")
  /\ nsBindings' = [pat \in Patterns |-> NoName]
  /\ Revise

\* applyNamespaceBindingConfig: bindings to unknown names are errors, skipped.
\* The code takes the lock once for each binding.
Rebind ==
  /\ ChangeBindings("rebind")
  /\ nsBindings' = [pat \in Patterns |->
       IF Get(SettingsBind[pat]) # NoDb THEN SettingsBind[pat] ELSE nsBindings[pat]]
  /\ Revise

\* The positions of the configured replicas that are registered.
ValidReplicas ==
  {i \in DOMAIN SettingsReplicas :
     SettingsReplicas[i] # Default /\ Get(SettingsReplicas[i]) # NoDb}

\* The elements of s at the positions in keep, in their order.
Rising(f) == \A i, j \in DOMAIN f : i < j => f[i] < f[j]
Kept(s, keep) ==
  LET place == CHOOSE f \in [1..Cardinality(keep) -> keep] : Rising(f)
  IN [i \in 1..Cardinality(keep) |-> s[place[i]]]

\* ReadWriteSplitting in the settings, initReplicaDatasources.
InitReplicas ==
  /\ Now("replicas")
  /\ Advance
  /\ rwSplitting' = TRUE
  /\ replicaNames' = IF ValidReplicas = {} THEN replicaNames ELSE Kept(SettingsReplicas, ValidReplicas)
  /\ UNCHANGED <<registry, nsBindings, replicaRoundRobin, pool, ops, txs, callVars, logger>>

\* RegisterReplica, after AddDataSource.
AddReplica ==
  /\ Now("addReplica")
  /\ Advance
  /\ replicaNames' = Append(replicaNames, Name)
  /\ UNCHANGED <<registry, nsBindings, rwSplitting, replicaRoundRobin, pool, ops, txs, callVars, logger>>

StartStats ==
  /\ Now("startStats")
  /\ Advance
  /\ Stats!Start
  /\ UNCHANGED <<registry, routing, pool, ops, txs, callVars>>

StopStats ==
  /\ Now("stopStats")
  /\ Advance
  /\ Stats!Stop
  /\ UNCHANGED <<registry, routing, pool, ops, txs, callVars>>

\* BindNamespaceDataSource (the name has to be registered), Unbind.
Bind ==
  /\ script = <<>>
  /\ ops < MaxOps
  /\ ops' = ops + 1
  /\ \E pat \in Patterns, n \in Names \union {NoName} :
       /\ n # NoName => Get(n) # NoDb
       /\ nsBindings' = [nsBindings EXCEPT ![pat] = n]
  /\ UNCHANGED <<registry, rwSplitting, replicaNames, replicaRoundRobin, script, pool, txs,
                 pc, ns, kind, match, route, execDB, base, target, inTx, logger>>
  /\ Revise

\* SetReadWriteSplitting
SetReadWriteSplitting ==
  /\ script = <<>>
  /\ ops < MaxOps
  /\ ops' = ops + 1
  /\ rwSplitting' = ~rwSplitting
  /\ UNCHANGED <<registry, nsBindings, replicaNames, replicaRoundRobin, script, pool, txs, callVars, logger>>

Administer ==
  \/ Operate \/ Open \/ OpenFails \/ Skip \/ AddOpened \/ UseOpened \/ PickRegistered \/ Deactivate
  \/ CloseAll \/ Reset \/ Find \/ Unbind \/ Rebind \/ InitReplicas \/ AddReplica \/ StartStats \/ StopStats
  \/ Bind \/ SetReadWriteSplitting

-----------------------------------------------------------------------------
\* An initialised program: pools for some of the names, the default one active.
Init ==
  /\ \E others \in SUBSET (Names \ {Default}) :
       \E num \in [others \union {Default} -> 1..(Cardinality(others) + 1)] :
         /\ num[Default] = 1
         /\ \A m, n \in DOMAIN num : num[m] = num[n] => m = n
         /\ sources = [n \in Names |-> IF n \in DOMAIN num THEN num[n] ELSE NoDb]
         /\ opened = Cardinality(others) + 1
         /\ replicaNames \in {<<>>} \union {<<n>> : n \in others}
  /\ gDbConn = 1
  /\ closed = {}
  /\ unpinged = {}
  /\ nsBindings = [pat \in Patterns |->
       IF Get(SettingsBind[pat]) # NoDb THEN SettingsBind[pat] ELSE NoName]
  /\ rwSplitting = (replicaNames # <<>>)
  /\ replicaRoundRobin = RoundRobinSize - 1 \* about to wrap
  /\ script = <<>>
  /\ pool = NoDb
  /\ ops = 0
  /\ curTx = [d \in Dbs |-> NoProc]
  /\ ctxTx = [p \in Procs |-> NoDb]
  /\ pc = [p \in Procs |-> "idle"]
  /\ ns = [p \in Procs |-> NoNs]
  /\ kind = [p \in Procs |-> "api"]
  /\ match = [p \in Procs |-> NoName]
  /\ route = [p \in Procs |-> NoDb]
  /\ execDB = [p \in Procs |-> NoDb]
  /\ base = [p \in Procs |-> NoDb]
  /\ target = [p \in Procs |-> NoDb]
  /\ inTx = [p \in Procs |-> FALSE]
  /\ expect = [p \in Procs |-> Nothing]
  /\ Stats!Init

RunLogger == Stats!Run /\ UNCHANGED <<registry, routing, admin, txs, callVars>>

Next ==
  \/ \E p \in Procs : Begin(p) \/ Finish(p)
  \/ \E p \in Callers : Call(p) \/ EnterWithTx(p) \/ LeaveWithTx(p)
  \/ Administer
  \/ RunLogger

Spec == Init /\ [][Next]_vars

-----------------------------------------------------------------------------
TypeOK ==
  /\ sources \in [Names -> Dbs \union {NoDb}]
  /\ gDbConn \in Dbs \union {NoDb}
  /\ opened \in 0..MaxDb
  /\ closed \subseteq 1..opened /\ unpinged \subseteq 1..opened
  /\ nsBindings \in [Patterns -> Names \union {NoName}]
  /\ rwSplitting \in BOOLEAN
  /\ replicaNames \in Seq(Names)
  /\ replicaRoundRobin \in 0..(RoundRobinSize - 1)
  /\ pool \in Dbs \union {NoDb}
  /\ ops \in 0..MaxOps
  /\ curTx \in [Dbs -> Procs \union {NoProc}]
  /\ ctxTx \in [Procs -> Dbs \union {NoDb}]
  /\ pc \in [Procs -> PCs]
  /\ ns \in [Procs -> Namespaces \union {NoNs}]
  /\ kind \in [Procs -> Kinds]
  /\ match \in [Procs -> Names \union {NoName}]
  /\ route \in [Procs -> Dbs \union {NoDb}] /\ execDB \in [Procs -> Dbs \union {NoDb}]
  /\ base \in [Procs -> Dbs \union {NoDb}] /\ target \in [Procs -> Dbs \union {NoDb}]
  /\ inTx \in [Procs -> BOOLEAN]
  /\ Stats!TypeOK

Ran(p) == pc[p] = "done" /\ target[p] # NoDb

\* Binding a namespace protects its calls from UseDataSource, Reconnect of other
\* sources and read/write splitting: as long as its own binding stands and its
\* source is not the active one, they run on that source.
BoundCallsStay ==
  \A p \in Procs : pc[p] = "done" /\ expect[p].why = "bound" => target[p] = expect[p].db

\* The goroutine that began a TCC transaction reads and writes in it, also with
\* read/write splitting on, as long as nobody switches the active source.
OwnTransactionUsed ==
  \A p \in Procs : pc[p] = "done" /\ expect[p].why = "slot" =>
    target[p] = expect[p].db /\ inTx[p]

\* A mapper call in a WithTx is written for the data source that executes it:
\* prefix, dialect and safe-update are taken from the transaction's own source,
\* whatever its namespace is bound to.
TextMatchesConnection ==
  \A p \in Procs : Ran(p) /\ kind[p] # "api" => target[p] = Connection(p)

\* Between operations no pool is lost: one that was opened and not closed is
\* registered under a name, so the next initialisation or Close can close it.
PoolsReachable ==
  script = <<>> =>
    \A d \in 1..opened : d \notin closed \union unpinged => \E n \in Names : sources[n] = d

\* Outside of an initialisation or Close, nobody is handed a closed pool by name.
RegisteredOpen ==
  (\A i \in DOMAIN script : script[i].do # "reset") =>
    \A n \in Names : sources[n] \notin closed

NoLostLogger == Stats!NoLostLogger
=============================================================================
