-------------------------- MODULE DataSources_proofs --------------------------
(***************************************************************************)
(* Data sources, for any number of goroutines, names, namespaces and       *)
(* administrative operations: which pool a call runs on, that no opened    *)
(* pool is lost, and that the registry hands out open ones only.           *)
(***************************************************************************)
EXTENDS DataSources, FiniteSetTheorems, FunctionTheorems, SequenceTheorems,
  WellFoundedInduction, TLAPS

-----------------------------------------------------------------------------
(***************************************************************************)
(* The inductive invariant.                                                *)
(***************************************************************************)

\* The steps a script is made of.
Dos == {"open", "use", "closeAll", "reset", "add", "rebind", "startStats", "replicas", "pick",
        "find", "addReplica", "stopStats", "unbind", "deactivate"}
Steps == [do : Dos, name : Names \union {NoName}, needs : Names \union {NoName}]

\* No pool is opened between two steps.
NoOpen(s, i, j) == \A k \in DOMAIN s : i < k /\ k < j => s[k].do # "open"

\* What a step names, and which steps need the pool.
Named(s) ==
  \A i \in DOMAIN s :
    /\ s[i].do \in {"open", "add", "pick", "find", "addReplica"} => s[i].name \in Names
    /\ s[i].do \in {"open", "find"} => s[i].needs = NoName
    /\ s[i].do = "add" => s[i].needs # NoName
\* The pools are closed and forgotten together.
ResetAfterClose(s) ==
  \A i \in DOMAIN s :
    /\ s[i].do = "closeAll" => /\ i + 1 \in DOMAIN s
                               /\ s[i + 1].do = "reset" /\ s[i + 1].needs = s[i].needs
    /\ s[i].do = "reset" /\ i > 1 => s[i - 1].do = "closeAll" /\ s[i - 1].needs = s[i].needs
\* An opened pool is registered before another is opened.
AddAfterOpen(s) ==
  \A i \in DOMAIN s :
    /\ s[i].do = "open" => \E j \in DOMAIN s : i < j /\ s[j].do = "add" /\ NoOpen(s, i, j)
    /\ s[i].do = "find" => i + 1 \in DOMAIN s /\ s[i + 1].do = "open"
\* The names registered differ.
AddsApart(s) ==
  \A i, j \in DOMAIN s :
    i < j /\ s[i].do = "add" /\ s[j].do = "add" => s[i].name # s[j].name /\ ~NoOpen(s, i, j)
Shape(s) == Named(s) /\ ResetAfterClose(s) /\ AddAfterOpen(s) /\ AddsApart(s)

ScriptInv == script \in Seq(Steps) /\ Shape(script)

\* Pools are numbered in the order of their opening, and a pool has one name.
Numbered ==
  /\ \A n \in Names : sources[n] <= opened
  /\ pool <= opened
  /\ \A m, n \in Names : sources[m] = sources[n] /\ sources[m] # NoDb => m = n

\* The pool that was opened is still to be registered; it is nobody's yet.
Owed(s) == \E i \in DOMAIN s : s[i].do = "add" /\ NoOpen(s, 0, i)
PoolFresh ==
  Owed(script) /\ pool # NoDb =>
    pool \notin closed \union unpinged /\ \A n \in Names : sources[n] # pool

\* A pool is registered under a name that is free by then.
AddsFree ==
  \A i \in DOMAIN script : script[i].do = "add" =>
    \/ sources[script[i].name] = NoDb
    \/ pool = NoDb /\ NoOpen(script, 0, i)
    \/ \E j \in DOMAIN script : j < i /\
         \/ script[j].do = "find" /\ script[j].name = script[i].name
         \/ script[j].do = "reset" /\ (script[j].needs = NoName \/ NoOpen(script, j, i))

\* The registry holds closed pools only between closeAll and reset, and then
\* nothing else.
ClosedTogether ==
  IF Now("reset") THEN \A n \in Names : sources[n] \in closed \union {NoDb}
                  ELSE \A n \in Names : sources[n] \notin closed

\* A pool that was opened is closed, dropped by Open, registered, or about to be.
Reachable ==
  \A d \in 1..opened : d \notin closed \union unpinged =>
    (\E n \in Names : sources[n] = d) \/ (Owed(script) /\ pool = d)

RegistryInv == ScriptInv /\ Numbered /\ PoolFresh /\ AddsFree /\ ClosedTogether /\ Reachable

\* A logger runs exactly if there is a channel to stop it, which is open.
LoggerInv ==
  /\ running <=> stopChan # NoDb
  /\ stopChan <= started
  /\ NoLostLogger

Late(p) == pc[p] \in {"route", "compare", "replica", "exec", "run", "done"}

\* Between calls nothing is left of a call.
IdleInv ==
  \A p \in Procs :
    /\ pc[p] = "idle" => expect[p] = Nothing /\ match[p] = NoName /\ route[p] = NoDb
    /\ pc[p] = "match" => match[p] = NoName /\ route[p] = NoDb
    /\ pc[p] = "resolve" => route[p] = NoDb
    /\ pc[p] \notin {"idle", "exec", "run", "done"} => kind[p] # "api"
    /\ kind[p] = "api" <=> ns[p] = NoNs

\* A mapper call in a WithTx keeps to the transaction's data source.
TextInv ==
  \A p \in Procs : ctxTx[p] # NoDb =>
    /\ pc[p] \notin {"resolve", "replica"}
    /\ kind[p] # "api" /\ (pc[p] = "enter" \/ Late(p)) => route[p] = ctxTx[p]
    /\ kind[p] = "returning" /\ Late(p) => execDB[p] = ctxTx[p]
    /\ kind[p] # "api" /\ pc[p] \in {"run", "done"} => target[p] \in {ctxTx[p], NoDb}

BoundDb(p) == IF ns[p] = NoNs THEN NoDb ELSE Get(MatchBinding(ns[p], nsBindings))

\* The way of a call that has to run on d: no replica, and d wherever it is noted.
OnItsWay(p, d) ==
  /\ pc[p] \notin {"idle", "replica"}
  /\ pc[p] = "compare" => base[p] = d
  /\ kind[p] = "returning" /\ Late(p) => execDB[p] = d
  /\ pc[p] \in {"run", "done"} => target[p] = d

\* A call whose binding stands carries the bound pool from its look-up to its end.
BoundOf(p) ==
  expect[p].why = "bound" =>
    LET d == expect[p].db IN
    /\ ctxTx[p] = NoDb /\ d \notin {NoDb, gDbConn}
    /\ BoundDb(p) = d
    /\ pc[p] = "resolve" => match[p] = MatchBinding(ns[p], nsBindings)
    /\ pc[p] = "enter" \/ Late(p) => route[p] = d
    /\ OnItsWay(p, d)
BoundInv == \A p \in Procs : BoundOf(p)

\* A call of the goroutine that holds the slot of the active source has no route.
SlotOf(p) ==
  expect[p].why = "slot" =>
    LET d == expect[p].db IN
    /\ ctxTx[p] = NoDb /\ d # NoDb /\ d = gDbConn /\ curTx[d] = p
    /\ BoundDb(p) = NoDb /\ Get(match[p]) = NoDb /\ route[p] = NoDb
    /\ OnItsWay(p, d)
    /\ pc[p] = "done" => inTx[p]
SlotInv == \A p \in Procs : SlotOf(p)

ExpectType == expect \in [Procs -> [why : {"none", "ctx", "bound", "slot"}, db : Dbs \union {NoDb}]]
CallInv == ExpectType /\ IdleInv /\ TextInv /\ BoundInv /\ SlotInv

IInv == TypeOK /\ RegistryInv /\ LoggerInv /\ CallInv

-----------------------------------------------------------------------------
(***************************************************************************)
(* Operators.                                                              *)
(***************************************************************************)

\* A set of natural numbers has a first element.
LEMMA FirstIn ==
  ASSUME NEW S, \A s \in S : s \in Nat, S # {}
  PROVE  First(S) \in S /\ \A j \in S : First(S) <= j
<1> DEFINE R == OpToRel(<, Nat)
<1>1. IsWellFoundedOn(R, Nat)
  BY NatLessThanWellFounded
<1>2. \A x, y \in Nat : x < y => <<x, y>> \in R
  BY DEF OpToRel
<1>3. S \subseteq Nat
  OBVIOUS
<1> HIDE DEF R
<1>4. PICK i \in S : \A j \in S : ~(<<j, i>> \in R)
  BY <1>1, <1>3, WFMin, Zenon
<1>5. ASSUME NEW j \in S
      PROVE  i <= j
  <2>1. i \in Nat /\ j \in Nat
    OBVIOUS
  <2>2. ~(j < i)
    BY <1>2, <1>4, <2>1
  <2> QED
    BY <2>1, <2>2
<1> QED
  BY <1>5, Zenon DEF First

\* The binding found is one of the bindings.
LEMMA MatchType ==
  ASSUME NEW n \in Namespaces, NEW b \in [Patterns -> Names \union {NoName}]
  PROVE  MatchBinding(n, b) \in Names \union {NoName}
<1> DEFINE bound == {i \in DOMAIN Matching[n] : b[Matching[n][i]] # NoName}
<1>1. Matching[n] \in Seq(Patterns)
  BY ConstantsAssumption
<1>2. \A i \in bound : i \in Nat /\ b[Matching[n][i]] \in Names \union {NoName}
  BY <1>1
<1>3. bound # {} => First(bound) \in bound
  <2> HIDE DEF bound
  <2> QED
    BY <1>2, FirstIn
<1>4. MatchBinding(n, b) = IF bound = {} THEN NoName ELSE b[Matching[n][First(bound)]]
  BY DEF MatchBinding
<1> HIDE DEF bound
<1> QED
  BY <1>2, <1>3, <1>4

\* The positions of a set can be listed in their order: of the least upper bound
\* for which they could not, the last position would be added at the end.
LEMMA RisingExists ==
  ASSUME NEW n \in Nat, NEW keep \in SUBSET (1..n)
  PROVE  \E f \in [1..Cardinality(keep) -> keep] : Rising(f)
<1> DEFINE Listed(S) == \E f \in [1..Cardinality(S) -> S] : Rising(f)
<1> DEFINE bad == {m \in Nat : \E S \in SUBSET (1..m) : ~Listed(S)}
<1>1. SUFFICES ASSUME bad # {} PROVE FALSE
  OBVIOUS
<1> DEFINE m == First(bad)
<1>2. m \in bad /\ \A k \in bad : m <= k
  <2>1. \A k \in bad : k \in Nat
    OBVIOUS
  <2> HIDE DEF bad
  <2> QED
    BY <1>1, <2>1, FirstIn
<1>3. PICK S \in SUBSET (1..m) : ~Listed(S)
  BY <1>2
<1> HIDE DEF m
<1>4. m \in Nat
  BY <1>2
<1>5. IsFiniteSet(S) /\ IsFiniteSet(S \ {m})
  <2>1. IsFiniteSet(1..m)
    BY <1>4, FS_Interval
  <2>2. IsFiniteSet(S)
    BY <2>1, FS_Subset
  <2> QED
    BY <2>2, FS_RemoveElement
<1>6. CASE m = 0
  <2>1. S = {}
    BY <1>6
  <2>2. Cardinality(S) = 0
    BY <2>1, FS_EmptySet
  <2> DEFINE none == [i \in 1..0 |-> 0]
  <2>3. none \in [1..Cardinality(S) -> S] /\ Rising(none)
    BY <2>1, <2>2 DEF Rising
  <2> QED
    BY <1>3, <2>3
<1>7. CASE m # 0
  <2> DEFINE T == S \ {m}
  <2>1. m - 1 \in Nat /\ m - 1 \notin bad
    <3> HIDE DEF bad
    <3>1. m - 1 \in Nat /\ ~(m <= m - 1)
      BY <1>4, <1>7
    <3> QED
      BY <1>2, <3>1
  <2>2. T \in SUBSET (1..(m - 1))
    BY <1>4, <1>7
  <2>3. Listed(T)
    BY <2>1, <2>2
  <2>4. m \in S
    BY <1>3, <2>3
  <2> DEFINE c == Cardinality(T)
  <2>5. c \in Nat /\ Cardinality(S) = c + 1
    <3>1. c \in Nat /\ Cardinality(S) \in Nat
      BY <1>5, FS_CardinalityType
    <3>2. c = Cardinality(S) - 1
      BY <1>5, <2>4, FS_RemoveElement
    <3> QED
      BY <3>1, <3>2
  <2>6. PICK f \in [1..c -> T] : Rising(f)
    BY <2>3
  <2> DEFINE g == [i \in 1..(c + 1) |-> IF i = c + 1 THEN m ELSE f[i]]
  <2> HIDE DEF c
  <2>7. ASSUME NEW i \in 1..c
        PROVE  f[i] \in T /\ f[i] \in Nat /\ f[i] < m
    <3>1. f[i] \in T
      BY <2>6
    <3>2. \A x \in T : x \in 1..(m - 1)
      BY <2>2
    <3>3. f[i] \in 1..(m - 1)
      BY <3>1, <3>2
    <3> QED
      BY <1>4, <3>1, <3>3
  <2>8. g \in [1..(c + 1) -> S]
    BY <2>4, <2>5, <2>6
  <2>9. Rising(g)
    <3>1. \A i, j \in 1..c : i < j => f[i] < f[j]
      BY <2>6 DEF Rising
    <3>2. ASSUME NEW i \in 1..(c + 1), NEW j \in 1..(c + 1), i < j
          PROVE  g[i] < g[j]
      BY <2>5, <2>7, <3>1, <3>2
    <3> QED
      BY <3>2 DEF Rising
  <2> QED
    BY <1>3, <2>5, <2>8, <2>9
<1> QED
  BY <1>6, <1>7

\* The elements kept of a list of names are a list of names.
LEMMA KeptType ==
  ASSUME NEW s \in Seq(Names), NEW keep \in SUBSET (DOMAIN s)
  PROVE  Kept(s, keep) \in Seq(Names)
<1> DEFINE c == Cardinality(keep)
<1> DEFINE place == CHOOSE f \in [1..c -> keep] : Rising(f)
<1>1. Len(s) \in Nat /\ DOMAIN s = 1..Len(s)
  OBVIOUS
<1>2. c \in Nat
  <2>1. IsFiniteSet(DOMAIN s)
    BY <1>1, FS_Interval
  <2>2. IsFiniteSet(keep)
    BY <2>1, FS_Subset
  <2> QED
    BY <2>2, FS_CardinalityType
<1>3. place \in [1..c -> keep]
  BY <1>1, RisingExists
<1>4. Kept(s, keep) = [i \in 1..c |-> s[place[i]]]
  BY DEF Kept
<1> HIDE DEF place, c
<1>5. \A i \in 1..c : s[place[i]] \in Names
  BY <1>1, <1>3, ElementOfSeq
<1>6. [i \in 1..c |-> s[place[i]]] \in [1..c -> Names]
  BY <1>5
<1> QED
  BY <1>2, <1>4, <1>6, SeqDef

-----------------------------------------------------------------------------
(***************************************************************************)
(* Who changes what.                                                       *)
(***************************************************************************)

\* Statements leave the registry, the bindings, the scripts and the transactions
\* alone, begins and ends of transactions all but those.
LEMMA CallFrame ==
  ASSUME NEW p \in Callers, Call(p)
  PROVE  UNCHANGED <<registry, nsBindings, rwSplitting, replicaNames, admin, txs, logger>>
BY DEF Call, Start, Match, Resolve, Enter, RouteRead, Compare, Replica, Exec, Run, Return,
       registry, routing, admin, txs, logger

TxStep(p) == Begin(p) \/ Finish(p) \/ EnterWithTx(p) \/ LeaveWithTx(p)

\* A transaction's steps touch neither the registry nor a call.
LEMMA TxFrame ==
  ASSUME NEW p \in Procs, TxStep(p)
  PROVE  UNCHANGED <<registry, routing, admin, callVars, logger>>
BY DEF TxStep, Begin, Finish, EnterWithTx, LeaveWithTx, registry, routing, admin, callVars, logger

\* The administrator drives no call and no transaction.
LEMMA AdminFrame ==
  ASSUME Administer
  PROVE  UNCHANGED <<txs, pc, ns, kind, match, route, execDB, base, target, inTx>>
<1> USE DEF txs, callVars
<1>1. CASE Operate
  BY <1>1 DEF Operate, Begins
<1>2. CASE Open \/ OpenFails \/ Skip \/ Find \/ InitReplicas \/ AddReplica \/ SetReadWriteSplitting
  BY <1>2 DEF Open, OpenFails, Skip, Find, InitReplicas, AddReplica, SetReadWriteSplitting
<1>3. CASE AddOpened \/ UseOpened \/ PickRegistered \/ Deactivate \/ CloseAll \/ Reset
  BY <1>3 DEF AddOpened, UseOpened, PickRegistered, Deactivate, CloseAll, Reset, Change
<1>4. CASE Unbind \/ Rebind \/ Bind \/ StartStats \/ StopStats
  BY <1>4 DEF Unbind, Rebind, ChangeBindings, Bind, StartStats, StopStats
<1> QED
  BY <1>1, <1>2, <1>3, <1>4 DEF Administer

\* It revises the expectations whenever it changes what they depend on, and never
\* the registry and the bindings in one step.
LEMMA AdminRevises ==
  ASSUME Administer
  PROVE  \/ Revise /\ (UNCHANGED sources \/ UNCHANGED nsBindings)
         \/ UNCHANGED <<expect, sources, gDbConn, nsBindings>>
<1> USE DEF registry, routing, callVars
<1>1. CASE Operate
  BY <1>1 DEF Operate, Begins
<1>2. CASE Open \/ OpenFails \/ Skip \/ Find \/ InitReplicas \/ AddReplica \/ SetReadWriteSplitting
  BY <1>2 DEF Open, OpenFails, Skip, Find, InitReplicas, AddReplica, SetReadWriteSplitting
<1>3. CASE AddOpened \/ UseOpened \/ PickRegistered \/ Deactivate \/ CloseAll \/ Reset
  BY <1>3 DEF AddOpened, UseOpened, PickRegistered, Deactivate, CloseAll, Reset, Change
<1>4. CASE Unbind \/ Rebind \/ Bind \/ StartStats \/ StopStats
  BY <1>4 DEF Unbind, Rebind, ChangeBindings, Bind, StartStats, StopStats
<1> QED
  BY <1>1, <1>2, <1>3, <1>4 DEF Administer

\* Only the administrator and the loggers touch the loggers' variables.
LEMMA LoggerFrame ==
  ASSUME Administer
  PROVE  Stats!Start \/ Stats!Stop \/ UNCHANGED logger
<1>1. CASE Operate
  BY <1>1 DEF Operate, Begins
<1>2. CASE Open \/ OpenFails \/ Skip \/ Find \/ InitReplicas \/ AddReplica \/ SetReadWriteSplitting
  BY <1>2 DEF Open, OpenFails, Skip, Find, InitReplicas, AddReplica, SetReadWriteSplitting
<1>3. CASE AddOpened \/ UseOpened \/ PickRegistered \/ Deactivate \/ CloseAll \/ Reset
  BY <1>3 DEF AddOpened, UseOpened, PickRegistered, Deactivate, CloseAll, Reset, Change
<1>4. CASE Unbind \/ Rebind \/ Bind \/ StartStats \/ StopStats
  BY <1>4 DEF Unbind, Rebind, ChangeBindings, Bind, StartStats, StopStats
<1> QED
  BY <1>1, <1>2, <1>3, <1>4 DEF Administer

-----------------------------------------------------------------------------
(***************************************************************************)
(* Types.                                                                  *)
(***************************************************************************)
RegistryType ==
  /\ sources \in [Names -> Dbs \union {NoDb}]
  /\ gDbConn \in Dbs \union {NoDb}
  /\ opened \in 0..MaxDb
  /\ closed \subseteq 1..opened /\ unpinged \subseteq 1..opened
  /\ pool \in Dbs \union {NoDb}
  /\ ops \in 0..MaxOps
RoutingType ==
  /\ nsBindings \in [Patterns -> Names \union {NoName}]
  /\ rwSplitting \in BOOLEAN
  /\ replicaNames \in Seq(Names)
  /\ replicaRoundRobin \in 0..(RoundRobinSize - 1)
TxType ==
  /\ curTx \in [Dbs -> Procs \union {NoProc}]
  /\ ctxTx \in [Procs -> Dbs \union {NoDb}]
CallType ==
  /\ pc \in [Procs -> PCs]
  /\ ns \in [Procs -> Namespaces \union {NoNs}]
  /\ kind \in [Procs -> Kinds]
  /\ match \in [Procs -> Names \union {NoName}]
  /\ route \in [Procs -> Dbs \union {NoDb}] /\ execDB \in [Procs -> Dbs \union {NoDb}]
  /\ base \in [Procs -> Dbs \union {NoDb}] /\ target \in [Procs -> Dbs \union {NoDb}]
  /\ inTx \in [Procs -> BOOLEAN]

\* The type invariant, by part of the state.
LEMMA TypeParts == TypeOK <=> RegistryType /\ RoutingType /\ TxType /\ CallType /\ Stats!TypeOK
BY Zenon DEF TypeOK, RegistryType, RoutingType, TxType, CallType

\* The step at the head of a script names what it is about.
LEMMA HeadType ==
  ASSUME ScriptInv, script # <<>>
  PROVE  /\ Head(script) \in Steps
         /\ Head(script) = script[1] /\ 1 \in DOMAIN script
         /\ Head(script).do \in {"open", "add", "pick", "find", "addReplica"} => Name \in Names
<1>1. Head(script) \in Steps /\ Head(script) = script[1] /\ 1 \in DOMAIN script
  BY DEF ScriptInv
<1> QED
  BY <1>1 DEF ScriptInv, Shape, Named, Name

\* The registry keeps its types.
LEMMA RegistryTypeStep ==
  ASSUME RegistryType, ScriptInv, Numbered, Administer
  PROVE  RegistryType'
<1> USE DEF RegistryType, Dbs, NoDb
<1>1. CASE Operate
  <2>1. ops < MaxOps /\ ops' = ops + 1 /\ UNCHANGED registry /\ pool' = pool
    BY <1>1 DEF Operate, Begins
  <2>2. ops' \in 0..MaxOps
    BY <2>1, ConstantsAssumption
  <2> QED
    BY <2>1, <2>2 DEF registry
<1>2. CASE Open
  BY <1>2, ConstantsAssumption DEF Open
<1>3. CASE OpenFails
  <2>1. opened' \in 0..MaxDb /\ opened <= opened'
    BY <1>3, ConstantsAssumption DEF OpenFails
  <2>2. \A d : d \in 1..opened => d \in 1..opened'
    BY <2>1, ConstantsAssumption
  <2>3. \A d \in unpinged' : d \in unpinged \/ (d = opened' /\ opened' = opened + 1)
    BY <1>3 DEF OpenFails
  <2>4. ASSUME NEW d \in unpinged'
        PROVE  d \in 1..opened'
    <3>1. opened \in Nat /\ (opened' = opened + 1 => opened' \in 1..opened')
      BY ConstantsAssumption
    <3>2. d \in unpinged => d \in 1..opened
      OBVIOUS
    <3> QED
      BY <2>2, <2>3, <3>1, <3>2
  <2>5. \A d \in closed' : d \in 1..opened'
    BY <1>3, <2>2 DEF OpenFails
  <2> QED
    BY <1>3, <2>1, <2>4, <2>5 DEF OpenFails
<1>4. CASE AddOpened
  BY <1>4 DEF AddOpened, Change
<1>5. CASE UseOpened \/ Deactivate
  BY <1>5 DEF UseOpened, Deactivate, Change
<1>6. CASE PickRegistered
  <2>1. Name \in Names
    BY <1>6, HeadType DEF PickRegistered, Change, Now
  <2> QED
    BY <1>6, <2>1 DEF PickRegistered, Change, Get
<1>7. CASE CloseAll
  <2>1. \A n \in Names : sources[n] # NoDb => sources[n] \in 1..opened
    BY DEF Numbered
  <2>2. closed' \subseteq 1..opened
    BY <1>7, <2>1 DEF CloseAll
  <2> QED
    BY <1>7, <2>2 DEF CloseAll, Change
<1>8. CASE Reset
  BY <1>8 DEF Reset, Change
<1>9. CASE Skip \/ Find \/ Unbind \/ Rebind \/ InitReplicas \/ AddReplica \/ StartStats \/ StopStats
  BY <1>9 DEF Skip, Find, Unbind, Rebind, ChangeBindings, InitReplicas, AddReplica, StartStats, StopStats, registry
<1>10. CASE Bind \/ SetReadWriteSplitting
  <2>1. ops < MaxOps /\ ops' = ops + 1 /\ UNCHANGED registry /\ pool' = pool
    BY <1>10 DEF Bind, SetReadWriteSplitting
  <2>2. ops' \in 0..MaxOps
    BY <2>1, ConstantsAssumption
  <2> QED
    BY <2>1, <2>2 DEF registry
<1> QED
  BY <1>1, <1>2, <1>3, <1>4, <1>5, <1>6, <1>7, <1>8, <1>9, <1>10 DEF Administer

\* Bindings and replicas are names.
LEMMA RoutingTypeStep ==
  ASSUME RegistryType, RoutingType, ScriptInv, Administer
  PROVE  RoutingType'
<1> USE DEF RoutingType
<1>1. CASE InitReplicas
  <2>1. ValidReplicas \in SUBSET (DOMAIN SettingsReplicas)
    BY DEF ValidReplicas
  <2>2. Kept(SettingsReplicas, ValidReplicas) \in Seq(Names)
    BY <2>1, KeptType, ConstantsAssumption
  <2> QED
    BY <1>1, <2>2 DEF InitReplicas
<1>2. CASE AddReplica
  <2>1. Name \in Names
    BY <1>2, HeadType DEF AddReplica, Now
  <2> QED
    BY <1>2, <2>1 DEF AddReplica
<1>3. CASE Unbind \/ Rebind
  BY <1>3, ConstantsAssumption DEF Unbind, Rebind, ChangeBindings
<1>4. CASE Bind
  BY <1>4 DEF Bind
<1>5. CASE SetReadWriteSplitting
  BY <1>5 DEF SetReadWriteSplitting
<1>6. CASE Operate
  BY <1>6 DEF Operate, Begins, routing
<1>7. CASE Open \/ OpenFails \/ Skip \/ Find \/ StartStats \/ StopStats
  BY <1>7 DEF Open, OpenFails, Skip, Find, StartStats, StopStats, routing
<1>8. CASE AddOpened \/ UseOpened \/ PickRegistered \/ Deactivate \/ CloseAll \/ Reset
  BY <1>8 DEF AddOpened, UseOpened, PickRegistered, Deactivate, CloseAll, Reset, Change, routing
<1> QED
  BY <1>1, <1>2, <1>3, <1>4, <1>5, <1>6, <1>7, <1>8 DEF Administer

\* A look-up finds a pool or none.
LEMMA GetType ==
  ASSUME RegistryType, NEW n \in Names \union {NoName}
  PROVE  Get(n) \in Dbs \union {NoDb}
BY DEF RegistryType, Get

\* A call's variables keep their types; a statement that looks its binding up
\* has a namespace.
LEMMA CallTypeStep ==
  ASSUME RegistryType, RoutingType, TxType, CallType, IdleInv, NEW p \in Callers, Call(p)
  PROVE  CallType' /\ replicaRoundRobin' \in 0..(RoundRobinSize - 1)
<1> USE DEF CallType, Goto, Kinds, PCs
<1>0. p \in Procs
  BY ConstantsAssumption
<1>1. CASE Start(p)
  <2>1. PICK k \in Kinds, n \in Namespaces \union {NoNs} :
          /\ kind' = [kind EXCEPT ![p] = k]
          /\ ns' = [ns EXCEPT ![p] = n]
          /\ pc' = [pc EXCEPT ![p] = IF k = "api" THEN "exec" ELSE "match"]
    BY <1>1 DEF Start
  <2>2. UNCHANGED <<routing, match, route, execDB, base, target, inTx>>
    BY <1>1 DEF Start
  <2> QED
    BY <2>1, <2>2 DEF routing, RoutingType
<1>2. CASE Match(p)
  <2>1. MatchBinding(ns[p], nsBindings) \in Names \union {NoName}
    <3>1. ns[p] \in Namespaces
      BY <1>0, <1>2 DEF Match, IdleInv
    <3> QED
      BY <3>1, MatchType DEF RoutingType
  <2> QED
    BY <1>2, <2>1 DEF Match, routing, RoutingType, TxType
<1>3. CASE Resolve(p)
  <2>1. Get(match[p]) \in Dbs \union {NoDb}
    BY <1>0, GetType
  <2> QED
    BY <1>3, <2>1 DEF Resolve, routing, RoutingType
<1>4. RoutedDB(p) \in Dbs \union {NoDb}
  BY <1>0 DEF RoutedDB, RegistryType
<1>5. CASE Enter(p)
  BY <1>4, <1>5 DEF Enter, routing, RoutingType
<1>6. CASE RouteRead(p) \/ Compare(p)
  BY <1>4, <1>6 DEF RouteRead, Compare, routing, RoutingType
<1>7. CASE Replica(p)
  <2>1. NextReplica \in 0..(RoundRobinSize - 1)
    BY ConstantsAssumption DEF NextReplica, RoutingType
  <2>2. replicaNames # <<>> =>
          Get(replicaNames[(NextReplica % Len(replicaNames)) + 1]) \in Dbs \union {NoDb}
    <3> SUFFICES ASSUME replicaNames # <<>>
                 PROVE  Get(replicaNames[(NextReplica % Len(replicaNames)) + 1]) \in Dbs \union {NoDb}
      OBVIOUS
    <3>1. Len(replicaNames) \in Nat \ {0}
      BY EmptySeq DEF RoutingType
    <3>2. (NextReplica % Len(replicaNames)) + 1 \in 1..Len(replicaNames)
      BY <2>1, <3>1
    <3>3. replicaNames[(NextReplica % Len(replicaNames)) + 1] \in Names
      BY <3>2, ElementOfSeq DEF RoutingType
    <3> QED
      BY <3>3, GetType
  <2>3. CASE ~rwSplitting \/ SlotTaken(gDbConn) \/ replicaNames = <<>>
    BY <1>7, <2>3 DEF Replica, RoutingType
  <2>4. CASE ~(~rwSplitting \/ SlotTaken(gDbConn) \/ replicaNames = <<>>)
    BY <1>7, <2>1, <2>2, <2>4 DEF Replica
  <2> QED
    BY <2>3, <2>4
<1>8. CASE Exec(p)
  BY <1>0, <1>4, <1>8 DEF Exec, routing, RoutingType
<1>9. CASE Run(p)
  BY <1>9 DEF Run, routing, RoutingType, SlotTaken
<1>10. CASE Return(p)
  BY <1>10 DEF Return, routing, RoutingType
<1> QED
  BY <1>1, <1>2, <1>3, <1>5, <1>6, <1>7, <1>8, <1>9, <1>10 DEF Call

\* Slots and transactions of contexts are taken and freed by goroutines.
LEMMA TxTypeStep ==
  ASSUME RegistryType, RoutingType, TxType, NEW p \in Procs, TxStep(p)
  PROVE  TxType'
<1> USE DEF TxType
<1>1. CASE Begin(p)
  BY <1>1 DEF Begin
<1>2. CASE Finish(p)
  BY <1>2 DEF Finish
<1>3. CASE EnterWithTx(p)
  <2>1. PICK n \in Namespaces \union {NoNs} :
          LET bound == IF n = NoNs THEN NoDb ELSE Get(MatchBinding(n, nsBindings))
              db == IF bound # NoDb THEN bound ELSE gDbConn
          IN ctxTx' = [ctxTx EXCEPT ![p] = db]
    BY <1>3 DEF EnterWithTx
  <2>2. n # NoNs => Get(MatchBinding(n, nsBindings)) \in Dbs \union {NoDb}
    BY MatchType, GetType DEF RoutingType
  <2> QED
    BY <1>3, <2>1, <2>2 DEF EnterWithTx, RegistryType
<1>4. CASE LeaveWithTx(p)
  BY <1>4 DEF LeaveWithTx
<1> QED
  BY <1>1, <1>2, <1>3, <1>4 DEF TxStep

-----------------------------------------------------------------------------
(***************************************************************************)
(* The logger of pool statistics.                                          *)
(***************************************************************************)

\* Starting and stopping keep the logger's invariant: a start that finds one
\* running closes the channel that one waits on.
LEMMA LoggerSwitch ==
  ASSUME Stats!TypeOK, LoggerInv, Stats!Start \/ Stats!Stop
  PROVE  Stats!TypeOK' /\ LoggerInv'
<1> USE DEF Stats!TypeOK, LoggerInv, NoLostLogger, Stats!NoLostLogger, Stats!Channels, Stats!NoChan,
            NoDb, Stats!Closing
<1>1. CASE Stats!Start
  <2>1. started + 1 \in 1..MaxStarts /\ started + 1 \in 1..(started + 1)
    BY <1>1, ConstantsAssumption DEF Stats!Start, Stats!Restart
  <2>2. closedChans' \subseteq 1..started /\ closedChans' = closedChans \union ({stopChan} \ {0})
    BY <1>1 DEF Stats!Start, Stats!Restart
  <2>3. Stats!TypeOK'
    BY <1>1, <2>1, <2>2 DEF Stats!Start, Stats!Restart
  <2>4. LoggerInv'
    BY <1>1, <2>1, <2>2 DEF Stats!Start, Stats!Restart
  <2> QED
    BY <2>3, <2>4
<1>2. CASE Stats!Stop
  <2>1. closedChans' \subseteq 1..started /\ closedChans' = closedChans \union ({stopChan} \ {0})
    BY <1>2 DEF Stats!Stop
  <2>2. Stats!TypeOK'
    BY <1>2, <2>1 DEF Stats!Stop
  <2>3. LoggerInv'
    BY <1>2, <2>1 DEF Stats!Stop
  <2> QED
    BY <2>2, <2>3
<1> QED
  BY <1>1, <1>2

\* The loops of the loggers keep it: a select waits on the channel of the moment.
LEMMA LoggerRun ==
  ASSUME Stats!TypeOK, LoggerInv, Stats!Run
  PROVE  Stats!TypeOK' /\ LoggerInv'
<1> USE DEF Stats!TypeOK, LoggerInv, NoLostLogger, Stats!NoLostLogger, Stats!Channels, Stats!NoChan, NoDb
<1>1. PICK c \in Stats!Channels : Stats!EnterSelect(c) \/ Stats!Tick(c) \/ Stats!EndLogger(c)
  BY DEF Stats!Run
<1>2. CASE Stats!EnterSelect(c)
  BY <1>2 DEF Stats!EnterSelect
<1>3. CASE Stats!Tick(c)
  BY <1>3 DEF Stats!Tick
<1>4. CASE Stats!EndLogger(c)
  BY <1>4 DEF Stats!EndLogger
<1> QED
  BY <1>1, <1>2, <1>3, <1>4

-----------------------------------------------------------------------------
(***************************************************************************)
(* Scripts.                                                                *)
(***************************************************************************)

\* What is left of a script after its first step.
LEMMA TailStep ==
  ASSUME NEW s \in Seq(Steps), s # <<>>
  PROVE  /\ Tail(s) \in Seq(Steps)
         /\ Len(s) \in Nat \ {0} /\ Len(Tail(s)) = Len(s) - 1
         /\ DOMAIN s = 1..Len(s) /\ DOMAIN Tail(s) = 1..(Len(s) - 1)
         /\ \A i \in DOMAIN Tail(s) : i + 1 \in DOMAIN s /\ Tail(s)[i] = s[i + 1]
         /\ \A i \in DOMAIN s : i # 1 => i - 1 \in DOMAIN Tail(s)
         /\ 1 \in DOMAIN s /\ s[1] = Head(s) /\ \A i \in DOMAIN s : i \in Nat \ {0}
<1>1. Len(s) \in Nat \ {0}
  BY EmptySeq
<1> QED
  BY <1>1, HeadTailProperties, LenProperties

\* No pool is opened between two steps of the rest if none is between them now.
LEMMA NoOpenTail ==
  ASSUME NEW s \in Seq(Steps), s # <<>>, NEW i \in Nat, NEW j \in Nat
  PROVE  NoOpen(Tail(s), i, j) <=> NoOpen(s, i + 1, j + 1)
<1>1. ASSUME NoOpen(Tail(s), i, j)
      PROVE  NoOpen(s, i + 1, j + 1)
  <2> SUFFICES ASSUME NEW k \in DOMAIN s, i + 1 < k, k < j + 1
               PROVE  s[k].do # "open"
    BY DEF NoOpen
  <2>1. k - 1 \in DOMAIN Tail(s) /\ i < k - 1 /\ k - 1 < j /\ Tail(s)[k - 1] = s[k]
    BY TailStep
  <2> QED
    BY <1>1, <2>1 DEF NoOpen
<1>2. ASSUME NoOpen(s, i + 1, j + 1)
      PROVE  NoOpen(Tail(s), i, j)
  <2> SUFFICES ASSUME NEW k \in DOMAIN Tail(s), i < k, k < j
               PROVE  Tail(s)[k].do # "open"
    BY DEF NoOpen
  <2>1. k + 1 \in DOMAIN s /\ i + 1 < k + 1 /\ k + 1 < j + 1 /\ Tail(s)[k] = s[k + 1]
    BY TailStep
  <2> QED
    BY <1>2, <2>1 DEF NoOpen
<1> QED
  BY <1>1, <1>2

\* The same from the beginning of the script, whose first step counts.
LEMMA NoOpenFirst ==
  ASSUME NEW s \in Seq(Steps), s # <<>>, NEW j \in Nat
  PROVE  NoOpen(s, 0, j + 1) <=> (s[1].do # "open" /\ NoOpen(Tail(s), 0, j)) \/ j = 0
<1>1. \A k \in DOMAIN s : k \in Nat /\ (0 < k /\ k < j + 1 <=> (k = 1 /\ j # 0) \/ (1 < k /\ k < j + 1))
  BY TailStep
<1>2. NoOpen(Tail(s), 0, j) <=> NoOpen(s, 0 + 1, j + 1)
  BY NoOpenTail
<1> QED
  BY <1>1, <1>2, TailStep DEF NoOpen

\* What is left of a script has the shape of a script.
LEMMA ShapeTail ==
  ASSUME NEW s \in Seq(Steps), s # <<>>, Shape(s)
  PROVE  Shape(Tail(s))
<1> DEFINE t == Tail(s)
<1>1. Named(t)
  BY TailStep DEF Shape, Named
<1>2. ResetAfterClose(t)
  <2> SUFFICES ASSUME NEW i \in DOMAIN t
               PROVE  /\ t[i].do = "closeAll" =>
                           i + 1 \in DOMAIN t /\ t[i + 1].do = "reset" /\ t[i + 1].needs = t[i].needs
                      /\ t[i].do = "reset" /\ i > 1 =>
                           t[i - 1].do = "closeAll" /\ t[i - 1].needs = t[i].needs
    BY DEF ResetAfterClose
  <2>1. i + 1 \in DOMAIN s /\ t[i] = s[i + 1] /\ i \in Nat \ {0}
    BY TailStep
  <2>2. i + 2 \in DOMAIN s => i + 1 \in DOMAIN t /\ t[i + 1] = s[i + 2]
    BY <2>1, TailStep
  <2>3. i > 1 => i - 1 \in DOMAIN t /\ t[i - 1] = s[i]
    BY <2>1, TailStep
  <2>4. s[i + 1].do = "closeAll" => /\ i + 2 \in DOMAIN s
                                    /\ s[i + 2].do = "reset" /\ s[i + 2].needs = s[i + 1].needs
    BY <2>1 DEF Shape, ResetAfterClose
  <2>5. s[i + 1].do = "reset" => s[i].do = "closeAll" /\ s[i].needs = s[i + 1].needs
    BY <2>1 DEF Shape, ResetAfterClose
  <2> QED
    BY <2>1, <2>2, <2>3, <2>4, <2>5
<1>3. ASSUME NEW i \in DOMAIN t, t[i].do = "open"
      PROVE  \E j \in DOMAIN t : i < j /\ t[j].do = "add" /\ NoOpen(t, i, j)
  <2>1. i + 1 \in DOMAIN s /\ t[i] = s[i + 1] /\ i \in Nat \ {0}
    BY TailStep
  <2>2. PICK j \in DOMAIN s : i + 1 < j /\ s[j].do = "add" /\ NoOpen(s, i + 1, j)
    BY <1>3, <2>1 DEF Shape, AddAfterOpen
  <2>3. j \in Nat \ {0} /\ j - 1 \in DOMAIN t /\ t[j - 1] = s[j] /\ i < j - 1 /\ j - 1 \in Nat
    BY <2>1, <2>2, TailStep
  <2>4. NoOpen(s, i + 1, (j - 1) + 1)
    BY <2>2, <2>3
  <2>5. NoOpen(t, i, j - 1)
    BY <2>1, <2>3, <2>4, NoOpenTail
  <2> QED
    BY <2>2, <2>3, <2>5
<1>4. ASSUME NEW i \in DOMAIN t, t[i].do = "find"
      PROVE  i + 1 \in DOMAIN t /\ t[i + 1].do = "open"
  <2>1. i + 1 \in DOMAIN s /\ t[i] = s[i + 1] /\ i \in Nat \ {0}
    BY TailStep
  <2>2. (i + 1) + 1 \in DOMAIN s /\ s[(i + 1) + 1].do = "open"
    BY <1>4, <2>1 DEF Shape, AddAfterOpen
  <2>3. i + 1 \in DOMAIN t /\ t[i + 1] = s[(i + 1) + 1]
    BY <2>1, <2>2, TailStep
  <2> QED
    BY <2>2, <2>3
<1>5. AddsApart(t)
  <2> SUFFICES ASSUME NEW i \in DOMAIN t, NEW j \in DOMAIN t, i < j, t[i].do = "add", t[j].do = "add"
               PROVE  t[i].name # t[j].name /\ ~NoOpen(t, i, j)
    BY DEF AddsApart
  <2>1. /\ i + 1 \in DOMAIN s /\ t[i] = s[i + 1] /\ i \in Nat
        /\ j + 1 \in DOMAIN s /\ t[j] = s[j + 1] /\ j \in Nat
        /\ i + 1 < j + 1
    BY TailStep
  <2>2. s[i + 1].name # s[j + 1].name /\ ~NoOpen(s, i + 1, j + 1)
    BY <2>1 DEF Shape, AddsApart
  <2> QED
    BY <2>1, <2>2, NoOpenTail
<1>6. AddAfterOpen(t)
  BY <1>3, <1>4 DEF AddAfterOpen
<1> QED
  BY <1>1, <1>2, <1>5, <1>6 DEF Shape

\* A registration that is owed in the rest is owed now, unless a pool is opened now.
LEMMA OwedTail ==
  ASSUME NEW s \in Seq(Steps), s # <<>>
  PROVE  /\ Owed(Tail(s)) /\ s[1].do # "open" => Owed(s)
         /\ Owed(s) /\ s[1].do # "add" => Owed(Tail(s))
         /\ Shape(s) /\ s[1].do = "add" => ~Owed(Tail(s))
         /\ Shape(s) /\ s[1].do = "open" => Owed(Tail(s)) /\ ~Owed(s)
<1> DEFINE t == Tail(s)
<1>1. ASSUME Owed(t), s[1].do # "open"
      PROVE  Owed(s)
  <2>1. PICK i \in DOMAIN t : t[i].do = "add" /\ NoOpen(t, 0, i)
    BY <1>1 DEF Owed
  <2>2. i \in Nat /\ i + 1 \in DOMAIN s /\ t[i] = s[i + 1]
    BY TailStep
  <2>3. NoOpen(s, 0, i + 1)
    BY <1>1, <2>1, <2>2, NoOpenFirst
  <2> QED
    BY <2>1, <2>2, <2>3 DEF Owed
<1>2. ASSUME Owed(s), s[1].do # "add"
      PROVE  Owed(t) /\ s[1].do # "open"
  <2>1. PICK i \in DOMAIN s : s[i].do = "add" /\ NoOpen(s, 0, i)
    BY <1>2 DEF Owed
  <2>2. i \in Nat \ {0} /\ i # 1 /\ i - 1 \in DOMAIN t /\ t[i - 1] = s[i] /\ i - 1 \in Nat
    BY <1>2, <2>1, TailStep
  <2>3. NoOpen(s, 0, (i - 1) + 1)
    BY <2>1, <2>2
  <2>4. NoOpen(t, 0, i - 1)
    BY <2>2, <2>3, NoOpenFirst
  <2>5. s[1].do # "open"
    <3>1. 1 \in DOMAIN s /\ 0 < 1 /\ 1 < i
      BY <2>2, TailStep
    <3> QED
      BY <2>1, <3>1 DEF NoOpen
  <2> QED
    BY <2>1, <2>2, <2>4, <2>5 DEF Owed
<1>3. ASSUME Shape(s), s[1].do = "add", Owed(t)
      PROVE  FALSE
  <2>1. PICK i \in DOMAIN t : t[i].do = "add" /\ NoOpen(t, 0, i)
    BY <1>3 DEF Owed
  <2>2. i \in Nat \ {0} /\ i + 1 \in DOMAIN s /\ t[i] = s[i + 1] /\ 1 \in DOMAIN s /\ 1 < i + 1
    BY TailStep
  <2>3. NoOpen(s, 0 + 1, i + 1)
    BY <2>1, <2>2, NoOpenTail
  <2> QED
    BY <1>3, <2>1, <2>2, <2>3 DEF Shape, AddsApart
<1>4. ASSUME Shape(s), s[1].do = "open"
      PROVE  Owed(t)
  <2>1. PICK j \in DOMAIN s : 1 < j /\ s[j].do = "add" /\ NoOpen(s, 1, j)
    BY <1>4, TailStep DEF Shape, AddAfterOpen
  <2>2. j \in Nat \ {0} /\ j # 1 /\ j - 1 \in DOMAIN t /\ t[j - 1] = s[j] /\ j - 1 \in Nat
    BY <2>1, TailStep
  <2>3. NoOpen(s, 0 + 1, (j - 1) + 1)
    BY <2>1, <2>2
  <2>4. NoOpen(t, 0, j - 1)
    BY <2>2, <2>3, NoOpenTail
  <2> QED
    BY <2>1, <2>2, <2>4 DEF Owed
<1> QED
  BY <1>1, <1>2, <1>3, <1>4

\* Every operation's script has the shape, its registrations are guarded, and it
\* begins neither with a registration nor with a reset.
Guarded(s) ==
  \A i \in DOMAIN s : s[i].do = "add" =>
    \E j \in DOMAIN s : j < i /\
      \/ s[j].do = "find" /\ s[j].name = s[i].name
      \/ s[j].do = "reset" /\ (s[j].needs = NoName \/ NoOpen(s, j, i))
Fits(s) == s \in Seq(Steps) /\ Shape(s) /\ Guarded(s) /\ ~Owed(s) /\ s # <<>> /\ s[1].do # "reset"

\* InitializeDataSourcesFromSettings without its loop over the names, or its first half.
LEMMA InitializeFits == Fits(InitializeScript)
<1> DEFINE s == InitializeScript
<1>1. Default \in Names /\ NoName \notin Names
  BY ConstantsAssumption
<1>2. s \in Seq(Steps) /\ DOMAIN s = 1..9
  BY <1>1 DEF InitializeScript, Steps, Dos, Step, Needs
<1>3. /\ s[1].do = "open" /\ s[1].name = Default /\ s[1].needs = NoName
      /\ s[2].do = "use" /\ s[2].name = Default /\ s[2].needs = Default
      /\ s[3].do = "closeAll" /\ s[3].name = Default /\ s[3].needs = Default
      /\ s[4].do = "reset" /\ s[4].name = Default /\ s[4].needs = Default
      /\ s[5].do = "add" /\ s[5].name = Default /\ s[5].needs = Default
      /\ s[6].do = "unbind" /\ s[6].name = Default /\ s[6].needs = Default
      /\ s[7].do = "rebind" /\ s[7].name = Default /\ s[7].needs = Default
      /\ s[8].do = "startStats" /\ s[8].name = NoName /\ s[8].needs = NoName
      /\ s[9].do = "replicas" /\ s[9].name = NoName /\ s[9].needs = NoName
  BY <1>1 DEF InitializeScript, Step, Needs
<1> HIDE DEF s
<1>4. Named(s) /\ ResetAfterClose(s)
  BY <1>1, <1>2, <1>3 DEF Named, ResetAfterClose
<1>5. NoOpen(s, 1, 5) /\ ~NoOpen(s, 0, 5) /\ NoOpen(s, 4, 5)
  BY <1>2, <1>3 DEF NoOpen
<1>6. AddAfterOpen(s) /\ AddsApart(s)
  BY <1>1, <1>2, <1>3, <1>5 DEF AddAfterOpen, AddsApart
<1>7. Guarded(s) /\ ~Owed(s)
  BY <1>2, <1>3, <1>5 DEF Guarded, Owed
<1>8. s # <<>>
  BY <1>1 DEF s, InitializeScript
<1> QED
  BY <1>2, <1>3, <1>4, <1>6, <1>7, <1>8 DEF Fits, Shape, s

\* The initialisation of the default data source alone.
LEMMA InitializeOneFits == Fits(InitializeAllScript(Default, NoName))
<1> DEFINE s == InitializeAllScript(Default, NoName)
<1>1. Default \in Names /\ NoName \notin Names
  BY ConstantsAssumption
<1>2. s \in Seq(Steps) /\ DOMAIN s = 1..7
  BY <1>1 DEF InitializeAllScript, Steps, Dos, Step, Needs
<1>3. /\ s[1].do = "closeAll" /\ s[1].name = NoName /\ s[1].needs = NoName
      /\ s[2].do = "reset" /\ s[2].name = NoName /\ s[2].needs = NoName
      /\ s[3].do = "open" /\ s[3].name = Default /\ s[3].needs = NoName
      /\ s[4].do = "add" /\ s[4].name = Default /\ s[4].needs = Default
      /\ s[5].do = "pick" /\ s[5].name = Default /\ s[5].needs = NoName
      /\ s[6].do = "unbind" /\ s[6].name = NoName /\ s[6].needs = NoName
      /\ s[7].do = "rebind" /\ s[7].name = NoName /\ s[7].needs = NoName
  BY <1>1 DEF InitializeAllScript, Step, Needs
<1> HIDE DEF s
<1>4. Named(s) /\ ResetAfterClose(s)
  BY <1>1, <1>2, <1>3 DEF Named, ResetAfterClose
<1>5. NoOpen(s, 3, 4) /\ ~NoOpen(s, 0, 4)
  BY <1>2, <1>3 DEF NoOpen
<1>6. AddAfterOpen(s) /\ AddsApart(s)
  BY <1>1, <1>2, <1>3, <1>5 DEF AddAfterOpen, AddsApart
<1>7. Guarded(s) /\ ~Owed(s)
  BY <1>2, <1>3, <1>5 DEF Guarded, Owed
<1>8. s # <<>>
  BY <1>1 DEF s, InitializeAllScript
<1> QED
  BY <1>2, <1>3, <1>4, <1>6, <1>7, <1>8 DEF Fits, Shape, s

\* The initialisation of two data sources.
LEMMA InitializeAllFits ==
  ASSUME NEW m \in Names, NEW n \in Names, m # n
  PROVE  Fits(InitializeAllScript(m, n))
<1> DEFINE s == InitializeAllScript(m, n)
<1>1. Default \in Names /\ NoName \notin Names /\ m # NoName /\ n # NoName
  BY ConstantsAssumption
<1>2. s \in Seq(Steps) /\ DOMAIN s = 1..9
  BY <1>1 DEF InitializeAllScript, Steps, Dos, Step, Needs
<1>3. /\ s[1].do = "closeAll" /\ s[1].name = NoName /\ s[1].needs = NoName
      /\ s[2].do = "reset" /\ s[2].name = NoName /\ s[2].needs = NoName
      /\ s[3].do = "open" /\ s[3].name = m /\ s[3].needs = NoName
      /\ s[4].do = "add" /\ s[4].name = m /\ s[4].needs = m
      /\ s[5].do = "open" /\ s[5].name = n /\ s[5].needs = NoName
      /\ s[6].do = "add" /\ s[6].name = n /\ s[6].needs = n
      /\ s[7].do = "pick" /\ s[7].name = Default /\ s[7].needs = NoName
      /\ s[8].do = "unbind" /\ s[8].name = NoName /\ s[8].needs = NoName
      /\ s[9].do = "rebind" /\ s[9].name = NoName /\ s[9].needs = NoName
  BY <1>1 DEF InitializeAllScript, Step, Needs
<1> HIDE DEF s
<1>4. Named(s) /\ ResetAfterClose(s)
  BY <1>1, <1>2, <1>3 DEF Named, ResetAfterClose
<1>5. NoOpen(s, 3, 4) /\ NoOpen(s, 5, 6) /\ ~NoOpen(s, 0, 4) /\ ~NoOpen(s, 4, 6) /\ ~NoOpen(s, 0, 6)
  BY <1>2, <1>3 DEF NoOpen
<1>6. AddAfterOpen(s) /\ AddsApart(s)
  BY <1>1, <1>2, <1>3, <1>5 DEF AddAfterOpen, AddsApart
<1>7. Guarded(s) /\ ~Owed(s)
  BY <1>2, <1>3, <1>5 DEF Guarded, Owed
<1>8. s # <<>>
  BY <1>1 DEF s, InitializeAllScript
<1> QED
  BY <1>2, <1>3, <1>4, <1>6, <1>7, <1>8 DEF Fits, Shape, s

\* AddDataSource.
LEMMA AddFits ==
  ASSUME NEW n \in Names \ {Default}
  PROVE  Fits(AddScript(n))
<1> DEFINE s == AddScript(n)
<1>1. Default \in Names /\ NoName \notin Names /\ n # NoName
  BY ConstantsAssumption
<1>2. s \in Seq(Steps) /\ DOMAIN s = 1..3
  BY <1>1 DEF AddScript, Steps, Dos, Step, Needs
<1>3. /\ s[1].do = "find" /\ s[1].name = n /\ s[1].needs = NoName
      /\ s[2].do = "open" /\ s[2].name = n /\ s[2].needs = NoName
      /\ s[3].do = "add" /\ s[3].name = n /\ s[3].needs = n
  BY <1>1 DEF AddScript, Step, Needs
<1> HIDE DEF s
<1>4. Named(s) /\ ResetAfterClose(s)
  BY <1>1, <1>2, <1>3 DEF Named, ResetAfterClose
<1>5. NoOpen(s, 2, 3) /\ ~NoOpen(s, 0, 3)
  BY <1>2, <1>3 DEF NoOpen
<1>6. AddAfterOpen(s) /\ AddsApart(s)
  BY <1>1, <1>2, <1>3, <1>5 DEF AddAfterOpen, AddsApart
<1>7. Guarded(s) /\ ~Owed(s)
  BY <1>2, <1>3, <1>5 DEF Guarded, Owed
<1>8. s # <<>>
  BY <1>1 DEF s, AddScript
<1> QED
  BY <1>2, <1>3, <1>4, <1>6, <1>7, <1>8 DEF Fits, Shape, s

\* RegisterReplica.
LEMMA RegisterReplicaFits ==
  ASSUME NEW n \in Names \ {Default}
  PROVE  Fits(RegisterReplicaScript(n))
<1> DEFINE s == RegisterReplicaScript(n)
<1>1. Default \in Names /\ NoName \notin Names /\ n # NoName
  BY ConstantsAssumption
<1>2. s \in Seq(Steps) /\ DOMAIN s = 1..4
  BY <1>1 DEF RegisterReplicaScript, Steps, Dos, Step, Needs
<1>3. /\ s[1].do = "find" /\ s[1].name = n /\ s[1].needs = NoName
      /\ s[2].do = "open" /\ s[2].name = n /\ s[2].needs = NoName
      /\ s[3].do = "add" /\ s[3].name = n /\ s[3].needs = n
      /\ s[4].do = "addReplica" /\ s[4].name = n /\ s[4].needs = n
  BY <1>1 DEF RegisterReplicaScript, Step, Needs
<1> HIDE DEF s
<1>4. Named(s) /\ ResetAfterClose(s)
  BY <1>1, <1>2, <1>3 DEF Named, ResetAfterClose
<1>5. NoOpen(s, 2, 3) /\ ~NoOpen(s, 0, 3)
  BY <1>2, <1>3 DEF NoOpen
<1>6. AddAfterOpen(s) /\ AddsApart(s)
  BY <1>1, <1>2, <1>3, <1>5 DEF AddAfterOpen, AddsApart
<1>7. Guarded(s) /\ ~Owed(s)
  BY <1>2, <1>3, <1>5 DEF Guarded, Owed
<1>8. s # <<>>
  BY <1>1 DEF s, RegisterReplicaScript
<1> QED
  BY <1>2, <1>3, <1>4, <1>6, <1>7, <1>8 DEF Fits, Shape, s

\* UseDataSource.
LEMMA UseFits ==
  ASSUME NEW n \in Names
  PROVE  Fits(UseScript(n))
<1> DEFINE s == UseScript(n)
<1>1. Default \in Names /\ NoName \notin Names /\ n # NoName
  BY ConstantsAssumption
<1>2. s \in Seq(Steps) /\ DOMAIN s = 1..1
  BY <1>1 DEF UseScript, Steps, Dos, Step, Needs
<1>3. /\ s[1].do = "pick" /\ s[1].name = n /\ s[1].needs = NoName
  BY <1>1 DEF UseScript, Step, Needs
<1> HIDE DEF s
<1>4. Named(s) /\ ResetAfterClose(s)
  BY <1>1, <1>2, <1>3 DEF Named, ResetAfterClose
<1>6. AddAfterOpen(s) /\ AddsApart(s)
  BY <1>1, <1>2, <1>3 DEF AddAfterOpen, AddsApart
<1>7. Guarded(s) /\ ~Owed(s)
  BY <1>2, <1>3 DEF Guarded, Owed
<1>8. s # <<>>
  BY <1>1 DEF s, UseScript
<1> QED
  BY <1>2, <1>3, <1>4, <1>6, <1>7, <1>8 DEF Fits, Shape, s

\* Close.
LEMMA CloseFits == Fits(CloseScript)
<1> DEFINE s == CloseScript
<1>1. Default \in Names /\ NoName \notin Names
  BY ConstantsAssumption
<1>2. s \in Seq(Steps) /\ DOMAIN s = 1..5
  BY <1>1 DEF CloseScript, Steps, Dos, Step, Needs
<1>3. /\ s[1].do = "stopStats" /\ s[1].name = NoName /\ s[1].needs = NoName
      /\ s[2].do = "unbind" /\ s[2].name = NoName /\ s[2].needs = NoName
      /\ s[3].do = "closeAll" /\ s[3].name = NoName /\ s[3].needs = NoName
      /\ s[4].do = "reset" /\ s[4].name = NoName /\ s[4].needs = NoName
      /\ s[5].do = "deactivate" /\ s[5].name = NoName /\ s[5].needs = NoName
  BY <1>1 DEF CloseScript, Step, Needs
<1> HIDE DEF s
<1>4. Named(s) /\ ResetAfterClose(s)
  BY <1>1, <1>2, <1>3 DEF Named, ResetAfterClose
<1>6. AddAfterOpen(s) /\ AddsApart(s)
  BY <1>1, <1>2, <1>3 DEF AddAfterOpen, AddsApart
<1>7. Guarded(s) /\ ~Owed(s)
  BY <1>2, <1>3 DEF Guarded, Owed
<1>8. s # <<>>
  BY <1>1 DEF s, CloseScript
<1> QED
  BY <1>2, <1>3, <1>4, <1>6, <1>7, <1>8 DEF Fits, Shape, s

-----------------------------------------------------------------------------
(***************************************************************************)
(* The registry.                                                           *)
(***************************************************************************)
pools == <<sources, opened, closed, unpinged, pool>>

\* The first of the steps left does nothing to the pools or is skipped.
Quiet ==
  /\ script # <<>> /\ script' = Tail(script) /\ UNCHANGED pools
  /\ Missing \/ Head(script).do \notin {"open", "add", "closeAll", "reset"}
  /\ Head(script).do = "find" => Get(Name) = NoDb

\* An operation begins; it is given up before it opened a pool.
Beginning == script = <<>> /\ Fits(script') /\ UNCHANGED pools
GivenUp   == script # <<>> /\ Head(script).do = "find" /\ script' = <<>> /\ UNCHANGED pools

\* What a step of the administrator does to the registry and the script.
LEMMA AdminCases ==
  ASSUME Administer, ScriptInv
  PROVE  \/ Beginning \/ GivenUp \/ Quiet \/ UNCHANGED <<pools, script>>
         \/ Open \/ OpenFails \/ AddOpened \/ CloseAll \/ Reset
<1> USE DEF pools, registry
<1>1. CASE Operate
  <2>1. script = <<>> /\ UNCHANGED pools
    BY <1>1 DEF Operate, Begins
  <2>2. Fits(script')
    BY <1>1, InitializeFits, InitializeOneFits, InitializeAllFits, AddFits, RegisterReplicaFits,
       UseFits, CloseFits, ConstantsAssumption DEF Operate, Begins
  <2> QED
    BY <2>1, <2>2 DEF Beginning
<1>2. CASE Skip
  <2>1. Head(script).do = "find" => Head(script).needs = NoName
    BY <1>2, HeadType DEF Skip, ScriptInv, Shape, Named
  <2> QED
    BY <1>2, <2>1 DEF Skip, Quiet, Missing, Advance
<1>3. CASE Find
  BY <1>3 DEF Find, Now, Quiet, GivenUp, Advance
<1>4. CASE UseOpened \/ PickRegistered \/ Deactivate
  BY <1>4 DEF UseOpened, PickRegistered, Deactivate, Change, Now, Quiet, Advance
<1>5. CASE Unbind \/ Rebind
  BY <1>5 DEF Unbind, Rebind, ChangeBindings, Now, Quiet, Advance
<1>6. CASE InitReplicas \/ AddReplica \/ StartStats \/ StopStats
  BY <1>6 DEF InitReplicas, AddReplica, StartStats, StopStats, Now, Quiet, Advance
<1>7. CASE Bind \/ SetReadWriteSplitting
  BY <1>7 DEF Bind, SetReadWriteSplitting
<1> QED
  BY <1>1, <1>2, <1>3, <1>4, <1>5, <1>6, <1>7 DEF Administer

\* Each of the others is the first step of the script, done or skipped.
LEMMA HeadDone ==
  ASSUME ScriptInv, Open \/ OpenFails \/ AddOpened \/ CloseAll \/ Reset
  PROVE  /\ script # <<>> /\ script' = Tail(script) /\ ~Missing
         /\ Open \/ OpenFails => Head(script).do = "open"
         /\ AddOpened => Head(script).do = "add"
         /\ CloseAll => Head(script).do = "closeAll"
         /\ Reset => Head(script).do = "reset"
<1> USE DEF Now, Advance
<1>1. Open => script # <<>> /\ script' = Tail(script) /\ ~Missing /\ Head(script).do = "open"
  BY DEF Open
<1>2. OpenFails => script # <<>> /\ script' = Tail(script) /\ ~Missing /\ Head(script).do = "open"
  BY DEF OpenFails
<1>3. AddOpened => script # <<>> /\ script' = Tail(script) /\ ~Missing /\ Head(script).do = "add"
  BY DEF AddOpened, Change
<1>4. CloseAll => script # <<>> /\ script' = Tail(script) /\ ~Missing /\ Head(script).do = "closeAll"
  BY DEF CloseAll, Change
<1>5. Reset => script # <<>> /\ script' = Tail(script) /\ ~Missing /\ Head(script).do = "reset"
  BY DEF Reset, Change
<1> QED
  BY <1>1, <1>2, <1>3, <1>4, <1>5

\* Scripts keep their shape.
LEMMA ScriptStep ==
  ASSUME ScriptInv, Administer
  PROVE  ScriptInv'
<1>1. CASE Beginning
  BY <1>1 DEF Beginning, Fits, ScriptInv
<1>2. CASE GivenUp
  <2>1. DOMAIN <<>> = {} /\ <<>> \in Seq(Steps)
    OBVIOUS
  <2>2. Shape(<<>>)
    BY <2>1 DEF Shape, Named, ResetAfterClose, AddAfterOpen, AddsApart
  <2> QED
    BY <1>2, <2>1, <2>2 DEF GivenUp, ScriptInv
<1>3. CASE script # <<>> /\ script' = Tail(script)
  <2>1. Tail(script) \in Seq(Steps) /\ Shape(Tail(script))
    BY <1>3, TailStep, ShapeTail DEF ScriptInv
  <2> QED
    BY <1>3, <2>1 DEF ScriptInv
<1>4. CASE UNCHANGED <<pools, script>>
  BY <1>4 DEF ScriptInv
<1> QED
  BY <1>1, <1>2, <1>3, <1>4, AdminCases, HeadDone DEF Quiet

\* A reset comes next only when the pools have just been closed.
LEMMA ResetNext ==
  ASSUME ScriptInv, script # <<>>, script' = Tail(script), Now("reset")'
  PROVE  Head(script).do = "closeAll" /\ (Head(script).needs # NoName => pool' # NoDb)
<1>1. script' # <<>> /\ Head(script').do = "reset" /\ (Head(script').needs # NoName => pool' # NoDb)
  BY DEF Now, Missing
<1>2. Tail(script) \in Seq(Steps) /\ Tail(script) # <<>>
  BY <1>1, TailStep DEF ScriptInv
<1>3. Head(Tail(script)) = Tail(script)[1] /\ 1 \in DOMAIN Tail(script)
  BY <1>2, TailStep
<1>4. 2 \in DOMAIN script /\ Tail(script)[1] = script[2] /\ Head(script) = script[1]
  BY <1>3, TailStep DEF ScriptInv
<1>5. script[2].do = "reset" => script[2 - 1].do = "closeAll" /\ script[2 - 1].needs = script[2].needs
  BY <1>4 DEF ScriptInv, Shape, ResetAfterClose
<1> QED
  BY <1>1, <1>3, <1>4, <1>5

\* Once the pools are closed the next step is the reset that forgets them.
LEMMA ResetFollows ==
  ASSUME ScriptInv, script # <<>>, script' = Tail(script), Head(script).do = "closeAll",
         ~Missing, pool' = pool
  PROVE  Now("reset")'
<1>1. 1 \in DOMAIN script /\ Head(script) = script[1]
  BY TailStep DEF ScriptInv
<1>2. 1 + 1 \in DOMAIN script /\ script[1 + 1].do = "reset" /\ script[1 + 1].needs = script[1].needs
  BY <1>1 DEF ScriptInv, Shape, ResetAfterClose
<1>3. 1 \in DOMAIN Tail(script) /\ Tail(script)[1] = script[2]
  BY <1>2, TailStep DEF ScriptInv
<1>4. Tail(script) # <<>> /\ Head(Tail(script)) = script[2]
  BY <1>3, TailStep DEF ScriptInv
<1>5. script' # <<>> /\ Head(script').do = "reset" /\ ~(Head(script').needs # NoName /\ pool' = NoDb)
  BY <1>1, <1>2, <1>4 DEF Missing
<1> QED
  BY <1>5 DEF Now, Missing

\* The registry offers closed pools to nobody but the reset.
LEMMA ClosedTogetherStep ==
  ASSUME RegistryType, ScriptInv, Numbered, PoolFresh, ClosedTogether, Administer
  PROVE  ClosedTogether'
<1> USE DEF NoDb
<1>1. NoDb \notin closed /\ 0 \notin closed
  BY DEF RegistryType
<1>2. CASE Beginning
  <2>1. ~Now("reset") /\ ~Now("reset")'
    BY <1>2, TailStep DEF Beginning, Now, Fits
  <2> QED
    BY <1>2, <2>1 DEF Beginning, pools, ClosedTogether
<1>3. CASE GivenUp
  <2>1. ~Now("reset") /\ ~Now("reset")'
    BY <1>3 DEF GivenUp, Now
  <2> QED
    BY <1>3, <2>1 DEF GivenUp, pools, ClosedTogether
<1>4. CASE Quiet
  <2>1. ~Now("reset") /\ ~Now("reset")'
    BY <1>4, ResetNext DEF Quiet, Now, Missing, pools
  <2> QED
    BY <1>4, <2>1 DEF Quiet, pools, ClosedTogether
<1>5. CASE UNCHANGED <<pools, script>>
  <2>1. Now("reset")' <=> Now("reset")
    BY <1>5 DEF Now, Missing, pools
  <2> QED
    BY <1>5, <2>1 DEF pools, ClosedTogether
<1>6. CASE Open \/ OpenFails
  <2>1. ~Now("reset") /\ ~Now("reset")'
    BY <1>6, HeadDone, ResetNext DEF Now
  <2> QED
    BY <1>6, <2>1 DEF Open, OpenFails, ClosedTogether
<1>7. CASE AddOpened
  <2>1. ~Now("reset") /\ ~Now("reset")'
    BY <1>7, HeadDone, ResetNext DEF Now
  <2>2. Owed(script)
    <3>1. script[1].do = "add" /\ 1 \in DOMAIN script /\ NoOpen(script, 0, 1)
      BY <1>7, HeadDone, TailStep DEF ScriptInv, NoOpen
    <3> QED
      BY <3>1 DEF Owed
  <2>3. pool \notin closed
    BY <1>1, <2>2 DEF PoolFresh
  <2> QED
    BY <1>7, <2>1, <2>3 DEF AddOpened, ClosedTogether, RegistryType
<1>8. CASE CloseAll
  <2>1. pool' = pool /\ sources' = sources
    BY <1>8 DEF CloseAll, Change
  <2>2. Now("reset")'
    BY <1>8, <2>1, HeadDone, ResetFollows
  <2>3. \A n \in Names : sources[n] # NoDb => sources[n] \in closed'
    BY <1>8 DEF CloseAll
  <2> QED
    BY <2>1, <2>2, <2>3 DEF ClosedTogether
<1>9. CASE Reset
  <2>1. ~Now("reset")'
    BY <1>9, HeadDone, ResetNext
  <2> QED
    BY <1>1, <1>9, <2>1 DEF Reset, ClosedTogether
<1> QED
  BY <1>2, <1>3, <1>4, <1>5, <1>6, <1>7, <1>8, <1>9, AdminCases

\* The first step of a script is a registration only of the pool just opened.
LEMMA AddOwed ==
  ASSUME ScriptInv, script # <<>>, Head(script).do = "add"
  PROVE  Owed(script)
<1>1. script[1].do = "add" /\ 1 \in DOMAIN script /\ NoOpen(script, 0, 1)
  BY TailStep DEF ScriptInv, NoOpen
<1> QED
  BY <1>1 DEF Owed

\* No pool gets two names: the one registered had none.
LEMMA NumberedStep ==
  ASSUME RegistryType, ScriptInv, Numbered, PoolFresh, Administer
  PROVE  Numbered'
<1> USE DEF NoDb, Dbs
<1>1. CASE Beginning \/ GivenUp \/ Quiet \/ UNCHANGED <<pools, script>> \/ CloseAll
  BY <1>1 DEF Beginning, GivenUp, Quiet, pools, CloseAll, Change, Numbered
<1>2. CASE Open \/ OpenFails
  <2>1. opened \in Nat /\ opened' \in Nat /\ opened <= opened' /\ pool' <= opened' /\ sources' = sources
    BY <1>2, ConstantsAssumption DEF Open, OpenFails, RegistryType
  <2>2. \A n \in Names : sources[n] \in Nat
    BY DEF RegistryType
  <2> QED
    BY <2>1, <2>2 DEF Numbered
<1>3. CASE AddOpened
  <2>1. Owed(script) /\ (pool # NoDb => \A n \in Names : sources[n] # pool)
    BY <1>3, HeadDone, AddOwed DEF PoolFresh
  <2>2. sources' = [sources EXCEPT ![Name] = pool] /\ opened' = opened /\ pool' = pool
    BY <1>3 DEF AddOpened, Change
  <2> QED
    BY <2>1, <2>2 DEF Numbered, RegistryType
<1>4. CASE Reset
  <2>1. sources' = [n \in Names |-> NoDb] /\ opened' = opened /\ pool' = pool
    BY <1>4 DEF Reset, Change
  <2> QED
    BY <2>1, ConstantsAssumption DEF Numbered, RegistryType
<1> QED
  BY <1>1, <1>2, <1>3, <1>4, AdminCases

\* The pool just opened stays unregistered and open until it is registered.
LEMMA PoolFreshStep ==
  ASSUME RegistryType, ScriptInv, Numbered, PoolFresh, Administer
  PROVE  PoolFresh'
<1> USE DEF NoDb, Dbs
<1>0. \A s : s = script /\ s # <<>> => /\ s \in Seq(Steps) /\ Shape(s) /\ Head(s) = s[1]
  BY TailStep DEF ScriptInv
<1>1. CASE Beginning
  BY <1>1 DEF Beginning, Fits, PoolFresh
<1>2. CASE GivenUp
  BY <1>2 DEF GivenUp, PoolFresh, Owed
<1>3. CASE Quiet
  <2>1. pool # NoDb => Head(script).do # "open"
    BY <1>3 DEF Quiet, Missing
  <2>2. pool # NoDb /\ Owed(script') => Owed(script)
    BY <1>0, <1>3, <2>1, OwedTail DEF Quiet
  <2> QED
    BY <1>3, <2>2 DEF Quiet, pools, PoolFresh
<1>4. CASE UNCHANGED <<pools, script>>
  BY <1>4 DEF pools, PoolFresh
<1>5. CASE Open
  <2>1. pool' = opened + 1 /\ opened \in Nat /\ UNCHANGED <<sources, closed, unpinged>>
    BY <1>5, ConstantsAssumption DEF Open, RegistryType
  <2>2. opened + 1 \notin closed /\ opened + 1 \notin unpinged
    BY <2>1 DEF RegistryType
  <2>3. ASSUME NEW n \in Names
        PROVE  sources[n] # opened + 1
    BY <2>1 DEF Numbered, RegistryType
  <2> QED
    BY <2>1, <2>2, <2>3 DEF PoolFresh
<1>6. CASE OpenFails
  BY <1>6 DEF OpenFails, PoolFresh
<1>7. CASE AddOpened
  <2>1. ~Owed(script')
    BY <1>0, <1>7, HeadDone, OwedTail
  <2> QED
    BY <2>1 DEF PoolFresh
<1>8. CASE CloseAll
  <2>1. Owed(script') => Owed(script)
    BY <1>0, <1>8, HeadDone, OwedTail
  <2>2. UNCHANGED <<sources, unpinged, pool>>
        /\ closed' = closed \union {sources[n] : n \in {m \in Names : sources[m] # NoDb}}
    BY <1>8 DEF CloseAll, Change
  <2> QED
    BY <2>1, <2>2 DEF PoolFresh
<1>9. CASE Reset
  <2>1. Owed(script') => Owed(script)
    BY <1>0, <1>9, HeadDone, OwedTail
  <2>2. UNCHANGED <<closed, unpinged, pool>> /\ sources' = [n \in Names |-> NoDb]
    BY <1>9 DEF Reset, Change
  <2> QED
    BY <2>1, <2>2 DEF PoolFresh
<1> QED
  BY <1>1, <1>2, <1>3, <1>4, <1>5, <1>6, <1>7, <1>8, <1>9, AdminCases

\* No pool is lost: what leaves the registry has been closed, and what is
\* registered takes a free name.
LEMMA ReachableStep ==
  ASSUME RegistryType, ScriptInv, Numbered, AddsFree, ClosedTogether, Reachable, Administer
  PROVE  Reachable'
<1> USE DEF NoDb, Dbs
<1>0. \A s : s = script /\ s # <<>> =>
        s \in Seq(Steps) /\ Shape(s) /\ Head(s) = s[1] /\ 1 \in DOMAIN s
  BY TailStep DEF ScriptInv
<1>1. CASE Beginning
  <2>1. ~Owed(script)
    BY <1>1 DEF Beginning, Owed
  <2> QED
    BY <1>1, <2>1 DEF Beginning, pools, Reachable
<1>2. CASE GivenUp
  <2>1. ~Owed(script)
    <3> SUFFICES ASSUME NEW i \in DOMAIN script, script[i].do = "add", NoOpen(script, 0, i)
                 PROVE  FALSE
      BY DEF Owed
    <3>1. script[1].do = "find" /\ 1 \in DOMAIN script /\ i \in Nat \ {0}
      BY <1>0, <1>2, TailStep DEF GivenUp, ScriptInv
    <3>2. 1 + 1 \in DOMAIN script /\ script[1 + 1].do = "open"
      BY <3>1 DEF ScriptInv, Shape, AddAfterOpen
    <3>3. i # 1 /\ i # 2 /\ 0 < 2 /\ 2 < i
      BY <3>1, <3>2
    <3> QED
      BY <3>2, <3>3 DEF NoOpen
  <2> QED
    BY <1>2, <2>1 DEF GivenUp, pools, Reachable
<1>3. CASE Quiet
  <2>1. Owed(script) /\ pool # NoDb => Owed(script')
    <3>1. pool # NoDb => Head(script).do # "add"
      BY <1>3 DEF Quiet, Missing
    <3> QED
      BY <1>0, <1>3, <3>1, OwedTail DEF Quiet
  <2> QED
    BY <1>3, <2>1 DEF Quiet, pools, Reachable
<1>4. CASE UNCHANGED <<pools, script>>
  BY <1>4 DEF pools, Reachable
<1>5. CASE Open \/ OpenFails
  <2>1. ~Owed(script) /\ Owed(script')
    BY <1>0, <1>5, HeadDone, OwedTail
  <2>2. ASSUME NEW d \in 1..opened', d \notin closed' \union unpinged'
        PROVE  d \in 1..opened \/ (d = pool' /\ Open)
    <3>1. opened' = opened \/ (opened' = opened + 1 /\ (opened' \in unpinged' \/ (Open /\ pool' = opened')))
      BY <1>5 DEF Open, OpenFails
    <3>2. opened \in Nat
      BY ConstantsAssumption DEF RegistryType
    <3> QED
      BY <2>2, <3>1, <3>2
  <2>3. sources' = sources /\ closed' = closed /\ unpinged \subseteq unpinged'
    BY <1>5 DEF Open, OpenFails
  <2> QED
    BY <2>1, <2>2, <2>3 DEF Reachable
<1>6. CASE AddOpened
  <2>1. sources' = [sources EXCEPT ![Name] = pool] /\ UNCHANGED <<opened, closed, unpinged, pool>>
    BY <1>6 DEF AddOpened, Change
  <2>2. sources[Name] = NoDb
    <3>1. /\ script[1].do = "add" /\ 1 \in DOMAIN script /\ Head(script) = script[1]
          /\ \A j \in DOMAIN script : ~(j < 1)
      BY <1>0, <1>6, HeadDone, TailStep DEF ScriptInv
    <3>2. pool # NoDb
      BY <1>6, <3>1, HeadDone DEF ScriptInv, Shape, Named, Missing
    <3> QED
      BY <3>1, <3>2 DEF AddsFree, Name
  <2>3. Name \in Names
    BY <1>6, HeadDone, HeadType
  <2> QED
    BY <2>1, <2>2, <2>3 DEF Reachable, RegistryType
<1>7. CASE CloseAll
  <2>1. Owed(script) => Owed(script')
    BY <1>0, <1>7, HeadDone, OwedTail
  <2>2. UNCHANGED <<sources, opened, unpinged, pool>> /\ closed \subseteq closed'
    BY <1>7 DEF CloseAll, Change
  <2> QED
    BY <2>1, <2>2 DEF Reachable
<1>8. CASE Reset
  <2>1. Owed(script) => Owed(script')
    BY <1>0, <1>8, HeadDone, OwedTail
  <2>2. UNCHANGED <<opened, closed, unpinged, pool>>
    BY <1>8 DEF Reset, Change
  <2>3. \A n \in Names : sources[n] \in closed \union {NoDb}
    BY <1>8 DEF Reset, Change, ClosedTogether
  <2>4. \A d \in 1..opened : d \notin closed => \A n \in Names : sources[n] # d
    BY <2>3
  <2> QED
    BY <2>1, <2>2, <2>4 DEF Reachable
<1> QED
  BY <1>1, <1>2, <1>3, <1>4, <1>5, <1>6, <1>7, <1>8, AdminCases

\* A name stays free, or will be found free or freed, until a pool is registered
\* under it.
LEMMA AddsFreeStep ==
  ASSUME RegistryType, ScriptInv, AddsFree, Administer
  PROVE  AddsFree'
<1> USE DEF NoDb
<1> DEFINE s == script
<1> DEFINE t == script'
<1>1. CASE Beginning
  BY <1>1 DEF Beginning, Fits, Guarded, AddsFree
<1>2. CASE GivenUp
  BY <1>2 DEF GivenUp, AddsFree
<1>3. CASE UNCHANGED <<pools, script>>
  BY <1>3 DEF pools, AddsFree
<1>4. CASE Quiet \/ Open \/ OpenFails \/ AddOpened \/ CloseAll \/ Reset
  <2>1. script # <<>> /\ script' = Tail(script)
    BY <1>4, HeadDone DEF Quiet
  <2> SUFFICES ASSUME NEW i \in DOMAIN t, t[i].do = "add"
               PROVE  \/ sources'[t[i].name] = NoDb
                      \/ pool' = NoDb /\ NoOpen(t, 0, i)
                      \/ \E j \in DOMAIN t : j < i /\
                           \/ t[j].do = "find" /\ t[j].name = t[i].name
                           \/ t[j].do = "reset" /\ (t[j].needs = NoName \/ NoOpen(t, j, i))
    BY DEF AddsFree
  <2>2. /\ i \in Nat \ {0} /\ i + 1 \in DOMAIN s /\ t[i] = s[i + 1]
        /\ 1 \in DOMAIN s /\ Head(s) = s[1] /\ s \in Seq(Steps)
    BY <2>1, TailStep DEF ScriptInv
  <2>3. s[i + 1].name \in Names
    BY <2>2 DEF ScriptInv, Shape, Named
  \* A step of the script that is still to come keeps the name guarded.
  <2>4. ASSUME NEW j \in DOMAIN s, j # 1, j < i + 1,
               \/ s[j].do = "find" /\ s[j].name = s[i + 1].name
               \/ s[j].do = "reset" /\ (s[j].needs = NoName \/ NoOpen(s, j, i + 1))
        PROVE  \E k \in DOMAIN t : k < i /\
                 \/ t[k].do = "find" /\ t[k].name = t[i].name
                 \/ t[k].do = "reset" /\ (t[k].needs = NoName \/ NoOpen(t, k, i))
    <3>1. j - 1 \in DOMAIN t /\ t[j - 1] = s[j] /\ j - 1 < i /\ j - 1 \in Nat
      <4>1. j \in Nat \ {0} /\ j - 1 \in DOMAIN Tail(s)
        BY <2>1, <2>2, <2>4, TailStep
      <4>2. Tail(s)[j - 1] = s[(j - 1) + 1] /\ (j - 1) + 1 = j
        BY <2>1, <2>2, <4>1, TailStep
      <4> QED
        BY <2>1, <2>2, <2>4, <4>1, <4>2
    <3>2. NoOpen(s, (j - 1) + 1, i + 1) => NoOpen(t, j - 1, i)
      BY <2>1, <2>2, <3>1, NoOpenTail
    <3>3. j = (j - 1) + 1
      BY <3>1, <2>2, TailStep
    <3> QED
      BY <2>2, <2>4, <3>1, <3>2, <3>3
  <2>5. NoOpen(s, 0, i + 1) => NoOpen(t, 0, i) /\ s[1].do # "open"
    BY <2>1, <2>2, NoOpenFirst
  <2>6. NoOpen(s, 1, i + 1) => NoOpen(t, 0, i)
    <3>1. NoOpen(s, 0 + 1, i + 1) => NoOpen(t, 0, i)
      BY <2>1, <2>2, NoOpenTail
    <3> QED
      BY <3>1
  <2>7. \/ sources[s[i + 1].name] = NoDb
        \/ pool = NoDb /\ NoOpen(s, 0, i + 1)
        \/ \E j \in DOMAIN s : j < i + 1 /\
             \/ s[j].do = "find" /\ s[j].name = s[i + 1].name
             \/ s[j].do = "reset" /\ (s[j].needs = NoName \/ NoOpen(s, j, i + 1))
    BY <2>2 DEF AddsFree
  <2>8. CASE Quiet
    <3>1. UNCHANGED <<sources, pool>>
      BY <2>8 DEF Quiet, pools
    <3>2. s[1].do = "find" => sources[s[1].name] = NoDb
      <4>1. s[1].do = "find" => s[1].name \in Names
        BY <2>2 DEF ScriptInv, Shape, Named
      <4> QED
        BY <2>2, <2>8, <4>1, ConstantsAssumption DEF Quiet, Get, Name
    <3>3. s[1].do = "reset" => s[1].needs # NoName /\ pool = NoDb
      BY <2>2, <2>8 DEF Quiet, Missing
    <3> QED
      BY <2>2, <2>4, <2>5, <2>6, <2>7, <3>1, <3>2, <3>3
  <2>9. CASE Open \/ OpenFails
    <3>1. s[1].do = "open" /\ sources' = sources
      BY <2>2, <2>9, HeadDone DEF Open, OpenFails
    <3> QED
      BY <2>2, <2>4, <2>5, <2>7, <3>1
  <2>10. CASE AddOpened
    <3>1. s[1].do = "add" /\ pool # NoDb
      BY <2>2, <2>10, HeadDone DEF ScriptInv, Shape, Named, Missing
    <3>2. s[1].name # s[i + 1].name
      BY <2>2, <3>1 DEF ScriptInv, Shape, AddsApart
    <3>3. sources'[s[i + 1].name] = sources[s[i + 1].name]
      BY <2>2, <2>3, <2>10, <3>2 DEF AddOpened, Name, RegistryType
    <3> QED
      BY <2>2, <2>4, <2>7, <3>1, <3>3
  <2>11. CASE CloseAll
    <3>1. s[1].do = "closeAll" /\ UNCHANGED <<sources, pool>>
      BY <2>2, <2>11, HeadDone DEF CloseAll, Change
    <3> QED
      BY <2>2, <2>4, <2>5, <2>7, <3>1
  <2>12. CASE Reset
    BY <2>2, <2>3, <2>12 DEF Reset
  <2> QED
    BY <1>4, <2>8, <2>9, <2>10, <2>11, <2>12
<1> QED
  BY <1>1, <1>2, <1>3, <1>4, AdminCases

\* A step that changes neither the pools nor the script keeps the invariant.
LEMMA RegistryKept ==
  ASSUME RegistryInv, UNCHANGED <<registry, admin>>
  PROVE  RegistryInv'
<1> USE DEF registry, admin
<1>1. ScriptInv' /\ Numbered' /\ PoolFresh' /\ AddsFree'
  BY DEF RegistryInv, ScriptInv, Numbered, PoolFresh, AddsFree
<1>2. ClosedTogether'
  <2>1. Now("reset")' <=> Now("reset")
    BY DEF Now, Missing
  <2> QED
    BY <2>1 DEF RegistryInv, ClosedTogether
<1>3. Reachable'
  BY DEF RegistryInv, Reachable
<1> QED
  BY <1>1, <1>2, <1>3 DEF RegistryInv

\* The administrator keeps it.
LEMMA RegistryStep ==
  ASSUME RegistryType, RegistryInv, Administer
  PROVE  RegistryInv'
BY ScriptStep, NumberedStep, PoolFreshStep, AddsFreeStep, ClosedTogetherStep, ReachableStep
DEF RegistryInv

-----------------------------------------------------------------------------
(***************************************************************************)
(* Calls.                                                                  *)
(***************************************************************************)

\* A start writes down where the statement has to run.
LEMMA ExpectedType ==
  ASSUME RegistryType, RoutingType, TxType, NEW p \in Procs, NEW n \in Namespaces \union {NoNs}, NEW k
  PROVE  Expected(p, n, k) \in [why : {"none", "ctx", "bound", "slot"}, db : Dbs \union {NoDb}]
<1> DEFINE bound == IF n = NoNs THEN NoDb ELSE Get(MatchBinding(n, nsBindings))
<1>1. bound \in Dbs \union {NoDb}
  BY MatchType, GetType DEF RoutingType
<1>2. Expected(p, n, k) =
        CASE ctxTx[p] # NoDb -> [why |-> "ctx", db |-> ctxTx[p]]
          [] ctxTx[p] = NoDb /\ bound \notin {NoDb, gDbConn} -> [why |-> "bound", db |-> bound]
          [] ctxTx[p] = NoDb /\ bound = NoDb /\ gDbConn # NoDb /\ curTx[gDbConn] = p ->
               [why |-> "slot", db |-> gDbConn]
          [] OTHER -> [why |-> "none", db |-> NoDb]
  BY DEF Expected
<1> HIDE DEF bound
<1> QED
  BY <1>1, <1>2 DEF RegistryType, TxType

\* Only the administrator's revisions and the beginning and end of a call change
\* an expectation.
LEMMA ExpectTypeStep ==
  ASSUME RegistryType, RoutingType, TxType, ExpectType, Next
  PROVE  ExpectType'
<1>1. ASSUME NEW p \in Callers, Start(p)
      PROVE  ExpectType'
  <2>1. PICK k \in Kinds, n \in Namespaces \union {NoNs} :
          expect' = [expect EXCEPT ![p] = Expected(p, n, k)]
    BY <1>1 DEF Start
  <2>2. p \in Procs
    BY ConstantsAssumption
  <2> QED
    BY <2>1, <2>2, ExpectedType DEF ExpectType
<1>2. ASSUME NEW p \in Callers, Return(p)
      PROVE  ExpectType'
  BY <1>2 DEF Return, ExpectType, Nothing
<1>3. ASSUME NEW p \in Callers, Call(p), ~Start(p), ~Return(p)
      PROVE  expect' = expect
  BY <1>3 DEF Call, Match, Resolve, Enter, RouteRead, Compare, Replica, Exec, Run
<1>4. ASSUME NEW p \in Procs, TxStep(p)
      PROVE  expect' = expect
  BY <1>4, TxFrame DEF callVars
<1>5. CASE Revise
  BY <1>5 DEF Revise, ExpectType, Nothing
<1>6. CASE Administer
  BY <1>5, <1>6, AdminRevises DEF ExpectType
<1>7. CASE RunLogger
  BY <1>7 DEF RunLogger, callVars, ExpectType
<1> QED
  BY <1>1, <1>2, <1>3, <1>4, <1>6, <1>7, ConstantsAssumption DEF Next, TxStep, ExpectType

\* A call's variables are left as they are set up until the call needs them.
LEMMA IdleStart ==
  ASSUME CallType, IdleInv, NEW p \in Callers, Start(p), ExpectType
  PROVE  IdleInv'
<1>1. PICK k \in Kinds, n \in Namespaces \union {NoNs} :
        /\ k = "api" <=> n = NoNs
        /\ kind' = [kind EXCEPT ![p] = k]
        /\ ns' = [ns EXCEPT ![p] = n]
        /\ expect' = [expect EXCEPT ![p] = Expected(p, n, k)]
        /\ pc' = [pc EXCEPT ![p] = IF k = "api" THEN "exec" ELSE "match"]
  BY DEF Start, Goto
<1>2. pc[p] = "idle" /\ match' = match /\ route' = route /\ p \in Procs
  BY ConstantsAssumption DEF Start
<1> QED
  BY <1>1, <1>2 DEF IdleInv, CallType, ExpectType

\* A goroutine without a call has no remnant of an earlier one.
LEMMA IdleStep ==
  ASSUME RoutingType, CallType, ExpectType, IdleInv, Next
  PROVE  IdleInv'
<1> USE DEF CallType, ExpectType, Goto
<1>1. ASSUME NEW p \in Callers, Match(p) \/ Resolve(p) \/ Enter(p) \/ RouteRead(p)
      PROVE  IdleInv'
  BY <1>1, ConstantsAssumption DEF IdleInv, Match, Resolve, Enter, RouteRead, Reads
<1>2. ASSUME NEW p \in Callers, Compare(p) \/ Replica(p) \/ Exec(p) \/ Run(p)
      PROVE  IdleInv'
  BY <1>2, ConstantsAssumption DEF IdleInv, Compare, Replica, Exec, Run
<1>3. ASSUME NEW p \in Callers, Return(p)
      PROVE  IdleInv'
  BY <1>3, ConstantsAssumption DEF IdleInv, Return
<1>4. CASE UNCHANGED <<pc, ns, kind, match, route, expect>>
  BY <1>4 DEF IdleInv
<1>5. CASE Administer
  <2>1. UNCHANGED <<pc, ns, kind, match, route>>
    BY <1>5, AdminFrame
  <2>2. \A p \in Procs : expect[p] = Nothing => expect'[p] = Nothing
    BY <1>5, AdminRevises DEF Revise
  <2> QED
    BY <2>1, <2>2 DEF IdleInv
<1>6. ASSUME NEW p \in Procs, TxStep(p)
      PROVE  UNCHANGED <<pc, ns, kind, match, route, expect>>
  BY <1>6, TxFrame DEF callVars
<1>7. CASE RunLogger
  BY <1>4, <1>7 DEF RunLogger, callVars
<1> QED
  BY <1>1, <1>2, <1>3, <1>4, <1>5, <1>6, <1>7, IdleStart, ConstantsAssumption DEF Next, Call, TxStep

\* In a WithTx every look-up gives the transaction's own data source.
LEMMA TextStep ==
  ASSUME TxType, CallType, IdleInv, TextInv, Next
  PROVE  TextInv'
<1> USE DEF CallType, TxType, Goto, TextInv, Late
<1>1. ASSUME NEW p \in Callers, Start(p)
      PROVE  TextInv'
  <2>1. PICK k \in Kinds, n \in Namespaces \union {NoNs} :
          /\ kind' = [kind EXCEPT ![p] = k]
          /\ pc' = [pc EXCEPT ![p] = IF k = "api" THEN "exec" ELSE "match"]
    BY <1>1 DEF Start
  <2> QED
    BY <1>1, <2>1, ConstantsAssumption DEF Start, txs
<1>2. ASSUME NEW p \in Callers, Match(p)
      PROVE  TextInv'
  BY <1>2, ConstantsAssumption DEF Match, txs
<1>3. ASSUME NEW p \in Callers, Resolve(p)
      PROVE  TextInv'
  BY <1>3, ConstantsAssumption DEF Resolve, txs
<1>4. ASSUME NEW p \in Callers, Enter(p)
      PROVE  TextInv'
  BY <1>4, ConstantsAssumption DEF Enter, txs, RoutedDB, Reads, IdleInv
<1>5. ASSUME NEW p \in Callers, RouteRead(p)
      PROVE  TextInv'
  BY <1>5, ConstantsAssumption DEF RouteRead, txs
<1>6. ASSUME NEW p \in Callers, Compare(p)
      PROVE  TextInv'
  BY <1>6, ConstantsAssumption DEF Compare, txs, InTransactionWith
<1>7. ASSUME NEW p \in Callers, Replica(p)
      PROVE  TextInv'
  BY <1>7, ConstantsAssumption DEF Replica, txs
<1>8. ASSUME NEW p \in Callers, Exec(p)
      PROVE  TextInv'
  BY <1>8, ConstantsAssumption DEF Exec, txs, RoutedDB
<1>9. ASSUME NEW p \in Callers, Run(p) \/ Return(p)
      PROVE  TextInv'
  BY <1>9, ConstantsAssumption DEF Run, Return, txs
<1>10. ASSUME NEW p \in Procs, TxStep(p)
       PROVE  TextInv'
  <2>1. UNCHANGED <<pc, kind, route, execDB, target>>
    BY <1>10, TxFrame DEF callVars
  <2>2. \A q \in Procs : ctxTx'[q] # ctxTx[q] => pc[q] = "idle"
    BY <1>10 DEF TxStep, Begin, Finish, EnterWithTx, LeaveWithTx
  <2> QED
    BY <2>1, <2>2
<1>11. CASE UNCHANGED <<pc, kind, route, execDB, target, ctxTx>>
  BY <1>11
<1>12. CASE Administer
  BY <1>11, <1>12, AdminFrame DEF txs
<1>13. CASE RunLogger
  BY <1>11, <1>13 DEF RunLogger, callVars, txs
<1> QED
  BY <1>1, <1>2, <1>3, <1>4, <1>5, <1>6, <1>7, <1>8, <1>9, <1>10, <1>12, <1>13, ConstantsAssumption
  DEF Next, Call, TxStep

\* What the bindings say of a namespace changes with the bindings and the registry
\* only.
LEMMA BoundDbKept ==
  ASSUME NEW q \in Procs, UNCHANGED <<sources, nsBindings>>, ns'[q] = ns[q], match'[q] = match[q]
  PROVE  /\ BoundDb(q)' = BoundDb(q)
         /\ MatchBinding(ns[q], nsBindings)' = MatchBinding(ns[q], nsBindings)
         /\ Get(match[q])' = Get(match[q])
<1>1. MatchBinding(ns[q], nsBindings)' = MatchBinding(ns[q], nsBindings)
  BY DEF MatchBinding
<1>2. Get(match[q])' = Get(match[q])
  BY DEF Get
<1>3. BoundDb(q)' = BoundDb(q)
  BY DEF BoundDb, Get, MatchBinding
<1> QED
  BY <1>1, <1>2, <1>3

\* A step of one goroutine does not touch the call of another.
LEMMA OthersKept ==
  ASSUME CallType, TxType, ExpectType, NEW p \in Callers, Call(p), NEW q \in Procs, q # p
  PROVE  (BoundOf(q) => BoundOf(q)') /\ (SlotOf(q) => SlotOf(q)')
<1>1. /\ pc'[q] = pc[q] /\ ns'[q] = ns[q] /\ kind'[q] = kind[q] /\ match'[q] = match[q]
      /\ route'[q] = route[q] /\ execDB'[q] = execDB[q] /\ base'[q] = base[q]
  <2> USE DEF CallType, Goto
  <2>1. CASE Start(p) \/ Match(p) \/ Resolve(p) \/ Enter(p)
    BY <2>1 DEF Start, Match, Resolve, Enter
  <2>2. CASE RouteRead(p) \/ Compare(p) \/ Replica(p) \/ Exec(p) \/ Run(p) \/ Return(p)
    BY <2>2 DEF RouteRead, Compare, Replica, Exec, Run, Return
  <2> QED
    BY <2>1, <2>2 DEF Call
<1>2. target'[q] = target[q] /\ inTx'[q] = inTx[q] /\ expect'[q] = expect[q]
  <2> USE DEF CallType, ExpectType
  <2>1. CASE Start(p) \/ Match(p) \/ Resolve(p) \/ Enter(p)
    BY <2>1 DEF Start, Match, Resolve, Enter
  <2>2. CASE RouteRead(p) \/ Compare(p) \/ Replica(p) \/ Exec(p) \/ Run(p) \/ Return(p)
    BY <2>2 DEF RouteRead, Compare, Replica, Exec, Run, Return
  <2> QED
    BY <2>1, <2>2 DEF Call
<1>3. UNCHANGED <<sources, nsBindings, gDbConn, curTx, ctxTx>>
  BY CallFrame DEF registry, txs
<1>4. /\ BoundDb(q)' = BoundDb(q) /\ Get(match[q])' = Get(match[q])
      /\ MatchBinding(ns[q], nsBindings)' = MatchBinding(ns[q], nsBindings)
  BY <1>1, <1>3, BoundDbKept
<1>5. BoundOf(q) => BoundOf(q)'
  BY <1>1, <1>2, <1>3, <1>4 DEF BoundOf, OnItsWay, Late
<1>6. SlotOf(q) => SlotOf(q)'
  BY <1>1, <1>2, <1>3, <1>4 DEF SlotOf, OnItsWay, Late
<1> QED
  BY <1>5, <1>6

\* The start of a call expects what its invariant asks for.
LEMMA StartOwn ==
  ASSUME RegistryType, RoutingType, TxType, CallType, ExpectType, IdleInv,
         NEW p \in Callers, Start(p)
  PROVE  BoundOf(p)' /\ SlotOf(p)'
<1>0. p \in Procs
  BY ConstantsAssumption
<1>1. PICK k \in Kinds, n \in Namespaces \union {NoNs} :
        /\ k = "api" <=> n = NoNs
        /\ kind' = [kind EXCEPT ![p] = k]
        /\ ns' = [ns EXCEPT ![p] = n]
        /\ expect' = [expect EXCEPT ![p] = Expected(p, n, k)]
        /\ pc' = [pc EXCEPT ![p] = IF k = "api" THEN "exec" ELSE "match"]
  BY DEF Start, Goto
<1>2. UNCHANGED <<sources, nsBindings, gDbConn, curTx, ctxTx, match, route>>
  BY DEF Start, registry, routing, txs
<1> DEFINE bound == IF n = NoNs THEN NoDb ELSE Get(MatchBinding(n, nsBindings))
<1>3. ns'[p] = n /\ kind'[p] = k /\ expect'[p] = Expected(p, n, k)
      /\ pc'[p] = IF k = "api" THEN "exec" ELSE "match"
  BY <1>0, <1>1 DEF CallType, ExpectType
<1>4. BoundDb(p)' = bound
  BY <1>2, <1>3 DEF BoundDb, Get, MatchBinding
<1>5. match[p] = NoName /\ route[p] = NoDb /\ Get(match[p])' = NoDb
  BY <1>0, <1>2 DEF IdleInv, Start, Get
<1>6. /\ expect'[p].why = "bound" =>
           ctxTx[p] = NoDb /\ bound \notin {NoDb, gDbConn} /\ expect'[p].db = bound
      /\ expect'[p].why = "slot" =>
           /\ ctxTx[p] = NoDb /\ bound = NoDb /\ gDbConn # NoDb /\ curTx[gDbConn] = p
           /\ expect'[p].db = gDbConn
  <2> HIDE DEF bound
  <2>1. Expected(p, n, k) =
          CASE ctxTx[p] # NoDb -> [why |-> "ctx", db |-> ctxTx[p]]
            [] ctxTx[p] = NoDb /\ bound \notin {NoDb, gDbConn} -> [why |-> "bound", db |-> bound]
            [] ctxTx[p] = NoDb /\ bound = NoDb /\ gDbConn # NoDb /\ curTx[gDbConn] = p ->
                 [why |-> "slot", db |-> gDbConn]
            [] OTHER -> [why |-> "none", db |-> NoDb]
    BY DEF Expected, bound
  <2> QED
    BY <1>3, <2>1
<1>7. k = "api" => bound = NoDb /\ kind'[p] # "returning"
  BY <1>1, <1>3
<1> HIDE DEF bound
<1>8. BoundOf(p)'
  BY <1>2, <1>3, <1>4, <1>6, <1>7 DEF BoundOf, OnItsWay, Late
<1>9. SlotOf(p)'
  BY <1>2, <1>3, <1>4, <1>5, <1>6, <1>7 DEF SlotOf, OnItsWay, Late
<1> QED
  BY <1>8, <1>9

\* Every later step of a call keeps to the pool it has to run on.
LEMMA CallOwn ==
  ASSUME RegistryType, RoutingType, TxType, CallType, ExpectType, IdleInv,
         NEW p \in Callers, BoundOf(p), SlotOf(p), Call(p), ~Start(p)
  PROVE  BoundOf(p)' /\ SlotOf(p)'
<1>0. p \in Procs
  BY ConstantsAssumption
<1>1. UNCHANGED <<sources, nsBindings, gDbConn, curTx, ctxTx>>
  BY CallFrame DEF registry, txs
<1> USE DEF CallType, Goto, BoundOf, SlotOf, OnItsWay, Late
<1>2. CASE Match(p)
  <2>1. ns'[p] = ns[p] /\ ns[p] # NoNs
    BY <1>0, <1>2 DEF Match, IdleInv
  <2>2. BoundDb(p) = Get(MatchBinding(ns[p], nsBindings))
    BY <2>1 DEF BoundDb
  <2>3. BoundDb(p)' = BoundDb(p)
    BY <1>1, <2>1 DEF BoundDb, Get, MatchBinding
  <2>4. match'[p] = MatchBinding(ns[p], nsBindings) => Get(match[p])' = BoundDb(p)
    BY <1>1, <2>2 DEF Get
  <2>5. MatchBinding(ns[p], nsBindings)' = MatchBinding(ns[p], nsBindings)
    BY <1>1, <2>1 DEF MatchBinding
  <2> QED
    BY <1>0, <1>1, <1>2, <2>3, <2>4, <2>5 DEF Match
<1>3. CASE Return(p)
  BY <1>0, <1>3 DEF Return, ExpectType, Nothing
<1>4. ASSUME ~Match(p), ~Return(p)
      PROVE  /\ ns'[p] = ns[p] /\ match'[p] = match[p] /\ kind' = kind /\ expect' = expect
             /\ BoundDb(p)' = BoundDb(p) /\ Get(match[p])' = Get(match[p])
             /\ MatchBinding(ns[p], nsBindings)' = MatchBinding(ns[p], nsBindings)
  <2>1. ns'[p] = ns[p] /\ match'[p] = match[p] /\ kind' = kind /\ expect' = expect
    BY <1>4 DEF Call, Resolve, Enter, RouteRead, Compare, Replica, Exec, Run
  <2> QED
    BY <1>0, <1>1, <2>1, BoundDbKept
<1>5. CASE Resolve(p)
  <2>1. ~Match(p) /\ ~Return(p)
    BY <1>5 DEF Resolve, Match, Return
  <2>2. expect[p].why = "bound" => Get(match[p]) = expect[p].db
    BY <1>0, <1>5 DEF Resolve, BoundDb, IdleInv
  <2> QED
    BY <1>0, <1>1, <1>4, <1>5, <2>1, <2>2 DEF Resolve
<1>6. CASE Enter(p)
  <2>1. ~Match(p) /\ ~Return(p)
    BY <1>6 DEF Enter, Match, Return
  <2> QED
    BY <1>0, <1>1, <1>4, <1>6, <2>1 DEF Enter, RoutedDB
<1>7. CASE RouteRead(p)
  <2>1. ~Match(p) /\ ~Return(p)
    BY <1>7 DEF RouteRead, Match, Return
  <2> QED
    BY <1>0, <1>1, <1>4, <1>7, <2>1 DEF RouteRead, RoutedDB
<1>8. CASE Compare(p)
  <2>1. ~Match(p) /\ ~Return(p)
    BY <1>8 DEF Compare, Match, Return
  <2>2. SlotOf(p) /\ expect[p].why = "slot" => InTransactionWith(p)
    BY <1>0, ConstantsAssumption DEF InTransactionWith, SlotTaken, RoutedDB
  <2> QED
    BY <1>0, <1>1, <1>4, <1>8, <2>1, <2>2 DEF Compare
<1>9. CASE Replica(p)
  <2>1. ~Match(p) /\ ~Return(p)
    BY <1>9 DEF Replica, Match, Return
  <2>2. expect[p].why \notin {"bound", "slot"}
    BY <1>9 DEF Replica
  <2> QED
    BY <1>4, <2>1, <2>2
<1>10. CASE Exec(p)
  <2>1. ~Match(p) /\ ~Return(p)
    BY <1>10 DEF Exec, Match, Return
  <2> QED
    BY <1>0, <1>1, <1>4, <1>10, <2>1 DEF Exec, RoutedDB
<1>11. CASE Run(p)
  <2>1. ~Match(p) /\ ~Return(p)
    BY <1>11 DEF Run, Match, Return
  <2>2. expect[p].why = "slot" => SlotTaken(target[p])
    BY <1>0, <1>11, ConstantsAssumption DEF Run, SlotTaken
  <2> QED
    BY <1>0, <1>1, <1>4, <1>11, <2>1, <2>2 DEF Run
<1> QED
  BY <1>2, <1>3, <1>5, <1>6, <1>7, <1>8, <1>9, <1>10, <1>11 DEF Call

\* The administrator's changes leave an expectation only to calls whose source they
\* did not touch.
LEMMA AdminOwn ==
  ASSUME RoutingType, RoutingType', CallType, ExpectType, IdleInv, Numbered,
         Administer, NEW p \in Procs, BoundOf(p), SlotOf(p)
  PROVE  BoundOf(p)' /\ SlotOf(p)'
<1>1. UNCHANGED <<curTx, ctxTx, pc, ns, kind, match, route, execDB, base, target, inTx>>
  BY AdminFrame DEF txs
<1>2. CASE UNCHANGED <<expect, sources, gDbConn, nsBindings>>
  <2>1. /\ BoundDb(p)' = BoundDb(p) /\ Get(match[p])' = Get(match[p])
        /\ MatchBinding(ns[p], nsBindings)' = MatchBinding(ns[p], nsBindings)
    BY <1>1, <1>2, BoundDbKept
  <2> QED
    BY <1>1, <1>2, <2>1 DEF BoundOf, SlotOf, OnItsWay, Late
<1>3. CASE Revise /\ (UNCHANGED sources \/ UNCHANGED nsBindings)
  <2> DEFINE name == IF ns[p] = NoNs THEN NoName ELSE MatchBinding(ns[p], nsBindings)'
  <2> DEFINE bound == IF name = NoName THEN NoDb ELSE sources'[name]
  <2> DEFINE e == expect[p]
  <2>1. expect'[p] =
          IF \/ e.why = "bound" /\ (bound # e.db \/ gDbConn' = e.db)
             \/ e.why = "slot" /\ (bound # NoDb \/ gDbConn' # e.db \/ Get(match[p])' # NoDb)
          THEN Nothing ELSE e
    BY <1>3 DEF Revise
  <2>2. BoundDb(p)' = bound
    BY <1>1 DEF BoundDb, Get, MatchBinding
  <2>3. CASE e.why = "bound" /\ bound = e.db /\ gDbConn' # e.db
    <3>1. expect'[p] = e
      BY <2>1, <2>3
    <3>2. e.db # NoDb /\ BoundDb(p) = e.db /\ ns[p] # NoNs
      BY <2>3 DEF BoundOf, BoundDb
    <3>3. /\ name = MatchBinding(ns[p], nsBindings)' /\ name \in Names
          /\ MatchBinding(ns[p], nsBindings) \in Names
          /\ sources[MatchBinding(ns[p], nsBindings)] = e.db /\ sources'[name] = e.db
      <4>1. ns[p] \in Namespaces /\ ns'[p] = ns[p]
        BY <1>1, <3>2 DEF CallType
      <4>2. MatchBinding(ns[p], nsBindings) \in Names \union {NoName}
        BY <4>1, MatchType DEF RoutingType
      <4>3. MatchBinding(ns[p], nsBindings') \in Names \union {NoName}
        BY <4>1, MatchType DEF RoutingType
      <4>4. MatchBinding(ns[p], nsBindings)' = MatchBinding(ns[p], nsBindings')
        BY <4>1 DEF MatchBinding
      <4> QED
        BY <2>3, <3>2, <4>1, <4>2, <4>3, <4>4 DEF BoundDb, Get
    <3>4. MatchBinding(ns[p], nsBindings)' = MatchBinding(ns[p], nsBindings)
      <4>1. CASE UNCHANGED sources
        BY <3>2, <3>3, <4>1 DEF Numbered
      <4>2. CASE UNCHANGED nsBindings
        BY <1>1, <4>2 DEF MatchBinding
      <4> QED
        BY <1>3, <4>1, <4>2
    <3> HIDE DEF name, bound, e
    <3>5. e = expect[p]
      BY DEF e
    <3> QED
      BY <1>1, <2>2, <2>3, <3>1, <3>4, <3>5 DEF BoundOf, SlotOf, OnItsWay, Late
  <2>4. CASE e.why = "slot" /\ bound = NoDb /\ gDbConn' = e.db /\ Get(match[p])' = NoDb
    <3>1. expect'[p] = e
      BY <2>1, <2>4
    <3> HIDE DEF name, bound, e
    <3>2. e = expect[p]
      BY DEF e
    <3> QED
      BY <1>1, <2>2, <2>4, <3>1, <3>2 DEF BoundOf, SlotOf, OnItsWay, Late
  <2>5. CASE e.why \notin {"bound", "slot"}
    <3>1. expect'[p] = e
      BY <2>1, <2>5
    <3> QED
      BY <2>5, <3>1 DEF BoundOf, SlotOf
  <2>6. CASE expect'[p] = Nothing
    BY <2>6 DEF BoundOf, SlotOf, Nothing
  <2> HIDE DEF name, bound
  <2> QED
    BY <2>1, <2>3, <2>4, <2>5, <2>6
<1> QED
  BY <1>2, <1>3, AdminRevises

\* A goroutine begins and ends transactions only between its calls, and ends only
\* its own.
LEMMA TxOwn ==
  ASSUME TxType, CallType, IdleInv, NEW q \in Procs, TxStep(q),
         NEW p \in Procs, BoundOf(p), SlotOf(p)
  PROVE  BoundOf(p)' /\ SlotOf(p)'
<1>1. UNCHANGED <<sources, gDbConn, nsBindings, pc, ns, kind, match, route, execDB, base, target, inTx, expect>>
  BY TxFrame DEF registry, routing, callVars
<1>2. pc[q] = "idle"
  BY DEF TxStep, Begin, Finish, EnterWithTx, LeaveWithTx
<1>3. p = q => expect[p] = Nothing
  BY <1>2 DEF IdleInv
<1>4. p # q => /\ ctxTx'[p] = ctxTx[p]
               /\ \A d : curTx[d] = p => curTx'[d] = p
  <2>1. CASE Begin(q)
    BY <2>1, ConstantsAssumption DEF Begin, TxType
  <2>2. CASE Finish(q)
    BY <2>2 DEF Finish, TxType
  <2>3. CASE EnterWithTx(q)
    BY <2>3 DEF EnterWithTx, TxType
  <2>4. CASE LeaveWithTx(q)
    BY <2>4 DEF LeaveWithTx, TxType
  <2> QED
    BY <2>1, <2>2, <2>3, <2>4 DEF TxStep
<1>5. /\ BoundDb(p)' = BoundDb(p) /\ Get(match[p])' = Get(match[p])
      /\ MatchBinding(ns[p], nsBindings)' = MatchBinding(ns[p], nsBindings)
  BY <1>1, BoundDbKept
<1>6. CASE p = q
  BY <1>1, <1>3, <1>6 DEF BoundOf, SlotOf, Nothing
<1>7. CASE p # q
  BY <1>1, <1>4, <1>5, <1>7 DEF BoundOf, SlotOf, OnItsWay, Late
<1> QED
  BY <1>6, <1>7

\* Every step of the program keeps the invariants of the calls.
LEMMA OwnStep ==
  ASSUME TypeOK, RoutingType', ExpectType, IdleInv, Numbered, BoundInv, SlotInv, Next
  PROVE  BoundInv' /\ SlotInv'
<1>1. RegistryType /\ RoutingType /\ TxType /\ CallType
  BY TypeParts
<1>2. SUFFICES ASSUME NEW q \in Procs
               PROVE  BoundOf(q)' /\ SlotOf(q)'
  BY DEF BoundInv, SlotInv
<1>3. BoundOf(q) /\ SlotOf(q)
  BY DEF BoundInv, SlotInv
<1>4. ASSUME NEW p \in Callers, Call(p)
      PROVE  BoundOf(q)' /\ SlotOf(q)'
  BY <1>1, <1>3, <1>4, OthersKept, StartOwn, CallOwn
<1>5. CASE Administer
  BY <1>1, <1>3, <1>5, AdminOwn
<1>6. ASSUME NEW p \in Procs, TxStep(p)
      PROVE  BoundOf(q)' /\ SlotOf(q)'
  BY <1>1, <1>3, <1>6, TxOwn
<1>7. CASE RunLogger
  <2>1. UNCHANGED <<sources, gDbConn, nsBindings, curTx, ctxTx, pc, ns, kind, match, route, execDB, base,
                    target, inTx, expect>>
    BY <1>7 DEF RunLogger, registry, routing, txs, callVars
  <2>2. /\ BoundDb(q)' = BoundDb(q) /\ Get(match[q])' = Get(match[q])
        /\ MatchBinding(ns[q], nsBindings)' = MatchBinding(ns[q], nsBindings)
    BY <2>1, BoundDbKept
  <2> QED
    BY <1>3, <2>1, <2>2 DEF BoundOf, SlotOf, OnItsWay, Late
<1> QED
  BY <1>4, <1>5, <1>6, <1>7, ConstantsAssumption DEF Next, TxStep

-----------------------------------------------------------------------------
(***************************************************************************)
(* Invariance.                                                             *)
(***************************************************************************)

\* Initialisation numbers the pools without a gap: every opened one is registered.
LEMMA InitRegistry ==
  ASSUME Init
  PROVE  /\ sources \in [Names -> Dbs \union {NoDb}]
         /\ opened \in 1..MaxDb
         /\ \A n \in Names : sources[n] <= opened
         /\ \A m, n \in Names : sources[m] = sources[n] /\ sources[m] # NoDb => m = n
         /\ \A d \in 1..opened : \E n \in Names : sources[n] = d
         /\ replicaNames \in Seq(Names)
<1>1. PICK others \in SUBSET (Names \ {Default}) :
        \E num \in [others \union {Default} -> 1..(Cardinality(others) + 1)] :
          /\ num[Default] = 1
          /\ \A m, n \in DOMAIN num : num[m] = num[n] => m = n
          /\ sources = [n \in Names |-> IF n \in DOMAIN num THEN num[n] ELSE NoDb]
          /\ opened = Cardinality(others) + 1
          /\ replicaNames \in {<<>>} \union {<<n>> : n \in others}
  BY Zenon DEF Init
<1> DEFINE k == Cardinality(others) + 1
<1> DEFINE named == others \union {Default}
<1>2. PICK num \in [named -> 1..k] :
          /\ \A m, n \in DOMAIN num : num[m] = num[n] => m = n
          /\ sources = [n \in Names |-> IF n \in DOMAIN num THEN num[n] ELSE NoDb]
          /\ opened = k
          /\ replicaNames \in {<<>>} \union {<<n>> : n \in others}
  BY <1>1
<1>3. named \in SUBSET Names
  BY ConstantsAssumption
<1>4. IsFiniteSet(others) /\ IsFiniteSet(named) /\ Cardinality(others) \in Nat
  <2>1. IsFiniteSet(named)
    BY <1>3, FS_Subset, ConstantsAssumption
  <2>2. others \in SUBSET named
    OBVIOUS
  <2>3. IsFiniteSet(others)
    BY <2>1, <2>2, FS_Subset
  <2> QED
    BY <2>1, <2>3, FS_CardinalityType
<1>5. Cardinality(named) = k
  <2>1. Default \notin others
    OBVIOUS
  <2> QED
    BY <1>4, <2>1, FS_AddElement
<1>6. k \in Nat \ {0} /\ k <= MaxDb
  <2>1. Cardinality(named) <= Cardinality(Names) /\ Cardinality(Names) \in Nat
    BY <1>3, FS_Subset, FS_CardinalityType, ConstantsAssumption
  <2> QED
    BY <1>4, <1>5, <2>1, ConstantsAssumption
<1>7. num \in Surjection(named, 1..k)
  <2>1. num \in Injection(named, 1..k)
    BY <1>2 DEF Injection, IsInjective
  <2>2. IsFiniteSet(1..k) /\ Cardinality(1..k) = k
    BY <1>6, FS_Interval
  <2> QED
    BY <1>5, <2>1, <2>2, FS_Injection
<1> HIDE DEF k, named
<1>8. /\ opened \in 1..MaxDb
      /\ sources \in [Names -> Dbs \union {NoDb}]
      /\ \A n \in Names : sources[n] <= opened
  <2>1. \A n \in named : num[n] \in 1..k
    BY <1>2
  <2>2. \A n \in Names : sources[n] = IF n \in named THEN num[n] ELSE NoDb
    BY <1>2
  <2>3. \A d \in 1..k : d \in Dbs /\ d <= k
    BY <1>6, ConstantsAssumption DEF Dbs
  <2> QED
    BY <1>2, <1>6, <2>1, <2>2, <2>3, ConstantsAssumption DEF NoDb
<1>9. \A m, n \in Names : sources[m] = sources[n] /\ sources[m] # NoDb => m = n
  BY <1>2 DEF NoDb
<1>10. \A d \in 1..opened : \E n \in Names : sources[n] = d
  BY <1>2, <1>3, <1>7 DEF Surjection
<1>11. replicaNames \in Seq(Names)
  <2>1. \A n \in others : n \in Names
    OBVIOUS
  <2>2. <<>> \in Seq(Names) /\ \A n \in Names : <<n>> \in Seq(Names)
    OBVIOUS
  <2> QED
    BY <1>2, <2>1, <2>2
<1> QED
  BY <1>8, <1>9, <1>10, <1>11

\* The invariant holds initially.
LEMMA InitInv == Init => IInv
<1> SUFFICES ASSUME Init PROVE IInv
  OBVIOUS
<1>1. RegistryType
  <2>1. sources \in [Names -> Dbs \union {NoDb}] /\ opened \in 1..MaxDb
    BY InitRegistry
  <2>2. opened \in 0..MaxDb /\ 1 \in Dbs
    BY <2>1, ConstantsAssumption DEF Dbs
  <2>3. ops \in 0..MaxOps
    BY ConstantsAssumption DEF Init
  <2>4. gDbConn = 1 /\ closed = {} /\ unpinged = {} /\ pool = NoDb
    BY DEF Init
  <2> QED
    BY <2>1, <2>2, <2>3, <2>4 DEF RegistryType
<1>2. RoutingType
  <2>1. nsBindings \in [Patterns -> Names \union {NoName}]
    BY ConstantsAssumption DEF Init
  <2>2. replicaNames \in Seq(Names)
    BY InitRegistry
  <2>3. rwSplitting \in BOOLEAN
    BY DEF Init
  <2>4. replicaRoundRobin \in 0..(RoundRobinSize - 1)
    BY ConstantsAssumption DEF Init
  <2> QED
    BY <2>1, <2>2, <2>3, <2>4 DEF RoutingType
<1>3. TxType
  BY DEF Init, TxType
<1>4. CallType
  BY DEF Init, CallType, PCs, Kinds
<1>5. Stats!TypeOK /\ LoggerInv
  <2>1. Stats!Init
    BY DEF Init
  <2>2. Stats!TypeOK
    <3>1. stopChan = 0 /\ running = FALSE /\ started = 0 /\ closedChans = {}
      BY <2>1 DEF Stats!Init, Stats!NoChan
    <3>2. started \in 0..MaxStarts /\ closedChans \subseteq 1..started
      BY <3>1, ConstantsAssumption
    <3>3. loop \in [Stats!Channels -> {"none", "turn", "select", "ended"}]
      BY <2>1 DEF Stats!Init
    <3>4. waitsOn \in [Stats!Channels -> Stats!Channels \union {Stats!NoChan}]
      BY <2>1 DEF Stats!Init
    <3> QED
      BY <3>1, <3>2, <3>3, <3>4 DEF Stats!TypeOK, Stats!NoChan
  <2>3. LoggerInv
    BY <2>1 DEF Stats!Init, LoggerInv, NoLostLogger, Stats!NoLostLogger, Stats!Channels, Stats!NoChan, NoDb
  <2> QED
    BY <2>2, <2>3
<1>6. RegistryInv
  <2>1. script = <<>> /\ pool = NoDb /\ closed = {} /\ DOMAIN <<>> = {}
    BY DEF Init
  <2>2. ScriptInv
    BY <2>1 DEF ScriptInv, Shape, Named, ResetAfterClose, AddAfterOpen, AddsApart
  <2>3. Numbered
    BY <2>1, InitRegistry DEF Numbered, NoDb
  <2>4. PoolFresh /\ AddsFree
    BY <2>1 DEF PoolFresh, AddsFree
  <2>5. ClosedTogether
    BY <2>1 DEF ClosedTogether, Now
  <2>6. Reachable
    BY InitRegistry DEF Reachable
  <2> QED
    BY <2>2, <2>3, <2>4, <2>5, <2>6 DEF RegistryInv
<1>7. CallInv
  <2>1. ExpectType
    BY DEF Init, ExpectType, Nothing
  <2>2. IdleInv
    BY DEF Init, IdleInv
  <2>3. TextInv
    BY DEF Init, TextInv
  <2>4. BoundInv /\ SlotInv
    BY DEF Init, BoundInv, SlotInv, BoundOf, SlotOf, Nothing
  <2> QED
    BY <2>1, <2>2, <2>3, <2>4 DEF CallInv
<1> QED
  BY <1>1, <1>2, <1>3, <1>4, <1>5, <1>6, <1>7, TypeParts DEF IInv

\* Types in every step.
LEMMA TypeStep ==
  ASSUME IInv, Next
  PROVE  TypeOK' /\ LoggerInv' /\ RoutingType'
<1>1. /\ RegistryType /\ RoutingType /\ TxType /\ CallType /\ Stats!TypeOK
      /\ ScriptInv /\ Numbered /\ LoggerInv /\ IdleInv
  BY TypeParts DEF IInv, RegistryInv, CallInv
<1>2. UNCHANGED <<registry, pool, ops>> => RegistryType'
  BY <1>1 DEF RegistryType, registry
<1>3. UNCHANGED logger => Stats!TypeOK' /\ LoggerInv'
  BY <1>1 DEF logger, Stats!TypeOK, LoggerInv, NoLostLogger, Stats!NoLostLogger
<1>4. UNCHANGED txs => TxType'
  BY <1>1 DEF txs, TxType
<1>5. UNCHANGED <<pc, ns, kind, match, route, execDB, base, target, inTx>> => CallType'
  BY <1>1 DEF CallType
<1>6. ASSUME NEW p \in Callers, Call(p)
      PROVE  TypeOK' /\ LoggerInv' /\ RoutingType'
  <2>1. UNCHANGED <<registry, nsBindings, rwSplitting, replicaNames, admin, txs, logger>>
    BY <1>6, CallFrame
  <2>2. CallType' /\ replicaRoundRobin' \in 0..(RoundRobinSize - 1)
    BY <1>1, <1>6, CallTypeStep
  <2>3. RoutingType'
    BY <1>1, <2>1, <2>2 DEF RoutingType
  <2>4. RegistryType' /\ TxType' /\ Stats!TypeOK' /\ LoggerInv'
    BY <1>2, <1>3, <1>4, <2>1 DEF admin
  <2> QED
    BY <2>2, <2>3, <2>4, TypeParts DEF TypeOK, RegistryType, RoutingType, TxType, CallType
<1>7. ASSUME NEW p \in Procs, TxStep(p)
      PROVE  TypeOK' /\ LoggerInv' /\ RoutingType'
  <2>1. UNCHANGED <<registry, routing, admin, callVars, logger>>
    BY <1>7, TxFrame
  <2>2. RegistryType' /\ RoutingType' /\ CallType' /\ Stats!TypeOK' /\ LoggerInv'
    BY <1>1, <1>2, <1>3, <1>5, <2>1 DEF admin, routing, callVars, RoutingType
  <2>3. TxType'
    BY <1>1, <1>7, TxTypeStep
  <2> QED
    BY <2>2, <2>3 DEF TypeOK, RegistryType, RoutingType, TxType, CallType
<1>8. CASE Administer
  <2>1. RegistryType' /\ RoutingType'
    BY <1>1, <1>8, RegistryTypeStep, RoutingTypeStep
  <2>2. TxType' /\ CallType'
    BY <1>4, <1>5, <1>8, AdminFrame
  <2>3. Stats!TypeOK' /\ LoggerInv'
    BY <1>1, <1>3, <1>8, LoggerFrame, LoggerSwitch
  <2> QED
    BY <2>1, <2>2, <2>3 DEF TypeOK, RegistryType, RoutingType, TxType, CallType
<1>9. CASE RunLogger
  <2>1. RegistryType' /\ RoutingType' /\ TxType' /\ CallType'
    BY <1>1, <1>2, <1>4, <1>5, <1>9 DEF RunLogger, admin, routing, callVars, RoutingType
  <2>2. Stats!TypeOK' /\ LoggerInv'
    BY <1>1, <1>9, LoggerRun DEF RunLogger
  <2> QED
    BY <2>1, <2>2 DEF TypeOK, RegistryType, RoutingType, TxType, CallType
<1> QED
  BY <1>6, <1>7, <1>8, <1>9, ConstantsAssumption DEF Next, TxStep

\* Every step keeps the invariant.
LEMMA NextInv == IInv /\ [Next]_vars => IInv'
<1> SUFFICES ASSUME IInv, [Next]_vars PROVE IInv'
  OBVIOUS
<1>1. CASE Next
  <2>1. TypeOK' /\ LoggerInv' /\ RoutingType'
    BY <1>1, TypeStep
  <2>2. RegistryType /\ RoutingType /\ TxType /\ CallType
    BY TypeParts DEF IInv
  <2>3. RegistryInv'
    <3>1. UNCHANGED <<registry, admin>> => RegistryInv'
      BY RegistryKept DEF IInv
    <3>2. Administer => RegistryInv'
      BY <2>2, RegistryStep DEF IInv
    <3>3. ASSUME NEW p \in Callers, Call(p)
          PROVE  RegistryInv'
      BY <3>1, <3>3, CallFrame
    <3>4. ASSUME NEW p \in Procs, TxStep(p)
          PROVE  RegistryInv'
      BY <3>1, <3>4, TxFrame
    <3>5. RunLogger => RegistryInv'
      BY <3>1 DEF RunLogger
    <3> QED
      BY <1>1, <3>2, <3>3, <3>4, <3>5, ConstantsAssumption DEF Next, TxStep
  <2>4. CallInv'
    BY <1>1, <2>1, <2>2, ExpectTypeStep, IdleStep, TextStep, OwnStep DEF IInv, CallInv, RegistryInv
  <2> QED
    BY <2>1, <2>3, <2>4 DEF IInv
<1>2. CASE UNCHANGED vars
  <2>1. UNCHANGED <<registry, routing, admin, txs, callVars, logger>>
    BY <1>2 DEF vars
  <2>2. TypeOK'
    <3>1. RegistryType' /\ RoutingType' /\ TxType'
      BY <2>1, TypeParts DEF IInv, RegistryType, RoutingType, TxType, registry, routing, admin, txs
    <3>2. CallType'
      BY <2>1, TypeParts DEF IInv, CallType, callVars
    <3>3. Stats!TypeOK'
      BY <2>1, TypeParts DEF IInv, Stats!TypeOK, logger
    <3> QED
      BY <3>1, <3>2, <3>3 DEF TypeOK, RegistryType, RoutingType, TxType, CallType
  <2>3. RegistryInv'
    BY <2>1, RegistryKept DEF IInv
  <2>4. LoggerInv'
    BY <2>1 DEF logger, IInv, LoggerInv, NoLostLogger, Stats!NoLostLogger
  <2>5. CallInv'
    <3>1. ExpectType' /\ IdleInv' /\ TextInv'
      BY <2>1 DEF IInv, CallInv, callVars, txs, ExpectType, IdleInv, TextInv, Late
    <3>2. BoundInv' /\ SlotInv'
      <4> SUFFICES ASSUME NEW q \in Procs
                   PROVE  BoundOf(q)' /\ SlotOf(q)'
        BY DEF BoundInv, SlotInv
      <4>1. BoundOf(q) /\ SlotOf(q)
        BY DEF IInv, CallInv, BoundInv, SlotInv
      <4>2. /\ BoundDb(q)' = BoundDb(q) /\ Get(match[q])' = Get(match[q])
            /\ MatchBinding(ns[q], nsBindings)' = MatchBinding(ns[q], nsBindings)
        BY <2>1, BoundDbKept DEF registry, routing, callVars
      <4> QED
        BY <2>1, <4>1, <4>2 DEF BoundOf, SlotOf, OnItsWay, Late, registry, routing, txs, callVars
    <3> QED
      BY <3>1, <3>2 DEF CallInv
  <2> QED
    BY <2>2, <2>3, <2>4, <2>5 DEF IInv
<1> QED
  BY <1>1, <1>2

\* The inductive invariant holds in every state.
LEMMA Invariance == Spec => []IInv
BY InitInv, NextInv, PTL DEF Spec

-----------------------------------------------------------------------------
(***************************************************************************)
(* The theorems.                                                           *)
(***************************************************************************)

\* Type correctness of the registry, the routing, the calls and the logger.
THEOREM TypeCorrect == Spec => []TypeOK
<1>1. IInv => TypeOK
  BY DEF IInv
<1> QED
  BY <1>1, Invariance, PTL

\* A call of a bound namespace runs on the bound data source, whatever
\* UseDataSource, read/write splitting and the administration of other sources do
\* meanwhile.
THEOREM BindingProtects == Spec => []BoundCallsStay
<1>1. IInv => BoundCallsStay
  BY DEF IInv, CallInv, BoundInv, BoundOf, OnItsWay, BoundCallsStay
<1> QED
  BY <1>1, Invariance, PTL

\* The goroutine that began a TCC transaction on the active source runs its
\* statements in it.
THEOREM TransactionUsed == Spec => []OwnTransactionUsed
<1>1. IInv => OwnTransactionUsed
  BY DEF IInv, CallInv, SlotInv, SlotOf, OnItsWay, OwnTransactionUsed
<1> QED
  BY <1>1, Invariance, PTL

\* A mapper call in a WithTx is written for the data source that executes it.
THEOREM TextFits == Spec => []TextMatchesConnection
<1>1. IInv => TextMatchesConnection
  BY DEF IInv, CallInv, TextInv, TextMatchesConnection, Ran, Connection
<1> QED
  BY <1>1, Invariance, PTL

\* Between operations every pool opened and not closed is registered, a failed Ping
\* apart: Close and the next initialisation can close it.
THEOREM NoPoolLost == Spec => []PoolsReachable
<1>1. IInv => PoolsReachable
  BY DEF IInv, RegistryInv, Reachable, Owed, PoolsReachable
<1> QED
  BY <1>1, Invariance, PTL

\* Outside of an initialisation or Close the registry hands out open pools only.
THEOREM RegistryOpen == Spec => []RegisteredOpen
<1>1. IInv => RegisteredOpen
  <2> SUFFICES ASSUME IInv, \A i \in DOMAIN script : script[i].do # "reset"
               PROVE  \A n \in Names : sources[n] \notin closed
    BY DEF RegisteredOpen
  <2>1. ~Now("reset")
    BY HeadType DEF Now, IInv, RegistryInv
  <2> QED
    BY <2>1 DEF IInv, RegistryInv, ClosedTogether
<1> QED
  BY <1>1, Invariance, PTL

\* Restarting strands no logger of pool statistics and closes no channel twice.
THEOREM LoggersStop == Spec => []NoLostLogger
<1>1. IInv => NoLostLogger
  BY DEF IInv, LoggerInv
<1> QED
  BY <1>1, Invariance, PTL
=============================================================================
