----------------------------- MODULE Query_proofs -----------------------------
(***************************************************************************)
(* The caches of the schema, for any number of goroutines, connections,    *)
(* changes and calls: single flight, connections given back, known sets    *)
(* kept, and that every look-up is one of FreshLookup.                     *)
(***************************************************************************)
EXTENDS Query, TLAPS

-----------------------------------------------------------------------------
(***************************************************************************)
(* The inductive invariant.                                                *)
(***************************************************************************)

\* With a cache object in hand.
Looking(p) == pc[p] \in {"peek", "lock", "fetch", "singles"}
\* With a version that is not in the object yet.
Fetched(p) == pc[p] = "singles" \/ (pc[p] = "fetch" /\ "fetch" \in conns[p])

Lists == {DdlSteps, <<"structures", "names">>, <<"names">>, <<>>}

LocalTypes ==
  /\ read \in [Procs -> Versions \union {NoVersion}]
  /\ mine \in [Procs -> Versions]
  /\ low \in [Procs -> Versions \union {NoVersion}]
  /\ todo \in [Procs -> Lists]
  /\ failed \in BOOLEAN

\* What the locals of a goroutine hold where.
CallInv == \A p \in Procs :
  /\ Looking(p) => cur[p] \in 1..made /\ low[p] \in Versions
  /\ ~Looking(p) => cur[p] = NoObj /\ low[p] = NoVersion
  /\ Fetched(p) => read[p] \in Versions
  /\ mine[p] # 0 => pc[p] = "finish"

\* A connection is held for a fetch only while it runs, for a call only while
\* its rows are open.
ConnInv == \A p \in Procs :
  /\ "fetch" \in conns[p] => pc[p] \in {"fetch", "singles"}
  /\ "call" \in conns[p] => \/ pc[p] \in {"types", "read"}
                            \/ (Looking(p) \/ pc[p] = "load") /\ key[p] = "structures"

\* What DDL has left to do.
TodoInv == \A p \in Procs :
  /\ kind[p] = "query" => todo[p] = <<>> /\ pc[p] # "finish"
  /\ kind[p] = "ddl" =>
       /\ pc[p] \notin {"idle", "types", "read"} /\ key[p] = "names"
       /\ pc[p] \notin {"finish", "return"} => todo[p] = DdlSteps
       /\ pc[p] = "finish" => todo[p] \in {<<"structures", "names">>, <<"names">>, <<>>}
       /\ pc[p] = "return" => todo[p] = <<>>

\* Who fetches holds the lock of its object, and nobody else does.
LockInv ==
  /\ \A p \in Procs : pc[p] \in {"fetch", "singles"} => lock[cur[p]] = p /\ ~Usable(cur[p])
  /\ \A o \in Objs : lock[o] # NoProc => pc[lock[o]] \in {"fetch", "singles"} /\ cur[lock[o]] = o

ObjInv ==
  /\ \A k \in Keys : store[k] \in 0..made
  /\ \A o \in Objs :
       /\ o > made => obj[o] = Unfetched
       /\ obj[o].done <=> obj[o].tables # NoVersion
       /\ obj[o].tables = Empty => failed

\* No version is ahead of the database; one that is fetched is not older than the one it
\* replaces.
OrderInv ==
  /\ announced <= schema
  /\ \A p \in Procs : mine[p] <= schema /\ (Looking(p) => low[p] <= announced)
  /\ \A o \in Objs : obj[o].tables \in Versions => obj[o].tables <= schema
  /\ \A p \in Procs : Fetched(p) =>
       /\ read[p] <= schema
       /\ obj[cur[p]].tables \in Versions => obj[cur[p]].tables <= read[p]

\* Every version an object has, or is about to get, is at least v.
AtLeast(o, v) ==
  /\ obj[o].tables \in Versions => v <= obj[o].tables
  /\ \A q \in Procs : Fetched(q) /\ cur[q] = o => v <= read[q]

\* An object in the store shows what was announced, and what a DDL statement
\* has changed that has already emptied this place of the store.
StoreInv == \A k \in Keys : store[k] # NoObj =>
  /\ AtLeast(store[k], announced)
  /\ \A p \in Procs : pc[p] = "finish" /\ (k = "names" => todo[p] = <<>>)
                      /\ (k = "structures" => todo[p] # <<"structures", "names">>)
                      => AtLeast(store[k], mine[p])

\* An object in hand shows what was announced when it was looked for.
HandInv == \A p \in Procs : Looking(p) => AtLeast(cur[p], low[p])

\* The inductive invariant.
IInv == /\ TypeOK /\ LocalTypes /\ CallInv /\ ConnInv /\ TodoInv
        /\ LockInv /\ ObjInv /\ OrderInv /\ StoreInv /\ HandInv

\* What an object may hold.
Objects == [tables : Versions \union {NoVersion, Empty}, done : BOOLEAN, stale : BOOLEAN]

-----------------------------------------------------------------------------
(***************************************************************************)
(* Lemmas on data, and on what steps leave as it is.                       *)
(***************************************************************************)

\* The lists of what DDL has left to do, their heads and their tails.
LEMMA ListFacts ==
  /\ \A l \in Lists : l \in Seq(Keys \union {"exec"})
  /\ Head(DdlSteps) = "exec" /\ Tail(DdlSteps) = <<"structures", "names">>
  /\ Head(<<"structures", "names">>) = "structures" /\ Tail(<<"structures", "names">>) = <<"names">>
  /\ Head(<<"names">>) = "names" /\ Tail(<<"names">>) = <<>>
  BY DEF Lists, Keys, DdlSteps

\* No two of those a step tells apart are equal.
LEMMA ListsDiffer ==
  /\ DdlSteps # <<>> /\ <<"structures", "names">> # <<>> /\ <<"names">> # <<>>
  /\ <<"structures", "names">> # <<"names">> /\ DdlSteps # <<"structures", "names">> /\ DdlSteps # <<"names">>
  BY DEF DdlSteps

\* An object that goes stale keeps its tables.
LEMMA StaleObject ==
  \A r \in Objects :
    /\ [r EXCEPT !.stale = TRUE] \in Objects /\ [r EXCEPT !.stale = TRUE].stale
    /\ [r EXCEPT !.stale = TRUE].tables = r.tables /\ [r EXCEPT !.stale = TRUE].done = r.done
  BY DEF Objects

\* With the objects as they are and no new fetch, what an object has is as it was.
LEMMA KeepAtLeast ==
  ASSUME obj' = obj,
         \A q \in Procs : Fetched(q)' => Fetched(q) /\ cur'[q] = cur[q] /\ read'[q] = read[q]
  PROVE  \A o \in Objs, v \in Versions : AtLeast(o, v) => AtLeast(o, v)'
  BY DEF AtLeast

\* Objects in hand that stay there keep what they show.
LEMMA KeepHand ==
  ASSUME TypeOK, CallInv, HandInv,
         \A o \in Objs, v \in Versions : AtLeast(o, v) => AtLeast(o, v)',
         \A q \in Procs : Looking(q)' => Looking(q) /\ cur'[q] = cur[q] /\ low'[q] = low[q]
  PROVE  HandInv'
  <1>1. \A q \in Procs : Looking(q) => cur[q] \in Objs /\ low[q] \in Versions
    BY ConstantsAssumption DEF CallInv, TypeOK, Objs
  <1> QED
    BY <1>1 DEF HandInv

\* So do objects that stay in the store.
LEMMA KeepStore ==
  ASSUME TypeOK, LocalTypes, StoreInv,
         \A o \in Objs, v \in Versions : AtLeast(o, v) => AtLeast(o, v)',
         \A k \in Keys : store'[k] \in {store[k], NoObj},
         announced' = announced,
         \A q \in Procs, k \in Keys :
           store'[k] # NoObj /\ pc'[q] = "finish" /\ (k = "names" => todo'[q] = <<>>)
             /\ (k = "structures" => todo'[q] # <<"structures", "names">>) =>
           mine'[q] = mine[q] /\ pc[q] = "finish" /\ (k = "names" => todo[q] = <<>>)
             /\ (k = "structures" => todo[q] # <<"structures", "names">>)
  PROVE  StoreInv'
  <1>1. announced \in Versions /\ \A q \in Procs : mine[q] \in Versions
    BY DEF TypeOK, LocalTypes
  <1>2. \A k \in Keys : store'[k] # NoObj => store'[k] = store[k] /\ store[k] \in Objs
    BY DEF TypeOK
  <1> QED
    BY <1>1, <1>2 DEF StoreInv

-----------------------------------------------------------------------------
(***************************************************************************)
(* The invariant holds initially.                                          *)
(***************************************************************************)

\* The invariant holds initially.
LEMMA InitIInv == ASSUME Init PROVE IInv
<1>1. TypeOK
  BY ConstantsAssumption
  DEF TypeOK, Init, Versions, NoVersion, Empty, Unfetched, Objs, NoObj, Keys, Kinds, PCs
<1>2. LocalTypes
  <2>1. todo \in [Procs -> Lists]
    BY DEF Init, Lists
  <2>2. failed \in BOOLEAN
    BY DEF Init
  <2>3. /\ read \in [Procs -> Versions \union {NoVersion}]
        /\ mine \in [Procs -> Versions]
        /\ low \in [Procs -> Versions \union {NoVersion}]
    BY ConstantsAssumption DEF Init, Versions, NoVersion
  <2> QED
    BY <2>1, <2>2, <2>3 DEF LocalTypes
<1>3. CallInv
  BY ConstantsAssumption DEF CallInv, Init, Looking, Fetched
<1>4. ConnInv
  BY ConstantsAssumption DEF ConnInv, Init
<1>5. TodoInv
  BY ConstantsAssumption DEF TodoInv, Init
<1>6. LockInv
  BY ConstantsAssumption DEF LockInv, Init
<1>7. ObjInv
  BY ConstantsAssumption DEF ObjInv, Init, Unfetched, NoVersion, Empty, NoObj
<1>8. OrderInv
  BY ConstantsAssumption DEF OrderInv, Init, Looking, Fetched, Unfetched, Versions, NoVersion
<1>9. StoreInv
  BY ConstantsAssumption DEF StoreInv, Init
<1>10. HandInv
  BY ConstantsAssumption DEF HandInv, Init, Looking
<1> QED
  BY <1>1, <1>2, <1>3, <1>4, <1>5, <1>6, <1>7, <1>8, <1>9, <1>10 DEF IInv

-----------------------------------------------------------------------------
(***************************************************************************)
(* Every step preserves it.                                                *)
(***************************************************************************)

\* A look-up takes the object of the store, or a new one, which no goroutine fetches for.
LEMMA LoadStep ==
  ASSUME IInv, NEW p \in Procs, Load(p)
  PROVE  IInv'
<1>0. TypeOK /\ LocalTypes /\ CallInv /\ ConnInv /\ TodoInv /\ LockInv /\ ObjInv /\ OrderInv /\ StoreInv /\ HandInv
  BY DEF IInv
<1>a. /\ pc[p] = "load" /\ pc' = [pc EXCEPT ![p] = "peek"]
      /\ cur'[p] \in 1..made' /\ cur'[p] \in Objs
      /\ cur' = [cur EXCEPT ![p] = cur'[p]]
      /\ low' = [low EXCEPT ![p] = announced]
      /\ made' \in 0..MaxObjs /\ made <= made' /\ made \in 0..MaxObjs
      /\ store[key[p]] # NoObj => made' = made /\ store' = store /\ cur'[p] = store[key[p]]
      /\ store[key[p]] = NoObj =>
           /\ made' = made + 1 /\ store' = [store EXCEPT ![key[p]] = made + 1]
           /\ cur'[p] = made + 1
      /\ key[p] \in Keys
  <2>1. CASE store[key[p]] # NoObj
    BY <1>0, <2>1, ConstantsAssumption DEF Load, Goto, TypeOK, ObjInv, Objs, NoObj
  <2>2. CASE store[key[p]] = NoObj
    BY <1>0, <2>2, ConstantsAssumption DEF Load, Goto, TypeOK, Objs, NoObj
  <2> QED
    BY <2>1, <2>2
<1>b. UNCHANGED <<database, obj, lock, expiries, kind, key, read, todo, mine, expired, count, announced, failed>>
  BY DEF Load
<1>c. \A q \in Procs : Fetched(q)' => Fetched(q) /\ q # p /\ cur'[q] = cur[q] /\ read'[q] = read[q]
  BY <1>0, <1>a, <1>b DEF Fetched, TypeOK, database
<1>d. \A o \in Objs, v \in Versions : AtLeast(o, v) => AtLeast(o, v)'
  BY <1>b, <1>c DEF AtLeast
<1>e. store[key[p]] = NoObj => \A v \in Versions : AtLeast(cur[p], v)'
  <2> SUFFICES ASSUME store[key[p]] = NoObj PROVE \A v \in Versions : AtLeast(cur[p], v)'
    OBVIOUS
  <2>1. cur'[p] = made + 1 /\ obj'[cur'[p]].tables \notin Versions
    BY <1>0, <1>a, <1>b, ConstantsAssumption DEF ObjInv, Unfetched, Versions, NoVersion
  <2>2. \A q \in Procs : Fetched(q) => cur[q] \in 1..made
    BY <1>0 DEF CallInv, Looking, Fetched
  <2>3. \A q \in Procs : ~(Fetched(q)' /\ cur'[q] = cur'[p])
    BY <1>a, <1>c, <2>1, <2>2
  <2> QED
    BY <2>1, <2>3 DEF AtLeast
<1>1. LocalTypes'
  BY <1>0, ListFacts
  DEF Load, Goto, LocalTypes, TypeOK, Lists, DdlSteps, Versions, NoVersion, database
<1>2. ConnInv' /\ TodoInv'
  BY <1>0 DEF Load, Goto, ConnInv, Looking, database, TodoInv
<1>3. TypeOK'
  <2>1. store' \in [Keys -> Objs \union {NoObj}] /\ cur' \in [Procs -> Objs \union {NoObj}]
    BY <1>0, <1>a DEF TypeOK
  <2>2. pc' \in [Procs -> PCs]
    BY <1>0, <1>a DEF TypeOK, PCs
  <2> QED
    BY <1>0, <1>a, <1>b, <2>1, <2>2 DEF TypeOK, database
<1>4. CallInv'
  BY <1>0, <1>a, <1>b, <1>c DEF CallInv, TypeOK, LocalTypes, Looking, Objs, NoObj, database
<1>5. LockInv'
  BY <1>0, ConstantsAssumption
  DEF Load, Goto, TypeOK, LockInv, CallInv, ObjInv, Usable, Looking, Objs, database
<1>6. ObjInv'
  BY <1>0, <1>a, <1>b, ConstantsAssumption DEF ObjInv, TypeOK, Objs, NoObj
<1>7. OrderInv'
  BY <1>0, <1>a, <1>b, <1>c, ConstantsAssumption
  DEF OrderInv, TypeOK, LocalTypes, Looking, Versions, database
<1>8. StoreInv'
  <2>1. store' \in [Keys -> Objs \union {NoObj}]
    BY <1>3 DEF TypeOK
  <2>2. announced \in Versions /\ \A q \in Procs : mine[q] \in Versions
    BY <1>0 DEF TypeOK, LocalTypes
  <2>3. \A q \in Procs : pc'[q] = "finish" => pc[q] = "finish"
    BY <1>0, <1>a DEF TypeOK
  <2> QED
    BY <1>0, <1>a, <1>b, <1>d, <1>e, <2>1, <2>2, <2>3 DEF StoreInv, TypeOK
<1>9. HandInv'
  <2>0. low'[p] = announced /\ announced \in Versions /\ announced' = announced
    BY <1>0, <1>a, <1>b DEF LocalTypes, TypeOK
  <2>1. AtLeast(cur[p], announced)'
    BY <1>0, <1>a, <1>b, <1>d, <1>e DEF StoreInv, TypeOK
  <2>2. \A q \in Procs : q # p /\ Looking(q)' => Looking(q) /\ cur'[q] = cur[q] /\ low'[q] = low[q]
    BY <1>0, <1>a DEF Looking, TypeOK, LocalTypes
  <2>3. \A q \in Procs : Looking(q) => cur[q] \in Objs /\ low[q] \in Versions
    BY <1>0, ConstantsAssumption DEF CallInv, TypeOK, Objs
  <2> QED
    BY <1>0, <1>d, <2>0, <2>1, <2>2, <2>3 DEF HandInv
<1> QED
  BY <1>1, <1>2, <1>3, <1>4, <1>5, <1>6, <1>7, <1>8, <1>9 DEF IInv

\* The look under RLock.
LEMMA PeekStep ==
  ASSUME IInv, NEW p \in Procs, Peek(p)
  PROVE  IInv'
<1>0. TypeOK /\ LocalTypes /\ CallInv /\ ConnInv /\ TodoInv /\ LockInv /\ ObjInv /\ OrderInv /\ StoreInv /\ HandInv
  BY DEF IInv
<1>c. \A q \in Procs : Fetched(q)' => Fetched(q) /\ cur'[q] = cur[q] /\ read'[q] = read[q]
  BY <1>0 DEF Peek, Goto, Answer, Fetched, TypeOK, LocalTypes, ConnInv, database, caches, callVars
<1>d. \A o \in Objs, v \in Versions : AtLeast(o, v) => AtLeast(o, v)'
  BY <1>c, KeepAtLeast DEF Peek, Goto, Answer, caches
<1>a. /\ cur' = cur /\ low' = low /\ pc' = [pc EXCEPT ![p] = "lock"]
      \/ /\ cur' = [cur EXCEPT ![p] = NoObj] /\ low' = [low EXCEPT ![p] = NoVersion]
         /\ pc' = [pc EXCEPT ![p] = IF key[p] = "structures" THEN "read" ELSE "acquire"]
  BY DEF Peek, Answer, Goto
<1>b. pc[p] = "peek" /\ kind[p] \in Kinds /\ UNCHANGED <<database, caches, kind, key, read, todo, mine, expired, count, announced, failed>>
  BY <1>0 DEF Peek, TypeOK
<1>1. LocalTypes' /\ ObjInv'
  BY <1>0 DEF Peek, Goto, Answer, LocalTypes, database, caches, ObjInv, Looking, Fetched
<1>2. TypeOK'
  BY <1>0, <1>1, ListFacts
  DEF Peek, Goto, Answer, TypeOK, Looking, Kinds, PCs, Versions, NoVersion, Empty, Objs, NoObj,
     Keys, database, caches
<1>3. CallInv'
  <2>1. \A q \in Procs : q # p => (Looking(q)' <=> Looking(q)) /\ cur'[q] = cur[q] /\ low'[q] = low[q]
    BY <1>0, <1>a DEF Looking, TypeOK, LocalTypes
  <2>2. \/ Looking(p)' /\ Looking(p) /\ cur'[p] = cur[p] /\ low'[p] = low[p]
        \/ ~Looking(p)' /\ cur'[p] = NoObj /\ low'[p] = NoVersion
    BY <1>0, <1>a, <1>b DEF Looking, TypeOK, LocalTypes
  <2>3. \A q \in Procs : pc[q] = "finish" => pc'[q] = "finish"
    BY <1>0, <1>a, <1>b DEF TypeOK
  <2> QED
    BY <1>0, <1>b, <1>c, <2>1, <2>2, <2>3 DEF CallInv, caches
<1>4. ConnInv'
  BY <1>0 DEF Peek, Goto, Answer, ConnInv, TypeOK, Looking, database, caches
<1>5. TodoInv'
  BY <1>0, ListFacts, ListsDiffer
  DEF Peek, Goto, Answer, TodoInv, TypeOK, Kinds, Lists, database, caches
<1>6. LockInv'
  <2>1. /\ pc'[p] \notin {"fetch", "singles"} /\ pc[p] \notin {"fetch", "singles"}
        /\ \A q \in Procs : q # p => pc'[q] = pc[q] /\ cur'[q] = cur[q]
    BY <1>0, <1>a, <1>b DEF TypeOK
  <2>2. \A o \in Objs : lock[o] \in Procs \union {NoProc}
    BY <1>0 DEF TypeOK
  <2> QED
    BY <1>0, <1>b, <2>1, <2>2 DEF LockInv, Usable, caches
<1>7. OrderInv'
  <2>1. \A q \in Procs : Looking(q)' => Looking(q) /\ low'[q] = low[q]
    BY <1>0, <1>a, <1>b DEF Looking, TypeOK, LocalTypes
  <2> QED
    BY <1>0, <1>b, <1>c, <2>1 DEF OrderInv, caches, database
<1>8. StoreInv'
  <2>1. /\ store' = store /\ announced' = announced
        /\ \A q \in Procs : pc'[q] = "finish" => pc[q] = "finish" /\ mine'[q] = mine[q] /\ todo'[q] = todo[q]
    BY <1>0 DEF Peek, Goto, Answer, TypeOK, LocalTypes, caches, callVars, history
  <2> QED
    BY <1>0, <1>d, <2>1, KeepStore
<1>9. HandInv'
  <2>1. \A q \in Procs : Looking(q)' => Looking(q) /\ cur'[q] = cur[q] /\ low'[q] = low[q]
    BY <1>0 DEF Peek, Goto, Answer, Looking, TypeOK, LocalTypes, callVars, history
  <2> QED
    BY <1>0, <1>d, <2>1, KeepHand
<1> QED
  BY <1>1, <1>2, <1>3, <1>4, <1>5, <1>6, <1>7, <1>8, <1>9 DEF IInv

\* The second look with the lock held.
LEMMA LockStep ==
  ASSUME IInv, NEW p \in Procs, Lock(p)
  PROVE  IInv'
<1>0. TypeOK /\ LocalTypes /\ CallInv /\ ConnInv /\ TodoInv /\ LockInv /\ ObjInv /\ OrderInv /\ StoreInv /\ HandInv
  BY DEF IInv
<1>c. \A q \in Procs : Fetched(q)' => Fetched(q) /\ cur'[q] = cur[q] /\ read'[q] = read[q]
  BY <1>0 DEF Lock, Goto, Answer, Fetched, TypeOK, LocalTypes, ConnInv, database, caches, callVars
<1>d. \A o \in Objs, v \in Versions : AtLeast(o, v) => AtLeast(o, v)'
  BY <1>c, KeepAtLeast DEF Lock, Goto, Answer, caches
<1>a. \/ /\ cur' = cur /\ low' = low /\ pc' = [pc EXCEPT ![p] = "fetch"]
         /\ ~Usable(cur[p]) /\ lock' = [lock EXCEPT ![cur[p]] = p]
      \/ /\ cur' = [cur EXCEPT ![p] = NoObj] /\ low' = [low EXCEPT ![p] = NoVersion]
         /\ pc' = [pc EXCEPT ![p] = IF key[p] = "structures" THEN "read" ELSE "acquire"]
         /\ lock' = lock
  BY DEF Lock, Answer, Goto
<1>b. /\ pc[p] = "lock" /\ kind[p] \in Kinds /\ lock[cur[p]] = NoProc
      /\ UNCHANGED <<database, store, obj, made, expiries, kind, key, read, todo, mine, expired, count, announced, failed>>
  BY <1>0 DEF Lock, TypeOK
<1>e. /\ cur[p] \in Objs /\ p # NoProc
      /\ \A q \in Procs : q # p => pc'[q] = pc[q] /\ cur'[q] = cur[q] /\ low'[q] = low[q]
      /\ pc'[p] \in {"fetch", "read", "acquire"}
  BY <1>0, <1>a, <1>b, ConstantsAssumption DEF CallInv, TypeOK, LocalTypes, Looking, Objs
<1>1. LocalTypes' /\ ObjInv'
  BY <1>0 DEF Lock, Goto, Answer, LocalTypes, database, ObjInv, Looking, Fetched
<1>2. TypeOK'
  <2>1. pc' \in [Procs -> PCs]
    BY <1>0, <1>a DEF TypeOK, PCs
  <2>2. cur' \in [Procs -> Objs \union {NoObj}]
    BY <1>0, <1>a DEF TypeOK
  <2>3. lock' \in [Objs -> Procs \union {NoProc}]
    BY <1>0, <1>a, <1>e DEF TypeOK
  <2> QED
    BY <1>0, <1>b, <2>1, <2>2, <2>3 DEF TypeOK, database
<1>3. CallInv'
  <2>1. \A q \in Procs : q # p => (Looking(q)' <=> Looking(q))
    BY <1>e DEF Looking
  <2>2. \/ Looking(p)' /\ Looking(p) /\ cur'[p] = cur[p] /\ low'[p] = low[p]
        \/ ~Looking(p)' /\ cur'[p] = NoObj /\ low'[p] = NoVersion
    BY <1>0, <1>a, <1>b DEF Looking, TypeOK, LocalTypes
  <2>3. \A q \in Procs : pc[q] = "finish" => pc'[q] = "finish"
    BY <1>0, <1>b, <1>e DEF TypeOK
  <2> QED
    BY <1>0, <1>b, <1>c, <1>e, <2>1, <2>2, <2>3 DEF CallInv
<1>4. ConnInv'
  BY <1>0 DEF Lock, Goto, Answer, ConnInv, TypeOK, Looking, database
<1>5. TodoInv'
  BY <1>0, ListFacts, ListsDiffer DEF Lock, Goto, Answer, TodoInv, TypeOK, Kinds, Lists, database
<1>6. LockInv'
  <2>1. CASE lock' = lock /\ pc'[p] # "fetch"
    <3>1. \A o \in Objs : lock[o] # p
      BY <1>0, <1>b, <1>e DEF LockInv
    <3> QED
      BY <1>0, <1>b, <1>e, <2>1, <3>1 DEF LockInv, Usable, TypeOK
  <2>2. CASE cur' = cur /\ pc'[p] = "fetch" /\ ~Usable(cur[p]) /\ lock' = [lock EXCEPT ![cur[p]] = p]
    <3>1. /\ lock \in [Objs -> Procs \union {NoProc}] /\ obj' = obj
          /\ \A q \in Procs : pc[q] \in {"fetch", "singles"} => cur[q] \in Objs
      BY <1>0, <1>b, ConstantsAssumption DEF TypeOK, CallInv, Looking, Objs
    <3>2. \A q \in Procs : pc'[q] \in {"fetch", "singles"} => lock'[cur'[q]] = q /\ ~Usable(cur[q])'
      BY <1>0, <1>b, <1>e, <2>2, <3>1, ConstantsAssumption DEF LockInv, Usable
    <3>3. \A o \in Objs : lock'[o] # NoProc => pc'[lock'[o]] \in {"fetch", "singles"} /\ cur'[lock'[o]] = o
      BY <1>0, <1>b, <1>e, <2>2, <3>1 DEF LockInv
    <3> QED
      BY <3>2, <3>3 DEF LockInv
  <2> QED
    BY <1>0, <1>a, <2>1, <2>2 DEF TypeOK
<1>7. OrderInv'
  <2>1. \A q \in Procs : Looking(q)' => Looking(q) /\ low'[q] = low[q]
    BY <1>0, <1>a, <1>b, <1>e DEF Looking, TypeOK, LocalTypes
  <2> QED
    BY <1>0, <1>b, <1>c, <2>1 DEF OrderInv, database
<1>8. StoreInv'
  <2>1. /\ store' = store /\ announced' = announced
        /\ \A q \in Procs : pc'[q] = "finish" => pc[q] = "finish" /\ mine'[q] = mine[q] /\ todo'[q] = todo[q]
    BY <1>0 DEF Lock, Goto, Answer, TypeOK, LocalTypes, caches, callVars, history
  <2> QED
    BY <1>0, <1>d, <2>1, KeepStore
<1>9. HandInv'
  <2>1. \A q \in Procs : Looking(q)' => Looking(q) /\ cur'[q] = cur[q] /\ low'[q] = low[q]
    BY <1>0 DEF Lock, Goto, Answer, Looking, TypeOK, LocalTypes, callVars, history
  <2> QED
    BY <1>0, <1>d, <2>1, KeepHand
<1> QED
  BY <1>1, <1>2, <1>3, <1>4, <1>5, <1>6, <1>7, <1>8, <1>9 DEF IInv

\* A call begins.
LEMMA CallStep ==
  ASSUME IInv, NEW p \in Procs, Call(p)
  PROVE  IInv'
<1>0. TypeOK /\ LocalTypes /\ CallInv /\ ConnInv /\ TodoInv /\ LockInv /\ ObjInv /\ OrderInv /\ StoreInv /\ HandInv
  BY DEF IInv
<1>c. \A q \in Procs : Fetched(q)' => Fetched(q) /\ cur'[q] = cur[q] /\ read'[q] = read[q]
  BY <1>0 DEF Call, Goto, Fetched, TypeOK, LocalTypes, ConnInv, database, caches, callVars
<1>d. \A o \in Objs, v \in Versions : AtLeast(o, v) => AtLeast(o, v)'
  BY <1>c, KeepAtLeast DEF Call, Goto, caches
<1>1. LocalTypes'
  BY <1>0, ListFacts
  DEF Call, Goto, LocalTypes, TypeOK, Lists, DdlSteps, Versions, NoVersion, database, caches,
     history
<1>2. CallInv' /\ ConnInv' /\ LockInv' /\ ObjInv' /\ OrderInv'
  BY <1>0 DEF Call, Goto, CallInv, Looking, Fetched, database, caches, history, ConnInv, LockInv,
     Usable, ObjInv, OrderInv
<1>3. TypeOK'
  BY <1>0, <1>1, ListFacts
  DEF Call, Goto, TypeOK, LocalTypes, CallInv, Looking, Kinds, PCs, Versions, NoVersion, Empty,
     Objs, NoObj, Keys, database, caches, history
<1>4. TodoInv'
  <2>1. /\ kind'[p] \in Kinds /\ todo'[p] = (IF kind'[p] = "ddl" THEN DdlSteps ELSE <<>>)
        /\ pc'[p] = "load" /\ key'[p] = "names"
        /\ \A q \in Procs : q # p => kind'[q] = kind[q] /\ todo'[q] = todo[q] /\ pc'[q] = pc[q] /\ key'[q] = key[q]
    BY <1>0 DEF Call, Goto, TypeOK, LocalTypes, Kinds
  <2> QED
    BY <1>0, <2>1 DEF TodoInv, Kinds
<1>5. StoreInv'
  <2>1. /\ store' = store /\ announced' = announced
        /\ \A q \in Procs : pc'[q] = "finish" => pc[q] = "finish" /\ mine'[q] = mine[q] /\ todo'[q] = todo[q]
    BY <1>0 DEF Call, Goto, TypeOK, LocalTypes, caches, callVars, history
  <2> QED
    BY <1>0, <1>d, <2>1, KeepStore
<1>6. HandInv'
  <2>1. \A q \in Procs : Looking(q)' => Looking(q) /\ cur'[q] = cur[q] /\ low'[q] = low[q]
    BY <1>0 DEF Call, Goto, Looking, TypeOK, LocalTypes, callVars, history
  <2> QED
    BY <1>0, <1>d, <2>1, KeepHand
<1> QED
  BY <1>1, <1>2, <1>3, <1>4, <1>5, <1>6 DEF IInv

\* It executes.
LEMMA AcquireStep ==
  ASSUME IInv, NEW p \in Procs, Acquire(p)
  PROVE  IInv'
<1>0. TypeOK /\ LocalTypes /\ CallInv /\ ConnInv /\ TodoInv /\ LockInv /\ ObjInv /\ OrderInv /\ StoreInv /\ HandInv
  BY DEF IInv
<1>c. \A q \in Procs : Fetched(q)' => Fetched(q) /\ cur'[q] = cur[q] /\ read'[q] = read[q]
  BY <1>0 DEF Acquire, Goto, Hold, InTx, Fetched, TypeOK, LocalTypes, ConnInv, database, caches,
     callVars
<1>d. \A o \in Objs, v \in Versions : AtLeast(o, v) => AtLeast(o, v)'
  BY <1>c, KeepAtLeast DEF Acquire, Goto, Hold, InTx, caches
<1>1. LocalTypes' /\ TodoInv' /\ LockInv' /\ ObjInv'
  BY <1>0 DEF Acquire, Goto, Hold, InTx, LocalTypes, caches, history, TodoInv, LockInv, Usable,
     Looking, ObjInv, Fetched
<1>2. TypeOK'
  <2>1. conns' \in [Procs -> SUBSET {"tx", "call", "fetch"}] /\ pc' \in [Procs -> PCs]
    BY <1>0 DEF Acquire, Hold, Goto, TypeOK, PCs
  <2> QED
    BY <1>0, <2>1 DEF Acquire, TypeOK, caches, history
<1>3. CallInv'
  BY <1>0 DEF Acquire, Goto, Hold, InTx, CallInv, TypeOK, Looking, Fetched, Versions, NoVersion,
     Objs, NoObj, caches, history
<1>4. ConnInv'
  BY <1>0 DEF Acquire, Goto, Hold, InTx, ConnInv, TypeOK, Looking, caches, history
<1>5. OrderInv'
  BY <1>0 DEF Acquire, Goto, Hold, InTx, OrderInv, TypeOK, Looking, Fetched, Versions, NoVersion,
     Empty, Objs, caches, history
<1>6. StoreInv'
  <2>1. /\ store' = store /\ announced' = announced
        /\ \A q \in Procs : pc'[q] = "finish" => pc[q] = "finish" /\ mine'[q] = mine[q] /\ todo'[q] = todo[q]
    BY <1>0 DEF Acquire, Goto, Hold, InTx, TypeOK, LocalTypes, caches, callVars, history
  <2> QED
    BY <1>0, <1>d, <2>1, KeepStore
<1>7. HandInv'
  <2>1. \A q \in Procs : Looking(q)' => Looking(q) /\ cur'[q] = cur[q] /\ low'[q] = low[q]
    BY <1>0 DEF Acquire, Goto, Hold, InTx, Looking, TypeOK, LocalTypes, callVars, history
  <2> QED
    BY <1>0, <1>d, <2>1, KeepHand
<1> QED
  BY <1>1, <1>2, <1>3, <1>4, <1>5, <1>6, <1>7 DEF IInv

\* It looks for column types, or reads at once.
LEMMA TypesStep ==
  ASSUME IInv, NEW p \in Procs, Types(p)
  PROVE  IInv'
<1>0. TypeOK /\ LocalTypes /\ CallInv /\ ConnInv /\ TodoInv /\ LockInv /\ ObjInv /\ OrderInv /\ StoreInv /\ HandInv
  BY DEF IInv
<1>c. \A q \in Procs : Fetched(q)' => Fetched(q) /\ cur'[q] = cur[q] /\ read'[q] = read[q]
  BY <1>0 DEF Types, Fetched, TypeOK, LocalTypes, ConnInv, database, caches, callVars
<1>d. \A o \in Objs, v \in Versions : AtLeast(o, v) => AtLeast(o, v)'
  BY <1>c, KeepAtLeast DEF Types, caches
<1>1. LocalTypes' /\ ObjInv'
  BY <1>0 DEF Types, LocalTypes, database, caches, history, ObjInv, Looking, Fetched
<1>2. TypeOK'
  BY <1>0, <1>1, ListFacts
  DEF Types, TypeOK, Looking, Kinds, PCs, Versions, NoVersion, Empty, Objs, NoObj, Keys, database,
     caches, history
<1>3. CallInv'
  <2>1. /\ pc[p] = "types" /\ pc'[p] \in {"load", "read"}
        /\ \A q \in Procs : q # p => pc'[q] = pc[q]
    BY <1>0 DEF Types, TypeOK
  <2>2. \A q \in Procs : (Looking(q)' <=> Looking(q)) /\ (pc[q] = "finish" => pc'[q] = "finish")
    BY <2>1 DEF Looking
  <2> QED
    BY <1>0, <1>c, <2>2 DEF CallInv, Types, caches, history
<1>4. ConnInv'
  BY <1>0 DEF Types, ConnInv, TypeOK, Looking, database, caches, history
<1>5. TodoInv'
  BY <1>0, ListFacts, ListsDiffer
  DEF Types, TodoInv, TypeOK, Kinds, Lists, database, caches, history
<1>6. LockInv'
  <2>1. /\ pc[p] = "types" /\ pc'[p] \in {"load", "read"}
        /\ \A q \in Procs : q # p => pc'[q] = pc[q]
    BY <1>0 DEF Types, TypeOK
  <2> QED
    BY <1>0, <2>1 DEF LockInv, Types, caches, Usable, TypeOK
<1>7. OrderInv'
  BY <1>0 DEF Types, OrderInv, TypeOK, Looking, Fetched, Versions, NoVersion, Empty, Objs,
     database, caches, history
<1>8. StoreInv'
  <2>1. /\ store' = store /\ announced' = announced
        /\ \A q \in Procs : pc'[q] = "finish" => pc[q] = "finish" /\ mine'[q] = mine[q] /\ todo'[q] = todo[q]
    BY <1>0 DEF Types, TypeOK, LocalTypes, caches, callVars, history
  <2> QED
    BY <1>0, <1>d, <2>1, KeepStore
<1>9. HandInv'
  <2>1. \A q \in Procs : Looking(q)' => Looking(q) /\ cur'[q] = cur[q] /\ low'[q] = low[q]
    BY <1>0 DEF Types, Looking, TypeOK, LocalTypes, callVars, history
  <2> QED
    BY <1>0, <1>d, <2>1, KeepHand
<1> QED
  BY <1>1, <1>2, <1>3, <1>4, <1>5, <1>6, <1>7, <1>8, <1>9 DEF IInv

\* It closes its rows.
LEMMA TypesFailStep ==
  ASSUME IInv, NEW p \in Procs, TypesFail(p)
  PROVE  IInv'
<1>0. TypeOK /\ LocalTypes /\ CallInv /\ ConnInv /\ TodoInv /\ LockInv /\ ObjInv /\ OrderInv /\ StoreInv /\ HandInv
  BY DEF IInv
<1>c. \A q \in Procs : Fetched(q)' => Fetched(q) /\ cur'[q] = cur[q] /\ read'[q] = read[q]
  BY <1>0 DEF TypesFail, Goto, Release, Fetched, TypeOK, LocalTypes, ConnInv, database, caches,
     callVars
<1>d. \A o \in Objs, v \in Versions : AtLeast(o, v) => AtLeast(o, v)'
  BY <1>c, KeepAtLeast DEF TypesFail, Goto, Release, caches
<1>1. LocalTypes' /\ CallInv' /\ TodoInv' /\ LockInv' /\ ObjInv' /\ OrderInv'
  BY <1>0 DEF TypesFail, Goto, Release, LocalTypes, caches, history, CallInv, Looking, Fetched,
     TodoInv, LockInv, Usable, ObjInv, OrderInv
<1>2. TypeOK'
  BY <1>0, <1>1, ListFacts
  DEF TypesFail, Goto, Release, TypeOK, Looking, Kinds, PCs, Versions, NoVersion, Empty, Objs,
     NoObj, Keys, caches, history
<1>3. ConnInv'
  BY <1>0 DEF TypesFail, Goto, Release, ConnInv, TypeOK, Looking, caches, history
<1>4. StoreInv'
  <2>1. /\ store' = store /\ announced' = announced
        /\ \A q \in Procs : pc'[q] = "finish" => pc[q] = "finish" /\ mine'[q] = mine[q] /\ todo'[q] = todo[q]
    BY <1>0 DEF TypesFail, Goto, Release, TypeOK, LocalTypes, caches, callVars, history
  <2> QED
    BY <1>0, <1>d, <2>1, KeepStore
<1>5. HandInv'
  <2>1. \A q \in Procs : Looking(q)' => Looking(q) /\ cur'[q] = cur[q] /\ low'[q] = low[q]
    BY <1>0 DEF TypesFail, Goto, Release, Looking, TypeOK, LocalTypes, callVars, history
  <2> QED
    BY <1>0, <1>d, <2>1, KeepHand
<1> QED
  BY <1>1, <1>2, <1>3, <1>4, <1>5 DEF IInv

\* It reads its rows.
LEMMA ReadStep ==
  ASSUME IInv, NEW p \in Procs, Read(p)
  PROVE  IInv'
<1>0. TypeOK /\ LocalTypes /\ CallInv /\ ConnInv /\ TodoInv /\ LockInv /\ ObjInv /\ OrderInv /\ StoreInv /\ HandInv
  BY DEF IInv
<1>c. \A q \in Procs : Fetched(q)' => Fetched(q) /\ cur'[q] = cur[q] /\ read'[q] = read[q]
  BY <1>0 DEF Read, Goto, Release, Fetched, TypeOK, LocalTypes, ConnInv, database, caches, callVars
<1>d. \A o \in Objs, v \in Versions : AtLeast(o, v) => AtLeast(o, v)'
  BY <1>c, KeepAtLeast DEF Read, Goto, Release, caches
<1>1. LocalTypes' /\ CallInv' /\ TodoInv' /\ LockInv' /\ ObjInv' /\ OrderInv'
  BY <1>0 DEF Read, Goto, Release, LocalTypes, caches, history, CallInv, Looking, Fetched, TodoInv,
     LockInv, Usable, ObjInv, OrderInv
<1>2. TypeOK'
  BY <1>0, <1>1, ListFacts
  DEF Read, Goto, Release, TypeOK, Looking, Kinds, PCs, Versions, NoVersion, Empty, Objs, NoObj,
     Keys, caches, history
<1>3. ConnInv'
  BY <1>0 DEF Read, Goto, Release, ConnInv, TypeOK, Looking, caches, history
<1>4. StoreInv'
  <2>1. /\ store' = store /\ announced' = announced
        /\ \A q \in Procs : pc'[q] = "finish" => pc[q] = "finish" /\ mine'[q] = mine[q] /\ todo'[q] = todo[q]
    BY <1>0 DEF Read, Goto, Release, TypeOK, LocalTypes, caches, callVars, history
  <2> QED
    BY <1>0, <1>d, <2>1, KeepStore
<1>5. HandInv'
  <2>1. \A q \in Procs : Looking(q)' => Looking(q) /\ cur'[q] = cur[q] /\ low'[q] = low[q]
    BY <1>0 DEF Read, Goto, Release, Looking, TypeOK, LocalTypes, callVars, history
  <2> QED
    BY <1>0, <1>d, <2>1, KeepHand
<1> QED
  BY <1>1, <1>2, <1>3, <1>4, <1>5 DEF IInv

\* The deadline of its context passes.
LEMMA DeadlineStep ==
  ASSUME IInv, NEW p \in Procs, Deadline(p)
  PROVE  IInv'
<1>0. TypeOK /\ LocalTypes /\ CallInv /\ ConnInv /\ TodoInv /\ LockInv /\ ObjInv /\ OrderInv /\ StoreInv /\ HandInv
  BY DEF IInv
<1>c. \A q \in Procs : Fetched(q)' => Fetched(q) /\ cur'[q] = cur[q] /\ read'[q] = read[q]
  BY <1>0 DEF Deadline, Release, Fetched, TypeOK, LocalTypes, ConnInv, database, caches, callVars
<1>d. \A o \in Objs, v \in Versions : AtLeast(o, v) => AtLeast(o, v)'
  BY <1>c, KeepAtLeast DEF Deadline, Release, caches
<1>1. LocalTypes' /\ TypeOK' /\ CallInv' /\ ConnInv' /\ TodoInv' /\ LockInv' /\ ObjInv' /\ OrderInv'
  BY <1>0 DEF Deadline, Release, LocalTypes, caches, history, TypeOK, Looking, CallInv, Fetched,
     ConnInv, TodoInv, LockInv, Usable, ObjInv, OrderInv
<1>2. StoreInv'
  <2>1. /\ store' = store /\ announced' = announced
        /\ \A q \in Procs : pc'[q] = "finish" => pc[q] = "finish" /\ mine'[q] = mine[q] /\ todo'[q] = todo[q]
    BY <1>0 DEF Deadline, Release, TypeOK, LocalTypes, caches, callVars, history
  <2> QED
    BY <1>0, <1>d, <2>1, KeepStore
<1>3. HandInv'
  <2>1. \A q \in Procs : Looking(q)' => Looking(q) /\ cur'[q] = cur[q] /\ low'[q] = low[q]
    BY <1>0 DEF Deadline, Release, Looking, TypeOK, LocalTypes, callVars, history
  <2> QED
    BY <1>0, <1>d, <2>1, KeepHand
<1> QED
  BY <1>1, <1>2, <1>3 DEF IInv

\* It finds its context done.
LEMMA ContextDoneStep ==
  ASSUME IInv, NEW p \in Procs, ContextDone(p)
  PROVE  IInv'
<1>0. TypeOK /\ LocalTypes /\ CallInv /\ ConnInv /\ TodoInv /\ LockInv /\ ObjInv /\ OrderInv /\ StoreInv /\ HandInv
  BY DEF IInv
<1>c. \A q \in Procs : Fetched(q)' => Fetched(q) /\ cur'[q] = cur[q] /\ read'[q] = read[q]
  BY <1>0 DEF ContextDone, Goto, Fetched, TypeOK, LocalTypes, ConnInv, database, caches, callVars
<1>d. \A o \in Objs, v \in Versions : AtLeast(o, v) => AtLeast(o, v)'
  BY <1>c, KeepAtLeast DEF ContextDone, Goto, caches
<1>a. /\ pc[p] = "acquire" /\ pc' = [pc EXCEPT ![p] = IF kind[p] = "ddl" THEN "finish" ELSE "return"]
      /\ kind[p] = "ddl" => todo'[p] = <<"structures", "names">>
      /\ kind[p] = "query" => todo'[p] = todo[p]
      /\ \A q \in Procs : q # p => pc'[q] = pc[q] /\ todo'[q] = todo[q]
      /\ pc'[p] = IF kind[p] = "ddl" THEN "finish" ELSE "return"
  BY <1>0, ListFacts DEF ContextDone, Goto, TypeOK, LocalTypes, TodoInv
<1>1. LocalTypes'
  BY <1>0, ListFacts
  DEF ContextDone, Goto, LocalTypes, TypeOK, TodoInv, Lists, DdlSteps, Versions, NoVersion,
     database, caches, history
<1>2. CallInv' /\ ConnInv' /\ LockInv' /\ ObjInv' /\ OrderInv'
  BY <1>0 DEF ContextDone, Goto, CallInv, Looking, Fetched, database, caches, history, ConnInv,
     LockInv, Usable, ObjInv, OrderInv
<1>3. TypeOK'
  BY <1>0, <1>1, ListFacts
  DEF ContextDone, Goto, TypeOK, LocalTypes, CallInv, Looking, Kinds, PCs, Versions, NoVersion,
     Empty, Objs, NoObj, Keys, database, caches, history
<1>4. TodoInv'
  <2>1. kind' = kind /\ key' = key /\ kind[p] \in {"query", "ddl"}
    BY <1>0 DEF ContextDone, TypeOK, Kinds
  <2>2. CASE kind[p] = "query"
    BY <1>0, <1>a, <2>1, <2>2 DEF TodoInv
  <2>3. CASE kind[p] = "ddl"
    <3>1. pc'[p] = "finish" /\ todo'[p] = <<"structures", "names">> /\ key[p] = "names"
      BY <1>0, <1>a, <2>3 DEF TodoInv
    <3> QED
      BY <1>0, <1>a, <2>1, <2>3, <3>1 DEF TodoInv
  <2> QED
    BY <2>1, <2>2, <2>3
<1>5. StoreInv'
  <2>1. UNCHANGED <<store, announced, mine>>
    BY DEF ContextDone, caches, history
  <2> QED
    BY <1>0, <1>a, <1>d, <2>1, KeepStore, ListsDiffer DEF TypeOK, Kinds, Keys, TodoInv
<1>6. HandInv'
  <2>1. \A q \in Procs : Looking(q)' => Looking(q) /\ cur'[q] = cur[q] /\ low'[q] = low[q]
    BY <1>0 DEF ContextDone, Goto, Looking, TypeOK, LocalTypes, callVars, history
  <2> QED
    BY <1>0, <1>d, <2>1, KeepHand
<1> QED
  BY <1>1, <1>2, <1>3, <1>4, <1>5, <1>6 DEF IInv

\* DDL is executed.
LEMMA DdlExecStep ==
  ASSUME IInv, NEW p \in Procs, DdlExec(p)
  PROVE  IInv'
<1>0. TypeOK /\ LocalTypes /\ CallInv /\ ConnInv /\ TodoInv /\ LockInv /\ ObjInv /\ OrderInv /\ StoreInv /\ HandInv
  BY DEF IInv
<1>c. \A q \in Procs : Fetched(q)' => Fetched(q) /\ cur'[q] = cur[q] /\ read'[q] = read[q]
  BY <1>0 DEF DdlExec, Doing, Goto, InTx, Fetched, TypeOK, LocalTypes, ConnInv, database, caches,
     callVars
<1>d. \A o \in Objs, v \in Versions : AtLeast(o, v) => AtLeast(o, v)'
  BY <1>c, KeepAtLeast DEF DdlExec, Doing, Goto, InTx, caches
<1>a. /\ pc[p] \in {"acquire", "finish"} /\ kind[p] = "ddl" /\ pc'[p] = "finish"
      /\ todo'[p] = <<"structures", "names">>
      /\ todo' = [todo EXCEPT ![p] = <<"structures", "names">>]
      /\ \A q \in Procs : q # p => pc'[q] = pc[q] /\ todo'[q] = todo[q] /\ mine'[q] = mine[q]
  BY <1>0, ListFacts, ListsDiffer DEF DdlExec, Doing, Goto, TypeOK, LocalTypes, TodoInv
<1>1. LocalTypes'
  <2>1. todo' \in [Procs -> Lists]
    BY <1>0, <1>a DEF LocalTypes, Lists
  <2>2. mine' \in [Procs -> Versions]
    <3>1. CASE InTx(p)
      BY <1>0, <3>1 DEF DdlExec, LocalTypes
    <3>2. CASE ~InTx(p)
      <4>1. schema' = schema + 1 /\ mine' = [mine EXCEPT ![p] = schema + 1] /\ schema < MaxVersion
        BY <3>2 DEF DdlExec
      <4> QED
        BY <1>0, <4>1, ConstantsAssumption DEF LocalTypes, TypeOK, Versions
    <3> QED
      BY <3>1, <3>2
  <2> QED
    BY <1>0, <2>1, <2>2 DEF LocalTypes, DdlExec, history
<1>2. ConnInv' /\ LockInv' /\ ObjInv'
  BY <1>0 DEF DdlExec, Doing, Goto, InTx, ConnInv, Looking, caches, history, LockInv, Usable,
     ObjInv, Fetched
<1>3. TypeOK'
  <2>1. schema' \in Versions
    BY <1>0, ConstantsAssumption DEF DdlExec, TypeOK, Versions
  <2>2. pending' \in [Procs -> BOOLEAN]
    <3>1. CASE InTx(p)
      BY <1>0, <3>1 DEF DdlExec, TypeOK
    <3>2. CASE ~InTx(p)
      BY <1>0, <3>2 DEF DdlExec, TypeOK
    <3> QED
      BY <3>1, <3>2
  <2>3. pc' \in [Procs -> PCs]
    BY <1>0 DEF DdlExec, Doing, Goto, TypeOK, PCs
  <2>4. \A q \in Procs : todo'[q] \in Seq(Keys \union {"exec"})
    BY <1>1, ListFacts DEF LocalTypes
  <2> QED
    BY <1>0, <2>1, <2>2, <2>3, <2>4 DEF TypeOK, DdlExec, caches, history
<1>4. CallInv'
  BY <1>0 DEF DdlExec, Doing, Goto, InTx, CallInv, TypeOK, LocalTypes, OrderInv, ConnInv, TodoInv,
     ObjInv, Looking, Fetched, Versions, NoVersion, Objs, NoObj, caches, history
<1>5. TodoInv'
  BY <1>0, <1>a DEF TodoInv, DdlExec, TypeOK, Kinds
<1>6. OrderInv'
  <2>1. /\ schema <= schema' /\ schema' \in Versions /\ schema \in Versions /\ announced \in Versions
        /\ \A q \in Procs : mine[q] \in Versions /\ (mine'[q] <= schema' \/ mine'[q] = mine[q])
    <3>1. CASE InTx(p)
      BY <1>0, <3>1, ConstantsAssumption DEF DdlExec, LocalTypes, TypeOK, Versions
    <3>2. CASE ~InTx(p)
      <4>1. schema' = schema + 1 /\ mine' = [mine EXCEPT ![p] = schema + 1] /\ schema < MaxVersion
        BY <3>2 DEF DdlExec
      <4> QED
        BY <1>0, <4>1, ConstantsAssumption DEF LocalTypes, TypeOK, Versions
    <3> QED
      BY <3>1, <3>2
  <2>2. /\ obj' = obj /\ announced' = announced /\ low' = low
        /\ \A q \in Procs : mine[q] \in Versions /\ (Looking(q)' => Looking(q))
    BY <1>0, <1>a DEF DdlExec, LocalTypes, caches, history, Looking
  <2>3. /\ \A q \in Procs : Fetched(q) => read[q] \in Versions
        /\ cur' = cur /\ read' = read
    BY <1>0 DEF DdlExec, CallInv
  <2> QED
    BY <1>0, <1>c, <2>1, <2>2, <2>3 DEF OrderInv, Versions
<1>7. StoreInv'
  <2>1. UNCHANGED <<store, announced>>
    BY DEF DdlExec, caches, history
  <2> QED
    BY <1>0, <1>a, <1>d, <2>1, KeepStore, ListsDiffer DEF TypeOK, Keys
<1>8. HandInv'
  <2>1. \A q \in Procs : Looking(q)' => Looking(q) /\ cur'[q] = cur[q] /\ low'[q] = low[q]
    BY <1>0 DEF DdlExec, Doing, Goto, InTx, Looking, TypeOK, LocalTypes, callVars, history
  <2> QED
    BY <1>0, <1>d, <2>1, KeepHand
<1> QED
  BY <1>1, <1>2, <1>3, <1>4, <1>5, <1>6, <1>7, <1>8 DEF IInv

\* DDL fails.
LEMMA DdlFailsStep ==
  ASSUME IInv, NEW p \in Procs, DdlFails(p)
  PROVE  IInv'
<1>0. TypeOK /\ LocalTypes /\ CallInv /\ ConnInv /\ TodoInv /\ LockInv /\ ObjInv /\ OrderInv /\ StoreInv /\ HandInv
  BY DEF IInv
<1>c. \A q \in Procs : Fetched(q)' => Fetched(q) /\ cur'[q] = cur[q] /\ read'[q] = read[q]
  BY <1>0 DEF DdlFails, Doing, Goto, Fetched, TypeOK, LocalTypes, ConnInv, database, caches,
     callVars
<1>d. \A o \in Objs, v \in Versions : AtLeast(o, v) => AtLeast(o, v)'
  BY <1>c, KeepAtLeast DEF DdlFails, Doing, Goto, caches
<1>a. /\ pc[p] \in {"acquire", "finish"} /\ kind[p] = "ddl" /\ pc'[p] = "finish"
      /\ todo'[p] = <<"structures", "names">>
      /\ \A q \in Procs : q # p => pc'[q] = pc[q] /\ todo'[q] = todo[q]
  BY <1>0, ListFacts, ListsDiffer DEF DdlFails, Doing, Goto, TypeOK, LocalTypes, TodoInv
<1>1. LocalTypes'
  BY <1>0, ListFacts
  DEF DdlFails, Doing, Goto, LocalTypes, TypeOK, Lists, DdlSteps, Versions, NoVersion, database,
     caches, history
<1>2. CallInv' /\ ConnInv' /\ LockInv' /\ ObjInv' /\ OrderInv'
  BY <1>0 DEF DdlFails, Doing, Goto, CallInv, Looking, Fetched, database, caches, history, ConnInv,
     LockInv, Usable, ObjInv, OrderInv
<1>3. TypeOK'
  BY <1>0, <1>1, ListFacts
  DEF DdlFails, Doing, Goto, TypeOK, Looking, Kinds, PCs, Versions, NoVersion, Empty, Objs, NoObj,
     Keys, database, caches, history
<1>4. TodoInv'
  BY <1>0, <1>a DEF TodoInv, DdlFails, TypeOK, Kinds
<1>5. StoreInv'
  <2>1. UNCHANGED <<store, announced, mine>>
    BY DEF DdlFails, caches, history
  <2> QED
    BY <1>0, <1>a, <1>d, <2>1, KeepStore, ListsDiffer DEF TypeOK, Keys
<1>6. HandInv'
  <2>1. \A q \in Procs : Looking(q)' => Looking(q) /\ cur'[q] = cur[q] /\ low'[q] = low[q]
    BY <1>0 DEF DdlFails, Doing, Goto, Looking, TypeOK, LocalTypes, callVars, history
  <2> QED
    BY <1>0, <1>d, <2>1, KeepHand
<1> QED
  BY <1>1, <1>2, <1>3, <1>4, <1>5, <1>6 DEF IInv

\* DDL empties a place of the store.
LEMMA InvalidateStep ==
  ASSUME IInv, NEW p \in Procs, NEW k \in Keys, Invalidate(p, k)
  PROVE  IInv'
<1>0. TypeOK /\ LocalTypes /\ CallInv /\ ConnInv /\ TodoInv /\ LockInv /\ ObjInv /\ OrderInv /\ StoreInv /\ HandInv
  BY DEF IInv
<1>c. \A q \in Procs : Fetched(q)' => Fetched(q) /\ cur'[q] = cur[q] /\ read'[q] = read[q]
  BY <1>0 DEF Invalidate, Doing, Goto, Fetched, TypeOK, LocalTypes, ConnInv, database, caches,
     callVars
<1>d. \A o \in Objs, v \in Versions : AtLeast(o, v) => AtLeast(o, v)'
  BY <1>c, KeepAtLeast DEF Invalidate, Doing, Goto, caches
<1>a. /\ pc[p] = "finish" /\ kind[p] = "ddl" /\ pc'[p] = "finish"
      /\ \/ k = "structures" /\ todo[p] = <<"structures", "names">> /\ todo'[p] = <<"names">>
         \/ k = "names" /\ todo[p] = <<"names">> /\ todo'[p] = <<>>
      /\ store'[k] = NoObj /\ \A l \in Keys : l # k => store'[l] = store[l]
      /\ \A q \in Procs : q # p => pc'[q] = pc[q] /\ todo'[q] = todo[q]
  BY <1>0, ListFacts, ListsDiffer DEF Invalidate, Doing, Goto, TypeOK, LocalTypes, TodoInv, Keys
<1>1. LocalTypes'
  BY <1>0, ListFacts
  DEF Invalidate, Doing, Goto, LocalTypes, TypeOK, Lists, DdlSteps, Versions, NoVersion, database,
     history
<1>2. CallInv' /\ ConnInv' /\ LockInv' /\ OrderInv'
  BY <1>0 DEF Invalidate, Doing, Goto, CallInv, Looking, Fetched, database, history, ConnInv,
     LockInv, Usable, OrderInv
<1>3. TypeOK'
  BY <1>0, <1>1, ListFacts
  DEF Invalidate, Doing, Goto, TypeOK, Looking, Kinds, PCs, Versions, NoVersion, Empty, Objs,
     NoObj, Keys, database, history
<1>4. TodoInv'
  BY <1>0, <1>a DEF TodoInv, Invalidate, TypeOK, Kinds
<1>5. ObjInv'
  BY <1>0 DEF Invalidate, Doing, Goto, ObjInv, TypeOK, Unfetched, Looking, Fetched, Versions,
     NoVersion, Empty, Objs, NoObj, database, history
<1>6. StoreInv'
  <2>1. UNCHANGED <<announced, mine>>
    BY DEF Invalidate, history
  <2> QED
    BY <1>0, <1>a, <1>d, <2>1, KeepStore, ListsDiffer DEF TypeOK, Keys
<1>7. HandInv'
  <2>1. \A q \in Procs : Looking(q)' => Looking(q) /\ cur'[q] = cur[q] /\ low'[q] = low[q]
    BY <1>0 DEF Invalidate, Doing, Goto, Looking, TypeOK, LocalTypes, callVars, history
  <2> QED
    BY <1>0, <1>d, <2>1, KeepHand
<1> QED
  BY <1>1, <1>2, <1>3, <1>4, <1>5, <1>6, <1>7 DEF IInv

\* DDL returns: what it made is in no place of the store older than that.
LEMMA DdlReturnsStep ==
  ASSUME IInv, NEW p \in Procs, DdlReturns(p)
  PROVE  IInv'
<1>0. TypeOK /\ LocalTypes /\ CallInv /\ ConnInv /\ TodoInv /\ LockInv /\ ObjInv /\ OrderInv /\ StoreInv /\ HandInv
  BY DEF IInv
<1>c. \A q \in Procs : Fetched(q)' => Fetched(q) /\ cur'[q] = cur[q] /\ read'[q] = read[q]
  BY <1>0 DEF DdlReturns, Goto, Fetched, TypeOK, LocalTypes, ConnInv, database, caches, callVars
<1>d. \A o \in Objs, v \in Versions : AtLeast(o, v) => AtLeast(o, v)'
  BY <1>c, KeepAtLeast DEF DdlReturns, Goto, caches
<1>1. LocalTypes'
  BY <1>0, ConstantsAssumption, ListFacts
  DEF DdlReturns, Goto, LocalTypes, TypeOK, TodoInv, Lists, DdlSteps, Versions, NoVersion,
     database, caches
<1>2. ConnInv' /\ TodoInv' /\ LockInv' /\ ObjInv'
  BY <1>0, ListFacts, ListsDiffer
  DEF DdlReturns, Goto, ConnInv, Looking, database, caches, TodoInv, LockInv, Usable, ObjInv,
     Fetched
<1>3. TypeOK'
  BY <1>0, <1>1, ListFacts
  DEF DdlReturns, Goto, TypeOK, LocalTypes, CallInv, Looking, Kinds, PCs, Versions, NoVersion,
     Empty, Objs, NoObj, Keys, database, caches
<1>4. CallInv'
  BY <1>0 DEF DdlReturns, Goto, CallInv, TypeOK, LocalTypes, OrderInv, ConnInv, TodoInv, ObjInv,
     Looking, Fetched, Versions, NoVersion, Objs, NoObj, database, caches
<1>5. OrderInv'
  BY <1>0 DEF DdlReturns, Goto, OrderInv, TypeOK, LocalTypes, CallInv, LockInv, ObjInv, Looking,
     Fetched, Versions, NoVersion, Empty, Objs, database, caches
<1>6. StoreInv'
  <2>1. /\ store' = store /\ pc[p] = "finish" /\ todo[p] = <<>> /\ mine[p] \in Versions
        /\ announced \in Versions /\ announced' \in {announced, mine[p]}
        /\ \A q \in Procs : pc'[q] = "finish" => pc[q] = "finish" /\ todo'[q] = todo[q] /\ mine'[q] = mine[q]
        /\ \A q \in Procs : mine[q] \in Versions
    BY <1>0 DEF DdlReturns, Goto, TypeOK, LocalTypes, caches
  <2>2. \A k \in Keys : store[k] # NoObj =>
          /\ store[k] \in Objs /\ AtLeast(store[k], announced) /\ AtLeast(store[k], mine[p])
    BY <1>0, <2>1, ListsDiffer DEF StoreInv, TypeOK
  <2> QED
    BY <1>0, <1>d, <2>1, <2>2 DEF StoreInv
<1>7. HandInv'
  <2>1. \A q \in Procs : Looking(q)' => Looking(q) /\ cur'[q] = cur[q] /\ low'[q] = low[q]
    BY <1>0 DEF DdlReturns, Goto, Looking, TypeOK, LocalTypes, callVars, history
  <2> QED
    BY <1>0, <1>d, <2>1, KeepHand
<1> QED
  BY <1>1, <1>2, <1>3, <1>4, <1>5, <1>6, <1>7 DEF IInv

\* A call returns.
LEMMA ReturnStep ==
  ASSUME IInv, NEW p \in Procs, Return(p)
  PROVE  IInv'
<1>0. TypeOK /\ LocalTypes /\ CallInv /\ ConnInv /\ TodoInv /\ LockInv /\ ObjInv /\ OrderInv /\ StoreInv /\ HandInv
  BY DEF IInv
<1>c. \A q \in Procs : Fetched(q)' => Fetched(q) /\ cur'[q] = cur[q] /\ read'[q] = read[q]
  BY <1>0 DEF Return, Goto, Fetched, TypeOK, LocalTypes, ConnInv, database, caches, callVars
<1>d. \A o \in Objs, v \in Versions : AtLeast(o, v) => AtLeast(o, v)'
  BY <1>c, KeepAtLeast DEF Return, Goto, caches
<1>1. LocalTypes' /\ CallInv' /\ ConnInv' /\ LockInv' /\ ObjInv' /\ OrderInv'
  BY <1>0 DEF Return, Goto, LocalTypes, database, caches, CallInv, Looking, Fetched, ConnInv,
     LockInv, Usable, ObjInv, OrderInv
<1>2. TypeOK'
  BY <1>0, <1>1, ListFacts
  DEF Return, Goto, TypeOK, Looking, Kinds, PCs, Versions, NoVersion, Empty, Objs, NoObj, Keys,
     database, caches
<1>3. TodoInv'
  BY <1>0, ListFacts, ListsDiffer DEF Return, Goto, TodoInv, TypeOK, Kinds, Lists, database, caches
<1>4. StoreInv'
  <2>1. /\ store' = store /\ announced' = announced
        /\ \A q \in Procs : pc'[q] = "finish" => pc[q] = "finish" /\ mine'[q] = mine[q] /\ todo'[q] = todo[q]
    BY <1>0 DEF Return, Goto, TypeOK, LocalTypes, caches, callVars, history
  <2> QED
    BY <1>0, <1>d, <2>1, KeepStore
<1>5. HandInv'
  <2>1. \A q \in Procs : Looking(q)' => Looking(q) /\ cur'[q] = cur[q] /\ low'[q] = low[q]
    BY <1>0 DEF Return, Goto, Looking, TypeOK, LocalTypes, callVars, history
  <2> QED
    BY <1>0, <1>d, <2>1, KeepHand
<1> QED
  BY <1>1, <1>2, <1>3, <1>4, <1>5 DEF IInv

\* A transaction begins.
LEMMA BeginStep ==
  ASSUME IInv, NEW p \in Procs, Begin(p)
  PROVE  IInv'
<1>0. TypeOK /\ LocalTypes /\ CallInv /\ ConnInv /\ TodoInv /\ LockInv /\ ObjInv /\ OrderInv /\ StoreInv /\ HandInv
  BY DEF IInv
<1>c. \A q \in Procs : Fetched(q)' => Fetched(q) /\ cur'[q] = cur[q] /\ read'[q] = read[q]
  BY <1>0 DEF Begin, Hold, InTx, Fetched, TypeOK, LocalTypes, ConnInv, database, caches, callVars
<1>d. \A o \in Objs, v \in Versions : AtLeast(o, v) => AtLeast(o, v)'
  BY <1>c, KeepAtLeast DEF Begin, Hold, InTx, caches
<1>1. LocalTypes' /\ TypeOK' /\ CallInv' /\ ConnInv' /\ TodoInv' /\ LockInv' /\ ObjInv' /\ OrderInv'
  BY <1>0 DEF Begin, Hold, InTx, LocalTypes, caches, history, TypeOK, Looking, CallInv, Fetched,
     ConnInv, TodoInv, LockInv, Usable, ObjInv, OrderInv
<1>2. StoreInv'
  <2>1. /\ store' = store /\ announced' = announced
        /\ \A q \in Procs : pc'[q] = "finish" => pc[q] = "finish" /\ mine'[q] = mine[q] /\ todo'[q] = todo[q]
    BY <1>0 DEF Begin, Hold, InTx, TypeOK, LocalTypes, caches, callVars, history
  <2> QED
    BY <1>0, <1>d, <2>1, KeepStore
<1>3. HandInv'
  <2>1. \A q \in Procs : Looking(q)' => Looking(q) /\ cur'[q] = cur[q] /\ low'[q] = low[q]
    BY <1>0 DEF Begin, Hold, InTx, Looking, TypeOK, LocalTypes, callVars, history
  <2> QED
    BY <1>0, <1>d, <2>1, KeepHand
<1> QED
  BY <1>1, <1>2, <1>3 DEF IInv

\* A transaction ends.
LEMMA EndStep ==
  ASSUME IInv, NEW p \in Procs, End(p)
  PROVE  IInv'
<1>0. TypeOK /\ LocalTypes /\ CallInv /\ ConnInv /\ TodoInv /\ LockInv /\ ObjInv /\ OrderInv /\ StoreInv /\ HandInv
  BY DEF IInv
<1>c. \A q \in Procs : Fetched(q)' => Fetched(q) /\ cur'[q] = cur[q] /\ read'[q] = read[q]
  BY <1>0 DEF End, Release, InTx, Fetched, TypeOK, LocalTypes, ConnInv, database, caches, callVars
<1>d. \A o \in Objs, v \in Versions : AtLeast(o, v) => AtLeast(o, v)'
  BY <1>c, KeepAtLeast DEF End, Release, InTx, caches
<1>1. LocalTypes' /\ CallInv' /\ ConnInv' /\ TodoInv' /\ LockInv' /\ ObjInv'
  BY <1>0 DEF End, Release, InTx, LocalTypes, caches, history, callVars, CallInv, Looking, Fetched,
     ConnInv, TodoInv, LockInv, Usable, ObjInv
<1>2. TypeOK'
  BY <1>0, ConstantsAssumption, <1>1, ListFacts
  DEF End, Release, InTx, LocalTypes, CallInv, TypeOK, Looking, Kinds, PCs, Versions, NoVersion,
     Empty, Objs, NoObj, Keys, caches, history, callVars
<1>3. OrderInv'
  BY <1>0 DEF End, Release, InTx, OrderInv, TypeOK, LocalTypes, CallInv, LockInv, ObjInv, Looking,
     Fetched, Versions, NoVersion, Empty, Objs, caches, history, callVars
<1>4. StoreInv'
  <2>1. /\ store' = store /\ announced' = announced
        /\ \A q \in Procs : pc'[q] = "finish" => pc[q] = "finish" /\ mine'[q] = mine[q] /\ todo'[q] = todo[q]
    BY <1>0 DEF End, Release, InTx, TypeOK, LocalTypes, caches, callVars, history
  <2> QED
    BY <1>0, <1>d, <2>1, KeepStore
<1>5. HandInv'
  <2>1. \A q \in Procs : Looking(q)' => Looking(q) /\ cur'[q] = cur[q] /\ low'[q] = low[q]
    BY <1>0 DEF End, Release, InTx, Looking, TypeOK, LocalTypes, callVars, history
  <2> QED
    BY <1>0, <1>d, <2>1, KeepHand
<1> QED
  BY <1>1, <1>2, <1>3, <1>4, <1>5 DEF IInv

\* An object goes stale.
LEMMA ExpireStep ==
  ASSUME IInv, NEW o \in Objs, Expire(o)
  PROVE  IInv'
<1>0. TypeOK /\ LocalTypes /\ CallInv /\ ConnInv /\ TodoInv /\ LockInv /\ ObjInv /\ OrderInv /\ StoreInv /\ HandInv
  BY DEF IInv
<1> DEFINE r == [obj[o] EXCEPT !.stale = TRUE]
<1>e. obj' = [obj EXCEPT ![o] = r] /\ obj[o].done /\ obj[o] \in Objects
  BY <1>0 DEF Expire, Usable, TypeOK, Objects
<1>f. r \in Objects /\ r.stale /\ r.tables = obj[o].tables /\ r.done = obj[o].done
  BY <1>e, StaleObject
<1> HIDE DEF r
<1>b. /\ obj[o].done /\ obj'[o].done /\ obj'[o].stale
      /\ \A x \in Objs : obj'[x].tables = obj[x].tables /\ (x # o => obj'[x] = obj[x])
      /\ UNCHANGED <<database, store, made, lock, callVars, history>>
  BY <1>0, <1>e, <1>f DEF Expire, TypeOK
<1>1. LocalTypes' /\ CallInv' /\ ConnInv' /\ TodoInv' /\ LockInv' /\ OrderInv' /\ StoreInv' /\ HandInv'
  BY <1>0 DEF Expire, Usable, LocalTypes, database, history, callVars, CallInv, Looking, Fetched,
     ConnInv, TodoInv, LockInv, OrderInv, StoreInv, AtLeast, HandInv
<1>2. TypeOK'
  <2>1. obj' \in [Objs -> [tables : Versions \union {NoVersion, Empty}, done : BOOLEAN, stale : BOOLEAN]]
    BY <1>0, <1>e, <1>f DEF TypeOK, Objects
  <2> QED
    BY <1>0, <1>b, <2>1 DEF TypeOK, database, callVars, history
<1>3. ObjInv'
  <2>1. o <= made
    BY <1>0, <1>b, ConstantsAssumption DEF ObjInv, Unfetched, TypeOK, Objs
  <2> QED
    BY <1>0, <1>b, <2>1, ConstantsAssumption DEF ObjInv, TypeOK, Objs, history
<1> QED
  BY <1>1, <1>2, <1>3 DEF IInv

\* What ends a look-up in the database: the object in hand gets the tables r, its lock
\* is released, and the call goes on. r is not older than what the object had.
LEMMA PublishStep ==
  ASSUME IInv, NEW p \in Procs, NEW r \in Objects, pc[p] \in {"fetch", "singles"},
         r.done, r.tables # NoVersion, r.tables = Empty => failed',
         r.tables \in Versions =>
           /\ r.tables <= schema
           /\ obj[cur[p]].tables \in Versions => obj[cur[p]].tables <= r.tables
           /\ (Fetched(p) /\ read[p] <= r.tables) \/ obj[cur[p]].tables = r.tables,
         obj' = [obj EXCEPT ![cur[p]] = r],
         lock' = [lock EXCEPT ![cur[p]] = NoProc],
         read' = [read EXCEPT ![p] = NoVersion],
         low' = [low EXCEPT ![p] = NoVersion],
         cur' = [cur EXCEPT ![p] = NoObj],
         conns' = [conns EXCEPT ![p] = @ \ {"fetch"}],
         pc' = [pc EXCEPT ![p] = IF key[p] = "structures" THEN "read" ELSE "acquire"],
         failed => failed', failed' \in BOOLEAN,
         UNCHANGED <<schema, pending, store, made, expiries, kind, key, todo, mine, expired, count, announced>>
  PROVE  IInv'
<1>0. TypeOK /\ LocalTypes /\ CallInv /\ ConnInv /\ TodoInv /\ LockInv /\ ObjInv /\ OrderInv /\ StoreInv /\ HandInv
  BY DEF IInv
<1>a. /\ cur[p] \in Objs /\ cur[p] \in 1..made /\ Looking(p)
      /\ \A q \in Procs : Looking(q) => cur[q] \in Objs /\ low[q] \in Versions
      /\ \A q \in Procs : Fetched(q) => Looking(q) /\ pc[q] \in {"fetch", "singles"} /\ read[q] \in Versions
  BY <1>0, ConstantsAssumption DEF CallInv, Looking, Fetched, Objs, TypeOK
<1>b. /\ \A q \in Procs : q # p => /\ pc'[q] = pc[q] /\ cur'[q] = cur[q] /\ low'[q] = low[q]
                                   /\ read'[q] = read[q] /\ conns'[q] = conns[q]
      /\ pc'[p] \in {"read", "acquire"} /\ cur'[p] = NoObj /\ low'[p] = NoVersion /\ read'[p] = NoVersion
      /\ conns'[p] = conns[p] \ {"fetch"}
      /\ obj'[cur[p]] = r /\ \A o \in Objs : o # cur[p] => obj'[o] = obj[o]
      /\ lock'[cur[p]] = NoProc /\ \A o \in Objs : o # cur[p] => lock'[o] = lock[o]
  BY <1>0, <1>a DEF TypeOK, LocalTypes
<1>c. \A q \in Procs : Fetched(q)' => Fetched(q) /\ q # p /\ cur[q] # cur[p] /\ read'[q] = read[q]
  <2>1. \A q \in Procs : Fetched(q)' => Fetched(q) /\ q # p
    BY <1>b DEF Fetched
  <2>2. \A q \in Procs : Fetched(q) /\ q # p => cur[q] # cur[p]
    BY <1>0, <1>a DEF LockInv
  <2> QED
    BY <1>b, <2>1, <2>2
<1>d. \A o \in Objs, v \in Versions : AtLeast(o, v) => AtLeast(o, v)'
  <2>1. \A v \in Versions : AtLeast(cur[p], v) /\ r.tables \in Versions => v <= r.tables
    BY <1>0, <1>a, ConstantsAssumption DEF AtLeast, OrderInv, Versions
  <2> QED
    BY <1>a, <1>b, <1>c, <2>1 DEF AtLeast
<1>e. \A q \in Procs : Looking(q)' => Looking(q) /\ q # p /\ cur'[q] = cur[q] /\ low'[q] = low[q]
  BY <1>b DEF Looking
<1>2. LocalTypes'
  BY <1>0 DEF LocalTypes, Versions
<1>1. TypeOK'
  <2>1. pc' \in [Procs -> PCs] /\ cur' \in [Procs -> Objs \union {NoObj}]
    BY <1>0 DEF TypeOK, PCs
  <2>2. obj' \in [Objs -> [tables : Versions \union {NoVersion, Empty}, done : BOOLEAN, stale : BOOLEAN]]
    BY <1>0 DEF TypeOK, Objects
  <2>3. conns' \in [Procs -> SUBSET {"tx", "call", "fetch"}] /\ lock' \in [Objs -> Procs \union {NoProc}]
    BY <1>0 DEF TypeOK
  <2> QED
    BY <1>0, <2>1, <2>2, <2>3 DEF TypeOK
<1>3. CallInv'
  <2>1. \A q \in Procs : q # p => (Looking(q)' <=> Looking(q))
    BY <1>b DEF Looking
  <2>2. ~Looking(p)' /\ pc[p] # "finish" /\ pc'[p] # "finish"
    BY <1>b DEF Looking
  <2>3. made' = made /\ mine' = mine
    OBVIOUS
  <2> QED
    BY <1>0, <1>a, <1>b, <1>c, <2>1, <2>2, <2>3 DEF CallInv
<1>4. ConnInv'
  <2>1. kind' = kind /\ key' = key /\ pc'[p] = IF key[p] = "structures" THEN "read" ELSE "acquire"
    BY <1>0 DEF TypeOK
  <2> QED
    BY <1>0, <1>b, <2>1 DEF ConnInv, Looking
<1>5. TodoInv'
  <2>1. kind' = kind /\ key' = key /\ todo' = todo /\ pc'[p] = IF key[p] = "structures" THEN "read" ELSE "acquire"
    BY <1>0 DEF TypeOK
  <2> QED
    BY <1>0, <1>b, <2>1 DEF TodoInv
<1>6. LockInv'
  <2>1. \A q \in Procs : pc'[q] \in {"fetch", "singles"} => lock'[cur'[q]] = q /\ ~Usable(cur[q])'
    BY <1>0, <1>a, <1>b DEF LockInv, Usable, Looking
  <2>2. \A o \in Objs : lock'[o] # NoProc => pc'[lock'[o]] \in {"fetch", "singles"} /\ cur'[lock'[o]] = o
    <3>1. \A o \in Objs : lock'[o] # NoProc => o # cur[p] /\ lock'[o] = lock[o] /\ lock[o] \in Procs
      BY <1>0, <1>b DEF TypeOK
    <3> QED
      BY <1>0, <1>a, <1>b, <3>1 DEF LockInv
  <2> QED
    BY <2>1, <2>2 DEF LockInv
<1>7. ObjInv'
  <2>1. store' = store /\ made' = made /\ (failed => failed')
    OBVIOUS
  <2> QED
    BY <1>0, <1>a, <1>b, <2>1, ConstantsAssumption DEF ObjInv, TypeOK, Objs
<1>8. OrderInv'
  <2>1. schema' = schema /\ announced' = announced /\ mine' = mine
    OBVIOUS
  <2>2. \A o \in Objs : obj'[o].tables \in Versions => obj'[o].tables <= schema
    BY <1>0, <1>b DEF OrderInv
  <2>3. \A q \in Procs : Fetched(q)' => cur'[q] = cur[q] /\ cur[q] \in Objs /\ obj'[cur[q]] = obj[cur[q]]
    BY <1>a, <1>b, <1>c
  <2> QED
    BY <1>0, <1>c, <1>e, <2>1, <2>2, <2>3 DEF OrderInv
<1>9. StoreInv'
  <2>1. store' = store /\ announced' = announced /\ mine' = mine /\ todo' = todo
    OBVIOUS
  <2>2. \A q \in Procs : pc'[q] = "finish" => pc[q] = "finish"
    BY <1>b
  <2> QED
    BY <1>0, <1>d, <2>1, <2>2, KeepStore
<1>10. HandInv'
  BY <1>0, <1>d, <1>e, KeepHand
<1> QED
  BY <1>1, <1>2, <1>3, <1>4, <1>5, <1>6, <1>7, <1>8, <1>9, <1>10 DEF IInv

\* A query takes its connection and reads what the database shows, or stays with what
\* the list showed.
LEMMA AskStep ==
  ASSUME IInv, NEW p \in Procs, NEW versions, Ask(p, versions),
         \/ pc[p] = "fetch" /\ versions = {schema}
         \/ pc[p] = "singles" /\ versions = {read[p], schema},
         UNCHANGED <<schema, pending, store, made, expiries, kind, key, todo, mine, expired, count, announced, failed>>
  PROVE  IInv'
<1>0. TypeOK /\ LocalTypes /\ CallInv /\ ConnInv /\ TodoInv /\ LockInv /\ ObjInv /\ OrderInv /\ StoreInv /\ HandInv
  BY DEF IInv
<1>b. /\ \A q \in Procs : Looking(q) => cur[q] \in Objs /\ low[q] \in Versions
      /\ schema \in Versions /\ announced \in Versions /\ announced <= schema
      /\ \A q \in Procs : mine[q] \in Versions /\ mine[q] <= schema /\ (Looking(q) => low[q] <= schema)
  BY <1>0, ConstantsAssumption DEF CallInv, Looking, Objs, TypeOK, LocalTypes, OrderInv, Versions
<1>1. PICK v \in versions : read' = [read EXCEPT ![p] = v]
  BY DEF Ask
<1>2. /\ pc[p] \in {"fetch", "singles"} /\ Hold(p, "fetch")
      /\ UNCHANGED <<obj, lock, cur, answer, low, pc>>
  BY DEF Ask
<1>3. v = schema \/ (Fetched(p) /\ v = read[p])
  BY <1>1 DEF Fetched
<1>4. v \in Versions /\ v <= schema
  BY <1>0, <1>b, <1>3 DEF CallInv, OrderInv, Versions
<1>5. /\ conns'[p] = conns[p] \union {"fetch"} /\ read'[p] = v
      /\ \A q \in Procs : q # p => conns'[q] = conns[q] /\ read'[q] = read[q]
  BY <1>0, <1>1, <1>2 DEF Hold, TypeOK, LocalTypes
<1>6. \A q \in Procs : Fetched(q)' => cur[q] \in Objs /\ (q = p \/ Fetched(q))
  BY <1>b, <1>2, <1>5 DEF Fetched, Looking
<1>7. \A o \in Objs, w \in Versions : w <= schema /\ AtLeast(o, w) => AtLeast(o, w)'
  BY <1>2, <1>3, <1>5, <1>6 DEF AtLeast
<1>8. TypeOK'
  <2>1. conns' \in [Procs -> SUBSET {"tx", "call", "fetch"}]
    BY <1>0, <1>2 DEF Hold, TypeOK
  <2> QED
    BY <1>0, <1>2, <2>1 DEF TypeOK
<1>9. LocalTypes'
  BY <1>0, <1>1, <1>2, <1>4 DEF LocalTypes
<1>10. CallInv'
  BY <1>0, <1>2, <1>4, <1>5, <1>6 DEF CallInv, Looking
<1>11. ConnInv'
  BY <1>0, <1>2, <1>5 DEF ConnInv, Looking
<1>12. TodoInv' /\ LockInv' /\ ObjInv'
  BY <1>0, <1>2 DEF TodoInv, LockInv, ObjInv, Usable
<1>13. OrderInv'
  <2>1. \A q \in Procs : Fetched(q)' =>
          read'[q] <= schema /\ (obj[cur[q]].tables \in Versions => obj[cur[q]].tables <= read'[q])
    BY <1>0, <1>b, <1>3, <1>4, <1>5, <1>6 DEF OrderInv, Versions
  <2>2. \A q \in Procs : Looking(q)' <=> Looking(q)
    BY <1>2 DEF Looking
  <2> QED
    BY <1>0, <1>2, <2>1, <2>2 DEF OrderInv
<1>14. StoreInv'
  <2>1. \A k \in Keys : store[k] # NoObj => store[k] \in Objs
    BY <1>0 DEF TypeOK
  <2> QED
    BY <1>0, <1>b, <1>2, <1>7, <2>1 DEF StoreInv
<1>15. HandInv'
  <2>1. \A q \in Procs : Looking(q)' <=> Looking(q)
    BY <1>2 DEF Looking
  <2> QED
    BY <1>0, <1>b, <1>2, <1>7, <2>1 DEF HandInv
<1> QED
  BY <1>8, <1>9, <1>10, <1>11, <1>12, <1>13, <1>14, <1>15 DEF IInv

\* What the tables of a fetch are stored as.
LEMMA PublishedObject ==
  ASSUME NEW tables \in Versions \union {Empty}
  PROVE  /\ [tables |-> tables, done |-> TRUE, stale |-> FALSE] \in Objects
         /\ [tables |-> tables, done |-> TRUE, stale |-> FALSE].done
         /\ [tables |-> tables, done |-> TRUE, stale |-> FALSE].tables = tables
  BY DEF Objects

\* A fetch that stores the version it has read, or nothing after a failure.
LEMMA FetchedStep ==
  ASSUME IInv, NEW p \in Procs, NEW r \in Objects, pc[p] \in {"fetch", "singles"}, r.done,
         \/ Fetched(p) /\ r.tables = read[p] /\ failed' = failed
         \/ r.tables = Empty /\ failed' = TRUE,
         obj' = [obj EXCEPT ![cur[p]] = r],
         lock' = [lock EXCEPT ![cur[p]] = NoProc],
         read' = [read EXCEPT ![p] = NoVersion],
         low' = [low EXCEPT ![p] = NoVersion],
         cur' = [cur EXCEPT ![p] = NoObj],
         conns' = [conns EXCEPT ![p] = @ \ {"fetch"}],
         pc' = [pc EXCEPT ![p] = IF key[p] = "structures" THEN "read" ELSE "acquire"],
         UNCHANGED <<schema, pending, store, made, expiries, kind, key, todo, mine, expired, count, announced>>
  PROVE  IInv'
<1>0. LocalTypes /\ CallInv /\ OrderInv
  BY DEF IInv
<1>1. Empty \notin Versions /\ NoVersion \notin Versions /\ Empty # NoVersion
  BY ConstantsAssumption DEF Versions, Empty, NoVersion
<1>2. Fetched(p) => /\ read[p] \in Versions /\ read[p] <= read[p] /\ read[p] <= schema
                    /\ obj[cur[p]].tables \in Versions => obj[cur[p]].tables <= read[p]
  BY <1>0 DEF CallInv, OrderInv, Versions
<1>3. /\ r.tables # NoVersion
      /\ r.tables = Empty => failed'
      /\ r.tables \in Versions =>
           /\ r.tables <= schema
           /\ obj[cur[p]].tables \in Versions => obj[cur[p]].tables <= r.tables
           /\ (Fetched(p) /\ read[p] <= r.tables) \/ obj[cur[p]].tables = r.tables
  BY <1>1, <1>2
<1>4. failed' \in BOOLEAN /\ (failed => failed')
  BY <1>0 DEF LocalTypes
<1> QED
  BY <1>3, <1>4, PublishStep

\* A fetch that has read its version stores it.
LEMMA StoreStep ==
  ASSUME IInv, NEW p \in Procs, Fetched(p), Release(p, "fetch"), Publish(p, read[p]),
         UNCHANGED <<schema, pending, store, made, expiries, kind, key, todo, mine, expired, count, announced, failed>>
  PROVE  IInv'
<1> DEFINE r == [tables |-> read[p], done |-> TRUE, stale |-> FALSE]
<1>1. read[p] \in Versions /\ pc[p] \in {"fetch", "singles"}
  BY DEF IInv, CallInv, Fetched
<1>2. r \in Objects /\ r.done /\ r.tables = read[p]
  BY <1>1, PublishedObject
<1> HIDE DEF r
<1>3. obj' = [obj EXCEPT ![cur[p]] = r]
  BY DEF Publish, r
<1> QED
  BY <1>1, <1>2, <1>3, FetchedStep DEF Publish, Unlock, Answer, Goto, Release

\* A fetch takes its connection, or gives it back and publishes names, or goes on.
LEMMA FetchStep ==
  ASSUME IInv, NEW p \in Procs, Fetch(p)
  PROVE  IInv'
<1>0. TypeOK /\ LocalTypes /\ CallInv /\ ConnInv /\ TodoInv /\ LockInv /\ ObjInv /\ OrderInv /\ StoreInv /\ HandInv
  BY DEF IInv
<1>a. /\ pc[p] = "fetch" /\ pc[p] \in {"fetch", "singles"}
      /\ UNCHANGED <<schema, pending, store, made, expiries, kind, key, todo, mine, expired, count, announced, failed>>
  BY DEF Fetch
<1>1. CASE Ask(p, {schema})
  BY <1>a, <1>1, AskStep
<1>2. CASE /\ "fetch" \in conns[p] /\ Release(p, "fetch")
           /\ key[p] = "structures" /\ Goto(p, "singles")
           /\ UNCHANGED <<read, obj, lock, cur, answer, low>>
  <2>1. /\ conns'[p] = conns[p] \ {"fetch"} /\ pc'[p] = "singles"
        /\ \A q \in Procs : q # p => conns'[q] = conns[q] /\ pc'[q] = pc[q]
    BY <1>0, <1>2 DEF Release, Goto, TypeOK
  <2>2. \A q \in Procs : (Fetched(q)' <=> Fetched(q)) /\ (Looking(q)' <=> Looking(q))
    BY <1>a, <1>2, <2>1 DEF Fetched, Looking
  <2>3. \A o \in Objs, v \in Versions : AtLeast(o, v) => AtLeast(o, v)'
    BY <1>2, <2>2, KeepAtLeast
  <2>4. TypeOK'
    <3>1. conns' \in [Procs -> SUBSET {"tx", "call", "fetch"}] /\ pc' \in [Procs -> PCs]
      BY <1>0, <1>2 DEF Release, Goto, TypeOK, PCs
    <3> QED
      BY <1>0, <1>a, <1>2, <3>1 DEF TypeOK
  <2>5. LocalTypes'
    BY <1>0, <1>a, <1>2 DEF LocalTypes
  <2>6. CallInv'
    BY <1>0, <1>a, <1>2, <2>1, <2>2 DEF CallInv
  <2>7. ConnInv'
    BY <1>0, <1>a, <1>2, <2>1, <2>2 DEF ConnInv
  <2>8. TodoInv'
    BY <1>0, <1>a, <2>1 DEF TodoInv
  <2>9. LockInv' /\ ObjInv'
    <3>1. LockInv'
      BY <1>0, <1>a, <1>2, <2>1 DEF LockInv, Usable, TypeOK
    <3>2. ObjInv'
      BY <1>0, <1>a, <1>2 DEF ObjInv
    <3> QED
      BY <3>1, <3>2
  <2>10. OrderInv'
    BY <1>0, <1>a, <1>2, <2>2 DEF OrderInv
  <2>11. StoreInv'
    <3>1. \A q \in Procs : pc'[q] = "finish" => pc[q] = "finish"
      BY <2>1
    <3> QED
      BY <1>0, <1>a, <2>3, <3>1, KeepStore
  <2>12. HandInv'
    BY <1>0, <1>2, <2>2, <2>3, KeepHand
  <2> QED
    BY <2>4, <2>5, <2>6, <2>7, <2>8, <2>9, <2>10, <2>11, <2>12 DEF IInv
<1>3. CASE "fetch" \in conns[p] /\ Release(p, "fetch") /\ Publish(p, read[p])
  <2>1. Fetched(p)
    BY <1>a, <1>3 DEF Fetched
  <2> QED
    BY <1>a, <1>3, <2>1, StoreStep
<1> QED
  BY <1>1, <1>2, <1>3 DEF Fetch

\* The query for the table's structure.
LEMMA SinglesStep ==
  ASSUME IInv, NEW p \in Procs, Singles(p)
  PROVE  IInv'
<1>a. /\ pc[p] = "singles" /\ pc[p] \in {"fetch", "singles"} /\ Fetched(p)
      /\ UNCHANGED <<schema, pending, store, made, expiries, kind, key, todo, mine, expired, count, announced, failed>>
  BY DEF Singles, Fetched
<1>1. CASE Ask(p, {read[p], schema})
  BY <1>a, <1>1, AskStep
<1>2. CASE Release(p, "fetch") /\ Publish(p, read[p])
  BY <1>a, <1>2, StoreStep
<1> QED
  BY <1>1, <1>2 DEF Singles

\* It fails.
LEMMA SingleFailsStep ==
  ASSUME IInv, NEW p \in Procs, SingleFails(p)
  PROVE  IInv'
<1> DEFINE r == [tables |-> Empty, done |-> TRUE, stale |-> FALSE]
<1>1. r \in Objects /\ r.done /\ r.tables = Empty
  BY PublishedObject
<1> HIDE DEF r
<1>2. obj' = [obj EXCEPT ![cur[p]] = r]
  BY DEF SingleFails, Publish, r
<1> QED
  BY <1>1, <1>2, FetchedStep DEF SingleFails, Publish, Unlock, Answer, Goto, Release

\* A fetch fails, with a version read or not.
LEMMA FetchFailsStep ==
  ASSUME IInv, NEW p \in Procs, FetchFails(p)
  PROVE  IInv'
<1>0. TypeOK /\ LocalTypes /\ CallInv /\ ObjInv /\ OrderInv
  BY DEF IInv
<1> DEFINE r == AfterFailure(cur[p])
<1>1. pc[p] \in {"fetch", "singles"} /\ cur[p] \in Objs /\ failed'
  BY <1>0, ConstantsAssumption DEF FetchFails, CallInv, Looking, Objs, TypeOK
<1>2. r \in Objects /\ r.done /\ r.tables # NoVersion
      /\ (r.tables \in Versions => r.tables <= schema /\ r.tables = obj[cur[p]].tables)
  <2>1. CASE obj[cur[p]].done
    BY <1>0, <1>1, <2>1 DEF AfterFailure, TypeOK, Objects, ObjInv, OrderInv
  <2>2. CASE ~obj[cur[p]].done
    BY <1>0, <1>1, <2>2, ConstantsAssumption DEF AfterFailure, Objects, Versions, NoVersion, Empty
  <2> QED
    BY <2>1, <2>2
<1> HIDE DEF r
<1>3. obj' = [obj EXCEPT ![cur[p]] = r]
  BY DEF FetchFails, r
<1>4. /\ lock' = [lock EXCEPT ![cur[p]] = NoProc] /\ read' = [read EXCEPT ![p] = NoVersion]
      /\ low' = [low EXCEPT ![p] = NoVersion] /\ cur' = [cur EXCEPT ![p] = NoObj]
      /\ conns' = [conns EXCEPT ![p] = @ \ {"fetch"}] /\ failed' \in BOOLEAN
      /\ pc' = [pc EXCEPT ![p] = IF key[p] = "structures" THEN "read" ELSE "acquire"]
      /\ UNCHANGED <<schema, pending, store, made, expiries, kind, key, todo, mine, expired, count, announced>>
  BY DEF FetchFails, Unlock, Answer, Goto, Release
<1>5. /\ r.tables = Empty => failed'
      /\ r.tables \in Versions =>
           /\ r.tables <= schema
           /\ obj[cur[p]].tables \in Versions => obj[cur[p]].tables <= r.tables
           /\ (Fetched(p) /\ read[p] <= r.tables) \/ obj[cur[p]].tables = r.tables
      /\ failed => failed'
  BY <1>0, <1>1, <1>2 DEF Versions
<1> QED
  BY <1>1, <1>2, <1>3, <1>4, <1>5, PublishStep

-----------------------------------------------------------------------------
(***************************************************************************)
(* The theorems.                                                           *)
(***************************************************************************)

\* A step that changes nothing keeps the invariant.
LEMMA StutterStep ==
  ASSUME IInv, UNCHANGED vars
  PROVE  IInv'
<1>1. TypeOK' /\ LocalTypes' /\ CallInv' /\ ConnInv'
  BY DEF IInv, TypeOK, LocalTypes, CallInv, ConnInv, Looking, Fetched, vars, database, caches,
     callVars, history
<1>2. TodoInv' /\ LockInv' /\ ObjInv' /\ OrderInv'
  BY DEF IInv, TodoInv, LockInv, ObjInv, OrderInv, Usable, Looking, Fetched, vars, database,
     caches, callVars, history
<1>3. StoreInv' /\ HandInv'
  BY DEF IInv, StoreInv, HandInv, AtLeast, Looking, Fetched, vars, database, caches, callVars,
     history
<1> QED
  BY <1>1, <1>2, <1>3 DEF IInv

\* Every step of the specification keeps it.
LEMMA NextIInv == IInv /\ [Next]_vars => IInv'
<1> SUFFICES ASSUME IInv, [Next]_vars PROVE IInv'
  OBVIOUS
<1>1. ASSUME NEW p \in Procs, Call(p) \/ Proceed(p) \/ FetchFails(p) \/ SingleFails(p) \/ TypesFail(p) \/ Deadline(p)
      PROVE  IInv'
  <2>1. ASSUME Proceed(p) PROVE IInv'
    BY <2>1, LoadStep, PeekStep, LockStep, FetchStep, SinglesStep, AcquireStep, TypesStep, ReadStep,
       DdlExecStep, DdlFailsStep, ContextDoneStep, InvalidateStep, DdlReturnsStep, ReturnStep DEF Proceed
  <2> QED
    BY <1>1, <2>1, CallStep, FetchFailsStep, SingleFailsStep, TypesFailStep, DeadlineStep
<1>2. ASSUME NEW p \in TxProcs, Begin(p) \/ End(p) PROVE IInv'
  BY <1>2, BeginStep, EndStep, ConstantsAssumption
<1>3. ASSUME NEW o \in Objs, Expire(o) PROVE IInv'
  BY <1>3, ExpireStep
<1> QED
  BY <1>1, <1>2, <1>3, StutterStep DEF Next

\* The invariant holds in every state.
THEOREM Invariance == Spec => []IInv
  BY InitIInv, NextIInv, PTL DEF Spec

\* Types are kept, whatever the goroutines, the pool's size and the numbers of
\* changes, objects and expiries.
THEOREM TypeCorrect == Spec => []TypeOK
<1>1. IInv => TypeOK
  BY DEF IInv
<1> QED
  BY <1>1, Invariance, PTL

\* Only the holder of an object's lock asks the database for its tables, and only
\* while they are missing or stale (tableNameSet, tableStructureSet).
THEOREM FlightsAreSingle == Spec => []SingleFlight
<1>1. IInv => SingleFlight
  BY DEF IInv, LockInv, SingleFlight
<1> QED
  BY <1>1, Invariance, PTL

\* Every way out of a call, an error's, a deadline's and a failed fetch's included,
\* gives back the connections it took.
THEOREM ConnectionsAreReturned == Spec => []ConnectionsReturned
<1>1. IInv => ConnectionsReturned
  BY DEF IInv, ConnInv, TypeOK, Looking, ConnectionsReturned
<1> QED
  BY <1>1, Invariance, PTL

\* What a step does to the cache objects and to what FreshLookup sees, in the
\* states of the invariant: the steps that answer a look-up.
LEMMA PublishFacts ==
  ASSUME IInv, NEW p \in Procs, Fetched(p),
         obj' = [obj EXCEPT ![cur[p]] = [tables |-> read[p], done |-> TRUE, stale |-> FALSE]]
  PROVE  /\ read[p] \in low[p]..schema
         /\ \A o \in Objs : obj[o].tables \in Versions =>
              obj[o].tables <= obj'[o].tables /\ obj'[o].tables \in Versions
<1>0. TypeOK /\ CallInv /\ OrderInv /\ HandInv
  BY DEF IInv
<1>1. read[p] \in Versions /\ cur[p] \in Objs /\ low[p] \in Versions /\ Looking(p) /\ schema \in Versions
  BY <1>0, ConstantsAssumption DEF CallInv, Fetched, Looking, Objs, TypeOK
<1>2. low[p] <= read[p]
  BY <1>0, <1>1 DEF HandInv, AtLeast
<1>3. read[p] <= schema /\ (obj[cur[p]].tables \in Versions => obj[cur[p]].tables <= read[p])
  BY <1>0 DEF OrderInv
<1>4. read[p] \in low[p]..schema
  BY <1>1, <1>2, <1>3, ConstantsAssumption DEF Versions
<1>5. /\ obj'[cur[p]].tables = read[p]
      /\ \A o \in Objs : o # cur[p] => obj'[o] = obj[o]
  BY <1>0, <1>1 DEF TypeOK
<1>6. \A o \in Objs : obj[o].tables \in Versions =>
        obj[o].tables <= obj'[o].tables /\ obj'[o].tables \in Versions
  BY <1>1, <1>3, <1>5 DEF Versions
<1> QED
  BY <1>4, <1>6

\* A failed fetch keeps a known set, and answers with it, or with an empty one.
LEMMA FailureFacts ==
  ASSUME IInv, NEW p \in Procs, FetchFails(p)
  PROVE  /\ obj'[cur[p]].tables \in (low[p]..schema) \union {Empty}
         /\ \A o \in Objs : obj[o].tables \in Versions => obj'[o].tables = obj[o].tables
<1>0. TypeOK /\ CallInv /\ ObjInv /\ OrderInv /\ HandInv
  BY DEF IInv
<1>1. cur[p] \in Objs /\ low[p] \in Versions /\ Looking(p) /\ schema \in Versions
  BY <1>0, ConstantsAssumption DEF FetchFails, CallInv, Looking, Objs, TypeOK
<1>2. /\ obj'[cur[p]] = AfterFailure(cur[p])
      /\ \A o \in Objs : o # cur[p] => obj'[o] = obj[o]
  BY <1>0, <1>1 DEF FetchFails, TypeOK
<1>3. CASE obj[cur[p]].done
  <2>1. obj'[cur[p]] = obj[cur[p]]
    BY <1>2, <1>3 DEF AfterFailure
  <2>2. obj[cur[p]].tables \in Versions \union {Empty}
    BY <1>0, <1>1, <1>3 DEF ObjInv, TypeOK
  <2>3. obj[cur[p]].tables \in Versions => obj[cur[p]].tables \in low[p]..schema
    BY <1>0, <1>1, ConstantsAssumption DEF HandInv, AtLeast, OrderInv, Versions
  <2> QED
    BY <1>2, <2>1, <2>2, <2>3
<1>4. CASE ~obj[cur[p]].done
  <2>1. obj'[cur[p]].tables = Empty
    BY <1>2, <1>4 DEF AfterFailure
  <2>2. obj[cur[p]].tables \notin Versions
    BY <1>0, <1>1, <1>4, ConstantsAssumption DEF ObjInv, Versions, NoVersion
  <2> QED
    BY <1>2, <2>1, <2>2
<1> QED
  BY <1>3, <1>4

\* The query for one table is one for its structure.
SinglesForStructures == \A p \in Procs : pc[p] = "singles" => key[p] = "structures"

\* That too is invariant.
LEMMA SinglesForStructuresStep == TypeOK /\ SinglesForStructures /\ [Next]_vars => SinglesForStructures'
<1> SUFFICES ASSUME TypeOK, SinglesForStructures, [Next]_vars PROVE SinglesForStructures'
  OBVIOUS
<1>s. ASSUME UNCHANGED <<pc, key>> PROVE SinglesForStructures'
  BY <1>s DEF SinglesForStructures
<1>1. ASSUME NEW p \in Procs, Call(p) \/ Proceed(p) \/ FetchFails(p) \/ SingleFails(p) \/ TypesFail(p) \/ Deadline(p)
      PROVE  SinglesForStructures'
  <2>1. \A q \in Procs : q # p => pc'[q] = pc[q] /\ key'[q] = key[q]
    <3>1. CASE Call(p) \/ Load(p) \/ Peek(p) \/ Lock(p) \/ Fetch(p) \/ Singles(p) \/ FetchFails(p) \/ SingleFails(p)
      BY <3>1 DEF Call, Load, Peek, Lock, Fetch, Singles, FetchFails, SingleFails, Ask, Publish, Answer, Goto, TypeOK
    <3>2. CASE ~(Call(p) \/ Load(p) \/ Peek(p) \/ Lock(p) \/ Fetch(p) \/ Singles(p) \/ FetchFails(p) \/ SingleFails(p))
      BY <1>1, <3>2 DEF Proceed, Acquire, Types, Read, DdlExec, DdlFails, Doing, ContextDone, Invalidate,
         DdlReturns, Return, TypesFail, Deadline, Goto, TypeOK
    <3> QED
      BY <3>1, <3>2
  <2>2. pc'[p] = "singles" => key'[p] = "structures"
    <3>1. CASE Call(p) \/ Load(p) \/ Peek(p) \/ Lock(p) \/ Fetch(p) \/ Singles(p) \/ FetchFails(p) \/ SingleFails(p)
      BY <3>1 DEF Call, Load, Peek, Lock, Fetch, Singles, FetchFails, SingleFails, Ask, Publish, Answer, Goto, TypeOK,
         SinglesForStructures
    <3>2. CASE ~(Call(p) \/ Load(p) \/ Peek(p) \/ Lock(p) \/ Fetch(p) \/ Singles(p) \/ FetchFails(p) \/ SingleFails(p))
      BY <1>1, <3>2 DEF Proceed, Acquire, Types, Read, DdlExec, DdlFails, Doing, ContextDone, Invalidate,
         DdlReturns, Return, TypesFail, Deadline, Goto, TypeOK, SinglesForStructures
    <3> QED
      BY <3>1, <3>2
  <2> QED
    BY <2>1, <2>2 DEF SinglesForStructures
<1>2. ASSUME NEW p \in TxProcs, Begin(p) \/ End(p) PROVE SinglesForStructures'
  BY <1>s, <1>2 DEF Begin, End, callVars
<1>3. ASSUME NEW o \in Objs, Expire(o) PROVE SinglesForStructures'
  BY <1>s, <1>3 DEF Expire, callVars
<1>4. CASE UNCHANGED vars
  BY <1>s, <1>4 DEF vars, callVars
<1> QED
  BY <1>1, <1>2, <1>3, <1>4 DEF Next

\* What is known of a table is lost only when the query for its own structure fails.
LEMMA SingleFailureFacts ==
  ASSUME IInv, SinglesForStructures, NEW p \in Procs, SingleFails(p)
  PROVE  /\ lock[cur[p]] = p /\ pc[p] = "singles" /\ key[p] = "structures"
         /\ obj'[cur[p]].tables = Empty
         /\ \A o \in Objs : o # cur[p] => obj'[o] = obj[o]
<1>1. cur[p] \in Objs
  BY ConstantsAssumption DEF IInv, SingleFails, CallInv, Looking, Objs, TypeOK
<1> QED
  BY <1>1 DEF IInv, LockInv, SingleFails, Publish, SinglesForStructures, TypeOK

\* A failing list of tables loses nothing, a newer one replaces an older; a structure
\* is lost to the failure of the query for that table alone, a name never.
THEOREM KnownSetsAreKept == Spec => KnownSetKept
<1> DEFINE Kept == \A o \in Objs : obj[o].tables \in Versions =>
                     \/ obj[o].tables <= obj'[o].tables /\ obj'[o].tables \in Versions
                     \/ /\ obj'[o].tables = Empty
                        /\ \E p \in Procs : lock[o] = p /\ pc[p] = "singles" /\ key[p] = "structures"
<1>1. IInv /\ SinglesForStructures /\ [Next]_vars => Kept
  <2> SUFFICES ASSUME IInv, SinglesForStructures, [Next]_vars PROVE Kept
    OBVIOUS
  <2>1. ASSUME \A o \in Objs : obj[o].tables \in Versions => obj'[o].tables = obj[o].tables PROVE Kept
    BY <2>1, ConstantsAssumption DEF Versions
  <2>2. ASSUME NEW p \in Procs, Call(p) \/ Proceed(p) \/ FetchFails(p) \/ SingleFails(p) \/ TypesFail(p) \/ Deadline(p)
        PROVE Kept
    <3>1. CASE Fetch(p) \/ Singles(p)
      <4>1. CASE obj' = obj
        BY <2>1, <4>1
      <4>2. CASE obj' # obj
        <5>1. Fetched(p)
          BY <3>1, <4>2 DEF Fetch, Singles, Ask, Fetched
        <5>2. obj' = [obj EXCEPT ![cur[p]] = [tables |-> read[p], done |-> TRUE, stale |-> FALSE]]
          BY <3>1, <4>2 DEF Fetch, Singles, Ask, Publish
        <5> QED
          BY <5>1, <5>2, PublishFacts
      <4> QED
        BY <4>1, <4>2
    <3>2. CASE FetchFails(p)
      BY <2>1, <3>2, FailureFacts
    <3>3. CASE SingleFails(p)
      <4>1. TypeOK
        BY DEF IInv
      <4>2. \A o \in Objs : o # cur[p] /\ obj[o].tables \in Versions =>
              obj[o].tables <= obj'[o].tables /\ obj'[o].tables \in Versions
        BY <3>3, SingleFailureFacts, ConstantsAssumption DEF Versions
      <4> QED
        BY <3>3, <4>2, SingleFailureFacts
    <3>4. CASE ~(Fetch(p) \/ Singles(p) \/ FetchFails(p) \/ SingleFails(p))
      <4>1. obj' = obj
        BY <2>2, <3>4 DEF Proceed, Call, Load, Peek, Lock, Acquire, Types, Read, DdlExec, DdlFails,
           ContextDone, Invalidate, DdlReturns, Return, TypesFail, Deadline, caches
      <4> QED
        BY <2>1, <4>1
    <3> QED
      BY <3>1, <3>2, <3>3, <3>4
  <2>3. ASSUME NEW p \in TxProcs, Begin(p) \/ End(p) PROVE Kept
    BY <2>1, <2>3 DEF Begin, End, caches
  <2>4. ASSUME NEW o \in Objs, Expire(o) PROVE Kept
    <3>1. obj' = [obj EXCEPT ![o] = [obj[o] EXCEPT !.stale = TRUE]] /\ obj[o] \in Objects /\ TypeOK
      BY <2>4 DEF Expire, IInv, TypeOK, Objects
    <3>2. [obj[o] EXCEPT !.stale = TRUE].tables = obj[o].tables
      BY <3>1, StaleObject
    <3> DEFINE r == [obj[o] EXCEPT !.stale = TRUE]
    <3>3. obj' = [obj EXCEPT ![o] = r] /\ r.tables = obj[o].tables
      BY <3>1, <3>2
    <3> HIDE DEF r
    <3>4. \A x \in Objs : obj'[x].tables = obj[x].tables
      BY <3>1, <3>3 DEF TypeOK
    <3> QED
      BY <2>1, <3>4
  <2>5. CASE UNCHANGED vars
    BY <2>1, <2>5 DEF vars, caches
  <2> QED
    BY <2>2, <2>3, <2>4, <2>5 DEF Next
<1>2. Init => SinglesForStructures
  BY DEF Init, SinglesForStructures
<1>3. IInv => TypeOK
  BY DEF IInv
<1>4. Spec => []SinglesForStructures
  BY <1>2, <1>3, Invariance, SinglesForStructuresStep, PTL DEF Spec
<1> QED
  BY <1>1, <1>4, Invariance, PTL DEF Spec, KnownSetKept

\* An answer within what the look-up may rely on is one of FreshLookup.
LEMMA AnswerMaps ==
  ASSUME TypeOK, LocalTypes, CallInv, NEW p \in Procs, Looking(p),
         NEW t \in (low[p]..schema) \union {Empty}, t = Empty => failed',
         failed' \in {failed, TRUE},
         answer' = [answer EXCEPT ![p] = t],
         low' = [low EXCEPT ![p] = NoVersion],
         schema' = schema, announced' = announced
  PROVE  Fresh!Next
<1>1. low[p] # NoVersion
  BY ConstantsAssumption DEF CallInv, Versions, NoVersion
<1>2. Fresh!Answer(p)
  BY <1>1 DEF Fresh!Answer
<1> QED
  BY <1>2 DEF Fresh!Next

\* Every step of a goroutine or a timer is a step of FreshLookup or none.
LEMMA NextMaps == IInv /\ [Next]_vars => [Fresh!Next]_(Fresh!vars)
<1> SUFFICES ASSUME IInv, [Next]_vars PROVE [Fresh!Next]_(Fresh!vars)
  OBVIOUS
<1> DEFINE Maps == [Fresh!Next]_(Fresh!vars)
<1>0. TypeOK /\ LocalTypes /\ CallInv /\ TodoInv /\ LockInv /\ ObjInv /\ OrderInv /\ HandInv
  BY DEF IInv
<1>s. ASSUME UNCHANGED <<schema, announced, failed, low, answer>> PROVE Maps
  BY <1>s DEF Fresh!vars
<1>c. ASSUME schema' = schema + 1, schema < MaxVersion, UNCHANGED history PROVE Maps
  BY <1>c DEF Fresh!Next, Fresh!Change, history
<1>1. ASSUME NEW p \in Procs, Call(p) \/ Proceed(p) \/ FetchFails(p) \/ SingleFails(p) \/ TypesFail(p) \/ Deadline(p) PROVE Maps
  <2>1. CASE Load(p)
    <3>1. low[p] = NoVersion
      BY <1>0, <2>1 DEF Load, CallInv, Looking
    <3>2. Fresh!Ask(p)
      BY <2>1, <3>1 DEF Load, Fresh!Ask, database
    <3> QED
      BY <3>2 DEF Fresh!Next
  <2>2. CASE Peek(p) \/ Lock(p)
    <3>1. CASE Usable(cur[p])
      <4>1. /\ Looking(p) /\ cur[p] \in Objs /\ low[p] \in Versions /\ obj[cur[p]].tables # NoVersion
            /\ obj[cur[p]].tables \in Versions \union {NoVersion, Empty}
        BY <1>0, <2>2, <3>1, ConstantsAssumption
        DEF Peek, Lock, Looking, CallInv, ObjInv, TypeOK, Objs, Usable
      <4>2. /\ obj[cur[p]].tables \in (low[p]..schema) \union {Empty}
            /\ obj[cur[p]].tables = Empty => failed
        BY <1>0, <4>1, ConstantsAssumption DEF HandInv, AtLeast, OrderInv, ObjInv, TypeOK, Versions
      <4>3. /\ answer' = [answer EXCEPT ![p] = obj[cur[p]].tables]
            /\ low' = [low EXCEPT ![p] = NoVersion]
            /\ schema' = schema /\ announced' = announced /\ failed' = failed
        BY <2>2, <3>1 DEF Peek, Lock, Answer, database
      <4>4. failed' \in {failed, TRUE} /\ (obj[cur[p]].tables = Empty => failed')
        BY <4>2, <4>3
      <4> QED
        BY <1>0, <4>1, <4>2, <4>3, <4>4, AnswerMaps
    <3>2. CASE ~Usable(cur[p])
      BY <1>s, <2>2, <3>2 DEF Peek, Lock, database
    <3> QED
      BY <3>1, <3>2
  <2>3. CASE Fetch(p) \/ Singles(p)
    <3>1. CASE UNCHANGED <<answer, low>>
      BY <1>s, <2>3, <3>1 DEF Fetch, Singles
    <3>2. CASE ~UNCHANGED <<answer, low>>
      <4>1. Fetched(p) /\ Looking(p)
        BY <2>3, <3>2 DEF Fetch, Singles, Ask, Fetched, Looking
      <4>2. /\ obj' = [obj EXCEPT ![cur[p]] = [tables |-> read[p], done |-> TRUE, stale |-> FALSE]]
            /\ answer' = [answer EXCEPT ![p] = read[p]]
            /\ low' = [low EXCEPT ![p] = NoVersion]
            /\ schema' = schema /\ announced' = announced /\ failed' = failed
        BY <2>3, <3>2 DEF Fetch, Singles, Ask, Publish, Answer
      <4>3. read[p] \in low[p]..schema /\ read[p] \in Versions
        BY <1>0, <4>1, <4>2, PublishFacts DEF CallInv
      <4>4. read[p] # Empty /\ failed' \in {failed, TRUE}
        BY <4>2, <4>3, ConstantsAssumption DEF Versions, Empty
      <4> QED
        BY <1>0, <4>1, <4>2, <4>3, <4>4, AnswerMaps
    <3> QED
      BY <3>1, <3>2
  <2>4. CASE FetchFails(p)
    <3> DEFINE t == obj'[cur[p]].tables
    <3>1. t \in (low[p]..schema) \union {Empty} /\ Looking(p)
      BY <2>4, FailureFacts DEF FetchFails, Looking
    <3>2. /\ answer' = [answer EXCEPT ![p] = t]
          /\ low' = [low EXCEPT ![p] = NoVersion]
          /\ schema' = schema /\ announced' = announced /\ failed' \in {failed, TRUE} /\ failed'
      BY <2>4 DEF FetchFails, Answer
    <3> HIDE DEF t
    <3> QED
      BY <1>0, <3>1, <3>2, AnswerMaps
  <2>5. CASE DdlExec(p)
    <3>1. schema' = schema \/ (schema' = schema + 1 /\ schema < MaxVersion)
      BY <2>5 DEF DdlExec
    <3>2. UNCHANGED history
      BY <2>5 DEF DdlExec
    <3> QED
      BY <1>s, <1>c, <3>1, <3>2 DEF history
  <2>6. CASE DdlReturns(p)
    <3>1. mine[p] <= schema /\ announced <= schema /\ mine[p] \in Nat /\ announced \in Nat /\ schema \in Nat
      BY <1>0 DEF OrderInv, LocalTypes, TypeOK, Versions
    <3>2. announced' \in announced..schema
      BY <2>6, <3>1 DEF DdlReturns
    <3>3. UNCHANGED <<schema, failed, low, answer>>
      BY <2>6 DEF DdlReturns, database
    <3> QED
      BY <3>2, <3>3 DEF Fresh!Announce, Fresh!Next
  <2>7. CASE Return(p)
    <3>1. low[p] = NoVersion
      BY <1>0, <2>7 DEF Return, CallInv, Looking
    <3>2. Fresh!Forget(p)
      BY <2>7, <3>1 DEF Return, Fresh!Forget, database
    <3> QED
      BY <3>2 DEF Fresh!Next
  <2>8. CASE \/ Call(p) \/ Acquire(p) \/ Types(p) \/ TypesFail(p) \/ Read(p) \/ Deadline(p)
             \/ ContextDone(p) \/ DdlFails(p) \/ \E k \in Keys : Invalidate(p, k)
    <3>1. UNCHANGED <<schema, announced, failed, low, answer>>
      BY <2>8 DEF Call, Acquire, Types, TypesFail, Read, Deadline, ContextDone, DdlFails,
         Invalidate, database, history
    <3> QED
      BY <1>s, <3>1
  <2>9. CASE SingleFails(p)
    <3>1. Looking(p) /\ Empty \in (low[p]..schema) \union {Empty}
      BY <2>9 DEF SingleFails, Looking
    <3>2. /\ answer' = [answer EXCEPT ![p] = Empty]
          /\ low' = [low EXCEPT ![p] = NoVersion]
          /\ schema' = schema /\ announced' = announced /\ failed' \in {failed, TRUE} /\ failed'
      BY <2>9 DEF SingleFails, Publish, Answer
    <3> QED
      BY <1>0, <3>1, <3>2, AnswerMaps
  <2> QED
    BY <1>1, <2>1, <2>2, <2>3, <2>4, <2>5, <2>6, <2>7, <2>8, <2>9 DEF Proceed
<1>2. ASSUME NEW p \in TxProcs, Begin(p) PROVE Maps
  BY <1>s, <1>2 DEF Begin, history
<1>3. ASSUME NEW p \in TxProcs, End(p) PROVE Maps
  <2>1. (schema' = schema \/ (schema' = schema + 1 /\ schema < MaxVersion)) /\ UNCHANGED history
    BY <1>3 DEF End
  <2> QED
    BY <1>s, <1>c, <2>1 DEF history
<1>4. ASSUME NEW o \in Objs, Expire(o) PROVE Maps
  BY <1>s, <1>4 DEF Expire, database, history
<1>5. CASE UNCHANGED vars
  BY <1>s, <1>5 DEF vars, database, history
<1> QED
  BY <1>1, <1>2, <1>3, <1>4, <1>5 DEF Next

\* A look-up that begins after a DDL statement has returned sees its change: the
\* caches implement FreshLookup.
THEOREM LookupsAreFresh == Spec => LookupsFresh
<1>1. Init => Fresh!Init
  BY DEF Init, Fresh!Init
<1> QED
  BY <1>1, NextMaps, Invariance, PTL DEF Spec, LookupsFresh, Fresh!Spec

-----------------------------------------------------------------------------
(***************************************************************************)
(* Those who wait.  CallsReturn needs the deadlines: a goroutine may keep  *)
(* a connection while it waits for an object's lock, whose holder waits    *)
(* for a connection.  That no longer chain of waiting than this exists is  *)
(* a safety property.                                                      *)
(***************************************************************************)

\* In mu.RLock or mu.Lock of an object that is locked for writing.
WaitsForLock(p) == pc[p] \in {"peek", "lock"} /\ lock[cur[p]] # NoProc

\* A goroutine never holds the locks of two objects, and one lock only while it
\* fetches.
OneLockEach ==
  /\ \A o, r \in Objs : lock[o] # NoProc /\ lock[o] = lock[r] => o = r
  /\ \A o \in Objs : lock[o] # NoProc => lock[o] \in Procs /\ pc[lock[o]] \in {"fetch", "singles"}

\* Who waits for a lock waits for a goroutine that fetches the same object and
\* waits for no lock itself.
WaitsAreShort ==
  \A p \in Procs : WaitsForLock(p) =>
    LET holder == lock[cur[p]]
    IN  /\ holder \in Procs \ {p}
        /\ cur[holder] = cur[p]
        /\ ~WaitsForLock(holder)

\* Waiting for the lock of a cache object is never circular: the holder fetches
\* that object, holds no other lock, and waits for nothing but a connection, which
\* withExecTimeout's deadline ends.
THEOREM LocksNeverCycle == Spec => [](OneLockEach /\ WaitsAreShort)
<1>1. IInv => OneLockEach /\ WaitsAreShort
  <2> SUFFICES ASSUME IInv PROVE OneLockEach /\ WaitsAreShort
    OBVIOUS
  <2>0. TypeOK /\ CallInv /\ LockInv
    BY DEF IInv
  <2>1. OneLockEach
    BY <2>0 DEF LockInv, OneLockEach, TypeOK
  <2>2. ASSUME NEW p \in Procs, WaitsForLock(p)
        PROVE  /\ lock[cur[p]] \in Procs \ {p}
               /\ cur[lock[cur[p]]] = cur[p]
               /\ ~WaitsForLock(lock[cur[p]])
    <3>1. cur[p] \in Objs
      BY <2>0, <2>2, ConstantsAssumption DEF WaitsForLock, CallInv, Looking, TypeOK, Objs
    <3> DEFINE h == lock[cur[p]]
    <3>2. h \in Procs /\ pc[h] \in {"fetch", "singles"} /\ cur[h] = cur[p]
      BY <2>0, <2>2, <3>1 DEF LockInv, WaitsForLock, TypeOK
    <3> QED
      BY <2>2, <3>2 DEF WaitsForLock
  <2> QED
    BY <2>1, <2>2 DEF WaitsAreShort
<1> QED
  BY <1>1, Invariance, PTL

===============================================================================
