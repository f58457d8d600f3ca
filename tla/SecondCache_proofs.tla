------------------------- MODULE SecondCache_proofs -------------------------
(***************************************************************************)
(* The freshness of cleanly read entries of the second-level cache, for    *)
(* any number of goroutines, transactions, namespaces, statements and      *)
(* parameters and any bounds.                                              *)
(***************************************************************************)
EXTENDS SecondCache, TLAPS

-----------------------------------------------------------------------------
(***************************************************************************)
(* The inductive invariant.                                                *)
(***************************************************************************)

\* What the locals of a goroutine hold where.
CallInv == \A p \in Procs :
  /\ pc[p] # "idle" => call[p] \in Calls
  /\ pc[p] = "fill" => got[p] # None
  /\ pc[p] # "fill" => got[p] = None

\* A clean read is current, and nothing is about to outdate it: no write of its
\* namespace is under way, in a transaction or out of one.
ReadInv == \A p \in Procs :
  got[p] # None /\ got[p].clean =>
    /\ ~InProgress(call[p].ns)
    /\ got[p].ver = db[call[p].ns]

\* A clean entry is about to be flushed, or it is current and no transaction
\* that has flushed already can outdate it by committing.
EntryInv == enabled =>
  \A n \in Namespaces, s \in Ids :
    caches[n][s] # None /\ caches[n][s].read.clean =>
      \/ Flushing(n)
      \/ /\ caches[n][s].read.ver = db[n]
         /\ \A p \in Procs : n \notin pending[p]

IInv == TypeOK /\ CallInv /\ ReadInv /\ EntryInv

\* The invariant holds initially.
LEMMA InitIInv == Init => IInv
  BY ConstantsAssumption
  DEF Init, IInv, TypeOK, CallInv, ReadInv, EntryInv, EmptyCache, PCs

-----------------------------------------------------------------------------
(***************************************************************************)
(* Every step preserves it.                                                *)
(***************************************************************************)

\* Spoiling a read or an entry changes nothing but its cleanness.
LEMMA Spoiled ==
  /\ \A r \in Reads : [r EXCEPT !.clean = FALSE] \in Reads
                      /\ ~[r EXCEPT !.clean = FALSE].clean
  /\ \A e \in Entries : [e EXCEPT !.read.clean = FALSE] \in Entries
                        /\ ~[e EXCEPT !.read.clean = FALSE].read.clean
  BY DEF Reads, Entries

\* SpoilReads keeps the types and what a goroutine holds; reads of the
\* namespace are not clean after it, and the others are as they were.
LEMMA SpoilReadsEffect ==
  ASSUME TypeOK, NEW n \in Namespaces, SpoilReads(n)
  PROVE  /\ got' \in [Procs -> Reads \union {None}]
         /\ \A r \in Procs :
              /\ got'[r] = None <=> got[r] = None
              /\ got'[r] # None /\ got'[r].clean => got'[r] = got[r] /\ call[r].ns # n
<1>1. \A r \in Procs : got[r] \in Reads \union {None}
  BY DEF TypeOK
<1>2. ASSUME NEW r \in Procs
      PROVE  /\ got'[r] \in Reads \union {None}
             /\ got'[r] = None <=> got[r] = None
             /\ got'[r] # None /\ got'[r].clean => got'[r] = got[r] /\ call[r].ns # n
  <2>1. CASE got[r] # None /\ call[r].ns = n
    <3>1. got[r] \in Reads
      BY <1>1, <2>1
    <3>2. got'[r] = [got[r] EXCEPT !.clean = FALSE]
      BY <2>1 DEF SpoilReads
    <3> QED
      BY <2>1, <3>1, <3>2, Spoiled, NoneAssumption
  <2>2. CASE ~(got[r] # None /\ call[r].ns = n)
    BY <1>1, <2>2 DEF SpoilReads
  <2> QED
    BY <2>1, <2>2
<1>3. got' = [r \in Procs |-> got'[r]]
  BY DEF SpoilReads
<1> QED
  BY <1>2, <1>3

\* Selects that miss.
LEMMA SelectMissStep ==
  ASSUME IInv, NEW p \in Procs, SelectMiss(p)
  PROVE  IInv'
<1> USE DEF IInv
<1>1. PICK c \in Calls : call' = [call EXCEPT ![p] = c]
  BY DEF SelectMiss
<1>2. TypeOK'
  BY <1>1 DEF SelectMiss, TypeOK, Goto, PCs
<1>3. CallInv'
  BY <1>1 DEF SelectMiss, TypeOK, Goto, CallInv
<1>4. \A n : InProgress(n)' => InProgress(n)
  BY <1>1 DEF SelectMiss, TypeOK, Goto, InProgress, Flushing
<1>5. ReadInv'
  BY <1>1, <1>4 DEF SelectMiss, TypeOK, CallInv, ReadInv
<1>6. \A n : Flushing(n) => Flushing(n)'
  BY <1>1 DEF SelectMiss, TypeOK, Goto, Flushing
<1>7. EntryInv'
  BY <1>6 DEF SelectMiss, EntryInv
<1> QED
  BY <1>2, <1>3, <1>5, <1>7

LEMMA QueryStep ==
  ASSUME IInv, NEW p \in Procs, Query(p)
  PROVE  IInv'
<1> USE DEF IInv
<1> DEFINE n == call[p].ns
           r == [ver |-> IF n \in pending[p] THEN db[n] + 1 ELSE db[n], clean |-> ~InProgress(n)]
<1>1. n \in Namespaces
  BY DEF Query, CallInv, Calls
<1>2. r \in Reads
  BY <1>1, ConstantsAssumption DEF TypeOK, Reads, Versions, InProgress
<1>3. got' = [got EXCEPT ![p] = r]
  BY DEF Query
<1>4. TypeOK'
  BY <1>2, <1>3 DEF Query, TypeOK, Goto, PCs
<1>5. r # None
  BY <1>2, NoneAssumption
<1>6. CallInv'
  BY <1>3, <1>5 DEF Query, TypeOK, Goto, CallInv
<1>7. \A m : (InProgress(m)' <=> InProgress(m)) /\ (Flushing(m)' <=> Flushing(m))
  BY DEF Query, TypeOK, Goto, InProgress, Flushing
<1>8. r.clean => ~InProgress(n) /\ r.ver = db[n]
  <2>1. r.clean = ~InProgress(n)
    BY Zenon
  <2>2. ~InProgress(n) => n \notin pending[p]
    BY DEF InProgress
  <2>3. n \notin pending[p] => r.ver = db[n]
    OBVIOUS
  <2> QED
    BY <2>1, <2>2, <2>3, Zenon
<1>9. ReadInv'
  <2> SUFFICES ASSUME NEW q \in Procs, got'[q] # None, got'[q].clean
               PROVE  ~InProgress(call[q].ns)' /\ got'[q].ver = db'[call'[q].ns]
    BY DEF ReadInv
  <2>1. call' = call /\ db' = db
    BY DEF Query
  <2>2. CASE q = p
    <3>1. got'[q] = r
      BY <1>3, <2>2 DEF TypeOK
    <3>2. ~InProgress(n) /\ r.ver = db[n]
      BY <1>8, <3>1
    <3> QED
      BY <1>7, <2>1, <2>2, <3>1, <3>2
  <2>3. CASE q # p
    BY <1>3, <1>7, <2>1, <2>3 DEF TypeOK, ReadInv
  <2> QED
    BY <2>2, <2>3
<1>10. EntryInv'
  BY <1>7 DEF Query, EntryInv
<1> QED
  BY <1>4, <1>6, <1>9, <1>10

\* A call that returns without having been a write.
LEMMA ReturnKeeps ==
  ASSUME IInv, NEW p \in Procs, pc[p] # "flush", Return(p),
         UNCHANGED <<db, pending>>
  PROVE  /\ pc' \in [Procs -> PCs] /\ call' \in [Procs -> Calls \union {None}]
         /\ got' \in [Procs -> Reads \union {None}]
         /\ CallInv' /\ ReadInv'
         /\ \A n : Flushing(n) => Flushing(n)'
<1> USE DEF IInv
<1>1. /\ pc' \in [Procs -> PCs] /\ call' \in [Procs -> Calls \union {None}]
      /\ got' \in [Procs -> Reads \union {None}]
  BY DEF Return, Goto, TypeOK, PCs
<1>2. CallInv'
  BY DEF Return, Goto, TypeOK, CallInv
<1>3. \A n : (InProgress(n)' => InProgress(n)) /\ (Flushing(n) => Flushing(n)')
  BY DEF Return, Goto, TypeOK, InProgress, Flushing
<1>4. ReadInv'
  BY <1>3 DEF Return, TypeOK, ReadInv
<1> QED
  BY <1>1, <1>2, <1>3, <1>4

LEMMA QueryErrStep ==
  ASSUME IInv, NEW p \in Procs, QueryErr(p)
  PROVE  IInv'
<1>1. /\ pc' \in [Procs -> PCs] /\ call' \in [Procs -> Calls \union {None}]
      /\ got' \in [Procs -> Reads \union {None}]
      /\ CallInv' /\ ReadInv'
      /\ \A n : Flushing(n) => Flushing(n)'
  BY ReturnKeeps DEF QueryErr
<1>2. TypeOK'
  BY <1>1 DEF QueryErr, TypeOK, IInv
<1>3. EntryInv'
  BY <1>1 DEF QueryErr, EntryInv, IInv
<1> QED
  BY <1>1, <1>2, <1>3 DEF IInv

\* The read that is cached is current if it is clean.
LEMMA FillStep ==
  ASSUME IInv, NEW p \in Procs, Fill(p)
  PROVE  IInv'
<1> USE DEF IInv
<1> DEFINE c == call[p]
           e == [read |-> got[p], arg |-> c.arg]
<1>1. c \in Calls /\ c.ns \in Namespaces /\ c.id \in Ids /\ c.arg \in Params
  BY DEF Fill, CallInv, Calls
<1>2. got[p] \in Reads /\ got[p] # None
  BY DEF Fill, CallInv, TypeOK
<1>3. e \in Entries
  BY <1>1, <1>2 DEF Entries
<1>4. caches' = IF enabled THEN [caches EXCEPT ![c.ns][c.id] = e] ELSE caches
  BY DEF Fill, cacheKey
<1>5. /\ pc' \in [Procs -> PCs] /\ call' \in [Procs -> Calls \union {None}]
      /\ got' \in [Procs -> Reads \union {None}]
      /\ CallInv' /\ ReadInv'
      /\ \A n : Flushing(n) => Flushing(n)'
  BY ReturnKeeps DEF Fill
<1>6. TypeOK'
  <2>1. caches' \in [Namespaces -> [Ids -> Entries \union {None}]]
    <3>1. [caches[c.ns] EXCEPT ![c.id] = e] \in [Ids -> Entries \union {None}]
      BY <1>1, <1>3 DEF TypeOK
    <3>2. [caches EXCEPT ![c.ns][c.id] = e] = [caches EXCEPT ![c.ns] = [caches[c.ns] EXCEPT ![c.id] = e]]
      OBVIOUS
    <3> QED
      BY <1>1, <1>4, <3>1, <3>2 DEF TypeOK
  <2> QED
    BY <1>5, <2>1 DEF Fill, TypeOK
<1>7. EntryInv'
  <2> SUFFICES ASSUME enabled', NEW n \in Namespaces, NEW s \in Ids,
                      caches'[n][s] # None, caches'[n][s].read.clean
               PROVE  \/ Flushing(n)'
                      \/ /\ caches'[n][s].read.ver = db'[n]
                         /\ \A q \in Procs : n \notin pending'[q]
    BY DEF EntryInv
  <2>1. enabled /\ db' = db /\ pending' = pending
    BY DEF Fill
  <2>2. CASE n = c.ns /\ s = c.id
    <3>1. caches'[n][s] = e
      BY <1>1, <1>4, <2>1, <2>2 DEF TypeOK
    <3>2. ~InProgress(n) /\ got[p].ver = db[n]
      BY <1>2, <2>2, <3>1 DEF ReadInv
    <3> QED
      BY <2>1, <3>1, <3>2 DEF InProgress
  <2>3. CASE ~(n = c.ns /\ s = c.id)
    <3>1. caches'[n][s] = caches[n][s]
      BY <1>1, <1>4, <2>3 DEF TypeOK
    <3> QED
      BY <1>5, <2>1, <3>1 DEF EntryInv
  <2> QED
    BY <2>2, <2>3
<1> QED
  BY <1>5, <1>6, <1>7

LEMMA DropStep ==
  ASSUME IInv, NEW n \in Namespaces, NEW s \in Ids, Drop(n, s)
  PROVE  IInv'
<1> USE DEF IInv
<1>1. TypeOK'
  BY DEF Drop, TypeOK
<1>2. CallInv' /\ ReadInv'
  BY DEF Drop, CallInv, ReadInv, InProgress, Flushing
<1>3. \A m \in Namespaces, t \in Ids : caches'[m][t] \in {None, caches[m][t]}
  BY DEF Drop, TypeOK
<1>4. EntryInv'
  BY <1>3 DEF Drop, EntryInv, Flushing
<1> QED
  BY <1>1, <1>2, <1>4

\* A write makes every read of its namespace unclean; its entries are about to
\* be flushed.
LEMMA ExecStep ==
  ASSUME IInv, NEW p \in Procs, Exec(p)
  PROVE  IInv'
<1> USE DEF IInv
<1>1. PICK n \in Namespaces :
        /\ db[n] < MaxVersion
        /\ \/ pending[p] = {} /\ db' = [db EXCEPT ![n] = @ + 1] /\ UNCHANGED pending
           \/ p \in TxProcs /\ pending' = [pending EXCEPT ![p] = @ \union {n}] /\ UNCHANGED db
        /\ \E c \in Calls : c.ns = n /\ call' = [call EXCEPT ![p] = c]
        /\ SpoilReads(n)
  BY DEF Exec
<1>2. PICK c \in Calls : c.ns = n /\ call' = [call EXCEPT ![p] = c]
  BY <1>1
<1>3. /\ got' \in [Procs -> Reads \union {None}]
      /\ \A r \in Procs :
           /\ got'[r] = None <=> got[r] = None
           /\ got'[r] # None /\ got'[r].clean => got'[r] = got[r] /\ call[r].ns # n
  BY <1>1, SpoilReadsEffect
<1>4. pc[p] = "idle" /\ pc' = [pc EXCEPT ![p] = "flush"] /\ caches' = caches /\ enabled' = enabled
  BY DEF Exec, Goto
<1>5. TypeOK'
  <2>1. db' \in [Namespaces -> 0..MaxVersion] /\ pending' \in [Procs -> SUBSET Namespaces]
    BY <1>1, ConstantsAssumption DEF TypeOK
  <2>2. pc' \in [Procs -> PCs] /\ call' \in [Procs -> Calls \union {None}]
    BY <1>2, <1>4 DEF TypeOK, PCs
  <2> QED
    BY <1>3, <2>1, <2>2 DEF Exec, TypeOK
<1>6. CallInv'
  BY <1>2, <1>3, <1>4 DEF TypeOK, CallInv
<1>7. \A m \in Namespaces : m # n => /\ db'[m] = db[m]
                                     /\ \A q \in Procs : m \in pending'[q] <=> m \in pending[q]
  BY <1>1 DEF TypeOK
<1>8. \A m : m # n => (Flushing(m)' <=> Flushing(m))
  BY <1>2, <1>4 DEF TypeOK, Flushing
<1>9. Flushing(n)'
  BY <1>2, <1>4 DEF TypeOK, Flushing
<1>10. ReadInv'
  <2> SUFFICES ASSUME NEW q \in Procs, got'[q] # None, got'[q].clean
               PROVE  ~InProgress(call[q].ns)' /\ got'[q].ver = db'[call'[q].ns]
    BY DEF ReadInv
  <2>1. got'[q] = got[q] /\ call[q].ns # n
    BY <1>3
  <2>2. pc[q] = "fill" /\ q # p
    BY <1>4, <2>1 DEF CallInv
  <2>3. call'[q] = call[q] /\ call[q].ns \in Namespaces
    BY <1>2, <2>2 DEF TypeOK, CallInv, Calls
  <2>4. ~InProgress(call[q].ns) /\ got[q].ver = db[call[q].ns]
    BY <2>1 DEF ReadInv
  <2> QED
    BY <1>7, <1>8, <2>1, <2>3, <2>4 DEF InProgress
<1>11. EntryInv'
  BY <1>4, <1>7, <1>8, <1>9 DEF EntryInv
<1> QED
  BY <1>5, <1>6, <1>10, <1>11

\* After its flush no entry of the namespace is left, or the cache is disabled.
LEMMA FlushStep ==
  ASSUME IInv, NEW p \in Procs, Flush(p)
  PROVE  IInv'
<1> USE DEF IInv
<1> DEFINE n == call[p].ns
<1>1. n \in Namespaces /\ pc[p] = "flush"
  BY DEF Flush, CallInv, Calls
<1>2. TypeOK'
  BY <1>1 DEF Flush, Return, Goto, TypeOK, PCs
<1>3. CallInv'
  BY DEF Flush, Return, Goto, TypeOK, CallInv
<1>4. \A m : (InProgress(m)' => InProgress(m)) /\ (m # n => (Flushing(m) => Flushing(m)'))
  BY DEF Flush, Return, Goto, TypeOK, InProgress, Flushing
<1>5. ReadInv'
  BY <1>4 DEF Flush, Return, TypeOK, ReadInv
<1>6. EntryInv'
  <2> SUFFICES ASSUME enabled', NEW m \in Namespaces, NEW s \in Ids,
                      caches'[m][s] # None, caches'[m][s].read.clean
               PROVE  \/ Flushing(m)'
                      \/ /\ caches'[m][s].read.ver = db'[m]
                         /\ \A q \in Procs : m \notin pending'[q]
    BY DEF EntryInv
  <2>1. enabled /\ db' = db /\ pending' = pending
    BY DEF Flush
  <2>2. m # n /\ caches'[m][s] = caches[m][s]
    BY <1>1, <2>1 DEF Flush, TypeOK
  <2> QED
    BY <1>4, <2>1, <2>2 DEF EntryInv
<1> QED
  BY <1>2, <1>3, <1>5, <1>6

\* The end of a transaction: the entries it outdates are not clean, or a flush
\* of theirs is still to come.
LEMMA EndTxStep ==
  ASSUME IInv, NEW p \in Procs, Commit(p) \/ Rollback(p)
  PROVE  IInv'
<1> USE DEF IInv
<1>1. /\ pending' = [pending EXCEPT ![p] = {}]
      /\ UNCHANGED <<enabled, caches, pc, call, got, silent>>
  BY DEF Commit, Rollback
<1>2. db' \in [Namespaces -> 0..MaxVersion]
  BY ConstantsAssumption DEF Commit, Rollback, TypeOK
<1>3. TypeOK'
  BY <1>1, <1>2 DEF TypeOK
<1>4. CallInv'
  BY <1>1 DEF CallInv
<1>5. \A m \in Namespaces : m \notin pending[p] => db'[m] = db[m]
  BY DEF Commit, Rollback, TypeOK
<1>6. \A m : (InProgress(m)' => InProgress(m)) /\ (Flushing(m)' <=> Flushing(m))
  BY <1>1 DEF InProgress, Flushing, TypeOK
<1>7. \A q \in Procs : got[q] # None => call[q].ns \in Namespaces
  BY DEF CallInv, Calls
<1>8. ReadInv'
  BY <1>1, <1>5, <1>6, <1>7 DEF ReadInv, InProgress
<1>9. \A q \in Procs : pending'[q] \subseteq pending[q]
  BY <1>1 DEF TypeOK
<1>10. EntryInv'
  BY <1>1, <1>5, <1>6, <1>9 DEF EntryInv
<1> QED
  BY <1>3, <1>4, <1>8, <1>10

\* A write without a flush leaves no clean read and no clean entry behind.
LEMMA SilentWriteStep ==
  ASSUME IInv, NEW n \in Namespaces, SilentWrite(n)
  PROVE  IInv'
<1> USE DEF IInv
<1>1. /\ got' \in [Procs -> Reads \union {None}]
      /\ \A r \in Procs :
           /\ got'[r] = None <=> got[r] = None
           /\ got'[r] # None /\ got'[r].clean => got'[r] = got[r] /\ call[r].ns # n
  BY SpoilReadsEffect DEF SilentWrite
<1> DEFINE spoiled == [s \in Ids |-> IF caches[n][s] = None THEN None
                                     ELSE [caches[n][s] EXCEPT !.read.clean = FALSE]]
<1>2. caches' = [caches EXCEPT ![n] = spoiled]
  BY DEF SilentWrite
<1>3. \A s \in Ids : /\ spoiled[s] \in Entries \union {None}
                     /\ spoiled[s] # None => ~spoiled[s].read.clean
  <2> TAKE s \in Ids
  <2>1. CASE caches[n][s] = None
    BY <2>1
  <2>2. CASE caches[n][s] # None
    <3>1. caches[n][s] \in Entries
      BY <2>2 DEF TypeOK
    <3> QED
      BY <2>2, <3>1, Spoiled
  <2> QED
    BY <2>1, <2>2
<1>4. TypeOK'
  <2>1. caches' \in [Namespaces -> [Ids -> Entries \union {None}]]
    BY <1>2, <1>3 DEF TypeOK
  <2>2. db' \in [Namespaces -> 0..MaxVersion] /\ silent' \in 0..MaxSilent
    BY ConstantsAssumption DEF SilentWrite, TypeOK
  <2> QED
    BY <1>1, <2>1, <2>2 DEF SilentWrite, TypeOK
<1>5. CallInv'
  BY <1>1 DEF SilentWrite, CallInv
<1>6. \A m : (InProgress(m)' <=> InProgress(m)) /\ (Flushing(m)' <=> Flushing(m))
  BY DEF SilentWrite, InProgress, Flushing
<1>7. \A m \in Namespaces : m # n => db'[m] = db[m] /\ caches'[m] = caches[m]
  BY <1>2 DEF SilentWrite, TypeOK
<1>8. ReadInv'
  <2>1. \A q \in Procs : got[q] # None => call[q].ns \in Namespaces
    BY DEF CallInv, Calls
  <2> QED
    BY <1>1, <1>6, <1>7, <2>1 DEF SilentWrite, ReadInv
<1>9. EntryInv'
  <2> SUFFICES ASSUME enabled', NEW m \in Namespaces, NEW s \in Ids,
                      caches'[m][s] # None, caches'[m][s].read.clean
               PROVE  \/ Flushing(m)'
                      \/ /\ caches'[m][s].read.ver = db'[m]
                         /\ \A q \in Procs : m \notin pending'[q]
    BY DEF EntryInv
  <2>1. enabled /\ pending' = pending
    BY DEF SilentWrite
  <2>2. caches'[n] = spoiled
    BY <1>2 DEF TypeOK
  <2>3. m # n
    BY <1>3, <2>2
  <2> QED
    BY <1>6, <1>7, <2>1, <2>3 DEF EntryInv
<1> QED
  BY <1>4, <1>5, <1>8, <1>9

\* Enabling starts with empty caches, so what was missed while the cache was
\* disabled does not matter.
LEMMA SetCacheEnabledStep ==
  ASSUME IInv, NEW on \in BOOLEAN, SetCacheEnabled(on)
  PROVE  IInv'
<1> USE DEF IInv
<1>1. TypeOK'
  BY DEF SetCacheEnabled, TypeOK, EmptyCache
<1>2. CallInv' /\ ReadInv'
  BY DEF SetCacheEnabled, CallInv, ReadInv, InProgress, Flushing
<1>3. EntryInv'
  <2>1. CASE on /\ ~enabled
    <3>1. caches' = EmptyCache
      BY <2>1, Zenon DEF SetCacheEnabled
    <3>2. \A n \in Namespaces, s \in Ids : EmptyCache[n][s] = None
      BY DEF EmptyCache
    <3> QED
      BY <3>1, <3>2 DEF EntryInv
  <2>2. CASE ~(on /\ ~enabled)
    <3>1. caches' = caches /\ (enabled' => enabled)
      BY <2>2, Zenon DEF SetCacheEnabled
    <3>2. db' = db /\ pending' = pending /\ \A n : Flushing(n)' <=> Flushing(n)
      BY DEF SetCacheEnabled, Flushing
    <3> QED
      BY <3>1, <3>2 DEF EntryInv
  <2> QED
    BY <2>1, <2>2
<1> QED
  BY <1>1, <1>2, <1>3

\* Every step preserves the invariant.
LEMMA NextIInv == IInv /\ [Next]_vars => IInv'
<1> SUFFICES ASSUME IInv, [Next]_vars PROVE IInv'
  OBVIOUS
<1>1. CASE UNCHANGED vars
  BY <1>1 DEF vars, IInv, TypeOK, CallInv, ReadInv, EntryInv, InProgress, Flushing
<1>2. ASSUME NEW p \in Procs, SelectHit(p) PROVE IInv'
  BY <1>1, <1>2 DEF SelectHit
<1> QED
  BY <1>1, <1>2, SelectMissStep, QueryStep, QueryErrStep, FillStep, DropStep, ExecStep,
     FlushStep, EndTxStep, SilentWriteStep, SetCacheEnabledStep DEF Next

-----------------------------------------------------------------------------
(***************************************************************************)
(* The theorems.                                                           *)
(***************************************************************************)

\* The inductive invariant holds throughout.
LEMMA SpecIInv == Spec => []IInv
  BY InitIInv, NextIInv, PTL DEF Spec

\* Cache, reads and calls have their types in every reachable state; what
\* queryRows failed to read is never cached.
THEOREM TypeCorrect == Spec => []TypeOK
  BY SpecIInv, PTL DEF IInv

\* No interleaving of executeMethod's selects and writes, of transactions and
\* of SetCacheEnabled serves a cleanly read entry stale.
THEOREM CleanEntriesStayFresh == Spec => []CleanEntryFresh
<1>1. IInv => CleanEntryFresh
  <2> SUFFICES ASSUME IInv, NEW c \in Calls,
                      Get(c.ns, c.id, c.arg) # None, Get(c.ns, c.id, c.arg).read.clean,
                      ~Flushing(c.ns)
               PROVE  Get(c.ns, c.id, c.arg).read.ver = db[c.ns]
    BY DEF CleanEntryFresh
  <2>1. enabled /\ Get(c.ns, c.id, c.arg) = caches[c.ns][c.id]
    BY DEF Get, cacheKey
  <2>2. c.ns \in Namespaces /\ c.id \in Ids
    BY DEF Calls
  <2> QED
    BY <2>1, <2>2 DEF IInv, EntryInv
<1> QED
  BY <1>1, SpecIInv, PTL
=============================================================================
