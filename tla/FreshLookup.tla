----------------------------- MODULE FreshLookup ------------------------------
(***************************************************************************)
(* What a look-up in a cache of the database's tables promises, without    *)
(* the cache: a version of the schema that is not older than the last      *)
(* change announced when the look-up began.  A change is announced when    *)
(* the DDL statement outside of a transaction that made it returns.  Once  *)
(* a query for the tables, or for the structure of one, has failed an      *)
(* answer may also be empty, that is, lack the table.                      *)
(***************************************************************************)
EXTENDS Naturals

CONSTANTS Procs, MaxVersion, NoVersion, Empty

Versions == 0..MaxVersion

VARIABLES
  schema,    \* the committed version
  announced, \* the version callers may rely on
  failed,    \* a query for the tables has failed
  low,       \* what the look-up in progress of a goroutine may rely on
  answer     \* the last answer it got

vars == <<schema, announced, failed, low, answer>>

Init ==
  /\ schema = 0
  /\ announced = 0
  /\ failed = FALSE
  /\ low = [p \in Procs |-> NoVersion]
  /\ answer = [p \in Procs |-> NoVersion]

Change ==
  /\ schema < MaxVersion
  /\ schema' = schema + 1
  /\ UNCHANGED <<announced, failed, low, answer>>

Announce ==
  /\ announced' \in announced..schema
  /\ UNCHANGED <<schema, failed, low, answer>>

Fail ==
  /\ failed' = TRUE
  /\ UNCHANGED <<schema, announced, low, answer>>

Ask(p) ==
  /\ low[p] = NoVersion
  /\ low' = [low EXCEPT ![p] = announced]
  /\ answer' = [answer EXCEPT ![p] = NoVersion]
  /\ UNCHANGED <<schema, announced, failed>>

Answer(p) ==
  /\ low[p] # NoVersion
  /\ \E a \in low[p]..schema \union {Empty} :
       /\ a = Empty => failed'
       /\ answer' = [answer EXCEPT ![p] = a]
  /\ failed' \in {failed, TRUE}
  /\ low' = [low EXCEPT ![p] = NoVersion]
  /\ UNCHANGED <<schema, announced>>

\* The caller is done with its answer.
Forget(p) ==
  /\ low[p] = NoVersion
  /\ answer' = [answer EXCEPT ![p] = NoVersion]
  /\ UNCHANGED <<schema, announced, failed, low>>

Next == Change \/ Announce \/ Fail \/ \E p \in Procs : Ask(p) \/ Answer(p) \/ Forget(p)

Spec == Init /\ [][Next]_vars
=============================================================================
