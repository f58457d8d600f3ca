----------------------------- MODULE MCSnowflake -----------------------------
(***************************************************************************)
(* Sequence numbers run out after two ids, so that callers spin; the clock *)
(* has three values of its own and may be set back once.  The second data  *)
(* source has a worker id that does not fit its width, the third has none. *)
(***************************************************************************)
EXTENDS Snowflake

CONSTANTS d1, d2, d3

MCDataSources == {d1, d2, d3}
MCWorkerOf    == [d \in {d1, d2, d3} |-> CASE d = d1 -> 2 [] d = d2 -> 6 [] d = d3 -> 0]
=============================================================================
