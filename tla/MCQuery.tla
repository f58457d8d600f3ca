------------------------------- MODULE MCQuery --------------------------------
(***************************************************************************)
(* Two goroutines on a pool of one connection.  g1 runs two calls, one of  *)
(* which may be DDL, or a transaction with one call in it; g2 one query.   *)
(***************************************************************************)
EXTENDS Query, TLC

CONSTANTS g1, g2

MCMaxCalls == g1 :> 2 @@ g2 :> 1
=============================================================================
