--------------------------- MODULE MCPreparedStmt ---------------------------
(***************************************************************************)
(* Two goroutines, two queries and a limit of one cached statement, so     *)
(* that the limit can be overshot; three entries, so that an evicted query *)
(* is prepared again; one Reconnect or close.                              *)
(***************************************************************************)
EXTENDS PreparedStmt
=============================================================================
