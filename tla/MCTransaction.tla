--------------------------- MODULE MCTransaction ----------------------------
(***************************************************************************)
(* Two goroutines that may each hold a TCC and a WithTx transaction, on a  *)
(* pool with one connection more than goroutines: all four transactions    *)
(* may be wanted at once and one of them has to wait.                      *)
(***************************************************************************)
EXTENDS Transaction
=============================================================================
