---------------------------- MODULE MCSecondCache ----------------------------
(***************************************************************************)
(* Three goroutines, two of which also use transactions, and one namespace *)
(* with two statements; the version bound lets an entry be outdated twice. *)
(* The runs that show a divergence leave out the writes that never flush   *)
(* and the transactions, so that nothing else explains it.                 *)
(***************************************************************************)
EXTENDS SecondCache
=============================================================================
