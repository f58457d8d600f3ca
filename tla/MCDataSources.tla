--------------------------- MODULE MCDataSources ----------------------------
(***************************************************************************)
(* A goroutine with calls of a namespace that two patterns match, an       *)
(* administrator with two operations, two names, two loggers.              *)
(***************************************************************************)
EXTENDS DataSources

CONSTANTS d, o, n1, long, short

MCNames    == {d, o}
MCPatterns == {long, short}
MCMatching == [n \in {n1} |-> <<long, short>>]
MCSettingsBind == [pat \in MCPatterns |-> IF pat = long THEN o ELSE NoName]
MCReplicas == <<o>>
=============================================================================
