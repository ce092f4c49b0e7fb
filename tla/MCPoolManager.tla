--------------------------- MODULE MCPoolManager ---------------------------
(***************************************************************************)
(* The pool manager on a small instance: two addresses whose printed keys  *)
(* differ.                                                                 *)
(***************************************************************************)
EXTENDS MysqlExecutorPoolManager, TLC

CONSTANTS a1, a2

Addresses == {a1, a2}
DistinctKeys == [a \in Addresses |-> a]

Interchangeable == Permutations(Workers) \cup Permutations(Pool)
=============================================================================
