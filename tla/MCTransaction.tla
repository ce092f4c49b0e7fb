---------------------------- MODULE MCTransaction ----------------------------
(***************************************************************************)
(* The transaction interface on small instances.                           *)
(***************************************************************************)
EXTENDS MysqlTransaction, TLC

Interchangeable == Permutations(Handles) \cup Permutations(Executor)
=============================================================================
