----------------------------- MODULE MCResults -----------------------------
(***************************************************************************)
(* MysqlResults on a small instance.  The objects and the MYSQL_RES are    *)
(* interchangeable.                                                        *)
(***************************************************************************)
EXTENDS MysqlResults, TLC

Interchangeable == Permutations(Object) \cup Permutations(Res)
=============================================================================
