------------------------------- MODULE MCPool -------------------------------
(***************************************************************************)
(* The pool on small instances.  Threads and executors are interchangeable *)
(* in the safety runs.                                                     *)
(***************************************************************************)
EXTENDS MysqlExecutorPool, TLC

Interchangeable == Permutations(Threads) \cup Permutations(Executor)
=============================================================================
