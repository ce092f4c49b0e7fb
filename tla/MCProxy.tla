------------------------------ MODULE MCProxy ------------------------------
(***************************************************************************)
(* MysqlServiceProxy with two callers, one of them with continuations that *)
(* call the proxy, and two worker threads, for an application that blocks  *)
(* in continuations and uses results objects again, for one whose Begin    *)
(* may fail, and for one that changes the configuration once, with a       *)
(* transaction open or not.                                                *)
(***************************************************************************)
EXTENDS MysqlServiceProxy

MCUses == {{"nested", "reuse"}, {"transact", "fail"}, {"transact", "configure"}}

\* Continuations that block leave a worker free.
ASSUME FreeWorkerAssumption == Cardinality(Nesting) < Cardinality(Workers)
=============================================================================
