-------------------------- MODULE MysqlTransaction --------------------------
(***************************************************************************)
(* The transaction interface of MysqlServiceProxy: Begin, statements on a  *)
(* TransactionHandle, Commit, Rollback and the destruction of the handle,  *)
(* in the blocking (UnaryInvoke) and the future based (AsyncUnaryInvoke)   *)
(* form, against a server whose sessions may disappear at any moment.      *)
(*                                                                         *)
(* A call is split where another party can act: the caller's checks, the   *)
(* task a worker thread runs on the connection, and the caller's           *)
(* continuation.  A handle has one call under way at a time, as its        *)
(* executor requires.                                                      *)
(*                                                                         *)
(* The pool is the abstract one: it lends an idle executor or a new one,   *)
(* and Reclaim keeps or closes what it is given.  A server session is      *)
(* "auto" (autocommit), "tx" (a transaction is open) or "down".  Each      *)
(* statement of a handle writes its own mark, so the marks in db tell what *)
(* became durable.                                                         *)
(***************************************************************************)
EXTENDS Naturals, FiniteSets

CONSTANTS
  Handles,     \* transaction handles, one per transaction
  Executor,    \* identities of executors
  None,        \* the null RefPtr
  MaxStmts,    \* bound of the model: statements per transaction
  Api,         \* "sync" or "async"
  Stmts,       \* kinds of statements: "text" (no arguments), "prepared"
  Faults,      \* which of "filter", "timeout", "sql", "drop", "replylost" occur
  ReuseEnded   \* whether callers still use a handle that has ended

ASSUME ApiAssumption == Api \in {"sync", "async"} /\ MaxStmts \in Nat
ASSUME StmtAssumption == Stmts \subseteq {"text", "prepared"}
ASSUME HandleAssumption == None \notin Executor

VARIABLES
  idle,    \* executors in the pool
  conn,    \* is_connected of every executor
  sess,    \* the server session behind every executor
  pend,    \* marks written in the session's open transaction
  db,      \* durable marks
  state,   \* state_ of every handle
  held,    \* executor_ of every handle (in Begin: the local executor)
  op,      \* the last operation called on the handle
  at,      \* how far it is: "idle" when it has returned
  resOK,   \* res.OK() of that operation
  status,  \* whether the Status (or the future) it returned is fine
  count,   \* statements issued in the transaction
  acked    \* marks of the statements reported as successful

serverVars == <<sess, pend, db>>
callVars == <<op, at, resOK, status>>
vars == <<idle, conn, serverVars, state, held, callVars, count, acked>>

Mark == Handles \X (1 .. MaxStmts)
TxState == {"kNotInited", "kStarted", "kRollBacked", "kCommitted", "kInValid"}
Ops == {"none", "begin", "commit", "rollback"} \cup Stmts

Referenced == idle \cup {held[h] : h \in Handles}

Init ==
  /\ idle = {}
  /\ conn = [e \in Executor |-> FALSE]
  /\ sess = [e \in Executor |-> "down"]
  /\ pend = [e \in Executor |-> {}]
  /\ db = {}
  /\ state = [h \in Handles |-> "kNotInited"]
  /\ held = [h \in Handles |-> None]
  /\ op = [h \in Handles |-> "none"]
  /\ at = [h \in Handles |-> "idle"]
  /\ resOK = [h \in Handles |-> TRUE]
  /\ status = [h \in Handles |-> TRUE]
  /\ count = [h \in Handles |-> 0]
  /\ acked = [h \in Handles |-> {}]

----------------------------------------------------------------------------
(* The steps of a call.                                                    *)

\* The call o of h goes on at place p.
Proceed(h, o, p) ==
  /\ op' = [op EXCEPT ![h] = o]
  /\ at' = [at EXCEPT ![h] = p]
  /\ resOK' = [resOK EXCEPT ![h] = TRUE]
  /\ status' = [status EXCEPT ![h] = TRUE]

\* The call is answered before it reaches the connection: the context (or the
\* future) carries the error, the MysqlResults object none.
Refuse(h, o) ==
  /\ op' = [op EXCEPT ![h] = o]
  /\ at' = [at EXCEPT ![h] = "reply"]
  /\ resOK' = [resOK EXCEPT ![h] = TRUE]
  /\ status' = [status EXCEPT ![h] = FALSE]

\* The worker is done; a statement that failed is an error in both.
Reply(h, ok) ==
  /\ at' = [at EXCEPT ![h] = "reply"]
  /\ resOK' = [resOK EXCEPT ![h] = ok]
  /\ status' = [status EXCEPT ![h] = ok]
  /\ UNCHANGED op

\* A context whose deadline has passed, or a filter before the send.
StoppedBeforeSend == Faults \cap {"timeout", "filter"} # {}

----------------------------------------------------------------------------
(* Begin and AsyncBegin.                                                   *)

\* A filter, the selector, or the connection attempt fails.
BeginFails(h) ==
  /\ state[h] = "kNotInited" /\ at[h] = "idle"
  /\ Refuse(h, "begin")
  /\ UNCHANGED <<idle, conn, serverVars, state, held, count, acked>>

\* The pool lends an idle executor that answered the ping.
BeginIdle(h, e) ==
  /\ state[h] = "kNotInited" /\ at[h] = "idle"
  /\ e \in idle /\ conn[e] /\ sess[e] # "down"
  /\ idle' = idle \ {e}
  /\ held' = [held EXCEPT ![h] = e]
  /\ \/ Proceed(h, "begin", "task")
     \/ StoppedBeforeSend /\ Refuse(h, "begin")
  /\ UNCHANGED <<conn, serverVars, state, count, acked>>

\* The pool lends a newly connected executor.
BeginNew(h, e) ==
  /\ state[h] = "kNotInited" /\ at[h] = "idle"
  /\ e \notin Referenced /\ ~conn[e]
  /\ conn' = [conn EXCEPT ![e] = TRUE]
  /\ sess' = [sess EXCEPT ![e] = "auto"]
  /\ held' = [held EXCEPT ![h] = e]
  /\ \/ Proceed(h, "begin", "task")
     \/ StoppedBeforeSend /\ Refuse(h, "begin")
  /\ UNCHANGED <<idle, pend, db, state, count, acked>>

\* Mutant: a handle is made whatever became of "begin".
FinishBegin_AnyStatus(h) ==
  /\ at[h] = "reply" /\ op[h] = "begin"
  /\ IF held[h] # None
     THEN state' = [state EXCEPT ![h] = "kStarted"]
     ELSE UNCHANGED state
  /\ at' = [at EXCEPT ![h] = "idle"]
  /\ UNCHANGED <<idle, conn, serverVars, held, op, resOK, status, count, acked>>

\* Begin's end: a handle is made only for a status that is fine; otherwise
\* the local reference to the executor goes out of scope.
FinishBegin(h) ==
  /\ at[h] = "reply" /\ op[h] = "begin"
  /\ IF status[h]
     THEN state' = [state EXCEPT ![h] = "kStarted"] /\ UNCHANGED held
     ELSE held' = [held EXCEPT ![h] = None] /\ UNCHANGED state
  /\ at' = [at EXCEPT ![h] = "idle"]
  /\ UNCHANGED <<idle, conn, serverVars, op, resOK, status, count, acked>>

----------------------------------------------------------------------------
(* Query, Execute and their Async forms on a handle.                       *)

Alive(e) == conn[e] /\ sess[e] # "down"

\* Mutant: the state of the handle is not looked at.
MayRun_AnyState(h) == held[h] # None

\* Only a started transaction runs statements.
MayRun(h) == state[h] = "kStarted"

Usable(h) ==
  /\ at[h] = "idle"
  /\ state[h] \notin {"kNotInited", "kInValid"}
  /\ ReuseEnded \/ state[h] = "kStarted"

\* A filter rejects the call, or the handle is not in a started transaction.
CallRefused(h, o) ==
  /\ Usable(h)
  /\ "filter" \in Faults \/ ~MayRun(h)
  /\ Refuse(h, o)
  /\ UNCHANGED <<idle, conn, serverVars, state, held, count, acked>>

\* CheckAlive() of the handle's executor fails: the server has rolled back.
CallFindsLost(h, o) ==
  /\ Usable(h) /\ MayRun(h)
  /\ ~Alive(held[h])
  /\ conn' = [conn EXCEPT ![held[h]] = FALSE]
  /\ state' = [state EXCEPT ![h] = "kRollBacked"]
  /\ Refuse(h, o)
  /\ UNCHANGED <<idle, serverVars, held, count, acked>>

\* The call becomes a task of the thread pool, or is stopped before that.
CallSent(h, o) ==
  /\ Usable(h) /\ MayRun(h)
  /\ Alive(held[h])
  /\ o \in Stmts => count[h] < MaxStmts
  /\ count' = [count EXCEPT ![h] = IF o \in Stmts THEN @ + 1 ELSE @]
  /\ \/ Proceed(h, o, "task")
     \/ StoppedBeforeSend /\ Refuse(h, o)
  /\ UNCHANGED <<idle, conn, serverVars, state, held, acked>>

----------------------------------------------------------------------------
(* External: what the server does with one statement of session e.         *)

Serve(e, h, o) ==
  /\ sess' = [sess EXCEPT ![e] =
                CASE o = "begin" -> "tx"
                  [] o \in {"commit", "rollback"} -> "auto"
                  [] OTHER -> @]
  /\ pend' = [pend EXCEPT ![e] =
                CASE o \in {"begin", "commit", "rollback"} -> {}
                  [] o \in Stmts /\ sess[e] = "tx" -> @ \cup {<<h, count[h]>>}
                  [] OTHER -> @]
  /\ db' = CASE o \in {"begin", "commit"} -> db \cup pend[e]
             [] o \in Stmts /\ sess[e] = "auto" -> db \cup {<<h, count[h]>>}
             [] OTHER -> db

\* The session ends; its open transaction is rolled back.
EndSession(e) ==
  /\ sess' = [sess EXCEPT ![e] = "down"]
  /\ pend' = [pend EXCEPT ![e] = {}]
  /\ UNCHANGED db

\* The server processes the statement but its answer never arrives.
ServeThenLose(e, h, o) ==
  /\ db' = CASE o \in {"begin", "commit"} -> db \cup pend[e]
             [] o \in Stmts /\ sess[e] = "auto" -> db \cup {<<h, count[h]>>}
             [] OTHER -> db
  /\ sess' = [sess EXCEPT ![e] = "down"]
  /\ pend' = [pend EXCEPT ![e] = {}]

----------------------------------------------------------------------------
(* The task on the worker thread.                                          *)

\* mysql_real_query: begin, commit, rollback, statements without arguments.
RunText(h) ==
  LET e == held[h]
      fails == UNCHANGED serverVars /\ Reply(h, FALSE)
  IN  /\ at[h] = "task" /\ op[h] # "prepared"
      /\ IF sess[e] = "down"
         THEN fails
         ELSE \/ Serve(e, h, op[h]) /\ Reply(h, TRUE)
              \/ "sql" \in Faults /\ fails
              \/ "replylost" \in Faults /\ ServeThenLose(e, h, op[h]) /\ Reply(h, FALSE)
      /\ UNCHANGED <<idle, conn, state, held, count, acked>>

\* MysqlStatement::Init and the bindings.
Prepare(h) ==
  /\ at[h] = "task" /\ op[h] = "prepared"
  /\ \/ sess[held[h]] # "down" /\ Proceed(h, op[h], "prepared")
     \/ (sess[held[h]] = "down" \/ "sql" \in Faults) /\ Reply(h, FALSE)
  /\ UNCHANGED <<idle, conn, serverVars, state, held, count, acked>>

\* ExecuteStatement of a prepared statement: ping, then execute.
RunPrepared(h) ==
  /\ at[h] = "prepared" /\ Alive(held[h])
  /\ \/ Serve(held[h], h, op[h]) /\ Reply(h, TRUE)
     \/ "sql" \in Faults /\ UNCHANGED serverVars /\ Reply(h, FALSE)
     \/ "replylost" \in Faults /\ ServeThenLose(held[h], h, op[h]) /\ Reply(h, FALSE)
  /\ UNCHANGED <<idle, conn, state, held, count, acked>>

\* ExecuteStatement when the ping fails: StartReconnect opens a new session
\* under the same executor, or gives up.  The prepared statement belonged to
\* the old session, so executing it fails either way.
Reconnect(h) ==
  LET e == held[h]
  IN  /\ at[h] = "prepared" /\ ~Alive(e)
      /\ \E again \in BOOLEAN :
           /\ conn' = [conn EXCEPT ![e] = again]
           /\ sess' = [sess EXCEPT ![e] = IF again THEN "auto" ELSE "down"]
      /\ Reply(h, FALSE)
      /\ UNCHANGED <<idle, pend, db, state, held, count, acked>>

----------------------------------------------------------------------------
(* The caller's continuation.                                              *)

FinishStatement(h) ==
  /\ at[h] = "reply" /\ op[h] \in Stmts
  /\ at' = [at EXCEPT ![h] = "idle"]
  /\ acked' = IF status[h] THEN [acked EXCEPT ![h] = @ \cup {<<h, count[h]>>}] ELSE acked
  /\ UNCHANGED <<idle, conn, serverVars, state, held, op, resOK, status, count>>

\* Mutant: the future's failure is not looked at.
Ended_Always(h) == TRUE

\* Commit and Rollback look at res.OK(), their Async forms at the future.
Ended(h) == IF Api = "sync" THEN resOK[h] ELSE status[h]

\* Mutant: commit and rollback swapped.
EndState_Swapped(o) == IF o = "rollback" THEN "kCommitted" ELSE "kRollBacked"

EndState(o) == IF o = "rollback" THEN "kRollBacked" ELSE "kCommitted"

\* Mutant: the executor goes back to the pool and stays in the handle.
AfterKeep_StillHeld(h) == held[h]

\* TransferExecutor() leaves the handle without an executor.
AfterKeep(h) == None

\* Mutant: EndTransaction without its null check.
NeedsReclaim_Unchecked(h) == TRUE

\* EndTransaction has an executor to give back.
NeedsReclaim(h) == held[h] # None

\* EndTransaction: the new state, then Reclaim(0, ...) of the executor if
\* there is one.  A pool without room closes it and leaves it in the handle.
EndTransaction(h) ==
  /\ state' = [state EXCEPT ![h] = EndState(op[h])]
  /\ \/ /\ NeedsReclaim(h)
        /\ idle' = idle \cup {held[h]}
        /\ held' = [held EXCEPT ![h] = AfterKeep(h)]
        /\ UNCHANGED <<conn, serverVars>>
     \/ /\ NeedsReclaim(h)
        /\ conn' = [conn EXCEPT ![held[h]] = FALSE]
        /\ EndSession(held[h])
        /\ UNCHANGED <<idle, held>>
     \/ /\ ~NeedsReclaim(h)
        /\ UNCHANGED <<idle, held, conn, serverVars>>

FinishEnd(h) ==
  /\ at[h] = "reply" /\ op[h] \in {"commit", "rollback"}
  /\ at' = [at EXCEPT ![h] = "idle"]
  /\ IF Ended(h)
     THEN EndTransaction(h)
     ELSE UNCHANGED <<idle, conn, serverVars, state, held>>
  /\ UNCHANGED <<op, resOK, status, count, acked>>

\* ~TransactionHandle closes an executor that was not given back.
DestroyHandle(h) ==
  /\ at[h] = "idle" /\ state[h] \notin {"kNotInited", "kInValid"}
  /\ state' = [state EXCEPT ![h] = "kInValid"]
  /\ held' = [held EXCEPT ![h] = None]
  /\ IF held[h] = None
     THEN UNCHANGED <<conn, serverVars>>
     ELSE conn' = [conn EXCEPT ![held[h]] = FALSE] /\ EndSession(held[h])
  /\ UNCHANGED <<idle, callVars, count, acked>>

----------------------------------------------------------------------------
\* The pool finds an idle executor dead or expired and closes it.
EvictIdle(e) ==
  /\ e \in idle
  /\ idle' = idle \ {e}
  /\ conn' = [conn EXCEPT ![e] = FALSE]
  /\ EndSession(e)
  /\ UNCHANGED <<state, held, callVars, count, acked>>

\* External: the server or the network ends a session.
ServerDrop(e) ==
  /\ "drop" \in Faults
  /\ sess[e] # "down"
  /\ EndSession(e)
  /\ UNCHANGED <<idle, conn, state, held, callVars, count, acked>>

\* Every handle is gone: the caller has nothing left to do.
Terminating == (\A h \in Handles : state[h] = "kInValid") /\ UNCHANGED vars

Begin(h) ==
  BeginFails(h) \/ FinishBegin(h)
    \/ \E e \in Executor : BeginIdle(h, e) \/ BeginNew(h, e)

Call(h, o) == CallRefused(h, o) \/ CallFindsLost(h, o) \/ CallSent(h, o)

Task(h) == RunText(h) \/ Prepare(h) \/ RunPrepared(h) \/ Reconnect(h)

Next ==
  \/ \E h \in Handles :
       \/ Begin(h) \/ Task(h) \/ FinishStatement(h) \/ FinishEnd(h) \/ DestroyHandle(h)
       \/ \E o \in Stmts \cup {"commit", "rollback"} : Call(h, o)
  \/ \E e \in Executor : EvictIdle(e) \/ ServerDrop(e)
  \/ Terminating

Spec == Init /\ [][Next]_vars

----------------------------------------------------------------------------
(* Properties                                                              *)

TypeOK ==
  /\ idle \subseteq Executor
  /\ conn \in [Executor -> BOOLEAN]
  /\ sess \in [Executor -> {"auto", "tx", "down"}]
  /\ pend \in [Executor -> SUBSET Mark]
  /\ db \subseteq Mark
  /\ state \in [Handles -> TxState]
  /\ held \in [Handles -> Executor \cup {None}]
  /\ op \in [Handles -> Ops]
  /\ at \in [Handles -> {"idle", "task", "prepared", "reply"}]
  /\ resOK \in [Handles -> BOOLEAN]
  /\ status \in [Handles -> BOOLEAN]
  /\ count \in [Handles -> 0 .. MaxStmts]
  /\ acked \in [Handles -> SUBSET Mark]

Durable(h) == {m \in db : m[1] = h}

\* A handle in state kCommitted: every statement that was reported as
\* successful is durable.
CommittedDurable == \A h \in Handles : state[h] = "kCommitted" => acked[h] \subseteq db

\* A handle in state kRollBacked, whether Rollback ended it or a statement
\* found its connection lost: nothing it wrote is durable.
RolledBackInvisible == \A h \in Handles : state[h] = "kRollBacked" => Durable(h) = {}

\* Nothing of a started transaction is durable before a Commit is under way:
\* its statements really run inside the server's transaction.
StartedInvisible ==
  \A h \in Handles : state[h] = "kStarted" /\ at[h] = "idle" => Durable(h) = {}

\* A session that goes back to the pool has no transaction open: the next
\* borrower's statements are not swallowed by somebody else's transaction.
PooledClean == \A e \in idle : conn[e] => sess[e] # "tx"

\* An executor belongs to one handle, or to the pool.
ExclusiveExecutor ==
  /\ \A g, h \in Handles : held[g] # None /\ held[g] = held[h] => g = h
  /\ \A h \in Handles : held[h] \notin idle

\* A transaction that has ended keeps its outcome until the handle is gone.
OutcomeStable ==
  [][\A h \in Handles : state[h] \in {"kCommitted", "kRollBacked"} =>
       state'[h] \in {state[h], "kInValid"}]_vars

----------------------------------------------------------------------------
(* What documentation and assertions claim, and the code does not keep.    *)

\* After a Commit whose Status is not fine the caller may call Commit again:
\* the handle has not been ended as committed.
CommitRetryable ==
  \A h \in Handles :
    op[h] = "commit" /\ at[h] = "idle" /\ ~status[h] => state[h] # "kCommitted"

\* TRPC_ASSERT(is_connected == false) of ~MysqlExecutor, for the executors
\* that no handle, no call and no pool refers to.
DestructorSafe == \A e \in Executor \ Referenced : ~conn[e]
=============================================================================
