------------------------- MODULE MysqlServiceProxy -------------------------
(***************************************************************************)
(* MysqlServiceProxy without transactions: blocking and future based       *)
(* calls, the thread pool that runs them, and the life of the proxy        *)
(* (SetServiceProxyOptionInner, SetMysqlConfig, Stop, Destroy).            *)
(*                                                                         *)
(* A call belongs to the thread that made it: a caller, or a worker whose  *)
(* continuation calls the proxy again.  A worker runs the continuation of  *)
(* a future inline, right after it resolved the promise.  The executor     *)
(* pools are the abstract one of MysqlTransaction: lend an idle executor   *)
(* or a new one, keep or close what is given back.  A transaction handle   *)
(* only matters here as something that holds an executor; what happens on  *)
(* it is in MysqlTransaction.                                              *)
(***************************************************************************)
EXTENDS Naturals, Sequences, FiniteSets

CONSTANTS
  Uses,          \* the ways the application uses the proxy, each a set of
                 \*   "nested"     continuations call the proxy again
                 \*   "reuse"      results objects are used for several calls
                 \*   "transact"   there are transactions
                 \*   "fail"       a Begin may fail after it got an executor
                 \*   "configure"  SetMysqlConfig is called
  Callers,       \* the application's threads
  Workers,       \* the threads of thread_pool_ (thread_num)
  Nesting,       \* the callers whose continuations make a blocking call
  Transacting,   \* the callers that have transactions
  Executor,      \* identities of executors
  None,          \* no executor, no task
  MaxConfigs,    \* bound of the model: calls of SetMysqlConfig
  StopDrains,    \* whether a stopped ThreadPool still runs the queued tasks
  BusyConfig     \* whether calls are started while SetMysqlConfig runs

Actor == Callers \cup Workers

ASSUME ProxyAssumption ==
  /\ None \notin Executor \cup Actor /\ Callers \cap Workers = {}
  /\ Nesting \subseteq Callers /\ Transacting \subseteq Callers /\ MaxConfigs \in Nat
  /\ StopDrains \in BOOLEAN /\ BusyConfig \in BOOLEAN

VARIABLES
  use,      \* how the application uses the proxy
  tp,       \* thread_pool_: "none" (nullptr), "running" or "stopped"
  queue,    \* its tasks, each the actor whose call it runs
  work,     \* for each worker the task, its conn, and how far it is
  mgr,      \* pool_manager_: "none" (nullptr), "up", "stopped" or "destroyed"
  conf,     \* number of the configuration in mysql_conf_
  mconf,    \* number of the configuration pool_manager_ was made with
  idle,     \* executors in the pools
  made,     \* the configuration an executor was made with, 0 when it is not live
  held,     \* the executor of each caller's transaction handle
  crossed,  \* executors in a handle while SetMysqlConfig ran
  dropped,  \* executors whose last reference went while they were connected
  cfg,      \* the next step of SetMysqlConfig, "no" when it is not running
  life,     \* "live", "stopped" or "destroyed"
  at,       \* the call of each actor: "no" call yet, "waiting" (e.Wait()),
            \* "set" (e.Set() has run), "future" (its future is pending) or
            \* "done" (it has returned)
  res,      \* res.OK() of the results object of the actor's blocking calls
  status,   \* context->GetStatus().OK(), or whether the future has no exception
  runs      \* how often the server has run the statement of the call

poolVars == <<idle, made, held, crossed, dropped>>
lifeVars == <<tp, mgr, conf, mconf, cfg, life>>
callVars == <<at, res, status, runs>>
vars == <<use, queue, work, poolVars, lifeVars, callVars>>

NoWork == [task |-> None, conn |-> None, at |-> "idle"]

InUse == idle \cup {held[c] : c \in Callers} \cup {work[w].conn : w \in Workers}

\* A new executor; which identity it gets does not matter.
NewExecutor == CHOOSE e \in Executor : e \notin InUse

\* The executor e is an idle one, or a new one with the configuration number c,
\* 0 when it failed to connect (MysqlExecutorPool::GetExecutor).
Lend(e) == idle' = idle \ {e} /\ UNCHANGED made
Create(c) == made' = [made EXCEPT ![NewExecutor] = c] /\ UNCHANGED idle

\* MysqlExecutorPool::Reclaim keeps the executor or closes it.
Reclaim(e) ==
  \/ idle' = idle \cup {e} /\ UNCHANGED <<made, crossed>>
  \/ /\ made' = [made EXCEPT ![e] = 0]
     /\ crossed' = crossed \ {e}
     /\ UNCHANGED idle

Free(a) == at[a] \in {"no", "done"}

\* SetServiceProxyOptionInner: InitThreadPool and InitManager.
Init ==
  /\ use \in Uses
  /\ tp = "running" /\ queue = <<>>
  /\ work = [w \in Workers |-> NoWork]
  /\ mgr = "up" /\ conf = 1 /\ mconf = 1
  /\ idle = {} /\ crossed = {} /\ dropped = {}
  /\ made = [e \in Executor |-> 0]
  /\ held = [c \in Callers |-> None]
  /\ cfg = "no" /\ life = "live"
  /\ at = [a \in Actor |-> "no"]
  /\ res = [a \in Actor |-> TRUE]
  /\ status = [a \in Actor |-> TRUE]
  /\ runs = [a \in Actor |-> 0]

----------------------------------------------------------------------------
(* Calls, on the thread that makes them.                                   *)

\* A caller makes one call at a time; a worker calls once from the
\* continuation it runs.
MayCall(a) ==
  /\ Free(a) /\ life = "live"
  /\ IF a \in Callers
     THEN cfg = "no" \/ BusyConfig
     ELSE work[a].at = "then" /\ "nested" \in use /\ work[a].task \in Nesting

\* The worker goes on to the rest of the continuation after its call.
Called(a) ==
  work' = IF a \in Workers THEN [work EXCEPT ![a].at = "last"] ELSE work

\* The filters or CheckTimeout end a call of Query or AsyncQuery.
Refuse(a) ==
  /\ MayCall(a)
  /\ Called(a)
  /\ at' = [at EXCEPT ![a] = "done"]
  /\ status' = [status EXCEPT ![a] = FALSE]
  /\ runs' = [runs EXCEPT ![a] = 0]
  /\ UNCHANGED <<use, queue, poolVars, lifeVars, res>>

\* Query and AsyncQuery; Execute and AsyncExecute are the same.
Kinds == {"waiting", "future"}

\* UnaryInvoke up to e.Wait(), AsyncUnaryInvoke up to its return, with a fresh
\* context, and with a new results object or, for a caller, the one of its
\* last blocking call.  The result of AddTask is not looked at: a thread pool that no longer
\* runs drops the task.
Invoke(a, kind) ==
  /\ MayCall(a)
  /\ kind = "future" => a \in Callers
  /\ Called(a)
  /\ queue' = IF tp = "running" THEN Append(queue, a) ELSE queue
  /\ at' = [at EXCEPT ![a] = kind]
  /\ status' = [status EXCEPT ![a] = TRUE]
  /\ \/ res' = [res EXCEPT ![a] = TRUE]
     \/ "reuse" \in use /\ a \in Callers /\ UNCHANGED res
  /\ runs' = [runs EXCEPT ![a] = 0]
  /\ UNCHANGED <<use, poolVars, lifeVars>>

\* Mutant: the result of the statement is not copied to the Status.
Resume_IgnoreRes(a) ==
  /\ at[a] = "set"
  /\ at' = [at EXCEPT ![a] = "done"]
  /\ UNCHANGED <<use, queue, work, poolVars, lifeVars, res, status, runs>>

\* UnaryInvoke after e.Wait(), and the return of the call: an error in res, be
\* it of this statement or of an earlier one, becomes the Status.
Resume(a) ==
  /\ at[a] = "set"
  /\ at' = [at EXCEPT ![a] = "done"]
  /\ status' = [status EXCEPT ![a] = @ /\ res[a]]
  /\ UNCHANGED <<use, queue, work, poolVars, lifeVars, res, runs>>

----------------------------------------------------------------------------
(* The tasks, on a worker thread.                                          *)

\* A worker takes a task and gets an executor: an idle one, or a new one that
\* may have failed to connect.
Take(w) ==
  /\ work[w].at = "idle" /\ queue # <<>>
  /\ tp = "running" \/ (tp = "stopped" /\ StopDrains)
  /\ queue' = Tail(queue)
  /\ \/ \E e \in idle :
          /\ Lend(e)
          /\ work' = [work EXCEPT ![w] = [task |-> Head(queue), conn |-> e, at |-> "run"]]
          /\ UNCHANGED dropped
     \/ /\ Executor \ InUse # {}
        /\ \E c \in {0, mconf} : Create(c)
        /\ dropped' = dropped \ {NewExecutor}
        /\ work' = [work EXCEPT ![w] =
                      [task |-> Head(queue), conn |-> NewExecutor, at |-> "run"]]
  /\ UNCHANGED <<use, held, crossed, lifeVars, callVars>>

\* IsConnected() of the executor the worker got.
Connected(w) == made[work[w].conn] # 0

\* Mutant: the executor of a future call is still held while its continuations
\* run.
Deliver_KeepConn(w, a) ==
  IF at[a] = "waiting"
  THEN at' = [at EXCEPT ![a] = "set"] /\ work' = [work EXCEPT ![w] = NoWork]
  ELSE UNCHANGED at /\ work' = [work EXCEPT ![w].at = "then"]

\* The worker hands over the outcome of its task: e.Set() for a blocking call,
\* else the promise, whose continuations it runs next.
Deliver(w, a) ==
  IF at[a] = "waiting"
  THEN at' = [at EXCEPT ![a] = "set"] /\ work' = [work EXCEPT ![w] = NoWork]
  ELSE UNCHANGED at /\ work' = [work EXCEPT ![w].conn = None, ![w].at = "then"]

\* Mutant: a refused connection returns from the task without e.Set().
Disconnected_NoSet(w) ==
  /\ work[w].at = "run" /\ ~Connected(w)
  /\ status' = [status EXCEPT ![work[w].task] = FALSE]
  /\ work' = [work EXCEPT ![w] = NoWork]
  /\ UNCHANGED <<use, queue, poolVars, lifeVars, at, res, runs>>

\* The executor is not connected: the context gets an error, and the executor
\* is dropped.
Disconnected(w) ==
  /\ work[w].at = "run" /\ ~Connected(w)
  /\ status' = [status EXCEPT ![work[w].task] = FALSE]
  /\ Deliver(w, work[w].task)
  /\ UNCHANGED <<use, queue, poolVars, lifeVars, res, runs>>

\* How a statement ends: the server ran it and the answer is "good", its answer
\* was "lost", or it "failed".
Outcomes == {"good", "lost", "failed"}

\* Execute or QueryAll: an error goes to res, which keeps an earlier one
\* (MysqlResults::Clear), or to the future, whose task has a res of its own.
Outcome(a, end) ==
  /\ runs' = [runs EXCEPT ![a] = IF end = "failed" THEN @ ELSE @ + 1]
  /\ IF at[a] = "future"
     THEN status' = [status EXCEPT ![a] = end = "good"] /\ UNCHANGED res
     ELSE res' = [res EXCEPT ![a] = @ /\ end = "good"] /\ UNCHANGED status

\* Mutant: an executor is given back only after a successful statement.
Statement_KeepOnError(w) ==
  /\ work[w].at = "run" /\ Connected(w)
  /\ \E end \in Outcomes :
       /\ Outcome(work[w].task, end)
       /\ idle' = IF end = "good" THEN idle \cup {work[w].conn} ELSE idle
  /\ Deliver(w, work[w].task)
  /\ UNCHANGED <<use, queue, made, held, crossed, dropped, lifeVars>>

\* The statement, then Reclaim.
Statement(w) ==
  /\ work[w].at = "run" /\ Connected(w)
  /\ \E end \in Outcomes : Outcome(work[w].task, end)
  /\ Reclaim(work[w].conn)
  /\ Deliver(w, work[w].task)
  /\ UNCHANGED <<use, queue, held, dropped, lifeVars>>

\* The continuations end, and with them the future the caller waits for and
\* what the continuations called, of which nothing is left.
Then(w) ==
  /\ work[w].at \in {"then", "last"} /\ Free(w)
  /\ work' = [work EXCEPT ![w] = NoWork]
  /\ at' = [at EXCEPT ![work[w].task] = "done", ![w] = "no"]
  /\ res' = [res EXCEPT ![w] = TRUE]
  /\ status' = [status EXCEPT ![w] = TRUE]
  /\ runs' = [runs EXCEPT ![w] = 0]
  /\ UNCHANGED <<use, queue, poolVars, lifeVars>>

----------------------------------------------------------------------------
(* Transaction handles, as far as they hold an executor.                   *)

\* Begin has the connected executor e.  It hands it to the handle, or fails
\* after GetExecutor (a filter, the timeout or the statement "begin"): then the
\* local reference was the last one to e.
BeginWith(c, e, others) ==
  \/ held' = [held EXCEPT ![c] = e] /\ dropped' = others /\ UNCHANGED crossed
  \/ /\ "fail" \in use
     /\ dropped' = others \cup {e} /\ crossed' = crossed \ {e} /\ UNCHANGED held

\* Begin takes an executor on the caller's thread.
Begin(c) ==
  /\ "transact" \in use /\ Free(c) /\ held[c] = None
  /\ life = "live" /\ (cfg = "no" \/ BusyConfig)
  /\ \/ \E e \in idle : Lend(e) /\ BeginWith(c, e, dropped)
     \/ /\ Executor \ InUse # {}
        /\ Create(mconf)
        /\ BeginWith(c, NewExecutor, dropped \ {NewExecutor})
  /\ UNCHANGED <<use, queue, work, lifeVars, callVars>>

\* EndTransaction: the executor goes to the pool of its address in the manager
\* of now.  (~TransactionHandle closes an executor that is still there.)
EndTransaction(c) ==
  /\ Free(c) /\ held[c] # None /\ life = "live" /\ (cfg = "no" \/ BusyConfig)
  /\ held' = [held EXCEPT ![c] = None]
  /\ Reclaim(held[c])
  /\ UNCHANGED <<use, queue, work, dropped, lifeVars, callVars>>

----------------------------------------------------------------------------
(* The life of the proxy.                                                  *)

\* Every task the thread pool will run has ended (ThreadPool::Join).
Joined ==
  /\ \A w \in Workers : work[w].at = "idle"
  /\ StopDrains => queue = <<>>

\* Stop() of the manager closes what lies in its pools.
CloseIdle ==
  /\ idle' = {}
  /\ made' = [e \in Executor |-> IF e \in idle THEN 0 ELSE made[e]]
  /\ UNCHANGED dropped

\* Destroy() of the manager drops what lies in its pools.
DropIdle ==
  /\ idle' = {}
  /\ dropped' = dropped \cup idle
  /\ UNCHANGED made

\* SetMysqlConfig: mysql_conf_ is assigned and the thread pool stopped.
ConfigStop ==
  /\ cfg = "no" /\ "configure" \in use /\ life = "live" /\ conf <= MaxConfigs
  /\ conf' = conf + 1
  /\ tp' = "stopped"
  /\ cfg' = "join"
  /\ UNCHANGED <<use, queue, work, poolVars, mgr, mconf, life, callVars>>

\* It waits for the threads and drops the pool with what is left in its queue.
ConfigJoin ==
  /\ cfg = "join" /\ Joined
  /\ tp' = "none" /\ queue' = <<>>
  /\ cfg' = "drop"
  /\ UNCHANGED <<use, work, poolVars, mgr, conf, mconf, life, callVars>>

\* The manager is stopped,
ConfigDrop ==
  /\ cfg = "drop"
  /\ CloseIdle /\ crossed' = crossed \ idle
  /\ mgr' = "stopped"
  /\ cfg' = "destroy"
  /\ UNCHANGED <<use, queue, work, held, tp, conf, mconf, life, callVars>>

\* Mutant: pool_manager_ keeps pointing to the destroyed manager.
ConfigDestroy_NotNull ==
  /\ cfg = "destroy"
  /\ DropIdle /\ crossed' = crossed \ idle
  /\ mgr' = "destroyed"
  /\ cfg' = "init"
  /\ UNCHANGED <<use, queue, work, held, tp, conf, mconf, life, callVars>>

\* destroyed and dropped.  What a handle holds now is of the old configuration.
ConfigDestroy ==
  /\ cfg = "destroy"
  /\ DropIdle
  /\ crossed' = (crossed \ idle) \cup ({held[c] : c \in Callers} \ {None})
  /\ mgr' = "none"
  /\ cfg' = "init"
  /\ UNCHANGED <<use, queue, work, held, tp, conf, mconf, life, callVars>>

\* Both do nothing when there is an object already.
InitThreadPool == tp' = IF tp = "none" THEN "running" ELSE tp
InitManager ==
  IF mgr = "none" THEN mgr' = "up" /\ mconf' = conf ELSE UNCHANGED <<mgr, mconf>>

ConfigInit ==
  /\ cfg = "init"
  /\ InitThreadPool
  /\ InitManager
  /\ cfg' = "no"
  /\ UNCHANGED <<use, queue, work, poolVars, conf, life, callVars>>

\* Stop(): the thread pool and the manager are stopped, nobody is waited for.
Stop ==
  /\ life = "live" /\ cfg = "no"
  /\ life' = "stopped" /\ tp' = "stopped" /\ mgr' = "stopped"
  /\ CloseIdle /\ crossed' = crossed \ idle
  /\ UNCHANGED <<use, queue, work, held, conf, mconf, cfg, callVars>>

\* Mutant: Destroy() destroys the manager before it joins the threads.
Destroy_NoJoin ==
  /\ life = "stopped"
  /\ life' = "destroyed" /\ mgr' = "destroyed"
  /\ DropIdle /\ crossed' = crossed \ idle
  /\ UNCHANGED <<use, queue, work, held, tp, conf, mconf, cfg, callVars>>

\* Destroy(): the threads are joined, then the manager is destroyed.
Destroy ==
  /\ life = "stopped" /\ Joined
  /\ life' = "destroyed" /\ mgr' = "destroyed"
  /\ DropIdle /\ crossed' = crossed \ idle
  /\ UNCHANGED <<use, queue, work, held, tp, conf, mconf, cfg, callVars>>

Worker(w) == Take(w) \/ Disconnected(w) \/ Statement(w) \/ Then(w)
SetMysqlConfig == ConfigStop \/ ConfigJoin \/ ConfigDrop \/ ConfigDestroy \/ ConfigInit

Next ==
  \/ \E a \in Actor : Refuse(a) \/ Resume(a)
  \/ \E a \in Actor, kind \in Kinds : Invoke(a, kind)
  \/ \E w \in Workers : Worker(w)
  \/ \E c \in Transacting : Begin(c) \/ EndTransaction(c)
  \/ SetMysqlConfig
  \/ Stop \/ Destroy

\* A thread that can go on does: workers, callers whose event was set, and
\* SetMysqlConfig once it has begun.  Nobody has to call.
Fairness ==
  /\ \A w \in Workers : WF_vars(Worker(w))
  /\ \A a \in Actor : WF_vars(Resume(a))
  /\ WF_vars(ConfigJoin) /\ WF_vars(ConfigDrop)
  /\ WF_vars(ConfigDestroy) /\ WF_vars(ConfigInit)

Spec == Init /\ [][Next]_vars /\ Fairness

----------------------------------------------------------------------------
(* Properties.                                                             *)

\* The state is well-typed; a worker with a task has an executor while the
\* statement runs, and none before and after.
TypeOK ==
  /\ tp \in {"none", "running", "stopped"}
  /\ mgr \in {"none", "up", "stopped", "destroyed"}
  /\ cfg \in {"no", "join", "drop", "destroy", "init"}
  /\ life \in {"live", "stopped", "destroyed"}
  /\ conf \in 1 .. MaxConfigs + 1 /\ mconf \in 1 .. conf
  /\ queue \in Seq(Actor)
  /\ idle \subseteq Executor /\ crossed \subseteq Executor
  /\ \A w \in Workers : work[w].conn # None <=> work[w].at = "run"
  /\ \A a \in Actor : /\ at[a] \in {"no", "waiting", "set", "future", "done"}
                      /\ runs[a] \in 0..1

\* "It is enough to check the Status" (docs/zh/mysql.md): a call that returns a
\* fine Status, or a future without an exception, has run its statement, and
\* once, whatever was in the results object and whatever becomes of the thread
\* pool, the manager and the configuration meanwhile.  An error says nothing:
\* the answer may have been lost, or the error be one of an earlier call that
\* the results object kept.
StatusTruthful == \A a \in Actor : at[a] = "done" /\ status[a] => runs[a] = 1

\* Not so: a call that returns an error has not run its statement.
ErrorMeansNotRun == \A a \in Actor : at[a] = "done" /\ ~status[a] => runs[a] = 0

\* A task uses this->pool_manager_ and the pool it got there: as long as one
\* runs, or will, the manager is neither dropped nor destroyed.
ManagerOutlivesTasks ==
  (queue # <<>> \/ \E w \in Workers : work[w].at = "run") => mgr \in {"up", "stopped"}

\* After SetMysqlConfig the proxy works with the new configuration: the two
\* Init functions, which do nothing when the old object is still there, have
\* made new ones, and the pools hold connections of the old configuration only
\* if a transaction that was open at the time brought them back.
ConfigApplied ==
  (cfg = "no" /\ life = "live") =>
    /\ tp = "running" /\ mgr = "up" /\ mconf = conf
    /\ \A e \in idle : made[e] = conf \/ e \in crossed

\* Not so with handles open across SetMysqlConfig: only connections of the
\* current configuration are lent.
CurrentConfigOnly == \A e \in idle : made[e] = mconf

\* A connected executor is in a pool, in a transaction handle, or with the
\* worker that runs a statement on it, until it is closed.  Just two things end
\* its life without Close(): a Begin that fails after it got the executor, and
\* Destroy() of the manager, for those that came back after its Stop().  No
\* outcome of a statement does.
NoExecutorLost == \A e \in Executor : made[e] # 0 => e \in InUse \cup dropped

\* Not so, for these two reasons: every executor is closed before it goes.
ClosedBeforeGone == dropped = {}

\* Every call returns, and every future is resolved, also when the proxy is
\* stopped or gets a new configuration meanwhile, and when continuations block
\* workers in calls of their own (of fewer callers than there are workers).
CallReturns == \A a \in Actor : ~Free(a) ~> Free(a)
=============================================================================
