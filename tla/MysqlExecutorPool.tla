------------------------- MODULE MysqlExecutorPool -------------------------
(***************************************************************************)
(* The sharded connection pool of one MySQL endpoint                       *)
(* (mysql_executor_pool.{h,cc}) with the worker threads that borrow from   *)
(* it and the controller that shuts it down.  A step is one critical       *)
(* section of a shard lock, one atomic counter operation, or one call that *)
(* only touches the caller's own executor.                                 *)
(*                                                                         *)
(* Executors are reference counted: the shards, the locals of the threads  *)
(* and the list copied by Stop() hold the references, and an executor that *)
(* none of them mentions any more has run its destructor.                  *)
(***************************************************************************)
EXTENDS Naturals, Sequences, FiniteSets, MysqlExecutor

CONSTANTS
  Threads,         \* worker threads of the proxy's thread pool
  Executor,        \* identities of MysqlExecutor objects, never reused
  None,            \* the null RefPtr
  MaxSize,         \* pool_option_.max_size
  MaxIdleTime,     \* pool_option_.max_idle_time, 0 switches the check off
  NumShards,       \* pool_option_.num_shard_group
  RetryNum,        \* EXECUTOR_POOL_CONN_RETRY_NUM
  UintMod,         \* 2^32: the uint32_t counters wrap there
  Rets,            \* the ret arguments Reclaim is called with
  JoinBeforeStop,  \* TRUE: SetMysqlConfig joins the workers before Stop();
                   \* FALSE: MysqlServiceProxy::Stop() does not
  MaxCalls         \* bound of the model: calls of GetExecutor()

ASSUME NoneAssumption == None \notin Executor
ASSUME ShardAssumption == MaxSize \in Nat /\ NumShards \in Nat \ {0}
ASSUME CounterAssumption ==
  UintMod \in Nat \ {0} /\ RetryNum \in Nat /\ MaxCalls \in Nat

VARIABLES
  shards,        \* executor_shards_[i].mysql_executors
  exec,          \* the executor objects
  created,       \* executors constructed so far
  home,          \* the shard an executor's id names
  executor_num,  \* number of executor_num_.fetch_add(1) executed
  shard_id_gen,  \* number of shard_id_gen_.fetch_add(1) executed
  pc,            \* where each thread is
  executor,      \* the executor each thread holds
  sid,           \* GetOrCreate's shard_id, reduced to a shard index
  retry_num,     \* GetOrCreate's retry_num
  phase,         \* where the controller is
  next_shard,    \* its loop variable i
  to_close       \* the list Stop() copied and still has to close

poolState == <<shards, exec, created, home, executor_num, shard_id_gen>>
threadState == <<pc, executor, sid, retry_num>>
ctlState == <<phase, next_shard, to_close>>
vars == <<poolState, threadState, ctlState>>

----------------------------------------------------------------------------
Shard == 0 .. NumShards - 1

PCs == {"idle", "loop", "close", "connect", "count", "failed", "use", "discard"}

Phases == {"running", "stopping", "closing", "stopped", "destroying"}

Elems(s) == {s[i] : i \in 1 .. Len(s)}

Pooled == UNION {Elems(shards[i]) : i \in Shard}

Held == {executor[t] : t \in Threads} \ {None}

Referenced == Pooled \cup Held \cup Elems(to_close)

\* The last reference is gone: the destructor has run.
Destructed == created \ Referenced

\* The constructor divides two unsigned integers before it rounds up.
MaxNumPerShard == MaxSize \div NumShards

\* What executor_num_.load() returns.
ExecutorNum == executor_num % UintMod

\* Mutant: the shard id is used as an index without the reduction.
ShardOf_NoModulo(id) == id % UintMod

\* The shard the id-th fetch_add of shard_id_gen_ selects.
ShardOf(id) == (id % UintMod) % NumShards

\* Mutant: back() without pop_back().
Rest_NotPopped(list) == list

\* pop_back() of the shard's list.
Rest(list) == SubSeq(list, 1, Len(list) - 1)

----------------------------------------------------------------------------
Init ==
  /\ shards = [i \in Shard |-> <<>>]
  /\ exec = [e \in Executor |-> [conn |-> FALSE, h |-> "null"]]
  /\ created = {}
  /\ home = [e \in Executor |-> 0]
  /\ executor_num = 0
  /\ shard_id_gen = 0
  /\ pc = [t \in Threads |-> "idle"]
  /\ executor = [t \in Threads |-> None]
  /\ sid = [t \in Threads |-> 0]
  /\ retry_num = [t \in Threads |-> 0]
  /\ phase = "running"
  /\ next_shard = 0
  /\ to_close = <<>>

\* GetOrCreate up to its loop: the shard is drawn round robin.
GetExecutor(t) ==
  /\ pc[t] = "idle"
  /\ phase = "running"
  /\ shard_id_gen < MaxCalls
  /\ sid' = [sid EXCEPT ![t] = ShardOf(shard_id_gen)]
  /\ shard_id_gen' = shard_id_gen + 1
  /\ retry_num' = [retry_num EXCEPT ![t] = RetryNum]
  /\ pc' = [pc EXCEPT ![t] = "loop"]
  /\ UNCHANGED <<shards, exec, created, home, executor_num, executor, ctlState>>

\* Whether the steady clock puts the executor past max_idle_time.
IdleTimeout == IF MaxIdleTime = 0 THEN {FALSE} ELSE BOOLEAN

\* One round of the loop under the shard's lock: take the back of the list,
\* ping it, and hand it out when it is alive and not idle for too long.
PopBack(t) ==
  LET list == shards[sid[t]]
      e == list[Len(list)]
  IN  /\ pc[t] = "loop"
      /\ retry_num[t] > 0
      /\ list # <<>>
      /\ shards' = [shards EXCEPT ![sid[t]] = Rest(list)]
      /\ executor' = [executor EXCEPT ![t] = e]
      /\ \E x \in CheckAlive(exec[e]), timeout \in IdleTimeout :
           /\ exec' = [exec EXCEPT ![e] = x]
           /\ pc' = [pc EXCEPT ![t] = IF x.conn /\ ~timeout THEN "use" ELSE "close"]
      /\ UNCHANGED <<created, home, executor_num, shard_id_gen, sid, retry_num,
                     ctlState>>

\* The rest of the round, outside the lock: close the rejected executor.
CloseIdle(t) ==
  /\ pc[t] = "close"
  /\ exec' = [exec EXCEPT ![executor[t]] = Close(@)]
  /\ executor' = [executor EXCEPT ![t] = None]
  /\ retry_num' = [retry_num EXCEPT ![t] = @ - 1]
  /\ pc' = [pc EXCEPT ![t] = "loop"]
  /\ UNCHANGED <<shards, created, home, executor_num, shard_id_gen, sid, ctlState>>

\* Mutant: the loop does not break on an empty shard.
CreateExecutor_NoBreak(t) ==
  /\ pc[t] = "loop"
  /\ retry_num[t] = 0
  /\ \E e \in Executor \ created :
       /\ created' = created \cup {e}
       /\ exec' = [exec EXCEPT ![e] = New]
       /\ home' = [home EXCEPT ![e] = sid[t]]
       /\ executor' = [executor EXCEPT ![t] = e]
  /\ pc' = [pc EXCEPT ![t] = "connect"]
  /\ UNCHANGED <<shards, executor_num, shard_id_gen, sid, retry_num, ctlState>>

\* The loop ends on an empty shard or after the last round: CreateExecutor.
CreateExecutor(t) ==
  /\ pc[t] = "loop"
  /\ retry_num[t] = 0 \/ shards[sid[t]] = <<>>
  /\ \E e \in Executor \ created :
       /\ created' = created \cup {e}
       /\ exec' = [exec EXCEPT ![e] = New]
       /\ home' = [home EXCEPT ![e] = sid[t]]
       /\ executor' = [executor EXCEPT ![t] = e]
  /\ pc' = [pc EXCEPT ![t] = "connect"]
  /\ UNCHANGED <<shards, executor_num, shard_id_gen, sid, retry_num, ctlState>>

\* Connect() of the new executor; on failure GetExecutor() returns it anyway.
OpenConnection(t) ==
  /\ pc[t] = "connect"
  /\ \E x \in Connect(exec[executor[t]]) :
       /\ exec' = [exec EXCEPT ![executor[t]] = x]
       /\ pc' = [pc EXCEPT ![t] = IF x.conn THEN "count" ELSE "failed"]
  /\ UNCHANGED <<shards, created, home, executor_num, shard_id_gen, executor, sid,
                 retry_num, ctlState>>

\* executor_num_.fetch_add(1) of a new connection; GetExecutor() returns it.
CountConnect(t) ==
  /\ pc[t] = "count"
  /\ executor_num' = executor_num + 1
  /\ pc' = [pc EXCEPT ![t] = "use"]
  /\ UNCHANGED <<shards, exec, created, home, shard_id_gen, executor, sid,
                 retry_num, ctlState>>

\* The caller found IsConnected() false: it reads the error from the executor
\* and drops its reference without a Reclaim.
ReportFailure(t) ==
  /\ pc[t] = "failed"
  /\ executor' = [executor EXCEPT ![t] = None]
  /\ pc' = [pc EXCEPT ![t] = "idle"]
  /\ UNCHANGED <<poolState, sid, retry_num, ctlState>>

\* The caller runs a statement on the executor it was given.
RunStatement(t) ==
  /\ pc[t] = "use"
  /\ \E x \in RunQuery(exec[executor[t]]) :
       exec' = [exec EXCEPT ![executor[t]] = x]
  /\ UNCHANGED <<shards, created, home, executor_num, shard_id_gen, threadState,
                 ctlState>>

\* Mutant: Reclaim looks at the shard only.
HasRoom_NoCount(e) == Len(shards[home[e]]) <= MaxNumPerShard

\* Reclaim's test under the shard lock.
HasRoom(e) ==
  /\ Len(shards[home[e]]) <= MaxNumPerShard
  /\ ExecutorNum <= MaxSize

\* Reclaim keeps the executor.
Reclaim(t, ret) ==
  LET e == executor[t]
  IN  /\ pc[t] = "use"
      /\ ret = 0
      /\ HasRoom(e)
      /\ shards' = [shards EXCEPT ![home[e]] = Append(@, e)]
      /\ executor' = [executor EXCEPT ![t] = None]
      /\ pc' = [pc EXCEPT ![t] = "idle"]
      /\ UNCHANGED <<exec, created, home, executor_num, shard_id_gen, sid, retry_num,
                     ctlState>>

\* Reclaim is told of an error, or finds no room.
RefuseReclaim(t, ret) ==
  /\ pc[t] = "use"
  /\ ret # 0 \/ ~HasRoom(executor[t])
  /\ pc' = [pc EXCEPT ![t] = "discard"]
  /\ UNCHANGED <<poolState, executor, sid, retry_num, ctlState>>

\* Mutant: a refused executor is dropped without Close().
Discard_NoClose(t) ==
  /\ pc[t] = "discard"
  /\ executor_num' = executor_num + 1
  /\ executor' = [executor EXCEPT ![t] = None]
  /\ pc' = [pc EXCEPT ![t] = "idle"]
  /\ UNCHANGED <<shards, exec, created, home, shard_id_gen, sid, retry_num, ctlState>>

\* The tail of Reclaim: the counter goes UP and the executor is closed.
Discard(t) ==
  /\ pc[t] = "discard"
  /\ executor_num' = executor_num + 1
  /\ exec' = [exec EXCEPT ![executor[t]] = Close(@)]
  /\ executor' = [executor EXCEPT ![t] = None]
  /\ pc' = [pc EXCEPT ![t] = "idle"]
  /\ UNCHANGED <<shards, created, home, shard_id_gen, sid, retry_num, ctlState>>

----------------------------------------------------------------------------
AllIdle == \A t \in Threads : pc[t] = "idle"

\* The proxy stops its thread pool (no new task is taken), joins it or not,
\* and calls Stop() on the pool.
StopPool ==
  /\ phase = "running"
  /\ JoinBeforeStop => AllIdle
  /\ phase' = "stopping"
  /\ UNCHANGED <<poolState, threadState, next_shard, to_close>>

\* Stop() copies the list of one shard under its lock ...
StopCopy ==
  /\ phase = "stopping"
  /\ to_close' = shards[next_shard]
  /\ phase' = "closing"
  /\ UNCHANGED <<poolState, threadState, next_shard>>

\* ... and closes the copied executors without it.
StopClose ==
  /\ phase = "closing"
  /\ to_close # <<>>
  /\ exec' = [exec EXCEPT ![Head(to_close)] = Close(@)]
  /\ to_close' = Tail(to_close)
  /\ UNCHANGED <<shards, created, home, executor_num, shard_id_gen, threadState,
                 phase, next_shard>>

\* Mutant: Stop() leaves its loop one shard early.
StopNext_OneShort ==
  /\ phase = "closing"
  /\ to_close = <<>>
  /\ next_shard' = IF next_shard + 2 >= NumShards THEN 0 ELSE next_shard + 1
  /\ phase' = IF next_shard + 2 >= NumShards THEN "stopped" ELSE "stopping"
  /\ UNCHANGED <<poolState, threadState, to_close>>

StopNext ==
  /\ phase = "closing"
  /\ to_close = <<>>
  /\ next_shard' = (next_shard + 1) % NumShards
  /\ phase' = IF next_shard + 1 = NumShards THEN "stopped" ELSE "stopping"
  /\ UNCHANGED <<poolState, threadState, to_close>>

\* The proxy joins its thread pool before it calls Destroy().
DestroyPool ==
  /\ phase = "stopped"
  /\ AllIdle
  /\ phase' = "destroying"
  /\ UNCHANGED <<poolState, threadState, next_shard, to_close>>

\* Destroy() swaps the list of one shard into a local that goes out of scope.
DestroyShard ==
  /\ phase = "destroying"
  /\ next_shard < NumShards
  /\ shards' = [shards EXCEPT ![next_shard] = <<>>]
  /\ next_shard' = next_shard + 1
  /\ UNCHANGED <<exec, created, home, executor_num, shard_id_gen, threadState,
                 phase, to_close>>

Destroyed == phase = "destroying" /\ next_shard = NumShards

Terminating == Destroyed /\ UNCHANGED vars

----------------------------------------------------------------------------
GetOrCreate(t) ==
  PopBack(t) \/ CloseIdle(t) \/ CreateExecutor(t) \/ OpenConnection(t)
    \/ CountConnect(t)

ReturnExecutor(t) ==
  ReportFailure(t) \/ Discard(t)
    \/ \E ret \in Rets : Reclaim(t, ret) \/ RefuseReclaim(t, ret)

Thread(t) == GetExecutor(t) \/ GetOrCreate(t) \/ RunStatement(t) \/ ReturnExecutor(t)

Controller ==
  StopPool \/ StopCopy \/ StopClose \/ StopNext \/ DestroyPool \/ DestroyShard

Next == (\E t \in Threads : Thread(t)) \/ Controller \/ Terminating

Spec == Init /\ [][Next]_vars

\* A thread inside GetExecutor() or on its way back through Reclaim() is
\* scheduled, and so is the controller once Stop() has been called.
FairSpec ==
  /\ Spec
  /\ \A t \in Threads : WF_vars(GetOrCreate(t)) /\ WF_vars(ReturnExecutor(t))
  /\ WF_vars(StopCopy \/ StopClose \/ StopNext \/ DestroyPool \/ DestroyShard)

----------------------------------------------------------------------------
(* Properties                                                              *)

TypeOK ==
  /\ shards \in [Shard -> Seq(Executor)]
  /\ exec \in [Executor -> ExecutorState]
  /\ created \subseteq Executor
  /\ home \in [Executor -> Shard]
  /\ executor_num \in Nat
  /\ shard_id_gen \in Nat
  /\ pc \in [Threads -> PCs]
  /\ executor \in [Threads -> Executor \cup {None}]
  /\ sid \in [Threads -> Shard]
  /\ retry_num \in [Threads -> 0 .. RetryNum]
  /\ phase \in Phases
  /\ next_shard \in 0 .. NumShards
  /\ to_close \in Seq(Executor)

\* An executor has one owner: it is at one position of one shard, or in the
\* hands of one thread, and what is pooled or held has been constructed.
\* (MysqlExecutor is not thread-safe; GetOrCreate and Reclaim move the
\* RefPtr in and out of the list under the shard lock.)
ExclusiveOwnership ==
  /\ \A i, j \in Shard : \A k \in 1 .. Len(shards[i]), l \in 1 .. Len(shards[j]) :
       shards[i][k] = shards[j][l] => i = j /\ k = l
  /\ \A t, u \in Threads :
       executor[t] # None /\ executor[t] = executor[u] => t = u
  /\ Pooled \cap Held = {}
  /\ Pooled \cup Held \subseteq created

\* Until the counter wraps, the pool keeps at most max_size executors, in
\* all shards together, although Reclaim only locks one of them and tests
\* with <=.
PoolBounded == executor_num < UintMod => Cardinality(Pooled) <= MaxSize

\* TRPC_ASSERT(is_connected == false) of ~MysqlExecutor: whoever drops the
\* last reference, on whatever path, the executor was closed before.
DestructorSafe == \A e \in Destructed : ~exec[e].conn

\* A session the server still has open is never forgotten: the handle of a
\* destructed executor was closed, or its connection was found lost.
NoSessionLeaked == \A e \in Destructed : exec[e].h \notin {"init", "open"}

\* GetExecutor() returns: at most RetryNum rounds of the loop, then an
\* executor, connected or not.
GetReturns == \A t \in Threads : pc[t] = "loop" ~> pc[t] \in {"use", "failed"}

\* A shutdown that has begun runs to its end, and no executor ever made is
\* connected then.
ShutdownDrains ==
  phase = "stopping" ~> (Destroyed /\ \A e \in created : ~exec[e].conn)

\* The executors a thread works with, from the borrower's point of view.
Borrowed ==
  [t \in Threads |-> IF pc[t] \in {"use", "discard"} THEN executor[t] ELSE None]

\* Constructed, connected or about to be, and not handed out yet.
Opening == {executor[t] : t \in {u \in Threads : pc[u] \in {"connect", "count"}}}

Abstract ==
  INSTANCE ConnectionPool WITH
    Borrowers <- Threads, Connections <- Executor, NoConnection <- None,
    Capacity <- MaxSize, idle <- Pooled, lent <- Borrowed,
    gone <- created \ (Pooled \cup Opening \cup {Borrowed[t] : t \in Threads})

\* The sharded pool implements the abstract one: no executor is lent twice,
\* none comes back after it was given up, and max_size bounds the idle ones.
ImplementsPool == Abstract!PoolSpec

----------------------------------------------------------------------------
(* What comments and assertions of the code claim, and the code does not   *)
(* keep.                                                                   *)

\* "The maximum number of connections that can be stored per `Shard`": the
\* test of Reclaim lets one more in.
ShardLimitAsDocumented == \A i \in Shard : Len(shards[i]) <= MaxNumPerShard

\* max_size is the "Maximum number of connections in the pool": a connected
\* executor that is returned without an error while no more connections than
\* that exist, and its shard is not full, is kept.  (executor_num_ counts the
\* connections ever made, not the ones there are: closing one in GetOrCreate
\* does not take it back.)
KeepsWhileRoom ==
  [][\A t \in Threads :
       pc[t] = "use" /\ pc'[t] = "discard" /\ exec[executor[t]].conn
       => \/ Cardinality({e \in created : exec[e].conn}) > MaxSize
          \/ Len(shards[home[executor[t]]]) > MaxNumPerShard]_vars

\* "Close the mysql connection and free the MYSQL*": the handle of an
\* executor the pool is done with is not allocated any more.
CloseFreesHandle == \A e \in Destructed : exec[e].h \in {"null", "freed"}

\* GetExecutor "ensures that external code can retrieve error information
\* from the executor": the handle GetErrorMessage() reads is not a closed one.
ErrorReadable == \A t \in Threads : pc[t] = "failed" => exec[executor[t]].h # "freed"

\* "Ensure exclusive ownership during queries": Stop() does not close an
\* executor a thread is working with.
StopLeavesBorrowed ==
  phase = "closing" /\ to_close # <<>> => Head(to_close) \notin Held
=============================================================================
