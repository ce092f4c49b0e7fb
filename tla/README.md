# A TLA+ model of the trpc-cpp MySQL client

This directory models `src/trpc/client/mysql`, the MySQL client of tRPC-Cpp: a
service proxy that runs statements on worker threads over pooled connections,
and offers transactions through handles. `PROJECT.json` lists the components,
runs, mutants, hazards, findings and theorems, and maps every definition to the
source lines it models.

## 1. The system

| Component | State | Operations | Modelled in |
|---|---|---|---|
| `MysqlExecutor` (`executor/mysql_executor.{h,cc}`) | `is_connected`, `mysql_`, last alive time | constructor, `Connect`, `Close`, `CheckAlive`, `StartReconnect`, `QueryAll`, `Execute`, destructor | `MysqlExecutor`, `MysqlQuery`, `MysqlResults` |
| `MysqlStatement` (`executor/mysql_statement.{h,cc}`) | `mysql_stmt_` | `Init`, `BindParam`, `CloseStatement`, error getters | `MysqlQuery`; its errors as outcomes in `MysqlResults` |
| `MysqlResults` (`executor/mysql_results.h`) | rows, null flags, field names, error, `has_value_`, `mysql_res_` | `Clear`, `GetResultSet`, moves, destructor | `MysqlResults` |
| `MysqlExecutorPool` | shards (list and lock), `executor_num_`, `shard_id_gen_` | `GetExecutor`, `Reclaim`, `Stop`, `Destroy` | `MysqlExecutorPool` |
| `MysqlExecutorPoolManager` | concurrent map endpoint -> pool, `pools_to_destroy_` | `Get`, `Stop`, `Destroy` | `MysqlExecutorPoolManager` |
| `TransactionHandle` (`transaction.h`) | `state_`, `executor_` | set/get/transfer, destructor; moves | `MysqlTransaction`, without the moves (section 7) |
| `MysqlServiceProxy` | thread pool, manager, configuration | `Query`, `Execute`, `Begin`, `Commit`, `Rollback`, `Async*`, `Stop`, `Destroy`, `SetMysqlConfig` | `MysqlTransaction` (transactions), `MysqlServiceProxy` (everything else) |
| Binder (`executor/mysql_binder.{h,cc}`) and `QueryHandle` | type tables; buffers, lengths and flags of a row | `CheckFieldsOutputArgs`, `BindInputImpl`, `BindOutputImpl`, `SetResultTuple`, `FetchTruncatedResults` | `MysqlQuery` |
| `Formatter`, `MysqlTime` (`executor/mysql_type.{h,cc}`) | plain data | placeholder substitution, quoting, `ToString`; setters, `FromString` | `MysqlFormatter`, without the setters and `FromString` (section 7) |
| Configuration, codec, plugin | none, or plain data | registration | not modelled (section 7) |

How they interact. A call of the proxy becomes a task of its thread pool. The
task asks the manager for the pool of the endpoint, borrows an executor, runs
the statement and hands the executor to `Reclaim`. `Begin` borrows on the
caller's thread and keeps the executor in a handle; statements of the handle
are tasks on that executor; `Commit` and `Rollback` give it back through
`EndTransaction`. Executors are reference counted, and the destructor asserts
that the executor was closed. Shutdown comes in two orders: `SetMysqlConfig`
stops and joins the thread pool before it stops the pools; `Stop()` stops the
pools without a join, and `Destroy()` joins before it destroys them.

What is hard. Shards have separate locks but share the counters. `Stop()` works
on copies outside the locks. The ping's answer may be stale at the next
statement. The server may drop a session, or lose an answer, at any point of a
transaction. Prepared statements reconnect on their own. The blocking calls
decide by the results object, the futures by the exception. Continuations of
futures run on the worker threads and may call the proxy again. The
configuration can be replaced while handles are open. The library keeps
addresses of row buffers that the code later replaces. Results objects are
reused and moved, and own C memory.

What makes each part correct. Pool: one owner per executor, bounded, nothing
destructed connected, no session forgotten, `GetExecutor` returns, shutdown
drains. Manager: one pool per endpoint, no use after delete, no leak.
Transactions: the state of a handle agrees with what is durable, and sessions
go back clean. Plain calls: a fine Status means that the statement ran, every
call returns, tasks never meet a destroyed manager, a new configuration takes
effect, no executor is lost. One query: the server gets the arguments, the
caller the server's rows, no access leaves a buffer, the statement is closed on
every path. Results: what is handed out is complete and of one call, errors
show, memory has one owner and is freed. Where the code does not keep one of
these, section 3 says under which condition it does and what happens otherwise.

## 2. Modules

- `MysqlExecutor`: an executor as a record (`is_connected` and what `mysql_`
  points to) and its methods as operators. A method whose result the server
  decides yields the set of possible records. Calls on a handle that
  `mysql_close` has released are nondeterministic.
- `MysqlExecutorPool`: the pool with its worker threads and the controller that
  shuts it down. A step is one critical section of a shard lock, one atomic
  operation, or work on an executor only the caller holds. `pc[t]` is the place
  in `GetOrCreate`, in the task, or in `Reclaim`. `Destructed` is derived: the
  executors that no shard, thread or copied list refers to.
- `ConnectionPool`: what any pool promises its borrowers. `MysqlExecutorPool`
  implements it (`ImplementsPool`): pooled executors are `idle`, executors in
  `use` or `discard` are `lent`, the rest of what was created and is not being
  opened is `gone`. Its definitions model no code.
- `MysqlTransaction`: the transaction interface in its blocking and its future
  form. A call is split into the caller's checks, the task, and the
  continuation. The pool is abstract; the server (`Serve`, `EndSession`,
  `ServeThenLose`, `ServerDrop`) is external and modelled by what the code
  relies on: sessions in autocommit mode or in a transaction, rollback when a
  session ends. Every statement writes its own mark, so `db` tells what became
  durable.
- `MysqlExecutorPoolManager`: `Get` with the race of two first callers, `Stop`,
  `Destroy`. Tasks look pools up on the workers, which `Join()` waits for;
  `Begin` and `EndTransaction` do so on the callers' threads, which nothing waits
  for (`QuietCallers` says whether any runs during a shutdown).
- `MysqlResults`: what each path of `QueryAll` and `Execute` leaves in a results
  object, and what callers do with the objects. Rows, flags and names carry the
  number of the call that produced them. A `MYSQL_RES` of `mysql_store_result`
  has an identity, is `freed`, owned, or `lost` in a move assignment; those of
  `GetResultsMeta()` are counted in `metas`, and nothing takes one off.
- `MysqlFormatter`: the text path's substitution, as operators on tokens. A value
  has a part that a conversion can spoil: a quote or backslash in a string, which
  `SpecialConvert` does not escape, or a fraction of a second, which `ToString`
  drops. The reference (`Written`, `SameShape`, `Meant`, `ReadLiteral`) says what
  the caller means and what the server reads, and `Carried` which arguments a
  text can carry.
- `MysqlQuery`: one `QueryAll` or `Execute` on an executor, a step for every call
  into the library: arguments, `Init`, check of the fields, binds, execution with
  its reconnect, and the loop of `FetchResults`. A byte of a buffer carries the
  row and the position it comes from. `lib` is the library's own copy of the
  binds, made by `mysql_stmt_bind_result`: its buffer length, and whether its
  address is still that of `output_buffer`. `skip` is where `output_binds` points
  after a failed `mysql_stmt_fetch_column`. `spilt` remembers the first row for
  which the library stored outside a buffer or was told it may: in memory a
  growth released, or behind the end, because it is given the size of the whole
  buffer at the address behind the old size. What the library stores (`Stored`,
  `Fetched`) is external.
- `MysqlServiceProxy`: calls without a transaction, on the caller's thread
  (`Refuse`, `Invoke`, `Resume`) and on the workers (`Take`, `Disconnected`,
  `Statement`, `Then`), with `SetMysqlConfig` in the five steps between which
  others run, `Stop` and `Destroy`. A statement may run and its answer be lost; a
  results object may be a used one, with the error it kept. A transaction handle
  appears as something that holds an executor (`Begin`, `EndTransaction`); a
  `Begin` may fail after it got one. `dropped` are the executors whose last
  reference went while they were connected. `use` fixes for a behaviour how the
  application uses the proxy, one of `Uses`, which keeps the questions apart.
- `MCPool`, `MCTransaction`, `MCPoolManager`, `MCResults`, `MCQuery`, `MCProxy`:
  instances for TLC.
- `MysqlExecutorPoolProofs`, `MysqlExecutorPoolManagerProofs`,
  `MysqlTransactionProofs`, `MysqlServiceProxyProofs`, `MysqlResultsProofs`,
  `MysqlQueryProofs`: the theorems about the module each is named after.
  `MysqlExecutorProofs` holds the lemmas about the executor's operators that
  the pool and the query path share.

Operators named `X_Y` that follow a "Mutant" comment are deliberately wrong
variants of `X`, used to show that each property can fail.

## 3. Runs

Passing runs:

| Run | Question | Instance |
|---|---|---|
| `pool_shards` | ownership, the bound on the pool, destructor, no lost session, in all interleavings with one shutdown, across a wrap of the counters | 2 threads, 3 shards, `MaxSize` 2, 5 calls, 3 rounds, counters modulo 4 |
| `pool_live` | `GetExecutor` returns, shutdown drains, the abstract pool is implemented | 1 shard, 4 calls, no symmetry |
| `tx_async` | futures: handle states against durability, with filters, timeouts, errors and drops, also on ended handles | 2 handles, 3 executors, 2 statements |
| `tx_sync` | blocking calls on started and ended handles with errors, drops, lost answers and reconnects: one owner, clean sessions | 2 handles, 2 executors, 1 statement |
| `manager` | races in `Get`, then `Stop` (joined or not) and `Destroy` | 2 workers, 1 caller, 2 endpoints, 4 lookups |
| `results` | ownership and release of stored `MYSQL_RES`, complete results, reported failures | 3 objects, 4 calls, 2 rows, all modes |
| `query` | type tables against buffer sizes, rows against the server's, arguments against what the server reads, statement closed on every path | every C++ type with every field type, three pairs of columns, every argument type and the awkward values, all texts of up to 3 items and one with an escaped mark between two holes; 3 rows |
| `proxy` | Status against what ran, tasks against the manager, configuration against what is pooled, lost executors, every call returns | 2 callers, 2 workers, 3 executors; nested calls with used results objects, or transactions whose `Begin` may fail, or transactions across a change of configuration; then `Stop` and `Destroy` |

Runs that refute what a comment, an assertion or the documentation says; the
quotes are under "findings" in `PROJECT.json`:

| Run | What the code does |
|---|---|
| `pool_keeps` | `executor_num_` is not decremented when `GetOrCreate` closes an executor and connects another: a connected executor that comes back without an error is refused, although no more than `max_size` connections exist and its shard has room |
| `tx_reconnect` | a prepared statement reconnects under an open handle, and `Commit` succeeds without the statements before it |
| `tx_begin_fails` | `Begin` keeps what it borrowed only when the Status is OK: after a timeout or a rejection a connected executor is destructed |
| `query_truncated` | `FetchTruncatedResults` moves a buffer the library still has the address of: later rows of the result set are built from an earlier row's bytes |

The properties below are false as well. Each can be reproduced by naming the
property in a cfg with the constants given here:

| Property | Module and constants | What the code does |
|---|---|---|
| `ShardLimitAsDocumented` | pool, as `pool_shards` | a shard holds one executor above the documented limit (`<=` before the push) |
| `CloseFreesHandle` | pool, as `pool_shards` | after a failed ping `Close()` does not reach `mysql_close` |
| `ErrorReadable` | pool, as `pool_shards` | after a refused `Connect()` the caller reads the error from a closed `MYSQL` (`mysql_executor_pool.h:46` promises it can) |
| `DestructorSafe` | pool, `JoinBeforeStop = FALSE` | `MysqlServiceProxy::Stop()` does not join the workers: an executor that comes back late is destructed connected |
| `StopLeavesBorrowed` | pool, `JoinBeforeStop = FALSE` | `Stop()` closes an executor that was popped after the copy |
| `CommitRetryable` | transaction, sync, `Faults = {"timeout"}` | a `Commit` with a bad Status has ended the handle |
| `OutcomeStable` | transaction, sync, `ReuseEnded = TRUE` | `Rollback` on a committed handle sets `kRollBacked` |
| `RolledBackInvisible` | transaction, `Faults = {"replylost"}` | a commit whose answer was lost is reported as rolled back |
| `PooledClean` | transaction, sync, `Faults = {"filter"}` or `{"timeout"}` | the executor of such a `Commit` goes back with the transaction still open |
| `CommittedDurable` | transaction, sync, `Faults = {"filter"}` | a `Commit` that was never sent leaves `res.OK()` true and the handle `kCommitted` (`docs/zh/mysql.md:577`: the transaction has been committed) |
| `FailureReported` | results, `MoveFailed = TRUE` or `OutOfMemory = TRUE` | moves leave `error_number_` behind; a null `MYSQL_STMT` reports 0 |
| `AssignFrees` | results, as `results` | move assignment overwrites `mysql_res_` and loses what it pointed to |
| `SuccessReported` | results, as `results` | `Clear()` keeps `error_number_`: an object that failed once is never `OK()` again |
| `MetadataFreed` | results, as `results`; query, as `query` | nobody frees what `GetResultsMeta()` allocates, up to three `MYSQL_RES` per call |
| `StoresInBounds` | query, as `query` | from the row a buffer grows for, `mysql_stmt_fetch` stores into memory the growth released, and `mysql_stmt_fetch_column` is given a `buffer_length` that reaches behind the buffer |
| `BuffersInBounds` | query, `FetchColumnFails = TRUE` | `FetchResults` does not look at what `FetchTruncatedResults` returned, and the bind stays pointed behind the old size: values are read past the end |
| `TextCarriesAll` | query, as `query` | text arguments are quoted but not escaped, `string_view` and `char*` get no quotes, times lose their fraction |
| `StatementClosed` | query, `FreeResult = {TRUE, FALSE}` | `CloseStatement()` gives up when `mysql_stmt_free_result` fails, and the destructor asserts |
| `PoolPointerValid`, `NoPoolLeaked` | manager, `QuietCallers = FALSE` | `Begin` and `EndTransaction` look their pool up on the caller's thread, which no join waits for |
| `TargetMatches` | manager, a `Key` with one value for two addresses | `Get` prints the address into 64 bytes; two that agree in their first 63 characters share a pool |
| `ErrorMeansNotRun` | proxy, as `proxy` | the answer was lost, or `Clear()` kept the error of an earlier call with the results object |
| `ClosedBeforeGone` | proxy, as `proxy` | a `Begin` that fails after `GetExecutor`, and an executor that comes back between `Stop()` and `Destroy()`, which only drops it |
| `CurrentConfigOnly` | proxy, as `proxy` | a handle open across `SetMysqlConfig` brings a connection of the old configuration into the new pools |
| `CallReturns` | proxy, `Nesting = {c1, c2}` without `FreeWorkerAssumption` | every worker waits in a continuation for a task only another worker could run. `examples/mysql/client/future/future_client.cc:219` has such a continuation |
| `CallReturns` | proxy, `BusyConfig = TRUE` | a task added between `Stop()` and the new thread pool is dropped, and its caller waits for ever |
| `CallReturns` | proxy, `StopDrains = FALSE` | the same for tasks queued at `Stop()`, if the thread pool does not run them |

The passing runs exclude exactly these conditions, by the constants named:
the join (`JoinBeforeStop`), calls that never reach the server in blocking form
and reconnects in durability properties (`Faults`, `Stmts`), moves of failed
objects and a failing `mysql_stmt_init` (`MoveFailed`, `OutOfMemory`), a failing
`mysql_stmt_free_result` (`FreeResult`) or `mysql_stmt_fetch_column`
(`FetchColumnFails`), arguments a text cannot carry (`Carried`, in the
property), transactions that begin or end during a shutdown (`QuietCallers`),
addresses with the same key (`Key`), calls started while `SetMysqlConfig`
runs (`BusyConfig`), a stopped thread pool that leaves its queue (`StopDrains`),
and blocking continuations that could take all workers (`FreeWorkerAssumption`).
The rows without such a constant are false in the passing runs' own instances;
the properties of those runs claim what remains.

`ShardLimitAsDocumented` (`mysql_executor_pool.h:70`) has no true counterpart: a
limit one higher would only restate the test in `Reclaim`. What a pool promises
is `PoolBounded`, over all shards. The blocking `Commit` rows have no run of
their own: four runs already refute one documented claim each, and
`tx_reconnect` refutes `CommittedDurable`, for another reason.

Two remarks on texts that disagree with each other: the comment at
`mysql_service_proxy.h:49-53` says the Status stays OK when MySQL reports an
error, while lines 378-383 and `docs/zh/mysql.md:390-392` put every error in the
Status. `StatusTruthful` claims for a fine Status only, as the code has it, that
the statement ran, and once; by the header's reading that would not follow, and
an error says nothing either way (`ErrorMeansNotRun`). And
`docs/zh/mysql.md:7` says that calls do not block worker threads, which is so
unless the caller is a continuation (the `Nesting` row above).

Conditions the code does not check and the models therefore exclude: a query
whose statement has no result set (`mysql_num_fields` on a null pointer), a
number of arguments other than that of the placeholders, and argument types
without an entry in `MysqlInputType` (`bool`, `char`), which are bound as NULL.
On the text path only one preceding backslash counts, and a `{}` of the statement is
itself a format field. A context that is used again keeps the error of its
previous call. The setters of `MysqlTime` take hour 24, minute 60 and second 60.

### Bounds

`MaxCalls`, `MaxStmts`, `MaxGets` and `MaxRows` cap what callers do; in
the pool, the manager and the results object identities are never reused, so
`Executor`, `Pool` and `Res` are as large as the calls need and never the reason
an action is disabled. Two threads suffice for
the pool, because every conflict there is between two parties (two workers on a
shard or a counter, a worker and the controller); three shards make the round
robin wrap and `MaxNumPerShard` 0, the edge of the integer division. Two handles
and three executors let one handle reuse what another returned while a third
executor idles. Two workers and a caller in `Get` give one winner and two
losers, and both kinds of thread. Three results objects allow a chain of moves.
In `query` the lengths 0, 1, 3 and 4 lie below, at and above buffers of 1 and 2
bytes and make a buffer grow twice; of three rows one can grow the buffer, one
be shorter than it and one be longer, and a NULL can follow each. Types and
fields are all those of the tables. In `proxy` three executors are one for each
worker and one for the handle, so taking an executor is never blocked; two
workers are the least with which one can be blocked in a nested call while
another runs it, and one change of configuration, with transactions that were begun
before it or after it, gives executors of the old and the new configuration. The three `Uses` are instances of their own: used results objects
and nested calls concern the Status and the progress of calls, failing and
crossing transactions the pools. Symmetry is used for threads, executors,
handles, pools, objects and `MYSQL_RES`, only in runs without liveness.

### Fairness

`FairSpec` is weakly fair to each thread inside `GetExecutor()` and on its way
back through `Reclaim()`, and to the controller once `Stop()` was called. The
threads are operating-system threads that hold no lock while they wait for one
another, every call into libmysqlclient has a timeout of 5 seconds, and the
shutdown runs on one thread to its end. There is no fairness for starting a call
or for running further statements: a caller need not go on, but
`ReturnExecutor` assumes that it returns what it borrowed, as the tasks of
`UnaryInvoke` and `AsyncUnaryInvoke` do on every path.

`Fairness` of `MysqlServiceProxy` is weak fairness of each worker (an operating
system thread whose statements end within the API timeout), of a caller whose
event was set, and of `SetMysqlConfig` once it runs. Nobody has to call, to end
a transaction, or to stop the proxy.

## 4. Proofs

Every safety property of the passing runs is stated by a theorem, for every
number of threads, shards, executors, handles, objects, calls, rows and
columns. The hypotheses of a theorem are the conditions under which its run is
made; without them the property is false (section 3). Each result rests on an
inductive invariant with one case per action; the temporal step is PTL.

Assumptions on the constants are named in the modules. Those a reader may not
expect: a positive number of shards (the constructor divides by it),
`ColumnAssumption`, that the output types are ones `MysqlOutputType` is defined
for (the code does not compile otherwise), and `CallAssumption`, the documented
use of a call: a text has as many placeholders as arguments and escapes its
other question marks, and what a prepared statement is given can be bound.

**Pool** (`MysqlExecutorPoolProofs`).

- `TypeCorrect`: `TypeInv` is `TypeOK` plus `Shape`: a thread holds an executor
  exactly at the places where it must, a thread about to close still has a round
  to spend, and the controller's shard index is in range until the last shard was
  destroyed.
- `OwnershipIsExclusive`: `Own` states ownership by position (which list cell,
  which thread) so that a push or a pop disturbs one cell.
- `PoolStaysBounded`: the counter never counts less than the connected
  executors that are pooled or lent (`CountInv`), and `Reclaim` only keeps while
  the counter is at most `max_size`. An executor between `Connect` and
  `fetch_add` is not counted yet and cannot be pooled, which is why the test
  under one lock is enough.
- `DestructorIsSafe`: with the join before `Stop()`, `StopInv` says that no
  thread holds anything after `Stop()` began, that shards already passed hold
  only closed executors, and that what is still connected in the current shard
  is in the copied list.
- `SessionsAreNotLeaked`: `SessionInv` adds that the flag and the handle of an
  executor agree (`Sound`) and that only an executor on its way to `Connect` has
  a fresh handle; with `DestructorIsSafe` a destructed executor is closed or lost.
- `PoolIsImplemented`: the refinement of `ConnectionPool`. The initial states map
  to its initial states and each step of a thread or of the controller to one of
  its actions or to no change. The theorem assumes that `executor_num_` never
  wraps in the behaviour, because afterwards the bound that the abstract pool
  promises is lost; the run `pool_live` stays below the wrap.

**Manager** (`MysqlExecutorPoolManagerProofs`). `Inv` says that a pool a thread
has just created is known to nobody else (`Private`), that a thread that found a
pool has the one of the map (`Found`), and that every pool made is deleted, in
the map, or private to a thread (`Accounted`), of which a `Stop()` after a join
has seen all. `Looking` says that a thread is in `Get` only before a shutdown, or
is a worker that the shutdown did not wait for yet. All theorems assume
`QuietCallers`: with a `Begin` or `EndTransaction` during the shutdown they are
false. From the invariant follow `LookupsAgree`, `PointersStayValid`,
`EveryPoolDeleted`, and, if no two addresses print the same key,
`LookupsReachTheirTarget`.

**Transactions** (`MysqlTransactionProofs`). `Shape` types the records and links
the phase of a call to the state of its handle; `OwnInv` gives
`ExecutorsAreExclusive` and `TransactionTypeCorrect` without any hypothesis, with
all faults and in both forms of the calls. `CleanInv` ties a session's open
transaction to the handle that holds its executor (`PoolIsClean`). `DataInv`
follows the marks of a handle from the session that wrote them to the database:
with the futures, and while no prepared statement reconnects, the marks a handle
believes in are pending on its session or durable (`CommitsAreDurable`). Without
lost answers `VisibleInv` adds the converse (`RollbacksLeaveNothing`,
`StartedIsInvisible`). `OutcomesAreStable` is an action property.

**Proxy** (`MysqlServiceProxyProofs`). `Inv` has a part for the life cycle
(which thread pool and manager are current, what is queued where), one for the
calls (what a caller at each place knows about its statement) and one for the
executors. It gives `StatusIsTruthful` and `ExecutorsAreNotLost` without
hypotheses, with lost answers, results objects used again, failing `Begin`s, and
executors that only `Destroy()` drops, `ManagerSurvivesTasks` if a stopped
thread pool runs its queue (`StopDrains`), and `ConfigurationTakesEffect` if no
call starts while `SetMysqlConfig` runs.

**Results** (`MysqlResultsProofs`). `Good` relates the members of one object to
the last call made with it, `Owned` gives every `MYSQL_RES` at most one owner,
and what is neither freed nor lost in a move assignment has one
(`StoredResultsAreFreed`; the metadata of prepared statements leaks and is not
claimed). A call rewrites one object (`ReplaceStep`), a move two (`MoveStep`);
each action is an instance of one of them.

**One query** (`MysqlQueryProofs`). `Control` and `Meta` say where the call is and
what it has allocated. `Buffers` says that the buffer of a fixed-width column has
the size of its type (`WidthFits`: every field type the tables accept needs at
most that), that the library's copy of a length never exceeds the buffer, and
that it is exact and its address current while the column has not grown.
`Output` says what was delivered. A row is followed column by column: what the
library stores (`FetchedFacts`), what `FetchTruncatedResults` adds
(`RowBufferFacts`), and what `StepTupleSet` hands out (`RowValueFacts`).
This gives `RowsAreFaithful` up to the row a buffer first grows for, and
`FetchStaysInBounds`: what the library stores stays inside a buffer until that
row, and what the caller gets is read inside the buffers in all rows, also
behind it. Both assume that `mysql_stmt_fetch_column` does not fail;
`StatementIsClosed` assumes that `mysql_stmt_free_result` does not.

`ArgumentsReachTheServer` covers both ways to pass arguments. For a prepared
statement the binds keep order and type. For a text, `ConvertPlaceHolder` turns
exactly the holes into format fields and leaves the marks the caller escaped
(`HolesConverted`); `FormatString` fills a field by its rank among the fields and
the server numbers the literals it meets, and both count the same positions
(`FormatFacts`, `TextRead`); that every rank is taken once is `RankExists`, which
comes from the least-number principle of the library; and for the arguments that
a text can carry (`Carried`) the server reads the literal that was meant
(`LiteralRead`).

Only model-checked:

- the liveness properties `GetReturns`, `ShutdownDrains` and `CallReturns`: the
  prover handles neither fairness nor ENABLED;
- what is false (the runs that expect a violation and the second table of
  section 3).

## 5. Modelling decisions

- Idle time is nondeterministic: with `max_idle_time` not 0 an executor may or
  may not have expired. A lost connection shows at the ping that discovers it.
- A reference is dropped when the thread is done with the executor. The locals
  of `GetOrCreate` keep a rejected executor a little longer; it is closed by
  then.
- `executor_num` counts increments and `ExecutorNum` is the wrapped value, so
  that the bound can be stated up to the wrap.
- `Reclaim`'s `fetch_add` and `Close()` are one step: the second only touches
  the executor the thread holds.
- `StartReconnect` tries five times; the records the second attempt can leave
  are those of the later ones.
- In `MysqlTransaction` a handle runs one call at a time, as its executor
  requires; different handles interleave. A `Reclaim` that is refused leaves
  the closed executor in the handle, because the pointer is only moved when the
  pool keeps it.
- A rejecting filter sets an error in the context.
- A worker thread runs one task at a time. Whether a stopped thread pool still
  runs what was queued is a property of tRPC-Cpp (`StopDrains`, TRUE in the
  run; `Get` of the manager module also allows it). After a join nothing
  starts any more, so a joined shutdown does not depend on it.
- `MysqlQuery`: the first growth of a buffer always moves it, because its
  capacity is its size. What the library then writes at the old address goes to
  released memory, which `spilt` counts; its effect on other objects is left out.
  A `mysql_stmt_fetch_column` that stays within what is left of the value stores
  the rest and no more; that it was told it may store behind the buffer counts as
  `spilt` too.
- `MysqlQuery` keeps the contents of a buffer byte by byte, because the finding of
  `query_truncated` and the stale lengths of NULLs are about which row a byte of a
  value comes from; lengths and a flag could not tell.
- `MysqlQuery`: a session opened by the reconnect of `ExecuteStatement` does not
  know the prepared statement, so the call fails. The error number read from a
  closed `MYSQL` when the reconnect failed too is taken not to be 0.
- `MysqlServiceProxy`: a context is fresh in every call, and the filters after a
  call do not change its Status. Only callers use results objects again.
- `MysqlServiceProxy`: an identity of an executor may be used again once nothing
  refers to the old one; `dropped` forgets it then.

## 6. Plan

The modules above cover the components with behaviour of their own, and the
safety properties of all passing runs are proved. The liveness properties stay
with TLC. What is left to strengthen is the refinement of `ConnectionPool`: a
weaker abstract pool, whose bound holds only until the counter wraps, would be
implemented without the hypothesis of `PoolIsImplemented`.

A server that stalls and comes back needs no module: a ping that times out
closes the client's socket, so the session is lost to the client in any case.

## 7. Not modelled

The YAML configuration (data), the codec and protocol classes (stubs, the wire
protocol is libmysqlclient's), the plugin registration and the examples. The
moves of `TransactionHandle` (`transaction.h:29-42`): the proxy passes handles
by reference-counted pointer and never moves one. The setters of `MysqlTime`,
`FromString`, and the members `time_type` and `neg`, which are plain data;
`MysqlBlob` wraps a string. `AutoCommit` has no caller. `affected_rows_` is a
number passed through. Futures, fibers, filters and the thread pool belong to
tRPC-Cpp and appear as steps and outcomes only.
