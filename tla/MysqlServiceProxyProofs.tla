---------------------- MODULE MysqlServiceProxyProofs ----------------------
(***************************************************************************)
(* Proofs about the calls, the tasks and the life of the proxy, for every  *)
(* number of callers, workers, executors and configurations.               *)
(***************************************************************************)
EXTENDS MysqlServiceProxy, SequenceTheorems, TLAPS

----------------------------------------------------------------------------
(* The shape of the state.  It is an invariant on its own, but for the     *)
(* number of runs, which depends on a task being run once.                 *)

Steps == {"idle", "run", "then", "last"}
Job == [task : Actor \cup {None}, conn : Executor \cup {None}, at : Steps]
CallStates == {"no", "waiting", "set", "future", "done"}

LifeShape ==
  /\ use \in Uses
  /\ tp \in {"none", "running", "stopped"}
  /\ mgr \in {"none", "up", "stopped", "destroyed"}
  /\ cfg \in {"no", "join", "drop", "destroy", "init"} /\ life \in {"live", "stopped", "destroyed"}
  /\ conf \in 1 .. MaxConfigs + 1 /\ mconf \in 1 .. conf

WorkShape ==
  /\ queue \in Seq(Actor)
  /\ work \in [Workers -> Job]
  /\ \A w \in Workers : work[w].conn # None <=> work[w].at = "run"
  /\ \A w \in Workers : work[w].task # None <=> work[w].at # "idle"

PoolShape ==
  /\ idle \subseteq Executor /\ crossed \subseteq Executor /\ dropped \subseteq Executor
  /\ made \in [Executor -> Nat] /\ held \in [Callers -> Executor \cup {None}]

CallShape ==
  /\ at \in [Actor -> CallStates]
  /\ res \in [Actor -> BOOLEAN] /\ status \in [Actor -> BOOLEAN] /\ runs \in [Actor -> Nat]

Shape == LifeShape /\ WorkShape /\ PoolShape /\ CallShape

\* Taking the first task leaves the others, in their order.
LEMMA TailFacts ==
  ASSUME NEW S, NEW s \in Seq(S), s # <<>>
  PROVE  /\ Tail(s) \in Seq(S) /\ Len(Tail(s)) = Len(s) - 1
         /\ \A i \in 1 .. Len(Tail(s)) : Tail(s)[i] = s[i + 1] /\ i + 1 \in 1 .. Len(s)
         /\ Head(s) = s[1] /\ 1 \in 1 .. Len(s) /\ Head(s) \in S
<1>1. Len(s) \in Nat /\ Len(s) > 0
  OBVIOUS
<1> QED
  BY <1>1, HeadTailProperties

\* A worker that makes a call only moves on in its continuation.
LEMMA CalledFacts ==
  ASSUME WorkShape, NEW a \in Actor, MayCall(a), Called(a)
  PROVE  /\ work' \in [Workers -> Job]
         /\ \A w \in Workers : /\ work'[w].task = work[w].task /\ work'[w].conn = work[w].conn
                               /\ \/ work'[w].at = work[w].at
                                  \/ work[w].at = "then" /\ work'[w].at = "last"
<1>1. CASE a \in Workers
  <2>1. work' = [work EXCEPT ![a].at = "last"] /\ work[a].at = "then"
    BY <1>1, ProxyAssumption DEF Called, MayCall
  <2> QED
    BY <1>1, <2>1 DEF WorkShape, Job, Steps
<1>2. CASE a \notin Workers
  BY <1>2 DEF Called, WorkShape
<1> QED
  BY <1>1, <1>2

\* A worker with a task has the call of an actor, and an executor while the
\* statement runs.
LEMMA TaskFacts ==
  ASSUME WorkShape, NEW w \in Workers
  PROVE  /\ work[w].at # "idle" => work[w].task \in Actor
         /\ work[w].at = "run" => work[w].conn \in Executor
BY DEF WorkShape, Job

\* Deliver() ends the task of a blocking call and turns to the continuations of
\* a future; the worker no longer has an executor.
LEMMA DeliverFacts ==
  ASSUME WorkShape, NEW w \in Workers, work[w].at = "run", Deliver(w, work[w].task)
  PROVE  /\ work' \in [Workers -> Job]
         /\ \A v \in Workers \ {w} : work'[v] = work[v]
         /\ work'[w].conn = None
         /\ \/ /\ at[work[w].task] = "waiting" /\ at' = [at EXCEPT ![work[w].task] = "set"]
               /\ work'[w].task = None /\ work'[w].at = "idle"
            \/ /\ at[work[w].task] # "waiting" /\ at' = at
               /\ work'[w].task = work[w].task /\ work'[w].at = "then"
<1>1. CASE at[work[w].task] = "waiting"
  <2>1. at' = [at EXCEPT ![work[w].task] = "set"] /\ work' = [work EXCEPT ![w] = NoWork]
    BY <1>1 DEF Deliver
  <2>2. NoWork \in Job /\ NoWork.conn = None /\ NoWork.task = None /\ NoWork.at = "idle"
    BY DEF NoWork, Job, Steps
  <2> QED
    BY <1>1, <2>1, <2>2 DEF WorkShape
<1>2. CASE at[work[w].task] # "waiting"
  BY <1>2 DEF Deliver, WorkShape, Job, Steps
<1> QED
  BY <1>1, <1>2

\* While there is an executor that is not in use, NewExecutor is one.
LEMMA NewExecutorFacts ==
  ASSUME Executor \ InUse # {}
  PROVE  NewExecutor \in Executor /\ NewExecutor \notin InUse
BY DEF NewExecutor

\* The proxy starts well formed.
LEMMA ShapeInit == Init => Shape
BY ProxyAssumption DEF Init, Shape, LifeShape, WorkShape, PoolShape, CallShape, Job, Steps,
                       CallStates, NoWork

\* Every step keeps the state well formed.
LEMMA ShapeStep == Shape /\ [Next]_vars => Shape'
<1> SUFFICES ASSUME LifeShape, WorkShape, PoolShape, CallShape, [Next]_vars
             PROVE  LifeShape' /\ WorkShape' /\ PoolShape' /\ CallShape'
  BY DEF Shape
<1> USE ProxyAssumption DEF poolVars, lifeVars, callVars
<1> DEFINE Goal == LifeShape' /\ WorkShape' /\ PoolShape' /\ CallShape'
<1>l. UNCHANGED <<use, lifeVars>> => LifeShape'
  BY DEF LifeShape
<1>w. UNCHANGED <<queue, work>> => WorkShape'
  BY DEF WorkShape
<1>p. UNCHANGED poolVars => PoolShape'
  BY DEF PoolShape
<1>c. UNCHANGED callVars => CallShape'
  BY DEF CallShape
<1>1. ASSUME NEW a \in Actor, Refuse(a) PROVE Goal
  <2>1. WorkShape'
    <3>1. MayCall(a) /\ Called(a) /\ queue' = queue
      BY <1>1 DEF Refuse
    <3> QED
      BY <3>1, CalledFacts DEF WorkShape
  <2>2. CallShape'
    BY <1>1 DEF Refuse, CallShape, CallStates
  <2> QED
    BY <1>1, <1>l, <1>p, <2>1, <2>2 DEF Refuse
<1>2. ASSUME NEW a \in Actor, Resume(a) PROVE Goal
  <2>1. CallShape'
    BY <1>2 DEF Resume, CallShape, CallStates
  <2> QED
    BY <1>2, <1>l, <1>p, <1>w, <2>1 DEF Resume
<1>3. ASSUME NEW a \in Actor, NEW kind \in Kinds, Invoke(a, kind) PROVE Goal
  <2>1. WorkShape'
    <3>1. MayCall(a) /\ Called(a)
      BY <1>3 DEF Invoke
    <3>2. queue' \in Seq(Actor)
      BY <1>3, AppendProperties DEF Invoke, WorkShape
    <3> QED
      BY <3>1, <3>2, CalledFacts DEF WorkShape
  <2>2. CallShape'
    BY <1>3 DEF Invoke, Kinds, CallShape, CallStates
  <2> QED
    BY <1>3, <1>l, <1>p, <2>1, <2>2 DEF Invoke
<1>4. ASSUME NEW w \in Workers, Take(w) PROVE Goal
  <2>1. /\ queue' \in Seq(Actor) /\ Head(queue) \in Actor
        /\ UNCHANGED <<use, held, crossed, lifeVars, callVars>>
    BY <1>4, TailFacts DEF Take, WorkShape
  <2>2. ASSUME NEW e \in Executor,
               work' = [work EXCEPT ![w] = [task |-> Head(queue), conn |-> e, at |-> "run"]]
        PROVE  WorkShape'
    BY <2>1, <2>2 DEF WorkShape, Job, Steps
  <2>3. CASE \E e \in idle :
               /\ Lend(e)
               /\ work' = [work EXCEPT ![w] = [task |-> Head(queue), conn |-> e, at |-> "run"]]
               /\ UNCHANGED dropped
    BY <2>1, <2>2, <2>3, <1>l, <1>c DEF PoolShape, Lend
  <2>4. CASE /\ Executor \ InUse # {}
             /\ work' = [work EXCEPT ![w] =
                           [task |-> Head(queue), conn |-> NewExecutor, at |-> "run"]]
             /\ \E c \in {0, mconf} : Create(c)
             /\ dropped' = dropped \ {NewExecutor}
    <3>1. NewExecutor \in Executor
      BY <2>4, NewExecutorFacts
    <3>2. mconf \in Nat
      BY DEF LifeShape
    <3>3. PoolShape'
      BY <2>1, <2>4, <3>1, <3>2 DEF PoolShape, Create
    <3> QED
      BY <2>1, <2>2, <2>4, <3>1, <3>3, <1>l, <1>c
  <2> QED
    BY <1>4, <2>3, <2>4 DEF Take
<1>5. ASSUME NEW w \in Workers, Disconnected(w) PROVE Goal
  <2>1. /\ work[w].at = "run" /\ work[w].task \in Actor /\ Deliver(w, work[w].task)
        /\ UNCHANGED <<use, queue, poolVars, lifeVars, res, runs>>
        /\ status' = [status EXCEPT ![work[w].task] = FALSE]
    BY <1>5, TaskFacts DEF Disconnected
  <2>2. WorkShape'
    BY <2>1, DeliverFacts DEF WorkShape
  <2>3. at' \in [Actor -> CallStates]
    BY <2>1, DeliverFacts DEF CallShape, CallStates
  <2>4. CallShape'
    BY <2>1, <2>3 DEF CallShape
  <2> QED
    BY <2>1, <2>2, <2>4, <1>l, <1>p
<1>6. ASSUME NEW w \in Workers, Statement(w) PROVE Goal
  <2>1. /\ work[w].at = "run" /\ work[w].task \in Actor /\ work[w].conn \in Executor
        /\ Deliver(w, work[w].task)
        /\ UNCHANGED <<use, queue, held, dropped, lifeVars>>
    BY <1>6, TaskFacts DEF Statement
  <2>2. WorkShape'
    BY <2>1, DeliverFacts DEF WorkShape
  <2>3. at' \in [Actor -> CallStates]
    BY <2>1, DeliverFacts DEF CallShape, CallStates
  <2>4. PICK end \in Outcomes : Outcome(work[w].task, end)
    BY <1>6 DEF Statement
  <2>5. runs' \in [Actor -> Nat]
    BY <2>1, <2>4 DEF Outcome, CallShape
  <2>6. status' \in [Actor -> BOOLEAN] /\ res' \in [Actor -> BOOLEAN]
    BY <2>1, <2>4 DEF Outcome, CallShape
  <2>7. PoolShape'
    BY <1>6, <2>1 DEF Statement, Reclaim, PoolShape
  <2> QED
    BY <2>1, <2>2, <2>3, <2>5, <2>6, <2>7, <1>l DEF CallShape
<1>7. ASSUME NEW w \in Workers, Then(w) PROVE Goal
  <2>1. work[w].task \in Actor /\ w \in Actor
    BY <1>7, TaskFacts DEF Then, Actor
  <2>2. WorkShape'
    BY <1>7 DEF Then, WorkShape, Job, Steps, NoWork
  <2>3. CallShape'
    BY <1>7, <2>1 DEF Then, CallShape, CallStates
  <2> QED
    BY <1>7, <2>2, <2>3, <1>l, <1>p DEF Then
<1>8. ASSUME NEW c \in Transacting, Begin(c) PROVE Goal
  <2>1. c \in Callers /\ mconf \in Nat
    BY DEF LifeShape
  <2>2. Executor \ InUse # {} => NewExecutor \in Executor
    BY NewExecutorFacts
  <2>3. PoolShape'
    BY <1>8, <2>1, <2>2 DEF Begin, BeginWith, Lend, Create, PoolShape
  <2> QED
    BY <1>8, <2>3, <1>l, <1>w, <1>c DEF Begin
<1>9. ASSUME NEW c \in Transacting, EndTransaction(c) PROVE Goal
  <2>1. PoolShape'
    BY <1>9 DEF EndTransaction, Reclaim, PoolShape
  <2> QED
    BY <1>9, <2>1, <1>l, <1>w, <1>c DEF EndTransaction
<1>10. ASSUME SetMysqlConfig PROVE Goal
  <2>1. ASSUME ConfigStop PROVE Goal
    BY <2>1, <1>w, <1>p, <1>c DEF ConfigStop, LifeShape
  <2>2. ASSUME ConfigJoin PROVE Goal
    <3>1. WorkShape'
      BY <2>2 DEF ConfigJoin, WorkShape
    <3> QED
      BY <2>2, <3>1, <1>p, <1>c DEF ConfigJoin, LifeShape
  <2>3. ASSUME ConfigDrop PROVE Goal
    <3>1. PoolShape'
      BY <2>3 DEF ConfigDrop, CloseIdle, PoolShape
    <3> QED
      BY <2>3, <3>1, <1>w, <1>c DEF ConfigDrop, LifeShape
  <2>4. ASSUME ConfigInit PROVE Goal
    BY <2>4, <1>w, <1>p, <1>c DEF ConfigInit, InitThreadPool, InitManager, LifeShape
  <2>5. ASSUME ConfigDestroy PROVE Goal
    <3>1. PoolShape'
      BY <2>5 DEF ConfigDestroy, DropIdle, PoolShape
    <3> QED
      BY <2>5, <3>1, <1>w, <1>c DEF ConfigDestroy, LifeShape
  <2> QED
    BY <1>10, <2>1, <2>2, <2>3, <2>4, <2>5 DEF SetMysqlConfig
<1>11. ASSUME Stop \/ Destroy PROVE Goal
  <2>1. PoolShape'
    BY <1>11 DEF Stop, Destroy, CloseIdle, DropIdle, PoolShape
  <2>2. LifeShape'
    BY <1>11 DEF Stop, Destroy, LifeShape
  <2> QED
    BY <1>11, <2>1, <2>2, <1>w, <1>c DEF Stop, Destroy
<1>12. ASSUME UNCHANGED vars PROVE Goal
  BY <1>12, <1>l, <1>w, <1>p, <1>c DEF vars
<1> QED
  BY <1>1, <1>2, <1>3, <1>4, <1>5, <1>6, <1>7, <1>8, <1>9, <1>10, <1>11, <1>12
     DEF Next, Worker

----------------------------------------------------------------------------
(* The life of the proxy: which thread pool and manager there are in each  *)
(* step of SetMysqlConfig and of the shutdown, and when nothing runs.      *)

AllIdle == \A w \in Workers : work[w].at = "idle"

LifeInv ==
  /\ life # "live" => cfg = "no" /\ tp = "stopped"
  /\ life = "stopped" => mgr = "stopped"
  /\ life = "destroyed" => AllIdle /\ (StopDrains => queue = <<>>)
  /\ life = "live" =>
       /\ cfg = "no" => tp = "running" /\ mgr = "up" /\ mconf = conf
       /\ cfg = "join" => tp = "stopped" /\ mgr = "up"
       /\ cfg = "drop" => tp = "none" /\ mgr = "up" /\ queue = <<>> /\ AllIdle
       /\ cfg = "destroy" => tp = "none" /\ mgr = "stopped" /\ queue = <<>> /\ AllIdle
       /\ cfg = "init" => tp = "none" /\ mgr = "none" /\ queue = <<>> /\ AllIdle

\* A new proxy is live.
LEMMA LifeInit == Init => LifeInv
BY DEF Init, LifeInv

\* The steps of calls and tasks respect the phases of the life, and
\* SetMysqlConfig, Stop() and Destroy() follow them.
LEMMA LifeStep == Shape /\ LifeInv /\ [Next]_vars => LifeInv'
<1> SUFFICES ASSUME LifeShape, WorkShape, LifeInv, [Next]_vars PROVE LifeInv'
  BY DEF Shape
<1> USE ProxyAssumption DEF poolVars, lifeVars, callVars, LifeInv, AllIdle
<1>1. ASSUME NEW a \in Actor, Refuse(a) PROVE LifeInv'
  <2>1. \A w \in Workers : work[w].at = "idle" => work'[w].at = "idle"
    BY <1>1, CalledFacts DEF Refuse
  <2> QED
    BY <1>1, <2>1 DEF Refuse
<1>2. ASSUME NEW a \in Actor, Resume(a) PROVE LifeInv'
  BY <1>2 DEF Resume
<1>3. ASSUME NEW a \in Actor, NEW kind \in Kinds, Invoke(a, kind) PROVE LifeInv'
  <2>1. \A w \in Workers : work[w].at = "idle" => work'[w].at = "idle"
    BY <1>3, CalledFacts DEF Invoke
  <2>2. life = "live" /\ (tp # "running" => queue' = queue) /\ UNCHANGED lifeVars
    BY <1>3 DEF Invoke, MayCall
  <2> QED
    BY <2>1, <2>2 DEF LifeShape
<1>4. ASSUME NEW w \in Workers, Take(w) PROVE LifeInv'
  <2>1. queue # <<>> /\ (tp = "running" \/ (tp = "stopped" /\ StopDrains)) /\ UNCHANGED lifeVars
    BY <1>4 DEF Take
  <2> QED
    BY <2>1 DEF LifeShape
<1>5. ASSUME NEW w \in Workers, Disconnected(w) \/ Statement(w) \/ Then(w) PROVE LifeInv'
  <2>1. work[w].at # "idle" /\ UNCHANGED lifeVars
    BY <1>5 DEF Disconnected, Statement, Then
  <2> QED
    BY <2>1 DEF LifeShape
<1>6. ASSUME NEW c \in Transacting, Begin(c) \/ EndTransaction(c) PROVE LifeInv'
  BY <1>6 DEF Begin, EndTransaction
<1>7. ASSUME SetMysqlConfig PROVE LifeInv'
  BY <1>7 DEF SetMysqlConfig, ConfigStop, ConfigJoin, ConfigDrop, ConfigDestroy, ConfigInit, Joined,
              InitThreadPool, InitManager, LifeShape
<1>8. ASSUME Stop \/ Destroy PROVE LifeInv'
  BY <1>8 DEF Stop, Destroy, Joined
<1>9. ASSUME UNCHANGED vars PROVE LifeInv'
  BY <1>9 DEF vars
<1> QED
  BY <1>1, <1>2, <1>3, <1>4, <1>5, <1>6, <1>7, <1>8, <1>9 DEF Next, Worker

----------------------------------------------------------------------------
(* A call is run once: its task is in the queue once or with one worker,   *)
(* its statement has not run before, and what it reports is what happened. *)

Pending(a) == at[a] \in {"waiting", "future"} /\ status[a] = TRUE /\ runs[a] = 0

Truthful(a) == status[a] => runs[a] = 1

QueueInv ==
  /\ \A i \in 1 .. Len(queue) : Pending(queue[i])
  /\ \A i, j \in 1 .. Len(queue) : queue[i] = queue[j] => i = j

RunInv == \A w \in Workers : work[w].at = "run" => Pending(work[w].task)

ThenInv ==
  \A w \in Workers : work[w].at \in {"then", "last"} =>
    at[work[w].task] = "future" /\ Truthful(work[w].task)

OneWorker ==
  \A v, w \in Workers :
    work[v].at # "idle" /\ work[w].at # "idle" /\ work[v].task = work[w].task => v = w

NotQueued ==
  \A w \in Workers : work[w].at # "idle" =>
    \A i \in 1 .. Len(queue) : queue[i] # work[w].task

TaskInv == RunInv /\ ThenInv /\ OneWorker /\ NotQueued

ReturnInv ==
  /\ \A a \in Actor : at[a] = "set" /\ res[a] => Truthful(a)
  /\ \A a \in Actor : at[a] = "done" => Truthful(a)
  /\ \A a \in Actor : runs[a] \in 0 .. 1

CallInv == QueueInv /\ TaskInv /\ ReturnInv

\* No call has been made yet.
LEMMA CallInit == Init => CallInv
BY DEF Init, CallInv, QueueInv, TaskInv, RunInv, ThenInv, OneWorker, NotQueued, ReturnInv,
       NoWork, Truthful

\* A step that changes no call, no task and no queue keeps CallInv.
LEMMA CallStutter == CallInv /\ UNCHANGED <<queue, work, callVars>> => CallInv'
BY DEF CallInv, QueueInv, TaskInv, RunInv, ThenInv, OneWorker, NotQueued, ReturnInv, Pending,
       Truthful, callVars

\* Calls, tasks and continuations keep every call in one place and its outcome
\* true.
LEMMA CallStep == Shape /\ CallInv /\ [Next]_vars => CallInv'
<1> SUFFICES ASSUME WorkShape, CallShape, QueueInv, TaskInv, ReturnInv, [Next]_vars
             PROVE  CallInv'
  BY DEF Shape, CallInv
<1> USE ProxyAssumption
<1>0. Len(queue) \in Nat /\ \A i \in 1 .. Len(queue) : queue[i] \in Actor
  BY DEF WorkShape
<1>1. ASSUME NEW a \in Actor, Refuse(a) PROVE CallInv'
  <2>1. /\ MayCall(a) /\ Called(a) /\ at[a] \in {"no", "done"}
        /\ at' = [at EXCEPT ![a] = "done"]
        /\ status' = [status EXCEPT ![a] = FALSE]
        /\ runs' = [runs EXCEPT ![a] = 0]
        /\ queue' = queue /\ res' = res
    BY <1>1 DEF Refuse, MayCall, Free
  <2>2. QueueInv'
    BY <1>0, <2>1 DEF QueueInv, Pending, CallShape
  <2>3. TaskInv'
    <3>0. \A w \in Workers : work[w].at # "idle" => work[w].task \in Actor \ {a}
      BY <2>1, TaskFacts DEF TaskInv, RunInv, ThenInv, Pending, WorkShape, Job, Steps
    <3>1. RunInv'
      BY <2>1, <3>0, CalledFacts, SMTT(30) DEF TaskInv, RunInv, QueueInv, Pending, CallShape
    <3>2. ThenInv'
      BY <2>1, <3>0, CalledFacts DEF TaskInv, ThenInv, Truthful, CallShape
    <3>3. OneWorker'
      BY <2>1, CalledFacts DEF TaskInv, OneWorker
    <3>4. NotQueued'
      BY <2>1, <3>0, CalledFacts, SMTT(30) DEF TaskInv, NotQueued, QueueInv, CallShape
    <3> QED
      BY <3>1, <3>2, <3>3, <3>4 DEF TaskInv
  <2>4. ReturnInv'
    BY <2>1 DEF ReturnInv, Truthful, CallShape
  <2> QED
    BY <2>2, <2>3, <2>4 DEF CallInv
<1>2. ASSUME NEW a \in Actor, Resume(a) PROVE CallInv'
  <2>1. /\ at[a] = "set"
        /\ at' = [at EXCEPT ![a] = "done"]
        /\ status' = [status EXCEPT ![a] = status[a] /\ res[a]]
        /\ queue' = queue /\ work' = work /\ runs' = runs /\ res' = res
    BY <1>2 DEF Resume
  <2>2. QueueInv'
    BY <1>0, <2>1 DEF QueueInv, Pending, CallShape
  <2>3. TaskInv'
    <3>0. \A w \in Workers : work[w].at # "idle" => work[w].task \in Actor \ {a}
      BY <2>1, TaskFacts DEF TaskInv, RunInv, ThenInv, Pending, WorkShape, Job, Steps
    <3>1. RunInv'
      BY <2>1, <3>0 DEF TaskInv, RunInv, QueueInv, Pending, CallShape
    <3>2. ThenInv'
      BY <2>1, <3>0 DEF TaskInv, ThenInv, Truthful, CallShape
    <3>3. OneWorker'
      BY <2>1, <3>0 DEF TaskInv, OneWorker, NotQueued, CallShape
    <3>4. NotQueued'
      BY <2>1, <3>0 DEF TaskInv, NotQueued, QueueInv, CallShape
    <3> QED
      BY <3>1, <3>2, <3>3, <3>4 DEF TaskInv
  <2>4. ReturnInv'
    BY <2>1 DEF ReturnInv, Truthful, CallShape
  <2> QED
    BY <2>2, <2>3, <2>4 DEF CallInv
<1>3. ASSUME NEW a \in Actor, NEW kind \in Kinds, Invoke(a, kind) PROVE CallInv'
  <2>1. /\ MayCall(a) /\ Called(a) /\ at[a] \in {"no", "done"}
        /\ queue' = IF tp = "running" THEN Append(queue, a) ELSE queue
        /\ at' = [at EXCEPT ![a] = kind]
        /\ status' = [status EXCEPT ![a] = TRUE]
        /\ runs' = [runs EXCEPT ![a] = 0]
    BY <1>3 DEF Invoke, MayCall, Free
  <2>r. \A b \in Actor \ {a} : res'[b] = res[b]
    BY <1>3 DEF Invoke, CallShape
  <2>2. kind \in {"waiting", "future"}
    BY DEF Kinds
  <2>3. \A i \in 1 .. Len(queue) : queue[i] # a
    BY <2>1 DEF QueueInv, Pending
  <2>4. \/ queue' = queue
        \/ /\ Len(queue') = Len(queue) + 1
           /\ \A i \in 1 .. Len(queue) : queue'[i] = queue[i]
           /\ queue'[Len(queue) + 1] = a
    BY <2>1, AppendProperties DEF WorkShape
  <2>5. QueueInv'
    BY <1>0, <2>1, <2>2, <2>3, <2>4, SMTT(30) DEF QueueInv, Pending, CallShape
  <2>6. \A w \in Workers : work[w].at # "idle" => work[w].task \in Actor \ {a}
    BY <2>1, TaskFacts DEF TaskInv, RunInv, ThenInv, Pending, WorkShape, Job, Steps
  <2>7. TaskInv'
    <3>0. \A w \in Workers : /\ work'[w].task = work[w].task
                             /\ work'[w].at # "idle" => work[w].at # "idle"
                             /\ work'[w].at = "run" => work[w].at = "run"
      BY <2>1, CalledFacts
    <3>b. \A b \in Actor \ {a} : at'[b] = at[b] /\ status'[b] = status[b] /\ runs'[b] = runs[b]
      BY <2>1 DEF CallShape
    <3>1. RunInv'
      BY <2>6, <3>0, <3>b DEF TaskInv, RunInv, Pending
    <3>2. ThenInv'
      BY <1>0, <2>1, <2>4, <2>6, CalledFacts, SMTT(30) DEF TaskInv, ThenInv, Truthful, CallShape
    <3>3. OneWorker'
      BY <2>1, CalledFacts DEF TaskInv, OneWorker
    <3>4. NotQueued'
      BY <1>0, <2>4, <2>6, <3>0 DEF TaskInv, NotQueued
    <3> QED
      BY <3>1, <3>2, <3>3, <3>4 DEF TaskInv
  <2>8. ReturnInv'
    BY <2>1, <2>2, <2>r DEF ReturnInv, Truthful, CallShape
  <2> QED
    BY <2>5, <2>7, <2>8 DEF CallInv
<1>4. ASSUME NEW w \in Workers, Take(w) PROVE CallInv'
  <2>1. /\ queue # <<>> /\ work[w].at = "idle" /\ queue' = Tail(queue)
        /\ UNCHANGED <<at, res, status, runs>>
        /\ \E e : work' = [work EXCEPT ![w] = [task |-> Head(queue), conn |-> e, at |-> "run"]]
    BY <1>4 DEF Take, callVars
  <2>2. /\ \A v \in Workers \ {w} : work'[v] = work[v]
        /\ work'[w].task = queue[1] /\ work'[w].at = "run"
    BY <2>1, TailFacts DEF WorkShape
  <2>3. /\ Len(queue') = Len(queue) - 1 /\ 1 \in 1 .. Len(queue)
        /\ \A i \in 1 .. Len(queue') : queue'[i] = queue[i + 1] /\ i + 1 \in 1 .. Len(queue)
    BY <2>1, TailFacts DEF WorkShape
  <2>4. QueueInv'
    BY <1>0, <2>1, <2>3 DEF QueueInv, Pending
  <2>5. TaskInv'
    <3>1. RunInv'
      BY <1>0, <2>1, <2>2, <2>3 DEF TaskInv, RunInv, QueueInv, Pending
    <3>2. ThenInv'
      BY <1>0, <2>1, <2>2, <2>3 DEF TaskInv, ThenInv, Truthful
    <3>3. OneWorker'
      BY <1>0, <2>1, <2>2, <2>3 DEF TaskInv, OneWorker, NotQueued
    <3>4. NotQueued'
      BY <1>0, <2>1, <2>2, <2>3 DEF TaskInv, NotQueued, QueueInv
    <3> QED
      BY <3>1, <3>2, <3>3, <3>4 DEF TaskInv
  <2>6. ReturnInv'
    BY <2>1 DEF ReturnInv, Truthful
  <2> QED
    BY <2>4, <2>5, <2>6 DEF CallInv
<1>5. ASSUME NEW w \in Workers, work[w].at = "run", Deliver(w, work[w].task),
             queue' = queue,
             \/ /\ status' = [status EXCEPT ![work[w].task] = FALSE]
                /\ res' = res /\ runs' = runs
             \/ \E end \in Outcomes : Outcome(work[w].task, end)
      PROVE  CallInv'
  <2> DEFINE a == work[w].task
  <2>1. a \in Actor /\ Pending(a)
    BY <1>5, TaskFacts DEF TaskInv, RunInv
  <2>2. /\ work' \in [Workers -> Job]
        /\ \A v \in Workers \ {w} : work'[v] = work[v]
        /\ \/ /\ at[a] = "waiting" /\ at' = [at EXCEPT ![a] = "set"]
              /\ work'[w].task = None /\ work'[w].at = "idle"
           \/ /\ at[a] = "future" /\ at' = at
              /\ work'[w].task = a /\ work'[w].at = "then"
    BY <1>5, <2>1, DeliverFacts DEF Pending
  <2>3. /\ \A b \in Actor \ {a} : status'[b] = status[b] /\ runs'[b] = runs[b] /\ res'[b] = res[b]
        /\ \A b \in Actor \ {a} : at'[b] = at[b]
        /\ at[a] = "waiting" => at'[a] = "set"
        /\ at[a] = "future" => at'[a] = "future"
    BY <1>5, <2>1, <2>2 DEF CallShape, Outcome
  <2>4. /\ at[a] = "waiting" => (res'[a] /\ status'[a] => runs'[a] = 1)
        /\ at[a] = "future" => (status'[a] => runs'[a] = 1)
        /\ runs'[a] \in 0 .. 1
    <3>1. CASE /\ status' = [status EXCEPT ![a] = FALSE]
               /\ res' = res /\ runs' = runs
      BY <2>1, <3>1 DEF CallShape, Pending
    <3>2. ASSUME NEW end \in Outcomes, Outcome(a, end)
          PROVE  <2>4!1 /\ <2>4!2 /\ <2>4!3
      <4>1. runs'[a] \in 0 .. 1 /\ (end = "good" => runs'[a] = 1)
        BY <2>1, <3>2 DEF CallShape, Pending, Outcome
      <4>2. at[a] = "future" => (status'[a] => end = "good")
        BY <2>1, <3>2 DEF CallShape, Pending, Outcome
      <4>3. at[a] = "waiting" => (res'[a] => end = "good")
        BY <2>1, <3>2 DEF CallShape, Pending, Outcome
      <4> QED
        BY <4>1, <4>2, <4>3
    <3> QED
      BY <1>5, <3>1, <3>2
  <2>5. /\ \A i \in 1 .. Len(queue) : queue[i] # a
        /\ \A v \in Workers \ {w} : work[v].at # "idle" => work[v].task \in Actor \ {a}
    BY <1>5, TaskFacts DEF TaskInv, OneWorker, NotQueued
  <2> HIDE DEF a
  <2>6. QueueInv'
    BY <1>0, <1>5, <2>3, <2>5 DEF QueueInv, Pending
  <2>7. TaskInv'
    <3>1. RunInv'
      BY <1>0, <1>5, <2>2, <2>3, <2>4, <2>5 DEF TaskInv, RunInv, QueueInv, Pending
    <3>2. ThenInv'
      BY <1>0, <1>5, <2>2, <2>3, <2>4, <2>5 DEF TaskInv, ThenInv, Truthful
    <3>3. OneWorker'
      BY <1>0, <1>5, <2>2, <2>3, <2>4, <2>5 DEF TaskInv, OneWorker, NotQueued
    <3>4. NotQueued'
      BY <1>0, <1>5, <2>2, <2>3, <2>4, <2>5 DEF TaskInv, NotQueued, QueueInv
    <3> QED
      BY <3>1, <3>2, <3>3, <3>4 DEF TaskInv
  <2>8. ReturnInv'
    BY <2>1, <2>3, <2>4 DEF ReturnInv, Truthful, Pending
  <2> QED
    BY <2>6, <2>7, <2>8 DEF CallInv
<1>6. ASSUME NEW w \in Workers, Disconnected(w) \/ Statement(w) PROVE CallInv'
  BY <1>5, <1>6 DEF Disconnected, Statement
<1>7. ASSUME NEW w \in Workers, Then(w) PROVE CallInv'
  <2> DEFINE a == work[w].task
  <2>1. /\ work[w].at \in {"then", "last"} /\ at[w] \in {"no", "done"}
        /\ work' = [work EXCEPT ![w] = NoWork]
        /\ at' = [at EXCEPT ![a] = "done", ![w] = "no"]
        /\ res' = [res EXCEPT ![w] = TRUE] /\ status' = [status EXCEPT ![w] = TRUE]
        /\ runs' = [runs EXCEPT ![w] = 0] /\ queue' = queue
    BY <1>7 DEF Then, Free
  <2>2. a \in Actor /\ at[a] = "future" /\ Truthful(a) /\ w \in Actor /\ a # w
    BY <2>1, TaskFacts DEF TaskInv, ThenInv, Actor
  <2>3. /\ \A v \in Workers \ {w} : work'[v] = work[v]
        /\ work'[w].task = None /\ work'[w].at = "idle"
        /\ \A b \in Actor \ {a, w} : at'[b] = at[b]
        /\ at'[a] = "done" /\ at'[w] = "no" /\ runs'[w] = 0 /\ queue' = queue
        /\ \A b \in Actor \ {w} : res'[b] = res[b] /\ status'[b] = status[b] /\ runs'[b] = runs[b]
    BY <2>1, <2>2 DEF WorkShape, CallShape, NoWork
  <2>4. /\ \A i \in 1 .. Len(queue) : queue[i] \in Actor \ {a, w}
        /\ \A v \in Workers \ {w} : work[v].at # "idle" => work[v].task \in Actor \ {a, w}
    BY <1>0, <2>1, <2>2, TaskFacts
       DEF TaskInv, RunInv, ThenInv, OneWorker, NotQueued, QueueInv, Pending, WorkShape, Job, Steps
  <2> HIDE DEF a
  <2>5. QueueInv'
    BY <2>3, <2>4 DEF QueueInv, Pending
  <2>6. TaskInv'
    <3>1. RunInv'
      BY <1>0, <2>3, <2>4 DEF TaskInv, RunInv, QueueInv, Pending
    <3>2. ThenInv'
      BY <1>0, <2>3, <2>4 DEF TaskInv, ThenInv, Truthful
    <3>3. OneWorker'
      BY <1>0, <2>3, <2>4 DEF TaskInv, OneWorker, NotQueued
    <3>4. NotQueued'
      BY <1>0, <2>3, <2>4 DEF TaskInv, NotQueued, QueueInv
    <3> QED
      BY <3>1, <3>2, <3>3, <3>4 DEF TaskInv
  <2>7. ReturnInv'
    BY <2>2, <2>3 DEF ReturnInv, Truthful
  <2> QED
    BY <2>5, <2>6, <2>7 DEF CallInv
<1>8. ASSUME NEW c \in Transacting, Begin(c) \/ EndTransaction(c) PROVE CallInv'
  BY <1>8, CallStutter DEF Begin, EndTransaction, CallInv
<1>9. ASSUME \/ ConfigStop \/ ConfigDrop \/ ConfigDestroy \/ ConfigInit
             \/ Stop \/ Destroy \/ UNCHANGED vars
      PROVE  CallInv'
  BY <1>9, CallStutter DEF ConfigStop, ConfigDrop, ConfigDestroy, ConfigInit, Stop, Destroy, vars, CallInv
<1>10. ASSUME ConfigJoin PROVE CallInv'
  <2>1. queue' = <<>> /\ work' = work /\ UNCHANGED <<at, res, status, runs>>
    BY <1>10 DEF ConfigJoin, callVars
  <2>2. QueueInv' /\ TaskInv'
    BY <2>1 DEF QueueInv, TaskInv, RunInv, ThenInv, OneWorker, NotQueued, Pending, Truthful
  <2>3. ReturnInv'
    BY <2>1 DEF ReturnInv, Truthful
  <2> QED
    BY <2>2, <2>3 DEF CallInv
<1> QED
  BY <1>1, <1>2, <1>3, <1>4, <1>6, <1>7, <1>8, <1>9, <1>10 DEF Next, Worker, SetMysqlConfig

----------------------------------------------------------------------------
(* The executors: each is in one place, one that is not closed is in some  *)
(* place, and one of an old configuration has crossed SetMysqlConfig in a  *)
(* transaction handle.                                                     *)

OwnInv ==
  /\ \A e \in idle : made[e] # 0
  /\ \A c \in Callers : held[c] # None => held[c] \notin idle /\ made[held[c]] # 0
  /\ \A w \in Workers : work[w].conn # None => work[w].conn \notin idle
  /\ \A c, d \in Callers : held[c] # None /\ held[c] = held[d] => c = d
  /\ \A v, w \in Workers : work[v].conn # None /\ work[v].conn = work[w].conn => v = w
  /\ \A c \in Callers, w \in Workers : held[c] # None => held[c] # work[w].conn

Current(e) == made[e] \in {0, mconf} \/ e \in crossed

ConfigInv ==
  ~BusyConfig =>
    /\ \A e \in idle : Current(e)
    /\ \A c \in Callers : held[c] # None => Current(held[c])
    /\ \A w \in Workers : work[w].conn # None => Current(work[w].conn)
    /\ cfg = "init" => idle = {} /\ \A c \in Callers : held[c] # None => held[c] \in crossed

PoolInv == OwnInv /\ NoExecutorLost /\ ConfigInv

\* There is no executor at first.
LEMMA PoolInit == Init => PoolInv
BY DEF Init, PoolInv, OwnInv, NoExecutorLost, ConfigInv, NoWork

\* A step that moves and closes no executor keeps PoolInv.
LEMMA PoolStutter ==
  ASSUME PoolInv, UNCHANGED <<poolVars, mconf>>, cfg' = "init" => cfg = "init",
         \A w \in Workers : work'[w].conn = work[w].conn
  PROVE  PoolInv'
<1>1. OwnInv'
  BY DEF PoolInv, OwnInv, poolVars
<1>2. NoExecutorLost'
  BY DEF PoolInv, NoExecutorLost, InUse, poolVars
<1>3. ConfigInv'
  BY DEF PoolInv, ConfigInv, Current, poolVars
<1> QED
  BY <1>1, <1>2, <1>3 DEF PoolInv

\* Nobody has the new executor.
LEMMA NewIsFree ==
  ASSUME Executor \ InUse # {}
  PROVE  /\ NewExecutor \in Executor /\ NewExecutor \notin idle
         /\ \A c \in Callers : held[c] # NewExecutor
         /\ \A w \in Workers : work[w].conn # NewExecutor
BY NewExecutorFacts DEF InUse

\* Lending, giving back and closing keep every executor in one place; a new
\* configuration finds the open handles and closes the rest.
LEMMA PoolStep == Shape /\ LifeInv /\ PoolInv /\ [Next]_vars => PoolInv'
<1> SUFFICES ASSUME LifeShape, WorkShape, PoolShape, LifeInv, PoolInv, [Next]_vars
             PROVE  PoolInv'
  BY DEF Shape
<1> USE ProxyAssumption
<1>0. mconf \in Nat /\ mconf # 0
  BY DEF LifeShape
<1>1. ASSUME NEW a \in Actor, Refuse(a) PROVE PoolInv'
  BY <1>1, CalledFacts, PoolStutter DEF Refuse, lifeVars
<1>2. ASSUME NEW a \in Actor, Resume(a) PROVE PoolInv'
  BY <1>2, PoolStutter DEF Resume, lifeVars
<1>3. ASSUME NEW a \in Actor, NEW kind \in Kinds, Invoke(a, kind) PROVE PoolInv'
  BY <1>3, CalledFacts, PoolStutter DEF Invoke, lifeVars
<1>4. ASSUME NEW w \in Workers, Take(w) PROVE PoolInv'
  <2>1. /\ UNCHANGED <<held, crossed, mconf, cfg>>
        /\ cfg # "init" /\ work[w].conn = None
    BY <1>4 DEF Take, lifeVars, LifeInv, LifeShape, WorkShape
  <2>2. ASSUME NEW e \in idle, idle' = idle \ {e}, UNCHANGED <<made, dropped>>,
               work' = [work EXCEPT ![w] = [task |-> Head(queue), conn |-> e, at |-> "run"]]
        PROVE  PoolInv'
    <3>1. work'[w].conn = e /\ \A v \in Workers \ {w} : work'[v].conn = work[v].conn
      BY <2>2 DEF WorkShape
    <3>2. OwnInv'
      BY <2>1, <2>2, <3>1 DEF PoolInv, OwnInv, PoolShape
    <3>3. NoExecutorLost'
      BY <2>1, <2>2, <3>1 DEF PoolInv, NoExecutorLost, InUse
    <3>4. ConfigInv'
      BY <2>1, <2>2, <3>1 DEF PoolInv, ConfigInv, Current
    <3> QED
      BY <3>2, <3>3, <3>4 DEF PoolInv
  <2>3. ASSUME Executor \ InUse # {},
               work' = [work EXCEPT ![w] =
                          [task |-> Head(queue), conn |-> NewExecutor, at |-> "run"]],
               NEW n \in {0, mconf}, made' = [made EXCEPT ![NewExecutor] = n],
               dropped' = dropped \ {NewExecutor}, UNCHANGED idle
        PROVE  PoolInv'
    <3> DEFINE e == NewExecutor
    <3>1. /\ e \in Executor /\ e \notin idle
          /\ \A c \in Callers : held[c] # e
          /\ \A v \in Workers : work[v].conn # e
      BY <2>3, NewIsFree
    <3>2. work'[w].conn = e /\ \A v \in Workers \ {w} : work'[v].conn = work[v].conn
      BY <2>3 DEF WorkShape
    <3>3. /\ \A d \in Executor \ {e} : made'[d] = made[d]
          /\ made'[e] \in {0, mconf}
      BY <2>3, <3>1 DEF PoolShape
    <3> HIDE DEF e
    <3>4. OwnInv'
      BY <2>1, <2>3, <3>1, <3>2, <3>3 DEF PoolInv, OwnInv, PoolShape
    <3>5. NoExecutorLost'
      BY <2>1, <2>3, <3>1, <3>2, <3>3 DEF PoolInv, NoExecutorLost, InUse
    <3>6. ConfigInv'
      BY <2>1, <2>3, <3>1, <3>2, <3>3
         DEF PoolInv, ConfigInv, Current, PoolShape, WorkShape, Job
    <3> QED
      BY <3>4, <3>5, <3>6 DEF PoolInv
  <2> QED
    BY <1>4, <2>2, <2>3 DEF Take, Lend, Create
<1>5. ASSUME NEW w \in Workers, Disconnected(w) PROVE PoolInv'
  <2>1. /\ work[w].at = "run" /\ made[work[w].conn] = 0
        /\ UNCHANGED <<idle, made, held, crossed, dropped, mconf, cfg>>
        /\ Deliver(w, work[w].task)
    BY <1>5 DEF Disconnected, Connected, poolVars, lifeVars
  <2>2. work'[w].conn = None /\ \A v \in Workers \ {w} : work'[v].conn = work[v].conn
    BY <2>1, DeliverFacts
  <2>3. OwnInv'
    BY <2>1, <2>2 DEF PoolInv, OwnInv
  <2>4. NoExecutorLost'
    BY <2>1, <2>2 DEF PoolInv, NoExecutorLost, InUse
  <2>5. ConfigInv'
    BY <2>1, <2>2 DEF PoolInv, ConfigInv, Current
  <2> QED
    BY <2>3, <2>4, <2>5 DEF PoolInv
<1>6. ASSUME NEW w \in Workers, Statement(w) PROVE PoolInv'
  <2> DEFINE e == work[w].conn
  <2>1. /\ work[w].at = "run" /\ made[e] # 0 /\ e \in Executor /\ e # None
        /\ UNCHANGED <<held, dropped, mconf, cfg>> /\ cfg # "init"
        /\ Deliver(w, work[w].task)
    BY <1>6, TaskFacts
       DEF Statement, Connected, lifeVars, LifeInv, LifeShape, WorkShape, AllIdle
  <2>2. work'[w].conn = None /\ \A v \in Workers \ {w} : work'[v].conn = work[v].conn
    BY <2>1, DeliverFacts
  <2>3. /\ e \notin idle /\ \A c \in Callers : held[c] # e
        /\ \A v \in Workers \ {w} : work[v].conn # e
    BY <2>1 DEF PoolInv, OwnInv
  <2>4. \/ idle' = idle \cup {e} /\ made' = made /\ crossed' = crossed
        \/ /\ made' = [made EXCEPT ![e] = 0] /\ crossed' = crossed \ {e} /\ idle' = idle
    BY <1>6 DEF Statement, Reclaim
  <2>5. ~BusyConfig => Current(e)
    BY <2>1 DEF PoolInv, ConfigInv
  <2> HIDE DEF e
  <2>6. OwnInv'
    BY <2>1, <2>2, <2>3, <2>4 DEF PoolInv, OwnInv, PoolShape
  <2>7. NoExecutorLost'
    <3>1. \A d \in Executor \ {e} : d \in InUse => d \in InUse'
      BY <2>1, <2>2, <2>4 DEF InUse, e
    <3>2. made'[e] # 0 => e \in InUse'
      BY <2>1, <2>4 DEF InUse, PoolShape
    <3> QED
      BY <2>1, <2>4, <3>1, <3>2 DEF PoolInv, NoExecutorLost, PoolShape
  <2>8. ConfigInv'
    <3>1. CASE idle' = idle \cup {e} /\ made' = made /\ crossed' = crossed
      BY <2>1, <2>2, <2>3, <2>5, <3>1 DEF PoolInv, ConfigInv, Current
    <3>2. CASE made' = [made EXCEPT ![e] = 0] /\ crossed' = crossed \ {e} /\ idle' = idle
      BY <2>1, <2>2, <2>3, <3>2 DEF PoolInv, ConfigInv, Current, PoolShape, WorkShape, Job
    <3> QED
      BY <2>4, <3>1, <3>2
  <2> QED
    BY <2>6, <2>7, <2>8 DEF PoolInv
<1>7. ASSUME NEW w \in Workers, Then(w) PROVE PoolInv'
  <2>1. \A v \in Workers : work'[v].conn = work[v].conn
    BY <1>7 DEF Then, WorkShape, NoWork
  <2> QED
    BY <1>7, <2>1, PoolStutter DEF Then, lifeVars
<1>8. ASSUME NEW c \in Transacting, Begin(c) PROVE PoolInv'
  <2>1. /\ c \in Callers /\ held[c] = None
        /\ UNCHANGED <<work, mconf, cfg>>
        /\ ~BusyConfig => cfg # "init"
    BY <1>8 DEF Begin, lifeVars
  <2>2. ASSUME NEW e \in idle, Lend(e), BeginWith(c, e, dropped) PROVE PoolInv'
    <3>1. /\ idle' = idle \ {e} /\ made' = made
          /\ \/ /\ held' = [held EXCEPT ![c] = e] /\ dropped' = dropped /\ crossed' = crossed
             \/ /\ held' = held /\ dropped' = dropped \cup {e} /\ crossed' = crossed \ {e}
      BY <2>2 DEF Lend, BeginWith
    <3>2. /\ held'[c] \in {e, held[c]} /\ \A d \in Callers \ {c} : held'[d] = held[d]
          /\ held'[c] = e \/ e \in dropped'
      BY <2>1, <3>1 DEF PoolShape
    <3>3. OwnInv'
      BY <2>1, <2>2, <3>1, <3>2 DEF PoolInv, OwnInv, PoolShape
    <3>4. NoExecutorLost'
      BY <2>1, <2>2, <3>1, <3>2 DEF PoolInv, NoExecutorLost, InUse
    <3>5. ConfigInv'
      BY <2>1, <2>2, <3>1, <3>2 DEF PoolInv, OwnInv, ConfigInv, Current
    <3> QED
      BY <3>3, <3>4, <3>5 DEF PoolInv
  <2>3. ASSUME Executor \ InUse # {}, Create(mconf),
               BeginWith(c, NewExecutor, dropped \ {NewExecutor})
        PROVE  PoolInv'
    <3> DEFINE e == NewExecutor
    <3>1. /\ e \in Executor /\ e \notin idle
          /\ \A d \in Callers : held[d] # e
          /\ \A v \in Workers : work[v].conn # e
      BY <2>3, NewIsFree
    <3>2. /\ idle' = idle /\ made' = [made EXCEPT ![e] = mconf]
          /\ \/ /\ held' = [held EXCEPT ![c] = e] /\ dropped' = dropped \ {e}
                /\ crossed' = crossed
             \/ /\ held' = held /\ dropped' = dropped \cup {e} /\ crossed' = crossed \ {e}
      BY <2>3 DEF Create, BeginWith
    <3> HIDE DEF e
    <3>3. /\ held'[c] \in {e, held[c]} /\ \A d \in Callers \ {c} : held'[d] = held[d]
          /\ held'[c] = e \/ e \in dropped'
          /\ made'[e] = mconf /\ \A d \in Executor \ {e} : made'[d] = made[d]
      BY <2>1, <3>1, <3>2 DEF PoolShape
    <3>4. OwnInv'
      BY <1>0, <2>1, <3>1, <3>2, <3>3 DEF PoolInv, OwnInv, PoolShape
    <3>5. NoExecutorLost'
      BY <2>1, <3>1, <3>2, <3>3 DEF PoolInv, NoExecutorLost, InUse
    <3>6. ConfigInv'
      BY <2>1, <3>1, <3>2, <3>3 DEF PoolInv, ConfigInv, Current, PoolShape, WorkShape, Job
    <3> QED
      BY <3>4, <3>5, <3>6 DEF PoolInv
  <2> QED
    BY <1>8, <2>2, <2>3 DEF Begin
<1>9. ASSUME NEW c \in Transacting, EndTransaction(c) PROVE PoolInv'
  <2> DEFINE e == held[c]
  <2>1. /\ c \in Callers /\ e # None /\ e \in Executor
        /\ UNCHANGED <<work, dropped, mconf, cfg>>
        /\ ~BusyConfig => cfg # "init"
    BY <1>9 DEF EndTransaction, lifeVars, PoolShape
  <2>2. held'[c] = None /\ \A d \in Callers \ {c} : held'[d] = held[d]
    BY <1>9, <2>1 DEF EndTransaction, PoolShape
  <2>3. /\ e \notin idle /\ made[e] # 0 /\ \A d \in Callers \ {c} : held[d] # e
        /\ \A w \in Workers : work[w].conn # e
    BY <2>1 DEF PoolInv, OwnInv
  <2>4. \/ idle' = idle \cup {e} /\ made' = made /\ crossed' = crossed
        \/ /\ made' = [made EXCEPT ![e] = 0] /\ crossed' = crossed \ {e} /\ idle' = idle
    BY <1>9 DEF EndTransaction, Reclaim
  <2>5. ~BusyConfig => Current(e)
    BY <2>1 DEF PoolInv, ConfigInv
  <2> HIDE DEF e
  <2>6. OwnInv'
    BY <2>1, <2>2, <2>3, <2>4 DEF PoolInv, OwnInv, PoolShape
  <2>7. NoExecutorLost'
    <3>1. \A d \in Executor \ {e} : d \in InUse => d \in InUse'
      BY <2>1, <2>2, <2>4 DEF InUse, e
    <3>2. made'[e] # 0 => e \in InUse'
      BY <2>1, <2>4 DEF InUse, PoolShape
    <3> QED
      BY <2>1, <2>4, <3>1, <3>2 DEF PoolInv, NoExecutorLost, PoolShape
  <2>8. ConfigInv'
    <3>1. CASE idle' = idle \cup {e} /\ made' = made /\ crossed' = crossed
      BY <2>1, <2>2, <2>3, <2>5, <3>1 DEF PoolInv, ConfigInv, Current
    <3>2. CASE made' = [made EXCEPT ![e] = 0] /\ crossed' = crossed \ {e} /\ idle' = idle
      BY <2>1, <2>2, <2>3, <3>2 DEF PoolInv, ConfigInv, Current, PoolShape, WorkShape, Job
    <3> QED
      BY <2>4, <3>1, <3>2
  <2> QED
    BY <2>6, <2>7, <2>8 DEF PoolInv
<1>10. ASSUME ConfigStop \/ ConfigJoin PROVE PoolInv'
  BY <1>10, PoolStutter DEF ConfigStop, ConfigJoin
<1>11. ASSUME NEW S, CloseIdle \/ DropIdle, UNCHANGED <<work, held, mconf>>,
              crossed' = (crossed \ idle) \cup S,
              cfg' = "init" => \A c \in Callers : held[c] # None => held[c] \in S
       PROVE  PoolInv'
  <2>1. /\ idle' = {}
        /\ \A e \in Executor : made'[e] = made[e] \/ (e \in idle /\ made'[e] = 0)
        /\ \A e \in idle : made'[e] = 0 \/ e \in dropped'
        /\ dropped \subseteq dropped'
    BY <1>11 DEF CloseIdle, DropIdle, PoolShape
  <2>2. OwnInv'
    BY <1>11, <2>1 DEF PoolInv, OwnInv, PoolShape
  <2>3. NoExecutorLost'
    BY <1>11, <2>1 DEF PoolInv, NoExecutorLost, InUse
  <2>4. ConfigInv'
    BY <1>11, <2>1 DEF PoolInv, OwnInv, ConfigInv, Current, PoolShape, WorkShape, Job
  <2> QED
    BY <2>2, <2>3, <2>4 DEF PoolInv
<1>12. ASSUME ConfigDrop \/ ConfigDestroy PROVE PoolInv'
  <2>1. CASE ConfigDrop
    <3>1. crossed' = (crossed \ idle) \cup {} /\ cfg' # "init"
      BY <2>1 DEF ConfigDrop
    <3> QED
      BY <1>11, <2>1, <3>1 DEF ConfigDrop
  <2>2. CASE ConfigDestroy
    BY <1>11, <2>2 DEF ConfigDestroy
  <2> QED
    BY <1>12, <2>1, <2>2
<1>13. ASSUME Stop \/ Destroy PROVE PoolInv'
  <2>1. /\ CloseIdle \/ DropIdle
        /\ UNCHANGED <<work, held, mconf, cfg>> /\ cfg # "init"
        /\ crossed' = (crossed \ idle) \cup {}
    BY <1>13 DEF Stop, Destroy, LifeInv
  <2> QED
    BY <1>11, <2>1
<1>14. ASSUME ConfigInit PROVE PoolInv'
  <2>1. /\ cfg = "init" /\ cfg' = "no" /\ UNCHANGED <<work, idle, made, held, crossed, dropped>>
    BY <1>14 DEF ConfigInit, poolVars
  <2>2. \A w \in Workers : work[w].conn = None
    BY <2>1 DEF LifeInv, LifeShape, WorkShape, AllIdle
  <2>3. OwnInv' /\ NoExecutorLost'
    BY <2>1 DEF PoolInv, OwnInv, NoExecutorLost, InUse
  <2>4. ConfigInv'
    BY <2>1, <2>2 DEF PoolInv, ConfigInv, Current
  <2> QED
    BY <2>3, <2>4 DEF PoolInv
<1>15. ASSUME UNCHANGED vars PROVE PoolInv'
  BY <1>15, PoolStutter DEF vars, lifeVars
<1> QED
  BY <1>1, <1>2, <1>3, <1>4, <1>5, <1>6, <1>7, <1>8, <1>9, <1>10, <1>12, <1>13, <1>14, <1>15
     DEF Next, Worker, SetMysqlConfig

----------------------------------------------------------------------------
(* The properties of the runs, for every instance.                         *)

Inv == Shape /\ LifeInv /\ CallInv /\ PoolInv

\* The inductive invariant holds in every reachable state, under any fairness.
LEMMA InvHolds == Spec => []Inv
<1>1. Init => Inv
  BY ShapeInit, LifeInit, CallInit, PoolInit DEF Inv
<1>2. Inv /\ [Next]_vars => Inv'
  BY ShapeStep, LifeStep, CallStep, PoolStep DEF Inv
<1> QED
  BY <1>1, <1>2, PTL DEF Spec

\* The state of the proxy is well-typed, a worker has an executor exactly while
\* it runs a statement, and no statement is run twice for one call.
THEOREM ProxyTypeCorrect == Spec => []TypeOK
<1>1. Inv => TypeOK
  BY DEF Inv, Shape, LifeShape, WorkShape, PoolShape, CallShape, CallStates, CallInv,
         ReturnInv, TypeOK
<1> QED
  BY <1>1, InvHolds, PTL

\* A call that returns a fine Status or a future without an exception has run
\* its statement, and once: whatever becomes of the thread pool, the manager and
\* the configuration meanwhile, whichever answers are lost, and with a results
\* object of any history.  What an error says is not claimed.
THEOREM StatusIsTruthful == Spec => []StatusTruthful
<1>1. Inv => StatusTruthful
  BY DEF Inv, CallInv, ReturnInv, Truthful, StatusTruthful
<1> QED
  BY <1>1, InvHolds, PTL

\* If the thread pool still runs its queue after Stop(), the manager that a
\* queued or running task will use is not dropped by SetMysqlConfig and not
\* destroyed by Destroy(), also when calls go on during SetMysqlConfig.
THEOREM ManagerSurvivesTasks ==
  ASSUME StopDrains
  PROVE  Spec => []ManagerOutlivesTasks
<1>1. Inv => ManagerOutlivesTasks
  BY DEF Inv, Shape, LifeShape, LifeInv, AllIdle, ManagerOutlivesTasks
<1> QED
  BY <1>1, InvHolds, PTL

\* If no call and no transaction starts or ends while SetMysqlConfig runs, the
\* proxy works with the new thread pool, manager and configuration afterwards,
\* and lends no connection of an old one that was not in a handle meanwhile.
THEOREM ConfigurationTakesEffect ==
  ASSUME ~BusyConfig
  PROVE  Spec => []ConfigApplied
<1>1. Inv => ConfigApplied
  <2> SUFFICES ASSUME Inv, cfg = "no", life = "live" PROVE ConfigApplied
    BY DEF ConfigApplied
  <2>1. tp = "running" /\ mgr = "up" /\ mconf = conf
    BY DEF Inv, LifeInv
  <2>2. \A e \in idle : made[e] = conf \/ e \in crossed
    BY <2>1 DEF Inv, PoolInv, OwnInv, ConfigInv, Current
  <2> QED
    BY <2>1, <2>2 DEF ConfigApplied
<1> QED
  BY <1>1, InvHolds, PTL

\* Until it is closed an executor is in a pool, in a transaction handle or with
\* a worker, also across errors, SetMysqlConfig and the shutdown, unless its last
\* reference went in one of the two ways that dropped collects: a Begin that
\* failed after GetExecutor, and Destroy() of pools that got executors back after
\* Stop().
THEOREM ExecutorsAreNotLost == Spec => []NoExecutorLost
<1>1. Inv => NoExecutorLost
  BY DEF Inv, PoolInv
<1> QED
  BY <1>1, InvHolds, PTL
=============================================================================
