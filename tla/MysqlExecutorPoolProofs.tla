---------------------- MODULE MysqlExecutorPoolProofs ----------------------
(***************************************************************************)
(* Proofs about the connection pool, for every number of threads, shards   *)
(* and executors, every max_size and every width of the counters.          *)
(***************************************************************************)
EXTENDS MysqlExecutorPool, MysqlExecutorProofs, FiniteSetTheorems

USE DEF Shard

\* The shard index computed from any shard id exists.
LEMMA ShardOfType == \A n \in Nat : ShardOf(n) \in Shard
BY ShardAssumption, CounterAssumption DEF ShardOf

\* pop_back() drops the last element and keeps the others in place.
LEMMA RestLemma ==
  ASSUME NEW S, NEW s \in Seq(S), s # <<>>
  PROVE  /\ Rest(s) \in Seq(S)
         /\ Len(Rest(s)) = Len(s) - 1
         /\ \A k \in 1 .. Len(s) - 1 : Rest(s)[k] = s[k]
         /\ s[Len(s)] \in S
         /\ Len(s) \in 1 .. Len(s)
<1>1. Len(s) \in Nat /\ Len(s) > 0
  OBVIOUS
<1>2. s[Len(s)] \in S /\ Len(s) \in 1 .. Len(s)
  BY <1>1
<1>3. Rest(s) \in Seq(S) /\ Len(Rest(s)) = Len(s) - 1
  <2>1. Len(s) - 1 \in 0 .. Len(s)
    BY <1>1
  <2>2. Rest(s) \in Seq(S)
    BY DEF Rest
  <2>3. Len(Rest(s)) = Len(s) - 1
    BY <1>1, <2>1 DEF Rest
  <2> QED
    BY <2>2, <2>3
<1>4. \A k \in 1 .. Len(s) - 1 : Rest(s)[k] = s[k]
  BY <1>1 DEF Rest
<1> QED
  BY <1>2, <1>3, <1>4

----------------------------------------------------------------------------
(* Type correctness.  Beyond the types one has to know when a thread holds *)
(* an executor, that a round of the loop has retries left, and that the    *)
(* controller's index is in range while it is used.                        *)

Busy == {"close", "connect", "count", "failed", "use", "discard"}

Shape ==
  /\ \A t \in Threads : executor[t] # None <=> pc[t] \in Busy
  /\ \A t \in Threads : pc[t] = "close" => retry_num[t] > 0
  /\ phase # "destroying" => next_shard < NumShards

TypeInv == TypeOK /\ Shape

\* The initial state is well formed.
LEMMA TypeInit == Init => TypeInv
<1> SUFFICES ASSUME Init PROVE TypeInv
  OBVIOUS
<1>1. TypeOK
  BY ShardAssumption, CounterAssumption
     DEF Init, TypeOK, ExecutorState, Handles, PCs, Phases
<1>2. Shape
  BY ShardAssumption DEF Init, Shape, Busy
<1> QED
  BY <1>1, <1>2 DEF TypeInv

\* Every step of a thread or of the controller keeps the state well formed.
LEMMA TypeStep == TypeInv /\ [Next]_vars => TypeInv'
<1> SUFFICES ASSUME TypeInv, [Next]_vars PROVE TypeInv'
  OBVIOUS
<1> USE NoneAssumption, ShardAssumption, CounterAssumption
    DEF TypeInv, TypeOK, Shape, Busy, PCs, Phases
<1>1. ASSUME NEW t \in Threads, GetExecutor(t) PROVE TypeInv'
  <2>1. ShardOf(shard_id_gen) \in Shard
    BY ShardOfType
  <2>2. sid' \in [Threads -> Shard]
    BY <1>1, <2>1 DEF GetExecutor
  <2> QED
    BY <1>1, <2>2, SMTT(30) DEF GetExecutor, ctlState
<1>2. ASSUME NEW t \in Threads, PopBack(t) PROVE TypeInv'
  <2> DEFINE list == shards[sid[t]]
             e == list[Len(list)]
  <2>1. list \in Seq(Executor) /\ list # <<>>
    BY <1>2 DEF PopBack
  <2>2. Rest(list) \in Seq(Executor) /\ e \in Executor
    BY <2>1, RestLemma
  <2>3. /\ shards' = [shards EXCEPT ![sid[t]] = Rest(list)]
        /\ executor' = [executor EXCEPT ![t] = e]
    BY <1>2 DEF PopBack
  <2>4. PICK x \in CheckAlive(exec[e]), timeout \in IdleTimeout :
          /\ exec' = [exec EXCEPT ![e] = x]
          /\ pc' = [pc EXCEPT ![t] = IF x.conn /\ ~timeout THEN "use" ELSE "close"]
    BY <1>2 DEF PopBack
  <2>5. exec' \in [Executor -> ExecutorState]
    BY <2>2, <2>4, CheckAliveType
  <2>6. UNCHANGED <<created, home, executor_num, shard_id_gen, sid, retry_num, phase,
                    next_shard, to_close>> /\ retry_num[t] > 0
    BY <1>2 DEF PopBack, ctlState
  <2>7. TypeOK'
    <3> HIDE DEF list, e
    <3>1. shards' \in [Shard -> Seq(Executor)] /\ executor' \in [Threads -> Executor \cup {None}]
      BY <2>2, <2>3
    <3>2. pc' \in [Threads -> PCs]
      BY <2>4
    <3> QED
      BY <2>5, <2>6, <3>1, <3>2
  <2>8. Shape'
    <3> HIDE DEF list, e
    <3>1. pc'[t] \in {"use", "close"} /\ executor'[t] = e
      BY <2>3, <2>4
    <3>2. \A u \in Threads \ {t} : pc'[u] = pc[u] /\ executor'[u] = executor[u]
      BY <2>3, <2>4
    <3> QED
      BY <2>2, <2>6, <3>1, <3>2
  <2> QED
    BY <2>7, <2>8
<1>3. ASSUME NEW t \in Threads, CloseIdle(t) PROVE TypeInv'
  <2>1. executor[t] \in Executor
    BY <1>3 DEF CloseIdle
  <2>2. exec' \in [Executor -> ExecutorState]
    BY <1>3, <2>1, CloseType DEF CloseIdle
  <2>3. retry_num' \in [Threads -> 0 .. RetryNum]
    BY <1>3 DEF CloseIdle
  <2> QED
    BY <1>3, <2>2, <2>3 DEF CloseIdle, ctlState
<1>4. ASSUME NEW t \in Threads, CreateExecutor(t) PROVE TypeInv'
  BY <1>4, CloseType, SMTT(30) DEF CreateExecutor, ctlState
<1>5. ASSUME NEW t \in Threads, OpenConnection(t) PROVE TypeInv'
  BY <1>5, ConnectType, SMTT(30) DEF OpenConnection, ctlState
<1>6. ASSUME NEW t \in Threads, CountConnect(t) PROVE TypeInv'
  BY <1>6, SMTT(30) DEF CountConnect, ctlState
<1>7. ASSUME NEW t \in Threads, ReportFailure(t) PROVE TypeInv'
  BY <1>7 DEF ReportFailure, poolState, ctlState
<1>8. ASSUME NEW t \in Threads, RunStatement(t) PROVE TypeInv'
  BY <1>8, RunQueryType, SMTT(30) DEF RunStatement, threadState, ctlState
<1>9. ASSUME NEW t \in Threads, NEW ret \in Rets, Reclaim(t, ret) PROVE TypeInv'
  <2>1. executor[t] \in Executor /\ home[executor[t]] \in Shard
    BY <1>9 DEF Reclaim
  <2>2. shards' \in [Shard -> Seq(Executor)]
    BY <1>9, <2>1 DEF Reclaim
  <2> QED
    BY <1>9, <2>2 DEF Reclaim, ctlState
<1>10. ASSUME NEW t \in Threads, NEW ret \in Rets, RefuseReclaim(t, ret) PROVE TypeInv'
  BY <1>10 DEF RefuseReclaim, poolState, ctlState
<1>11. ASSUME NEW t \in Threads, Discard(t) PROVE TypeInv'
  <2>1. executor[t] \in Executor
    BY <1>11 DEF Discard
  <2>2. exec' \in [Executor -> ExecutorState]
    BY <1>11, <2>1, CloseType DEF Discard
  <2> QED
    BY <1>11, <2>2, SMTT(30) DEF Discard, ctlState
<1>12. CASE StopPool
  BY <1>12 DEF StopPool, poolState, threadState
<1>13. CASE StopCopy
  BY <1>13 DEF StopCopy, poolState, threadState
<1>14. CASE StopClose
  BY <1>14, CloseType, SMTT(30) DEF StopClose, threadState
<1>15. CASE StopNext
  BY <1>15 DEF StopNext, poolState, threadState
<1>16. CASE DestroyPool
  BY <1>16 DEF DestroyPool, poolState, threadState
<1>17. CASE DestroyShard
  BY <1>17 DEF DestroyShard, threadState
<1>18. CASE UNCHANGED vars
  BY <1>18 DEF vars, poolState, threadState, ctlState
<1> QED
  BY <1>1, <1>2, <1>3, <1>4, <1>5, <1>6, <1>7, <1>8, <1>9, <1>10, <1>11, <1>12,
     <1>13, <1>14, <1>15, <1>16, <1>17, <1>18
     DEF Next, Thread, GetOrCreate, ReturnExecutor, Controller, Terminating

\* Every variable of the pool keeps its type; in particular retry_num_ never
\* drops below zero and every shard index exists.
THEOREM TypeCorrect == Spec => []TypeOK
<1>1. Spec => []TypeInv
  BY TypeInit, TypeStep, PTL DEF Spec
<1> QED
  BY <1>1, PTL DEF TypeInv

----------------------------------------------------------------------------
(* Ownership, position by position.  An executor leaves a list and enters  *)
(* a thread's local in one critical section and goes back in another, so   *)
(* the two never overlap.                                                  *)

Own ==
  /\ \A i, j \in Shard : \A k \in 1 .. Len(shards[i]), l \in 1 .. Len(shards[j]) :
       shards[i][k] = shards[j][l] => i = j /\ k = l
  /\ \A t, u \in Threads :
       executor[t] # None /\ executor[t] = executor[u] => t = u
  /\ \A i \in Shard : \A k \in 1 .. Len(shards[i]) :
       /\ shards[i][k] \in created
       /\ \A t \in Threads : shards[i][k] # executor[t]
  /\ \A t \in Threads : executor[t] # None => executor[t] \in created

\* Membership in the pool is membership at some position.
LEMMA PooledAt ==
  \A e : e \in Pooled <=> \E i \in Shard : \E k \in 1 .. Len(shards[i]) : shards[i][k] = e
BY DEF Pooled, Elems

\* The position-wise statement is the one about sets.
LEMMA OwnIsExclusive == Own => ExclusiveOwnership
<1> SUFFICES ASSUME Own PROVE ExclusiveOwnership
  OBVIOUS
<1>1. Pooled \cap Held = {}
  BY PooledAt DEF Own, Held
<1>2. Pooled \cup Held \subseteq created
  BY PooledAt DEF Own, Held
<1> QED
  BY <1>1, <1>2 DEF Own, ExclusiveOwnership

\* A thread that lets go of its executor disturbs nothing.
LEMMA OwnRelease ==
  ASSUME TypeInv, Own, NEW t \in Threads,
         executor' = [executor EXCEPT ![t] = None], UNCHANGED <<shards, created>>
  PROVE  Own'
<1>1. \A u \in Threads : executor'[u] = None \/ executor'[u] = executor[u]
  BY DEF TypeInv, TypeOK
<1>2. \A i \in Shard : \A k \in 1 .. Len(shards[i]) : shards[i][k] # None
  BY NoneAssumption DEF Own, TypeInv, TypeOK
<1>3. executor'[t] = None /\ \A u \in Threads \ {t} : executor'[u] = executor[u]
  BY DEF TypeInv, TypeOK
<1> QED
  BY <1>1, <1>2, <1>3 DEF Own

\* Every step keeps one owner per executor.
LEMMA OwnStep == TypeInv /\ Own /\ [Next]_vars => Own'
<1> SUFFICES ASSUME TypeInv, Own, [Next]_vars PROVE Own'
  OBVIOUS
<1>1. ASSUME NEW t \in Threads, PopBack(t) PROVE Own'
  <2> DEFINE s == sid[t]
             n == Len(shards[s])
             e == shards[s][n]
  <2>1. /\ s \in Shard
        /\ shards[s] \in Seq(Executor) /\ shards[s] # <<>>
        /\ pc[t] = "loop" /\ executor[t] = None
    BY <1>1 DEF PopBack, TypeInv, TypeOK, Shape, Busy
  <2>2. /\ Rest(shards[s]) \in Seq(Executor)
        /\ Len(Rest(shards[s])) = n - 1
        /\ \A k \in 1 .. n - 1 : Rest(shards[s])[k] = shards[s][k]
        /\ n \in 1 .. n /\ n \in Nat
        /\ e \in Executor
    <3>1. n \in Nat
      BY <2>1
    <3> QED
      BY <2>1, <3>1, RestLemma
  <2>3. /\ shards' = [shards EXCEPT ![s] = Rest(shards[s])]
        /\ executor' = [executor EXCEPT ![t] = e]
        /\ UNCHANGED created
    BY <1>1 DEF PopBack
  <2>4. /\ Len(shards'[s]) = n - 1
        /\ \A k \in 1 .. n - 1 : shards'[s][k] = shards[s][k]
        /\ \A i \in Shard \ {s} : shards'[i] = shards[i]
    BY <2>1, <2>2, <2>3 DEF TypeInv, TypeOK
  <2>5. executor'[t] = e /\ \A u \in Threads \ {t} : executor'[u] = executor[u]
    BY <2>3 DEF TypeInv, TypeOK
  <2>6. \A i \in Shard : \A k \in 1 .. Len(shards'[i]) :
          k \in 1 .. Len(shards[i]) /\ shards'[i][k] = shards[i][k] /\ ~(i = s /\ k = n)
    <3> HIDE DEF s, n, e
    <3> TAKE i \in Shard
    <3> TAKE k \in 1 .. Len(shards'[i])
    <3>1. CASE i = s
      BY <2>2, <2>4, <3>1 DEF n
    <3>2. CASE i # s
      BY <2>4, <3>2
    <3> QED
      BY <3>1, <3>2
  <2>7. \A i \in Shard : \A k \in 1 .. Len(shards'[i]) : shards'[i][k] # e
    BY <2>1, <2>2, <2>6 DEF Own
  <2>8. e \in created /\ \A u \in Threads : executor[u] # e
    BY <2>1, <2>2 DEF Own
  <2> HIDE DEF s, n, e
  <2> QED
    BY <2>3, <2>5, <2>6, <2>7, <2>8 DEF Own
<1>2. ASSUME NEW t \in Threads, CreateExecutor(t) PROVE Own'
  <2>1. PICK e \in Executor \ created : /\ created' = created \cup {e}
                                       /\ executor' = [executor EXCEPT ![t] = e]
    BY <1>2 DEF CreateExecutor
  <2>2. executor'[t] = e /\ \A u \in Threads \ {t} : executor'[u] = executor[u]
    BY <2>1 DEF TypeInv, TypeOK
  <2>3. UNCHANGED shards /\ e # None
    BY <1>2, NoneAssumption DEF CreateExecutor
  <2> QED
    BY <2>1, <2>2, <2>3 DEF Own
<1>3. ASSUME NEW t \in Threads, NEW ret \in Rets, Reclaim(t, ret) PROVE Own'
  <2> DEFINE e == executor[t]
             s == home[e]
             n == Len(shards[s])
  <2>1. e \in Executor /\ e # None /\ s \in Shard
    BY <1>3, NoneAssumption DEF Reclaim, TypeInv, TypeOK, Shape, Busy
  <2>2. /\ shards' = [shards EXCEPT ![s] = Append(shards[s], e)]
        /\ executor' = [executor EXCEPT ![t] = None]
        /\ UNCHANGED created
    BY <1>3 DEF Reclaim
  <2>3. shards[s] \in Seq(Executor) /\ n \in Nat
    <3>1. shards[s] \in Seq(Executor)
      BY <2>1 DEF TypeInv, TypeOK
    <3> QED
      BY <3>1
  <2>4. /\ Len(shards'[s]) = n + 1
        /\ shards'[s][n + 1] = e
        /\ \A k \in 1 .. n : shards'[s][k] = shards[s][k]
        /\ \A i \in Shard \ {s} : shards'[i] = shards[i]
    BY <2>1, <2>2, <2>3 DEF TypeInv, TypeOK
  <2>5. executor'[t] = None /\ \A u \in Threads \ {t} : executor'[u] = executor[u]
    BY <2>2 DEF TypeInv, TypeOK
  <2>6. \A i \in Shard : \A k \in 1 .. Len(shards'[i]) :
          \/ k \in 1 .. Len(shards[i]) /\ shards'[i][k] = shards[i][k]
          \/ i = s /\ k = n + 1 /\ shards'[i][k] = e
    <3> TAKE i \in Shard
    <3> HIDE DEF e, s, n
    <3>1. CASE i = s
      <4>1. \A k \in 1 .. n + 1 : k \in 1 .. n \/ k = n + 1
        BY <2>3
      <4> QED
        BY <2>4, <3>1, <4>1 DEF n
    <3>2. CASE i # s
      <4>1. shards'[i] = shards[i]
        BY <2>4, <3>2
      <4> QED
        BY <4>1
    <3> QED
      BY <3>1, <3>2
  <2>7. \A i \in Shard : \A k \in 1 .. Len(shards[i]) : shards[i][k] # e /\ shards[i][k] # None
    <3> TAKE i \in Shard
    <3> TAKE k \in 1 .. Len(shards[i])
    <3>1. shards[i] \in Seq(Executor)
      BY DEF TypeInv, TypeOK
    <3>2. shards[i][k] # None
      BY <3>1, NoneAssumption
    <3> QED
      BY <3>2 DEF Own
  <2>8. e \in created /\ \A u \in Threads \ {t} : executor[u] # e
    BY <2>1 DEF Own
  <2> HIDE DEF s, n, e
  <2> QED
    BY <2>1, <2>2, <2>5, <2>6, <2>7, <2>8 DEF Own
<1>4. CASE DestroyShard
  <2>1. /\ \A i \in Shard : shards'[i] = <<>> \/ shards'[i] = shards[i]
        /\ UNCHANGED <<executor, created>>
    BY <1>4 DEF DestroyShard, threadState, TypeInv, TypeOK
  <2>2. \A i \in Shard : \A k \in 1 .. Len(shards'[i]) :
          k \in 1 .. Len(shards[i]) /\ shards'[i][k] = shards[i][k]
    BY <2>1
  <2> QED
    BY <2>1, <2>2 DEF Own
<1>5. ASSUME NEW t \in Threads, CloseIdle(t) \/ ReportFailure(t) \/ Discard(t) PROVE Own'
  BY <1>5, OwnRelease DEF CloseIdle, ReportFailure, Discard, poolState
<1>6. CASE UNCHANGED <<shards, executor, created>>
  BY <1>6 DEF Own
<1> QED
  BY <1>1, <1>2, <1>3, <1>4, <1>5, <1>6
     DEF Next, Thread, GetOrCreate, ReturnExecutor, Controller, Terminating, vars,
         poolState, threadState, GetExecutor, OpenConnection, CountConnect,
         RunStatement, RefuseReclaim, StopPool, StopCopy, StopClose, StopNext,
         DestroyPool

\* An executor is in one place of the pool or with one thread, never both.
THEOREM OwnershipIsExclusive == Spec => []ExclusiveOwnership
<1>1. Init => Own
  BY DEF Init, Own
<1>2. Spec => [](TypeInv /\ Own)
  BY <1>1, TypeInit, TypeStep, OwnStep, PTL DEF Spec
<1> QED
  BY <1>2, OwnIsExclusive, PTL

----------------------------------------------------------------------------
(* The size of the pool.  executor_num_ counts every connection once when  *)
(* it is made and never goes down, so it is at least the number of         *)
(* executors that are pooled or lent.  Reclaim keeps an executor only when *)
(* that number is at most max_size.                                        *)

Counted ==
  Pooled \cup {executor[t] : t \in {u \in Threads : pc[u] \in {"use", "discard"}}}

CountInv == IsFiniteSet(Counted) /\ Cardinality(Counted) <= executor_num

\* pop_back() takes its executor out of the pool and adds none.
LEMMA PopBackPooled ==
  ASSUME TypeInv, NEW t \in Threads, PopBack(t)
  PROVE  /\ Pooled' \subseteq Pooled
         /\ Pooled \ {executor'[t]} \subseteq Pooled'
         /\ executor'[t] \in Pooled
<1> DEFINE s == sid[t]
           n == Len(shards[s])
           e == shards[s][n]
<1>1. s \in Shard /\ shards[s] \in Seq(Executor) /\ shards[s] # <<>>
  BY DEF PopBack, TypeInv, TypeOK
<1>2. /\ Len(Rest(shards[s])) = n - 1
      /\ \A k \in 1 .. n - 1 : Rest(shards[s])[k] = shards[s][k]
      /\ n \in 1 .. n
  BY <1>1, RestLemma
<1>3. /\ shards'[s] = Rest(shards[s])
      /\ \A i \in Shard \ {s} : shards'[i] = shards[i]
      /\ executor'[t] = e
  BY <1>1 DEF PopBack, TypeInv, TypeOK
<1>4. n \in Nat
  BY <1>1
<1>5. /\ Elems(shards'[s]) \subseteq Elems(shards[s])
      /\ Elems(shards[s]) \ {e} \subseteq Elems(shards'[s])
      /\ e \in Elems(shards[s])
  BY <1>2, <1>3, <1>4 DEF Elems
<1> HIDE DEF s, n, e
<1> QED
  BY <1>1, <1>3, <1>5 DEF Pooled

\* Reclaim adds the returned executor and no other.
LEMMA ReclaimPooled ==
  ASSUME TypeInv, NEW t \in Threads, NEW ret, Reclaim(t, ret)
  PROVE  Pooled' = Pooled \cup {executor[t]}
<1> DEFINE e == executor[t]
           s == home[e]
           n == Len(shards[s])
<1>1. e \in Executor /\ s \in Shard
  BY DEF Reclaim, TypeInv, TypeOK, Shape, Busy
<1>2. shards[s] \in Seq(Executor)
  BY <1>1 DEF TypeInv, TypeOK
<1>3. /\ shards'[s] = Append(shards[s], e)
      /\ \A i \in Shard \ {s} : shards'[i] = shards[i]
  BY <1>1 DEF Reclaim, TypeInv, TypeOK
<1>4. Elems(shards'[s]) = Elems(shards[s]) \cup {e}
  <2>1. n \in Nat
    BY <1>2
  <2>2. /\ Len(shards'[s]) = n + 1
        /\ shards'[s][n + 1] = e
        /\ \A k \in 1 .. n : shards'[s][k] = shards[s][k]
    BY <1>1, <1>2, <1>3
  <2> HIDE DEF s, e
  <2>3. \A k : k \in 1 .. n + 1 <=> k \in 1 .. n \/ k = n + 1
    BY <2>1
  <2> HIDE DEF n
  <2>4. \A x : x \in Elems(shards'[s]) <=> x \in Elems(shards[s]) \/ x = e
    BY <2>2, <2>3 DEF Elems, n
  <2> QED
    BY <2>4
<1> HIDE DEF s, e
<1> QED
  BY <1>1, <1>3, <1>4 DEF Pooled, e

\* Destroy() empties lists.
LEMMA DestroyPooled ==
  ASSUME TypeInv, DestroyShard PROVE Pooled' \subseteq Pooled
<1>1. \A i \in Shard : shards'[i] = <<>> \/ shards'[i] = shards[i]
  BY DEF DestroyShard, TypeInv, TypeOK
<1>2. Elems(<<>>) = {}
  BY DEF Elems
<1> QED
  BY <1>1, <1>2 DEF Pooled

\* The counter covers what is pooled or lent, after every step.
LEMMA CountStep == TypeInv /\ CountInv /\ [Next]_vars => CountInv'
<1> SUFFICES ASSUME TypeInv, CountInv, [Next]_vars PROVE CountInv'
  OBVIOUS
<1>0. executor_num \in Nat /\ IsFiniteSet(Counted) /\ Cardinality(Counted) \in Nat
  BY FS_CardinalityType DEF TypeInv, TypeOK, CountInv
<1>1. ASSUME Counted' \subseteq Counted,
             executor_num' = executor_num \/ executor_num' = executor_num + 1
      PROVE  CountInv'
  <2>1. /\ IsFiniteSet(Counted')
        /\ Cardinality(Counted') <= Cardinality(Counted)
    BY <1>0, <1>1, FS_Subset
  <2>2. Cardinality(Counted') \in Nat
    BY <2>1, FS_CardinalityType
  <2> QED
    BY <1>0, <1>1, <2>1, <2>2 DEF CountInv
<1>2. ASSUME NEW t \in Threads, CountConnect(t) PROVE CountInv'
  <2>1. Counted' \subseteq Counted \cup {executor[t]} /\ executor_num' = executor_num + 1
    BY <1>2 DEF CountConnect, Counted, Pooled, TypeInv, TypeOK
  <2>2. /\ IsFiniteSet(Counted \cup {executor[t]})
        /\ Cardinality(Counted \cup {executor[t]}) <= Cardinality(Counted) + 1
        /\ Cardinality(Counted \cup {executor[t]}) \in Nat
    <3> DEFINE C == Counted \cup {executor[t]}
    <3>1. /\ IsFiniteSet(C)
          /\ Cardinality(C) = IF executor[t] \in Counted THEN Cardinality(Counted)
                              ELSE Cardinality(Counted) + 1
      BY <1>0, FS_AddElement
    <3> QED
      BY <1>0, <3>1
  <2>3. /\ IsFiniteSet(Counted')
        /\ Cardinality(Counted') <= Cardinality(Counted \cup {executor[t]})
    BY <2>1, <2>2, FS_Subset
  <2>4. Cardinality(Counted') \in Nat
    BY <2>3, FS_CardinalityType
  <2> QED
    BY <1>0, <2>1, <2>2, <2>3, <2>4 DEF CountInv
<1>3. ASSUME NEW t \in Threads, PopBack(t) PROVE CountInv'
  <2>1. \A u \in Threads \ {t} : pc'[u] = pc[u] /\ executor'[u] = executor[u]
    BY <1>3 DEF PopBack, TypeInv, TypeOK
  <2>2. Counted' \subseteq Counted
    BY <1>3, <2>1, PopBackPooled DEF Counted
  <2> QED
    BY <1>1, <1>3, <2>2 DEF PopBack
<1>4. ASSUME NEW t \in Threads, NEW ret \in Rets, Reclaim(t, ret) PROVE CountInv'
  <2>1. /\ \A u \in Threads \ {t} : pc'[u] = pc[u] /\ executor'[u] = executor[u]
        /\ pc'[t] = "idle" /\ pc[t] = "use"
    BY <1>4 DEF Reclaim, TypeInv, TypeOK
  <2>2. Pooled' \subseteq Pooled \cup {executor[t]}
    BY <1>4, ReclaimPooled
  <2>3. executor[t] \in Counted
    BY <2>1 DEF Counted
  <2>4. Counted' \subseteq Counted
    BY <2>1, <2>2, <2>3 DEF Counted
  <2> QED
    BY <1>1, <1>4, <2>4 DEF Reclaim
<1>5. CASE DestroyShard
  <2>1. Counted' \subseteq Counted
    BY <1>5, DestroyPooled DEF DestroyShard, threadState, Counted
  <2> QED
    BY <1>1, <1>5, <2>1 DEF DestroyShard
<1>6. ASSUME NEW t \in Threads,
             \/ GetExecutor(t) \/ CloseIdle(t) \/ CreateExecutor(t)
             \/ OpenConnection(t) \/ ReportFailure(t) \/ RunStatement(t)
             \/ Discard(t) \/ \E ret \in Rets : RefuseReclaim(t, ret)
      PROVE  CountInv'
  <2>1. /\ UNCHANGED shards
        /\ executor_num' = executor_num \/ executor_num' = executor_num + 1
        /\ \A u \in Threads \ {t} : pc'[u] = pc[u] /\ executor'[u] = executor[u]
        /\ pc'[t] \in {"use", "discard"} =>
             pc[t] \in {"use", "discard"} /\ executor'[t] = executor[t]
    <3> USE DEF TypeInv, TypeOK
    <3>1. CASE GetExecutor(t)
      BY <3>1 DEF GetExecutor
    <3>2. CASE CloseIdle(t)
      BY <3>2 DEF CloseIdle
    <3>3. CASE CreateExecutor(t)
      BY <3>3 DEF CreateExecutor
    <3>4. CASE OpenConnection(t)
      BY <3>4 DEF OpenConnection
    <3>5. CASE ReportFailure(t) \/ \E ret \in Rets : RefuseReclaim(t, ret)
      BY <3>5 DEF ReportFailure, RefuseReclaim, poolState
    <3>6. CASE RunStatement(t)
      BY <3>6 DEF RunStatement, threadState
    <3>7. CASE Discard(t)
      BY <3>7 DEF Discard
    <3> QED
      BY <1>6, <3>1, <3>2, <3>3, <3>4, <3>5, <3>6, <3>7
  <2>2. Counted' \subseteq Counted
    BY <2>1 DEF Counted, Pooled
  <2> QED
    BY <1>1, <2>1, <2>2
<1>7. CASE UNCHANGED <<shards, executor, pc, executor_num>>
  <2>1. Counted' \subseteq Counted
    BY <1>7 DEF Counted, Pooled
  <2> QED
    BY <1>1, <1>7, <2>1
<1> QED
  BY <1>2, <1>3, <1>4, <1>5, <1>6, <1>7
     DEF Next, Thread, GetOrCreate, ReturnExecutor, Controller, Terminating, vars,
         poolState, threadState, StopPool, StopCopy, StopClose, StopNext, DestroyPool

\* max_size holds for all shards together until the counter wraps.
LEMMA BoundStep ==
  TypeInv /\ CountInv /\ PoolBounded /\ [Next]_vars => PoolBounded'
<1> SUFFICES ASSUME TypeInv, CountInv, PoolBounded, [Next]_vars,
                    executor_num' < UintMod
             PROVE  Cardinality(Pooled') <= MaxSize
  BY DEF PoolBounded
<1>0. /\ executor_num \in Nat /\ UintMod \in Nat /\ MaxSize \in Nat
      /\ IsFiniteSet(Counted) /\ Cardinality(Counted) <= executor_num
  BY ShardAssumption, CounterAssumption DEF TypeInv, TypeOK, CountInv
<1>1. IsFiniteSet(Pooled) /\ Cardinality(Pooled) \in Nat
  BY <1>0, FS_Subset, FS_CardinalityType DEF Counted
<1>2. ASSUME Pooled' \subseteq Pooled,
             executor_num' = executor_num \/ executor_num' = executor_num + 1
      PROVE  Cardinality(Pooled') <= MaxSize
  <2>1. Cardinality(Pooled) <= MaxSize
    BY <1>0, <1>2 DEF PoolBounded
  <2>2. IsFiniteSet(Pooled') /\ Cardinality(Pooled') <= Cardinality(Pooled)
    BY <1>1, <1>2, FS_Subset
  <2>3. Cardinality(Pooled') \in Nat
    BY <2>2, FS_CardinalityType
  <2> QED
    BY <1>0, <1>1, <2>1, <2>2, <2>3
<1>3. ASSUME NEW t \in Threads, NEW ret \in Rets, Reclaim(t, ret)
      PROVE  Cardinality(Pooled') <= MaxSize
  <2>1. executor_num' = executor_num /\ pc[t] = "use" /\ ExecutorNum <= MaxSize
    BY <1>3 DEF Reclaim, HasRoom
  <2>2. executor_num <= MaxSize
    BY <1>0, <2>1 DEF ExecutorNum
  <2>3. Pooled' \subseteq Counted
    BY <1>3, <2>1, ReclaimPooled DEF Counted
  <2>4. IsFiniteSet(Pooled') /\ Cardinality(Pooled') <= Cardinality(Counted)
    BY <1>0, <2>3, FS_Subset
  <2>5. Cardinality(Pooled') \in Nat /\ Cardinality(Counted) \in Nat
    BY <1>0, <2>4, FS_CardinalityType
  <2> QED
    BY <1>0, <2>2, <2>4, <2>5
<1>4. ASSUME NEW t \in Threads, PopBack(t) PROVE Cardinality(Pooled') <= MaxSize
  BY <1>2, <1>4, PopBackPooled DEF PopBack
<1>5. CASE DestroyShard
  BY <1>2, <1>5, DestroyPooled DEF DestroyShard
<1>6. CASE /\ UNCHANGED shards
           /\ executor_num' = executor_num \/ executor_num' = executor_num + 1
  <2>1. Pooled' \subseteq Pooled
    BY <1>6 DEF Pooled
  <2> QED
    BY <1>2, <1>6, <2>1
<1> QED
  BY <1>3, <1>4, <1>5, <1>6
     DEF Next, Thread, GetOrCreate, ReturnExecutor, Controller, Terminating, vars,
         poolState, threadState, GetExecutor, CloseIdle, CreateExecutor,
         OpenConnection, CountConnect, ReportFailure, RunStatement, RefuseReclaim,
         Discard, StopPool, StopCopy, StopClose, StopNext, DestroyPool

\* As long as executor_num_ has not wrapped, the pool never keeps more than
\* max_size executors, whatever the interleaving of Reclaim on its shards.
THEOREM PoolStaysBounded == Spec => []PoolBounded
<1>1. Init => CountInv /\ PoolBounded
  <2> SUFFICES ASSUME Init PROVE CountInv /\ PoolBounded
    OBVIOUS
  <2>1. Elems(<<>>) = {}
    BY DEF Elems
  <2>2. Pooled = {}
    BY <2>1 DEF Init, Pooled
  <2>3. Counted = {}
    BY <2>2 DEF Init, Counted
  <2> QED
    BY <2>2, <2>3, FS_EmptySet, ShardAssumption DEF CountInv, PoolBounded, Init
<1>2. Spec => [](TypeInv /\ CountInv /\ PoolBounded)
  BY <1>1, TypeInit, TypeStep, CountStep, BoundStep, PTL DEF Spec
<1> QED
  BY <1>2, PTL

----------------------------------------------------------------------------
(* The destructor's assertion, when the workers are joined before Stop().  *)
(* Stop() then runs alone: what it has passed over is closed, what it has  *)
(* copied is closed or still on its list, and after it every pooled        *)
(* executor is closed.                                                     *)

StopInv ==
  /\ phase = "running" => next_shard = 0
  /\ phase # "running" => AllIdle
  /\ phase # "closing" => to_close = <<>>
  /\ phase \in {"stopping", "closing"} =>
       \A i \in Shard : i < next_shard => \A e \in Elems(shards[i]) : ~exec[e].conn
  /\ phase = "closing" =>
       \A e \in Elems(shards[next_shard]) : exec[e].conn => e \in Elems(to_close)
  /\ phase \in {"stopped", "destroying"} => \A e \in Pooled : ~exec[e].conn
  /\ \A t \in Threads : pc[t] = "failed" => ~exec[executor[t]].conn

SafeInv == TypeInv /\ Own /\ StopInv /\ DestructorSafe

\* Close() leaves an executor that is not connected.
LEMMA CloseDisconnects == \A x : ~Close(x).conn
BY DEF Close

\* A pooled executor was constructed and is in no thread's hands.
LEMMA PooledOwned ==
  ASSUME TypeInv, Own, NEW e \in Pooled
  PROVE  e \in Executor /\ e \in created /\ \A u \in Threads : executor[u] # e
<1>1. PICK i \in Shard : \E k \in 1 .. Len(shards[i]) : shards[i][k] = e
  BY PooledAt
<1> QED
  BY <1>1 DEF Own, TypeInv, TypeOK

\* The elements of a list are its head and those of its tail.
LEMMA TailElems ==
  ASSUME NEW S, NEW s \in Seq(S), s # <<>>
  PROVE  /\ Tail(s) \in Seq(S) /\ Head(s) \in S
         /\ \A e \in Elems(s) : e = Head(s) \/ e \in Elems(Tail(s))
<1>1. /\ Len(s) \in Nat /\ Len(Tail(s)) = Len(s) - 1 /\ Tail(s) \in Seq(S)
      /\ Head(s) = s[1] /\ Head(s) \in S
      /\ \A k \in 1 .. Len(s) - 1 : Tail(s)[k] = s[k + 1]
  OBVIOUS
<1>2. ASSUME NEW k \in 1 .. Len(s), k # 1 PROVE s[k] \in Elems(Tail(s))
  <2>1. k - 1 \in 1 .. Len(Tail(s)) /\ Tail(s)[k - 1] = s[k]
    BY <1>1, <1>2
  <2> QED
    BY <2>1 DEF Elems
<1> QED
  BY <1>1, <1>2 DEF Elems

\* A step of thread t that changes at most one executor e, which no other
\* thread holds, and does not lose a connected one.
LEMMA SafeLocal ==
  ASSUME SafeInv, phase = "running", UNCHANGED <<phase, next_shard, to_close>>,
         NEW t \in Threads, NEW e \in Executor,
         \A x \in Executor \ {e} : exec'[x] = exec[x],
         \A u \in Threads \ {t} :
           pc'[u] = pc[u] /\ executor'[u] = executor[u] /\ executor[u] # e,
         executor[t] \in {e, None},
         created' \subseteq created \cup {e},
         Pooled \ {e} \subseteq Pooled',
         exec'[e].conn => e \in Pooled' \/ executor'[t] = e,
         pc'[t] = "failed" => ~exec'[executor'[t]].conn
  PROVE  StopInv' /\ DestructorSafe'
<1>1. to_close = <<>> /\ Elems(to_close) = {} /\ Elems(to_close') = {}
  BY DEF SafeInv, StopInv, Elems
<1>2. \A u \in Threads : pc'[u] = "failed" => ~exec'[executor'[u]].conn
  <2> SUFFICES ASSUME NEW u \in Threads \ {t}, pc'[u] = "failed"
               PROVE  ~exec'[executor'[u]].conn
    OBVIOUS
  <2>1. executor[u] \in Executor \ {e} /\ ~exec[executor[u]].conn
    BY DEF SafeInv, StopInv, TypeInv, TypeOK, Shape, Busy
  <2> QED
    BY <2>1
<1>3. StopInv'
  BY <1>1, <1>2 DEF SafeInv, StopInv
<1>4. DestructorSafe'
  <2> SUFFICES ASSUME NEW x \in created', exec'[x].conn
               PROVE  x \in Pooled' \cup Held'
    BY DEF DestructorSafe, Destructed, Referenced
  <2>1. CASE x = e
    BY <2>1, NoneAssumption DEF Held
  <2>2. CASE x # e
    <3>1. x \in created /\ x \in Executor /\ exec'[x] = exec[x]
      BY <2>2 DEF SafeInv, TypeInv, TypeOK
    <3>2. x \in Pooled \cup Held
      BY <1>1, <3>1 DEF SafeInv, DestructorSafe, Destructed, Referenced
    <3>3. Held \ {e} \subseteq Held'
      BY DEF Held
    <3> QED
      BY <2>2, <3>2, <3>3
  <2> QED
    BY <2>1, <2>2
<1> QED
  BY <1>3, <1>4

\* The steps of a thread.  They happen only while the pool is running.
LEMMA SafeThread ==
  ASSUME SafeInv, NEW t \in Threads, Thread(t)
  PROVE  StopInv' /\ DestructorSafe'
<1>1. phase = "running" /\ UNCHANGED <<phase, next_shard, to_close>> /\ to_close = <<>>
  <2>1. phase = "running"
    <3> SUFFICES ASSUME pc[t] = "idle", phase # "running" PROVE FALSE
      BY DEF SafeInv, StopInv, AllIdle
    <3> QED
      BY DEF Thread, GetExecutor, GetOrCreate, ReturnExecutor, PopBack, CloseIdle,
             CreateExecutor, OpenConnection, CountConnect, ReportFailure, RunStatement,
             Reclaim, RefuseReclaim, Discard
  <2>2. UNCHANGED <<phase, next_shard, to_close>>
    BY DEF Thread, GetExecutor, GetOrCreate, ReturnExecutor, PopBack, CloseIdle,
           CreateExecutor, OpenConnection, CountConnect, ReportFailure, RunStatement,
           Reclaim, RefuseReclaim, Discard, ctlState
  <2> QED
    BY <2>1, <2>2 DEF SafeInv, StopInv
<1>2. ASSUME pc[t] \in Busy
      PROVE  /\ executor[t] \in Executor
             /\ \A u \in Threads \ {t} : executor[u] # executor[t]
  BY <1>2, NoneAssumption DEF SafeInv, TypeInv, TypeOK, Shape, Own
<1> USE DEF SafeInv, TypeInv, TypeOK
<1>3. CASE PopBack(t)
  <2> DEFINE e == executor'[t]
  <2>1. /\ e \in Pooled
        /\ Pooled \ {e} \subseteq Pooled'
    BY <1>3, PopBackPooled
  <2>2. e \in Executor /\ \A u \in Threads : executor[u] # e
    BY <2>1, PooledOwned
  <2>3. /\ \A u \in Threads \ {t} : pc'[u] = pc[u] /\ executor'[u] = executor[u]
        /\ executor[t] = None
        /\ pc'[t] # "failed"
    BY <1>3 DEF PopBack, Shape, Busy
  <2>4. \A x \in Executor \ {e} : exec'[x] = exec[x]
    BY <1>3, <2>2 DEF PopBack
  <2>5. created' = created
    BY <1>3 DEF PopBack
  <2> HIDE DEF SafeInv, TypeInv, TypeOK
  <2> QED
    BY <1>1, <2>1, <2>2, <2>3, <2>4, <2>5, SafeLocal
<1>4. CASE CloseIdle(t) \/ Discard(t)
  <2> DEFINE e == executor[t]
  <2>1. e \in Executor /\ \A u \in Threads \ {t} : executor[u] # e
    BY <1>2, <1>4 DEF CloseIdle, Discard, Busy
  <2>2. /\ \A u \in Threads \ {t} : pc'[u] = pc[u] /\ executor'[u] = executor[u]
        /\ pc'[t] # "failed" /\ UNCHANGED <<created, shards>>
    BY <1>4 DEF CloseIdle, Discard
  <2>3. \A x \in Executor \ {e} : exec'[x] = exec[x]
    BY <1>4, <2>1 DEF CloseIdle, Discard
  <2>4. exec'[e] = Close(exec[e])
    BY <1>4, <2>1 DEF CloseIdle, Discard
  <2>5. ~exec'[e].conn
    BY <2>4, CloseDisconnects
  <2>6. Pooled' = Pooled
    BY <2>2 DEF Pooled
  <2> HIDE DEF SafeInv, TypeInv, TypeOK
  <2> QED
    BY <1>1, <2>1, <2>2, <2>3, <2>5, <2>6, SafeLocal
<1>5. CASE CreateExecutor(t)
  <2>1. PICK e \in Executor \ created : /\ created' = created \cup {e}
                                       /\ exec' = [exec EXCEPT ![e] = New]
                                       /\ executor' = [executor EXCEPT ![t] = e]
    BY <1>5 DEF CreateExecutor
  <2>2. /\ \A u \in Threads \ {t} : pc'[u] = pc[u] /\ executor'[u] = executor[u]
        /\ executor[t] = None /\ executor'[t] = e
        /\ pc'[t] # "failed" /\ UNCHANGED shards
    <3>1. pc[t] = "loop" /\ pc' = [pc EXCEPT ![t] = "connect"] /\ UNCHANGED shards
      BY <1>5 DEF CreateExecutor
    <3> QED
      BY <2>1, <3>1 DEF Shape, Busy
  <2>3. \A u \in Threads : executor[u] # e
    BY <2>1, NoneAssumption DEF Own
  <2>4. Pooled' = Pooled
    BY <2>2 DEF Pooled
  <2>5. \A x \in Executor \ {e} : exec'[x] = exec[x]
    BY <2>1
  <2> HIDE DEF SafeInv, TypeInv, TypeOK
  <2> QED
    BY <1>1, <2>1, <2>2, <2>3, <2>4, <2>5, SafeLocal
<1>6. CASE OpenConnection(t) \/ RunStatement(t)
  <2> DEFINE e == executor[t]
  <2>1. e \in Executor /\ \A u \in Threads \ {t} : executor[u] # e
    BY <1>2, <1>6 DEF OpenConnection, RunStatement, Busy
  <2>2. /\ \A u \in Threads \ {t} : pc'[u] = pc[u] /\ executor'[u] = executor[u]
        /\ executor'[t] = e /\ UNCHANGED <<created, shards>>
    BY <1>6 DEF OpenConnection, RunStatement, threadState
  <2>3. \A x \in Executor \ {e} : exec'[x] = exec[x]
    BY <1>6, <2>1 DEF OpenConnection, RunStatement
  <2>4. pc'[t] = "failed" => ~exec'[e].conn
    BY <1>6, <2>1 DEF OpenConnection, RunStatement, threadState
  <2>5. Pooled' = Pooled
    BY <2>2 DEF Pooled
  <2> HIDE DEF SafeInv, TypeInv, TypeOK
  <2> QED
    BY <1>1, <2>1, <2>2, <2>3, <2>4, <2>5, SafeLocal
<1>7. CASE ReportFailure(t)
  <2> DEFINE e == executor[t]
  <2>1. e \in Executor /\ \A u \in Threads \ {t} : executor[u] # e
    BY <1>2, <1>7 DEF ReportFailure, Busy
  <2>2. /\ \A u \in Threads \ {t} : pc'[u] = pc[u] /\ executor'[u] = executor[u]
        /\ pc'[t] # "failed" /\ UNCHANGED <<created, shards, exec>>
        /\ pc[t] = "failed"
    BY <1>7 DEF ReportFailure, poolState
  <2>3. ~exec'[e].conn
    BY <2>2 DEF StopInv
  <2>4. Pooled' = Pooled
    BY <2>2 DEF Pooled
  <2> HIDE DEF SafeInv, TypeInv, TypeOK
  <2> QED
    BY <1>1, <2>1, <2>2, <2>3, <2>4, SafeLocal
<1>8. ASSUME NEW ret \in Rets, Reclaim(t, ret) PROVE StopInv' /\ DestructorSafe'
  <2> DEFINE e == executor[t]
  <2>1. e \in Executor /\ \A u \in Threads \ {t} : executor[u] # e
    BY <1>2, <1>8 DEF Reclaim, Busy
  <2>2. /\ \A u \in Threads \ {t} : pc'[u] = pc[u] /\ executor'[u] = executor[u]
        /\ pc'[t] # "failed" /\ UNCHANGED <<created, exec>>
    BY <1>8 DEF Reclaim
  <2>3. Pooled' = Pooled \cup {e}
    BY <1>8, ReclaimPooled
  <2> HIDE DEF SafeInv, TypeInv, TypeOK
  <2> QED
    BY <1>1, <2>1, <2>2, <2>3, SafeLocal
<1>9. CASE GetExecutor(t) \/ CountConnect(t) \/ \E ret \in Rets : RefuseReclaim(t, ret)
  <2>1. /\ UNCHANGED <<shards, exec, created, executor>>
        /\ \A u \in Threads : pc'[u] = "failed" => pc[u] = "failed"
    BY <1>9 DEF GetExecutor, CountConnect, RefuseReclaim, poolState
  <2>2. StopInv'
    BY <1>1, <2>1 DEF StopInv
  <2>3. DestructorSafe'
    BY <1>1, <2>1 DEF DestructorSafe, Destructed, Referenced, Pooled, Held
  <2> QED
    BY <2>2, <2>3
<1> QED
  BY <1>3, <1>4, <1>5, <1>6, <1>7, <1>8, <1>9 DEF Thread, GetOrCreate, ReturnExecutor

\* The steps of the controller.
LEMMA SafeController ==
  ASSUME JoinBeforeStop, SafeInv, Controller
  PROVE  StopInv' /\ DestructorSafe'
<1> USE DEF SafeInv
<1>0. Elems(<<>>) = {}
  BY DEF Elems
<1>1. CASE StopPool
  <2>1. /\ UNCHANGED <<shards, exec, created, pc, executor, next_shard, to_close>>
        /\ phase = "running" /\ AllIdle /\ phase' = "stopping"
    BY <1>1 DEF StopPool, poolState, threadState
  <2>2. next_shard = 0 /\ \A i \in Shard : ~(i < 0)
    BY <2>1 DEF StopInv
  <2>3. StopInv'
    BY <2>1, <2>2 DEF StopInv, AllIdle
  <2> QED
    BY <2>1, <2>3 DEF DestructorSafe, Destructed, Referenced, Pooled, Held
<1>2. CASE StopCopy
  <2>1. /\ UNCHANGED <<shards, exec, created, pc, executor, next_shard>>
        /\ phase = "stopping" /\ phase' = "closing" /\ to_close' = shards[next_shard]
        /\ to_close = <<>>
    BY <1>2 DEF StopCopy, poolState, threadState, StopInv
  <2>2. StopInv'
    BY <2>1 DEF StopInv, AllIdle
  <2>3. DestructorSafe'
    BY <1>0, <2>1 DEF DestructorSafe, Destructed, Referenced, Pooled, Held
  <2> QED
    BY <2>2, <2>3
<1>3. CASE StopClose
  <2> DEFINE c == Head(to_close)
  <2>1. /\ UNCHANGED <<shards, created, pc, executor, next_shard, phase>>
        /\ phase = "closing" /\ to_close # <<>> /\ to_close' = Tail(to_close)
        /\ exec' = [exec EXCEPT ![c] = Close(exec[c])]
    BY <1>3 DEF StopClose, threadState
  <2>2. c \in Executor /\ \A e \in Elems(to_close) : e = c \/ e \in Elems(to_close')
    BY <2>1, TailElems DEF TypeInv, TypeOK
  <2>3. ~exec'[c].conn /\ \A e \in Executor \ {c} : exec'[e] = exec[e]
    <3>1. exec'[c] = Close(exec[c])
      BY <2>1, <2>2 DEF TypeInv, TypeOK
    <3> QED
      BY <2>1, <3>1, CloseDisconnects DEF TypeInv, TypeOK
  <2>4. \A e \in Executor : exec'[e].conn => exec[e].conn /\ e # c
    BY <2>3
  <2>5. \A i \in Shard : Elems(shards[i]) \subseteq Executor
    <3> TAKE i \in Shard
    <3>1. shards[i] \in Seq(Executor)
      BY DEF TypeInv, TypeOK
    <3> QED
      BY <3>1 DEF Elems
  <2>6. AllIdle /\ next_shard \in Shard
    BY <2>1, ShardAssumption DEF StopInv, TypeInv, TypeOK, Shape
  <2> HIDE DEF c
  <2>7. \A i \in Shard : i < next_shard => \A e \in Elems(shards[i]) : ~exec'[e].conn
    BY <2>1, <2>4, <2>5 DEF StopInv
  <2>8. \A e \in Elems(shards[next_shard]) : exec'[e].conn => e \in Elems(to_close')
    BY <2>1, <2>2, <2>4, <2>5, <2>6 DEF StopInv
  <2>9. StopInv'
    BY <2>1, <2>6, <2>7, <2>8 DEF StopInv, AllIdle
  <2>10. DestructorSafe'
    BY <2>1, <2>2, <2>4 DEF TypeInv, TypeOK, DestructorSafe, Destructed, Referenced, Pooled, Held
  <2> QED
    BY <2>9, <2>10
<1>4. CASE StopNext
  <2>1. /\ UNCHANGED <<shards, exec, created, pc, executor, to_close>>
        /\ phase = "closing" /\ to_close = <<>> /\ AllIdle
        /\ next_shard \in Shard
        /\ next_shard' = (next_shard + 1) % NumShards
        /\ phase' = IF next_shard + 1 = NumShards THEN "stopped" ELSE "stopping"
    BY <1>4, ShardAssumption
       DEF StopNext, poolState, threadState, StopInv, TypeInv, TypeOK, Shape
  <2>2. \A i \in Shard : i <= next_shard => \A e \in Elems(shards[i]) : ~exec[e].conn
    BY <1>0, <2>1 DEF StopInv
  <2>3. CASE next_shard + 1 = NumShards
    <3>1. \A e \in Pooled : ~exec[e].conn
      BY <2>1, <2>2, <2>3 DEF Pooled
    <3> QED
      BY <2>1, <2>3, <3>1
         DEF StopInv, AllIdle, DestructorSafe, Destructed, Referenced, Pooled, Held
  <2>4. CASE next_shard + 1 # NumShards
    <3>1. next_shard' = next_shard + 1
      <4>1. next_shard + 1 \in Nat /\ next_shard + 1 < NumShards
        BY <2>1, <2>4, ShardAssumption
      <4> QED
        BY <2>1, <4>1, ShardAssumption
    <3>2. \A i \in Shard : i < next_shard' => i <= next_shard
      BY <2>1, <3>1
    <3>3. StopInv'
      BY <2>1, <2>2, <2>4, <3>2 DEF StopInv, AllIdle
    <3> QED
      BY <2>1, <3>3 DEF DestructorSafe, Destructed, Referenced, Pooled, Held
  <2> QED
    BY <2>3, <2>4
<1>5. CASE DestroyPool
  BY <1>5 DEF DestroyPool, poolState, threadState, StopInv, AllIdle, DestructorSafe,
              Destructed, Referenced, Pooled, Held
<1>6. CASE DestroyShard
  <2>1. /\ UNCHANGED <<exec, created, pc, executor, to_close, phase>>
        /\ phase = "destroying" /\ to_close = <<>> /\ AllIdle
        /\ \A e \in Pooled : ~exec[e].conn
    BY <1>6 DEF DestroyShard, threadState, StopInv
  <2>2. Pooled' \subseteq Pooled
    BY <1>6, DestroyPooled
  <2>3. StopInv'
    BY <2>1, <2>2 DEF StopInv, AllIdle
  <2>4. DestructorSafe'
    BY <1>0, <2>1 DEF DestructorSafe, Destructed, Referenced, Held
  <2> QED
    BY <2>3, <2>4
<1> QED
  BY <1>1, <1>2, <1>3, <1>4, <1>5, <1>6 DEF Controller

\* When the workers are joined before Stop(), as SetMysqlConfig does, no
\* executor is destructed while it is connected: the assertion of
\* ~MysqlExecutor holds on every path.
THEOREM DestructorIsSafe ==
  ASSUME JoinBeforeStop
  PROVE  Spec => []DestructorSafe
<1>1. Init => SafeInv
  <2> SUFFICES ASSUME Init PROVE SafeInv
    OBVIOUS
  <2>1. TypeInv
    BY TypeInit
  <2>2. Own
    BY DEF Init, Own
  <2>3. StopInv /\ DestructorSafe
    BY DEF Init, StopInv, DestructorSafe, Destructed
  <2> QED
    BY <2>1, <2>2, <2>3 DEF SafeInv
<1>2. SafeInv /\ [Next]_vars => SafeInv'
  <2> SUFFICES ASSUME SafeInv, [Next]_vars PROVE SafeInv'
    OBVIOUS
  <2>1. TypeInv' /\ Own'
    BY TypeStep, OwnStep DEF SafeInv
  <2>2. CASE UNCHANGED vars
    BY <2>1, <2>2 DEF vars, poolState, threadState, ctlState, SafeInv, StopInv, AllIdle,
                      DestructorSafe, Destructed, Referenced, Pooled, Held
  <2> QED
    BY <2>1, <2>2, SafeThread, SafeController DEF Next, Terminating, SafeInv
<1>3. SafeInv => DestructorSafe
  BY DEF SafeInv
<1> QED
  BY <1>1, <1>2, <1>3, PTL DEF Spec

----------------------------------------------------------------------------
(* Sessions.  is_connected and mysql_ are two members that Connect(),      *)
(* Close() and the ping change one after the other.  An open session       *)
(* implies is_connected, so an executor that is not connected has none.    *)

SessionInv ==
  \A e \in Executor :
    /\ Sound(exec[e])
    /\ exec[e].h = "init" => \E t \in Threads : pc[t] = "connect" /\ executor[t] = e

\* A step that changes one executor into a sound one without a fresh handle of its own,
\* while the threads that are about to connect stay where they are.
LEMMA SessionLocal ==
  ASSUME SessionInv, NEW e \in Executor, Sound(exec'[e]),
         exec'[e].h = "init" =>
           \E t \in Threads : pc'[t] = "connect" /\ executor'[t] = e,
         \A x \in Executor \ {e} : exec'[x] = exec[x],
         \A t \in Threads : pc[t] = "connect" /\ executor[t] # e =>
                            pc'[t] = "connect" /\ executor'[t] = executor[t]
  PROVE  SessionInv'
BY DEF SessionInv

\* Every step of the pool keeps SessionInv.
LEMMA SessionStep == TypeInv /\ SessionInv /\ [Next]_vars => SessionInv'
<1> SUFFICES ASSUME TypeInv, SessionInv, [Next]_vars PROVE SessionInv'
  OBVIOUS
<1>1. ASSUME NEW t \in Threads, pc[t] \in Busy PROVE executor[t] \in Executor
  BY <1>1 DEF TypeInv, TypeOK, Shape
<1>2. \A e \in Executor : exec[e] \in ExecutorState /\ Sound(exec[e])
  BY DEF TypeInv, TypeOK, SessionInv
<1>3. ASSUME NEW t \in Threads, PopBack(t) PROVE SessionInv'
  <2> DEFINE list == shards[sid[t]]
             e == list[Len(list)]
  <2>1. list \in Seq(Executor) /\ list # <<>> /\ pc[t] = "loop"
    BY <1>3 DEF PopBack, TypeInv, TypeOK
  <2>2. e \in Executor
    BY <2>1, RestLemma
  <2>3. PICK x \in CheckAlive(exec[e]) : exec' = [exec EXCEPT ![e] = x]
    BY <1>3 DEF PopBack
  <2>4. \A u \in Threads \ {t} : pc'[u] = pc[u] /\ executor'[u] = executor[u]
    BY <1>3 DEF PopBack, TypeInv, TypeOK
  <2> HIDE DEF list, e
  <2>5. exec'[e] = x /\ \A z \in Executor \ {e} : exec'[z] = exec[z]
    BY <2>2, <2>3 DEF TypeInv, TypeOK
  <2>6. Sound(x) /\ (x.h = "init" => exec[e].h = "init")
    BY <1>2, <2>2, CheckAliveSound
  <2>7. x.h = "init" => \E u \in Threads : pc'[u] = "connect" /\ executor'[u] = e
    BY <2>1, <2>2, <2>4, <2>6 DEF SessionInv
  <2> QED
    BY <2>1, <2>2, <2>4, <2>5, <2>6, <2>7, SessionLocal
<1>4. ASSUME NEW t \in Threads, CloseIdle(t) \/ Discard(t) PROVE SessionInv'
  <2> DEFINE e == executor[t]
  <2>1. e \in Executor /\ pc[t] \in {"close", "discard"}
    BY <1>1, <1>4 DEF CloseIdle, Discard, Busy
  <2>2. /\ \A u \in Threads \ {t} : pc'[u] = pc[u] /\ executor'[u] = executor[u]
        /\ exec'[e] = Close(exec[e]) /\ \A z \in Executor \ {e} : exec'[z] = exec[z]
    BY <1>4, <2>1 DEF CloseIdle, Discard, TypeInv, TypeOK
  <2> HIDE DEF e
  <2>3. Sound(exec'[e]) /\ (exec'[e].h = "init" => exec[e].h = "init")
    BY <1>2, <2>1, <2>2, CloseSound
  <2>4. exec'[e].h = "init" => \E u \in Threads : pc'[u] = "connect" /\ executor'[u] = e
    BY <2>1, <2>2, <2>3 DEF SessionInv
  <2> QED
    BY <2>1, <2>2, <2>3, <2>4, SessionLocal
<1>5. ASSUME NEW t \in Threads, CreateExecutor(t) PROVE SessionInv'
  <2>1. PICK e \in Executor \ created : /\ exec' = [exec EXCEPT ![e] = New]
                                       /\ executor' = [executor EXCEPT ![t] = e]
    BY <1>5 DEF CreateExecutor
  <2>2. pc[t] = "loop" /\ pc' = [pc EXCEPT ![t] = "connect"]
    BY <1>5 DEF CreateExecutor
  <2>3. /\ \A u \in Threads \ {t} : pc'[u] = pc[u] /\ executor'[u] = executor[u]
        /\ exec'[e] = New /\ \A z \in Executor \ {e} : exec'[z] = exec[z]
        /\ pc'[t] = "connect" /\ executor'[t] = e
    BY <2>1, <2>2 DEF TypeInv, TypeOK
  <2>4. Sound(New)
    BY DEF New, Sound
  <2> QED
    BY <2>2, <2>3, <2>4, SessionLocal
<1>6. ASSUME NEW t \in Threads, OpenConnection(t) PROVE SessionInv'
  <2> DEFINE e == executor[t]
  <2>1. e \in Executor
    BY <1>1, <1>6 DEF OpenConnection, Busy
  <2>2. PICK x \in Connect(exec[e]) : exec' = [exec EXCEPT ![e] = x]
    BY <1>6 DEF OpenConnection
  <2>3. \A u \in Threads \ {t} : pc'[u] = pc[u] /\ executor'[u] = executor[u]
    BY <1>6 DEF OpenConnection, TypeInv, TypeOK
  <2>4. Sound(x) /\ x.h # "init"
    BY <1>2, <2>1, ConnectSound
  <2>5. exec'[e] = x /\ \A z \in Executor \ {e} : exec'[z] = exec[z]
    BY <2>1, <2>2 DEF TypeInv, TypeOK
  <2> QED
    BY <2>1, <2>3, <2>4, <2>5, SessionLocal
<1>7. ASSUME NEW t \in Threads, RunStatement(t) PROVE SessionInv'
  <2> DEFINE e == executor[t]
  <2>1. e \in Executor
    BY <1>1, <1>7 DEF RunStatement, Busy
  <2>2. PICK x \in RunQuery(exec[e]) : exec' = [exec EXCEPT ![e] = x]
    BY <1>7 DEF RunStatement
  <2>3. pc' = pc /\ executor' = executor
    BY <1>7 DEF RunStatement, threadState
  <2>4. Sound(x) /\ (x.h = "init" => exec[e].h = "init")
    BY <1>2, <2>1, RunQuerySound
  <2>5. exec'[e] = x /\ \A z \in Executor \ {e} : exec'[z] = exec[z]
    BY <2>1, <2>2 DEF TypeInv, TypeOK
  <2> QED
    BY <2>1, <2>3, <2>4, <2>5 DEF SessionInv
<1>8. CASE StopClose
  <2> DEFINE e == Head(to_close)
  <2>1. e \in Executor
    BY <1>8, TailElems DEF StopClose, TypeInv, TypeOK
  <2>2. pc' = pc /\ executor' = executor
    BY <1>8 DEF StopClose, threadState
  <2>3. exec'[e] = Close(exec[e]) /\ \A z \in Executor \ {e} : exec'[z] = exec[z]
    BY <1>8, <2>1 DEF StopClose, TypeInv, TypeOK
  <2> HIDE DEF e
  <2>4. Sound(exec'[e]) /\ (exec'[e].h = "init" => exec[e].h = "init")
    BY <1>2, <2>1, <2>3, CloseSound
  <2> QED
    BY <2>1, <2>2, <2>3, <2>4 DEF SessionInv
<1>9. ASSUME UNCHANGED exec,
             \A t \in Threads : pc[t] = "connect" => pc'[t] = "connect" /\
                                                     executor'[t] = executor[t]
      PROVE  SessionInv'
  BY <1>9 DEF SessionInv
<1>10. ASSUME NEW t \in Threads,
              \/ GetExecutor(t) \/ CountConnect(t) \/ ReportFailure(t)
              \/ \E ret \in Rets : Reclaim(t, ret) \/ RefuseReclaim(t, ret)
       PROVE  SessionInv'
  <2>1. UNCHANGED exec /\ pc[t] # "connect"
    BY <1>10 DEF GetExecutor, CountConnect, ReportFailure, Reclaim, RefuseReclaim, poolState
  <2>2. \A u \in Threads \ {t} : pc'[u] = pc[u] /\ executor'[u] = executor[u]
    BY <1>10 DEF GetExecutor, CountConnect, ReportFailure, Reclaim, RefuseReclaim, poolState,
                 TypeInv, TypeOK
  <2> QED
    BY <1>9, <2>1, <2>2
<1>11. CASE UNCHANGED <<exec, pc, executor>>
  BY <1>9, <1>11
<1> QED
  BY <1>3, <1>4, <1>5, <1>6, <1>7, <1>8, <1>10, <1>11
     DEF Next, Thread, GetOrCreate, ReturnExecutor, Controller, Terminating, vars,
         poolState, threadState, StopPool, StopCopy, StopNext, DestroyPool, DestroyShard

\* When the workers are joined before Stop(), no session is forgotten: the handle of an
\* executor whose destructor has run is closed, or its connection was found lost.
THEOREM SessionsAreNotLeaked ==
  ASSUME JoinBeforeStop
  PROVE  Spec => []NoSessionLeaked
<1>1. Init => SessionInv
  BY DEF Init, SessionInv, Sound
<1>2. Spec => [](TypeInv /\ SessionInv)
  BY <1>1, TypeInit, TypeStep, SessionStep, PTL DEF Spec
<1>3. TypeInv /\ SessionInv /\ DestructorSafe => NoSessionLeaked
  <2> SUFFICES ASSUME TypeInv, SessionInv, DestructorSafe, NEW e \in Destructed
               PROVE  exec[e].h \notin {"init", "open"}
    BY DEF NoSessionLeaked
  <2>1. e \in Executor /\ ~exec[e].conn /\ e \notin Held
    BY DEF TypeInv, TypeOK, DestructorSafe, Destructed, Referenced
  <2>2. exec[e].h # "open"
    BY <2>1 DEF SessionInv, Sound
  <2>3. exec[e].h # "init"
    BY <2>1, NoneAssumption DEF SessionInv, Held
  <2> QED
    BY <2>2, <2>3
<1>4. Spec => []DestructorSafe
  BY DestructorIsSafe
<1> QED
  BY <1>2, <1>3, <1>4, PTL

----------------------------------------------------------------------------
(* The sharded pool implements ConnectionPool.  Every step of a thread or  *)
(* of the controller is seen from outside as one step of the abstract pool *)
(* or as none.                                                             *)

Gone == created \ (Pooled \cup Opening \cup {Borrowed[t] : t \in Threads})

\* Where a thread's executor is lent or still being opened.
Alive == {"connect", "count", "use", "discard"}

\* The executors given up are the constructed ones that nobody can reach any more.
GoneAt ==
  \A e : e \in Gone <=>
    /\ e \in created /\ e \notin Pooled
    /\ \A t \in Threads : pc[t] \in Alive => executor[t] # e

\* An executor is gone when it was created and nobody alive refers to it.
LEMMA GoneMembers == TypeInv => GoneAt
<1> SUFFICES ASSUME TypeInv PROVE GoneAt
  OBVIOUS
<1>1. \A t \in Threads : Borrowed[t] = IF pc[t] \in {"use", "discard"} THEN executor[t] ELSE None
  BY DEF Borrowed
<1>2. None \notin created
  BY NoneAssumption DEF TypeInv, TypeOK
<1>3. \A e : e \in Opening <=> \E t \in Threads : pc[t] \in {"connect", "count"} /\ executor[t] = e
  BY DEF Opening
<1>4. \A e \in created : e \in {Borrowed[t] : t \in Threads} <=>
        \E t \in Threads : pc[t] \in {"use", "discard"} /\ executor[t] = e
  BY <1>1, <1>2
<1> QED
  BY <1>3, <1>4 DEF Gone, GoneAt, Alive

\* What the pool lends, thread by thread.
LEMMA BorrowedAt ==
  /\ DOMAIN Borrowed = Threads /\ Borrowed = [t \in Threads |-> Borrowed[t]]
  /\ \A t \in Threads : Borrowed[t] = IF pc[t] \in {"use", "discard"} THEN executor[t] ELSE None
BY DEF Borrowed

\* Two functions on S that agree everywhere are equal.
LEMMA SameFunction ==
  ASSUME NEW S, NEW f, NEW g, f = [x \in S |-> f[x]], g = [x \in S |-> g[x]],
         \A x \in S : f[x] = g[x]
  PROVE  f = g
<1>1. [x \in S |-> f[x]] = [x \in S |-> g[x]]
  OBVIOUS
<1> QED
  BY <1>1

\* A step after which t holds b, or nothing, and the others what they held.
LEMMA BorrowedChanges ==
  ASSUME NEW t \in Threads, NEW b,
         b = IF pc'[t] \in {"use", "discard"} THEN executor'[t] ELSE None,
         \A u \in Threads \ {t} : pc'[u] = pc[u] /\ executor'[u] = executor[u]
  PROVE  Borrowed' = [Borrowed EXCEPT ![t] = b]
<1> DEFINE g == [Borrowed EXCEPT ![t] = b]
<1>1. /\ DOMAIN Borrowed = Threads
      /\ \A u \in Threads : Borrowed[u] = IF pc[u] \in {"use", "discard"} THEN executor[u] ELSE None
  BY BorrowedAt
<1>2. /\ Borrowed' = [u \in Threads |-> Borrowed'[u]]
      /\ \A u \in Threads : Borrowed'[u] = IF pc'[u] \in {"use", "discard"} THEN executor'[u] ELSE None
  BY DEF Borrowed
<1>3. g = [u \in Threads |-> g[u]] /\ g[t] = b /\ \A u \in Threads \ {t} : g[u] = Borrowed[u]
  BY <1>1
<1> HIDE DEF g
<1>4. \A u \in Threads : Borrowed'[u] = g[u]
  BY <1>1, <1>2, <1>3
<1>5. Borrowed' = g
  BY <1>2, <1>3, <1>4, SameFunction
<1> QED
  BY <1>5 DEF g

\* A step that neither lends nor takes back changes no borrower.
LEMMA BorrowedStays ==
  ASSUME \A u \in Threads : /\ pc'[u] \in {"use", "discard"} <=> pc[u] \in {"use", "discard"}
                            /\ pc[u] \in {"use", "discard"} => executor'[u] = executor[u]
  PROVE  Borrowed' = Borrowed
<1>1. /\ Borrowed = [u \in Threads |-> Borrowed[u]]
      /\ \A u \in Threads : Borrowed[u] = IF pc[u] \in {"use", "discard"} THEN executor[u] ELSE None
  BY BorrowedAt
<1>2. /\ Borrowed' = [u \in Threads |-> Borrowed'[u]]
      /\ \A u \in Threads : Borrowed'[u] = IF pc'[u] \in {"use", "discard"} THEN executor'[u] ELSE None
  BY DEF Borrowed
<1>3. \A u \in Threads : Borrowed'[u] = Borrowed[u]
  BY <1>1, <1>2
<1> QED
  BY <1>1, <1>2, <1>3, SameFunction

Seen == [Abstract!PoolNext]_(Abstract!poolVars)

\* The state of the abstract pool is what the mapping says.
LEMMA Unseen ==
  ASSUME Pooled' = Pooled, Borrowed' = Borrowed, Gone' = Gone
  PROVE  Seen
BY DEF Seen, Abstract!poolVars, Gone

\* Lending a pooled executor is a step of the abstract pool.
LEMMA SeenLendIdle ==
  ASSUME NEW t \in Threads, NEW e \in Executor, Borrowed[t] = None, e \in Pooled,
         Pooled' = Pooled \ {e}, Borrowed' = [Borrowed EXCEPT ![t] = e], Gone' = Gone
  PROVE  Seen
<1>1. Abstract!LendIdle(t, e)
  BY DEF Abstract!LendIdle, Gone
<1> QED
  BY <1>1 DEF Seen, Abstract!PoolNext

\* So is lending a new one.
LEMMA SeenLendNew ==
  ASSUME NEW t \in Threads, NEW e \in Executor, Borrowed[t] = None,
         e \notin Pooled, e \notin Gone, \A u \in Threads : Borrowed[u] # e,
         Pooled' = Pooled, Borrowed' = [Borrowed EXCEPT ![t] = e], Gone' = Gone
  PROVE  Seen
<1>1. Abstract!LendNew(t, e)
  BY DEF Abstract!LendNew, Abstract!Lent, Gone
<1> QED
  BY <1>1 DEF Seen, Abstract!PoolNext

\* Reclaim that keeps the executor, within the bound.
LEMMA SeenKeep ==
  ASSUME NEW t \in Threads, Borrowed[t] # None, Pooled' = Pooled \cup {Borrowed[t]},
         Cardinality(Pooled') <= MaxSize, Borrowed' = [Borrowed EXCEPT ![t] = None],
         Gone' = Gone
  PROVE  Seen
<1>1. Abstract!Cardinality(Pooled') = Cardinality(Pooled')
  BY DEF Abstract!Cardinality, Cardinality
<1>2. Abstract!Keep(t)
  BY <1>1 DEF Abstract!Keep, Gone
<1> QED
  BY <1>2 DEF Seen, Abstract!PoolNext

\* Reclaim that refuses it, or a borrower that drops it.
LEMMA SeenGiveUp ==
  ASSUME NEW t \in Threads, Borrowed[t] # None, Pooled' = Pooled,
         Borrowed' = [Borrowed EXCEPT ![t] = None], Gone' = Gone \cup {Borrowed[t]}
  PROVE  Seen
<1>1. Abstract!GiveUp(t)
  BY DEF Abstract!GiveUp, Gone
<1> QED
  BY <1>1 DEF Seen, Abstract!PoolNext

\* Executors that leave the shards and are closed.
LEMMA SeenEvict ==
  ASSUME NEW S, S \subseteq Pooled, Pooled' = Pooled \ S, Borrowed' = Borrowed,
         Gone' = Gone \cup S
  PROVE  Seen
<1>1. Abstract!Evict(S) /\ S \in SUBSET Pooled
  BY DEF Abstract!Evict, Gone
<1> QED
  BY <1>1 DEF Seen, Abstract!PoolNext

\* An executor that never got connected.
LEMMA SeenOpenFails ==
  ASSUME NEW e \in Executor, e \notin Pooled, e \notin Gone, \A u \in Threads : Borrowed[u] # e,
         Pooled' = Pooled, Borrowed' = Borrowed, Gone' = Gone \cup {e}
  PROVE  Seen
<1>1. Abstract!OpenFails(e)
  BY DEF Abstract!OpenFails, Abstract!Lent, Gone
<1> QED
  BY <1>1 DEF Seen, Abstract!PoolNext

\* The steps of a thread.
LEMMA ThreadSeen ==
  ASSUME TypeInv, TypeInv', Own, Own', PoolBounded', executor_num' < UintMod,
         NEW t \in Threads, Thread(t)
  PROVE  Seen
<1>1. GoneAt /\ GoneAt'
  BY GoneMembers, GoneMembers, PTL
<1>2. \A u \in Threads : Borrowed[u] = IF pc[u] \in {"use", "discard"} THEN executor[u] ELSE None
  BY BorrowedAt
<1>3. ASSUME pc[t] \in Busy
      PROVE  /\ executor[t] \in created /\ executor[t] \in Executor /\ executor[t] # None
             /\ executor[t] \notin Pooled
             /\ \A u \in Threads \ {t} : executor[u] # executor[t]
  <2>1. executor[t] # None /\ executor[t] \in created /\ executor[t] \in Executor
    BY <1>3 DEF TypeInv, TypeOK, Shape, Own
  <2>2. executor[t] \notin Pooled
    BY PooledOwned
  <2> QED
    BY <2>1, <2>2 DEF Own
<1>4. CASE PopBack(t)
  <2> DEFINE e == executor'[t]
  <2>1. Pooled' \subseteq Pooled /\ Pooled \ {e} \subseteq Pooled' /\ e \in Pooled
    BY <1>4, PopBackPooled
  <2>2. e \in Executor /\ e \in created /\ \A u \in Threads : executor[u] # e
    BY <2>1, PooledOwned
  <2>3. e \notin Pooled'
    <3>1. \A x : x \in Pooled' => \E i \in Shard : \E n \in 1 .. Len(shards'[i]) : shards'[i][n] = x
      BY DEF Pooled, Elems
    <3> QED
      BY <3>1 DEF Own
  <2>4. /\ \A u \in Threads \ {t} : pc'[u] = pc[u] /\ executor'[u] = executor[u]
        /\ pc[t] = "loop" /\ pc'[t] \in {"use", "close"} /\ created' = created
    BY <1>4 DEF PopBack, TypeInv, TypeOK
  <2> HIDE DEF e
  <2>5. Pooled' = Pooled \ {e} /\ executor'[t] = e
    BY <2>1, <2>3 DEF e
  <2>6. CASE pc'[t] = "use"
    <3>1. Borrowed' = [Borrowed EXCEPT ![t] = e]
      BY <2>4, <2>5, <2>6, BorrowedChanges
    <3>2. \A x : x \in Gone' <=> x \in Gone
      BY <1>1, <2>1, <2>2, <2>4, <2>5, <2>6 DEF GoneAt, Alive
    <3>3. Gone' = Gone
      BY <3>2
    <3>4. Borrowed[t] = None
      BY <1>2, <2>4
    <3> QED
      BY <2>1, <2>2, <2>5, <3>1, <3>3, <3>4, SeenLendIdle
  <2>7. CASE pc'[t] = "close"
    <3>1. Borrowed' = Borrowed
      BY <2>4, <2>7, BorrowedStays
    <3>2. \A x : x \in Gone' <=> x \in Gone \cup {e}
      BY <1>1, <2>1, <2>2, <2>4, <2>5, <2>7 DEF GoneAt, Alive
    <3>3. Gone' = Gone \cup {e} /\ {e} \subseteq Pooled
      BY <2>1, <3>2
    <3> QED
      BY <2>5, <3>1, <3>3, SeenEvict
  <2> QED
    BY <2>4, <2>6, <2>7
<1>5. CASE CreateExecutor(t)
  <2>1. PICK e \in Executor \ created : /\ created' = created \cup {e}
                                       /\ executor' = [executor EXCEPT ![t] = e]
    BY <1>5 DEF CreateExecutor
  <2>2. pc[t] = "loop" /\ pc' = [pc EXCEPT ![t] = "connect"] /\ UNCHANGED shards
    BY <1>5 DEF CreateExecutor
  <2>3. /\ \A u \in Threads \ {t} : pc'[u] = pc[u] /\ executor'[u] = executor[u]
        /\ pc'[t] = "connect" /\ executor'[t] = e
    BY <2>1, <2>2 DEF TypeInv, TypeOK
  <2>4. Pooled' = Pooled
    BY <2>2 DEF Pooled
  <2>5. Borrowed' = Borrowed
    BY <2>2, <2>3, BorrowedStays
  <2>6. \A x : x \in Gone' <=> x \in Gone
    BY <1>1, <2>1, <2>2, <2>3, <2>4 DEF GoneAt, Alive
  <2>7. Gone' = Gone
    BY <2>6
  <2> QED
    BY <2>4, <2>5, <2>7, Unseen
<1>6. CASE OpenConnection(t)
  <2> DEFINE e == executor[t]
  <2>1. pc[t] = "connect" /\ pc'[t] \in {"count", "failed"} /\ UNCHANGED <<shards, executor, created>>
    BY <1>6 DEF OpenConnection, TypeInv, TypeOK
  <2>2. \A u \in Threads \ {t} : pc'[u] = pc[u]
    BY <1>6 DEF OpenConnection, TypeInv, TypeOK
  <2>3. Pooled' = Pooled
    BY <2>1 DEF Pooled
  <2>4. Borrowed' = Borrowed
    BY <2>1, <2>2, BorrowedStays
  <2>5. /\ e \in created /\ e \in Executor /\ e # None /\ e \notin Pooled
        /\ \A u \in Threads \ {t} : executor[u] # e
    BY <1>3, <2>1 DEF Busy
  <2>6. CASE pc'[t] = "count"
    <3>1. \A x : x \in Gone' <=> x \in Gone
      BY <1>1, <2>1, <2>2, <2>3, <2>6 DEF GoneAt, Alive
    <3>2. Gone' = Gone
      BY <3>1
    <3> QED
      BY <2>3, <2>4, <3>2, Unseen
  <2>7. CASE pc'[t] = "failed"
    <3>1. \A x : x \in Gone' <=> x \in Gone \cup {e}
      BY <1>1, <2>1, <2>2, <2>3, <2>5, <2>7 DEF GoneAt, Alive
    <3>2. Gone' = Gone \cup {e}
      BY <3>1
    <3>3. e \notin Gone
      BY <1>1, <2>1 DEF GoneAt, Alive
    <3>4. \A u \in Threads : Borrowed[u] # e
      BY <1>2, <2>1, <2>5
    <3> QED
      BY <2>3, <2>4, <2>5, <3>2, <3>3, <3>4, SeenOpenFails
  <2> QED
    BY <2>1, <2>6, <2>7
<1>7. CASE CountConnect(t)
  <2> DEFINE e == executor[t]
  <2>1. pc[t] = "count" /\ pc'[t] = "use" /\ UNCHANGED <<shards, executor, created>>
    BY <1>7 DEF CountConnect, TypeInv, TypeOK
  <2>2. \A u \in Threads \ {t} : pc'[u] = pc[u]
    BY <1>7 DEF CountConnect, TypeInv, TypeOK
  <2>3. Pooled' = Pooled
    BY <2>1 DEF Pooled
  <2>4. Borrowed' = [Borrowed EXCEPT ![t] = e]
    BY <2>1, <2>2, BorrowedChanges
  <2>5. /\ e \in created /\ e \in Executor /\ e # None /\ e \notin Pooled
        /\ \A u \in Threads \ {t} : executor[u] # e
    BY <1>3, <2>1 DEF Busy
  <2>6. \A x : x \in Gone' <=> x \in Gone
    BY <1>1, <2>1, <2>2, <2>3 DEF GoneAt, Alive
  <2>7. Gone' = Gone
    BY <2>6
  <2>8. e \notin Gone
    BY <1>1, <2>1 DEF GoneAt, Alive
  <2>9. Borrowed[t] = None /\ \A u \in Threads : Borrowed[u] # e
    BY <1>2, <2>1, <2>5
  <2> QED
    BY <2>3, <2>4, <2>5, <2>7, <2>8, <2>9, SeenLendNew
<1>8. ASSUME NEW ret \in Rets, Reclaim(t, ret) PROVE Seen
  <2> DEFINE e == executor[t]
  <2>1. /\ pc[t] = "use" /\ pc'[t] = "idle" /\ executor'[t] = None /\ UNCHANGED created
        /\ \A u \in Threads \ {t} : pc'[u] = pc[u] /\ executor'[u] = executor[u]
    BY <1>8 DEF Reclaim, TypeInv, TypeOK
  <2>2. Pooled' = Pooled \cup {e}
    BY <1>8, ReclaimPooled
  <2>3. /\ e \in created /\ e # None /\ \A u \in Threads \ {t} : executor[u] # e
    BY <1>3, <2>1 DEF Busy
  <2>4. Borrowed' = [Borrowed EXCEPT ![t] = None]
    BY <2>1, BorrowedChanges
  <2>5. \A x : x \in Gone' <=> x \in Gone
    BY <1>1, <2>1, <2>2, <2>3 DEF GoneAt, Alive
  <2>6. Gone' = Gone
    BY <2>5
  <2>7. Borrowed[t] = e
    BY <1>2, <2>1
  <2>8. Cardinality(Pooled') <= MaxSize
    BY DEF PoolBounded
  <2> QED
    BY <2>2, <2>3, <2>4, <2>6, <2>7, <2>8, SeenKeep
<1>9. CASE Discard(t)
  <2> DEFINE e == executor[t]
  <2>1. /\ pc[t] = "discard" /\ pc'[t] = "idle" /\ executor'[t] = None
        /\ UNCHANGED <<created, shards>>
        /\ \A u \in Threads \ {t} : pc'[u] = pc[u] /\ executor'[u] = executor[u]
    BY <1>9 DEF Discard, TypeInv, TypeOK
  <2>2. Pooled' = Pooled
    BY <2>1 DEF Pooled
  <2>3. /\ e \in created /\ e # None /\ e \notin Pooled
        /\ \A u \in Threads \ {t} : executor[u] # e
    BY <1>3, <2>1 DEF Busy
  <2>4. Borrowed' = [Borrowed EXCEPT ![t] = None]
    BY <2>1, BorrowedChanges
  <2>5. \A x : x \in Gone' <=> x \in Gone \cup {e}
    BY <1>1, <2>1, <2>2, <2>3 DEF GoneAt, Alive
  <2>6. Gone' = Gone \cup {e}
    BY <2>5
  <2>7. Borrowed[t] = e
    BY <1>2, <2>1
  <2> QED
    BY <2>2, <2>3, <2>4, <2>6, <2>7, SeenGiveUp
<1>10. CASE \/ GetExecutor(t) \/ CloseIdle(t) \/ ReportFailure(t) \/ RunStatement(t)
            \/ \E ret \in Rets : RefuseReclaim(t, ret)
  <2>1. UNCHANGED <<shards, created>>
    BY <1>10 DEF GetExecutor, CloseIdle, ReportFailure, RunStatement, RefuseReclaim, poolState
  <2>2. \A u \in Threads \ {t} : pc'[u] = pc[u] /\ executor'[u] = executor[u]
    BY <1>10 DEF GetExecutor, CloseIdle, ReportFailure, RunStatement, RefuseReclaim,
                 threadState, TypeInv, TypeOK
  <2>3. \/ pc[t] \notin Alive /\ pc'[t] \notin Alive
        \/ /\ pc[t] \in {"use", "discard"} /\ pc'[t] \in {"use", "discard"}
           /\ executor'[t] = executor[t]
    BY <1>10 DEF GetExecutor, CloseIdle, ReportFailure, RunStatement, RefuseReclaim,
                 threadState, TypeInv, TypeOK, Alive
  <2>4. Pooled' = Pooled
    BY <2>1 DEF Pooled
  <2>5. Borrowed' = Borrowed
    <3>1. \A u \in Threads : /\ pc'[u] \in {"use", "discard"} <=> pc[u] \in {"use", "discard"}
                             /\ pc[u] \in {"use", "discard"} => executor'[u] = executor[u]
      BY <2>2, <2>3 DEF Alive
    <3> QED
      BY <3>1, BorrowedStays
  <2>6. \A x : x \in Gone' <=> x \in Gone
    BY <1>1, <2>1, <2>2, <2>3, <2>4 DEF GoneAt, Alive
  <2>7. Gone' = Gone
    BY <2>6
  <2> QED
    BY <2>4, <2>5, <2>7, Unseen
<1> QED
  BY <1>4, <1>5, <1>6, <1>7, <1>8, <1>9, <1>10 DEF Thread, GetOrCreate, ReturnExecutor

\* Destroy() gives up what is left in a shard; the rest of the shutdown is not seen.
LEMMA DestroySeen ==
  ASSUME TypeInv, TypeInv', Own, DestroyShard
  PROVE  Seen
<1> DEFINE S == Pooled \ Pooled'
<1>1. Pooled' \subseteq Pooled
  BY DestroyPooled
<1>2. S \subseteq Pooled /\ Pooled' = Pooled \ S
  BY <1>1
<1>3. UNCHANGED <<pc, executor, created>>
  BY DEF DestroyShard, threadState
<1>4. Borrowed' = Borrowed
  BY <1>3, BorrowedStays
<1>5. GoneAt /\ GoneAt'
  BY GoneMembers, PTL
<1>6. \A x \in Pooled : x \in created /\ \A u \in Threads : executor[u] # x
  BY PooledOwned
<1>7. \A x : x \in Gone' <=> x \in Gone \cup S
  BY <1>2, <1>3, <1>5, <1>6 DEF GoneAt
<1>8. Gone' = Gone \cup S
  BY <1>7
<1> HIDE DEF S
<1> QED
  BY <1>2, <1>4, <1>8, SeenEvict

\* As long as executor_num_ has not wrapped, the pool implements ConnectionPool: an
\* executor is lent to one thread at a time, one that was given up never comes back, and at
\* most max_size are kept.
THEOREM PoolIsImplemented == Spec /\ [](executor_num < UintMod) => ImplementsPool
<1> DEFINE I == TypeInv /\ Own /\ CountInv /\ PoolBounded
<1>1. Init => I /\ Abstract!PoolInit
  <2> SUFFICES ASSUME Init PROVE I /\ Abstract!PoolInit
    OBVIOUS
  <2>1. Elems(<<>>) = {}
    BY DEF Elems
  <2>2. Pooled = {}
    BY <2>1 DEF Init, Pooled
  <2>3. Counted = {}
    BY <2>2 DEF Init, Counted
  <2>4. CountInv /\ PoolBounded
    BY <2>2, <2>3, FS_EmptySet, ShardAssumption DEF CountInv, PoolBounded, Init
  <2>5. Own
    BY DEF Init, Own
  <2>6. Gone = {}
    BY DEF Init, Gone
  <2>7. Borrowed = [t \in Threads |-> None]
    BY DEF Init, Borrowed
  <2>8. Abstract!PoolInit
    BY <2>2, <2>6, <2>7 DEF Abstract!PoolInit, Gone
  <2> QED
    BY <2>4, <2>5, <2>8, TypeInit
<1>2. I /\ [Next]_vars => I'
  BY TypeStep, OwnStep, CountStep, BoundStep
<1>3. I /\ I' /\ (executor_num < UintMod)' /\ [Next]_vars => Seen
  <2> SUFFICES ASSUME I, I', (executor_num < UintMod)', [Next]_vars PROVE Seen
    OBVIOUS
  <2>1. ASSUME NEW t \in Threads, Thread(t) PROVE Seen
    BY <2>1, ThreadSeen
  <2>2. CASE DestroyShard
    BY <2>2, DestroySeen
  <2>3. CASE UNCHANGED <<shards, pc, executor, created>>
    <3>1. Pooled' = Pooled /\ Borrowed' = Borrowed
      BY <2>3 DEF Pooled, Borrowed
    <3>2. Opening' = Opening
      BY <2>3 DEF Opening
    <3>3. Gone' = Gone
      BY <2>3, <3>1, <3>2 DEF Gone
    <3> QED
      BY <3>1, <3>3, Unseen
  <2> QED
    BY <2>1, <2>2, <2>3
       DEF Next, Controller, Terminating, vars, poolState, threadState, StopPool, StopCopy,
           StopClose, StopNext, DestroyPool
<1> HIDE DEF I
<1>4. Spec => []I
  BY <1>1, <1>2, PTL DEF Spec
<1> QED
  BY <1>1, <1>3, <1>4, PTL DEF Spec, ImplementsPool, Abstract!PoolSpec, Seen
=============================================================================
