------------------- MODULE MysqlExecutorPoolManagerProofs -------------------
(***************************************************************************)
(* Proofs about the map of pools, for every set of threads, addresses and  *)
(* pools and every key function, when no caller begins or ends a           *)
(* transaction while the manager is shut down: its lookups are the ones    *)
(* that Join() does not wait for.                                          *)
(***************************************************************************)
EXTENDS MysqlExecutorPoolManager, TLAPS

----------------------------------------------------------------------------
(* The inductive invariant.                                                *)

\* A thread inside Get() has an argument, runs only until Destroy() starts,
\* and a caller, or with a join before Stop() any, only until Stop() starts.
Looking ==
  \A t \in Threads : pc[t] # "idle" =>
    /\ addr[t] \in Addr
    /\ phase \in {"running", "stopping"}
    /\ joined \/ t \in Callers => phase = "running"

\* A pool that is not in the map yet, or lost its race, belongs to the thread
\* that made it and to no one else.
Private ==
  /\ \A t \in Threads : pc[t] \in {"insert", "lose"} =>
       /\ mine[t] \in allocated \ deleted
       /\ target[mine[t]] = addr[t]
       /\ \A k \in Keys : executor_pools[k] # mine[t]
  /\ \A t, u \in Threads :
       pc[t] \in {"insert", "lose"} /\ pc[u] \in {"insert", "lose"} /\ mine[t] = mine[u]
         => t = u

\* What Get() found or left under its key is still there while it is used.
Found ==
  \A t \in Threads : pc[t] \in {"lose", "use"} =>
    got[t] # None /\ got[t] = executor_pools[Endpoint(addr[t])]

\* A pool in the map was made for an address with that key, and is alive
\* until Destroy() starts.
Mapped ==
  \A k \in Keys : executor_pools[k] # None =>
    /\ executor_pools[k] \in allocated
    /\ target[executor_pools[k]] \in Addr
    /\ Key[target[executor_pools[k]]] = k
    /\ phase \in {"running", "stopping"} => executor_pools[k] \notin deleted

\* Until the end every pool is deleted, in the map, or owned by a thread; if
\* the workers were joined first, Stop() has seen the whole map.
Accounted ==
  /\ phase # "destroyed" =>
       \A p \in allocated :
         \/ p \in deleted
         \/ \E k \in Keys : executor_pools[k] = p
         \/ \E t \in Threads : pc[t] \in {"insert", "lose"} /\ mine[t] = p
  /\ joined /\ phase \in {"stopping", "destroying"} =>
       \A k \in Keys : executor_pools[k] # None => executor_pools[k] \in snapshot
  /\ joined /\ phase = "destroyed" => allocated \subseteq deleted

Inv == TypeOK /\ Looking /\ Private /\ Found /\ Mapped /\ Accounted

\* Before the first Get() the map is empty.
LEMMA InvInit == Init => Inv
BY NoPoolAssumption, ThreadAssumption, BoundAssumption
   DEF Init, Inv, TypeOK, Looking, Private, Found, Mapped, Accounted

\* Every step of a lookup and of the shutdown keeps the map consistent.
LEMMA InvStep ==
  ASSUME QuietCallers, Inv, [Next]_vars
  PROVE  Inv'
<1> USE NoPoolAssumption, BoundAssumption DEF Inv, Endpoint
<1>1. ASSUME NEW t \in Threads, NEW a \in Addr, Get(t, a) PROVE Inv'
  <2>0. phase = "running" \/ (phase = "stopping" /\ ~joined /\ t \notin Callers)
    BY <1>1, ThreadAssumption DEF Get, MayGet
  <2>1. Key[a] \in Keys
    BY DEF Keys
  <2>2. TypeOK'
    BY <1>1, <2>1 DEF Get, TypeOK, mapVars
  <2>3. Looking' /\ Private' /\ Found'
    BY <1>1, <2>0, <2>1 DEF Get, TypeOK, mapVars, Looking, Private, Found
  <2>4. Mapped' /\ Accounted'
    BY <1>1 DEF Get, TypeOK, mapVars, Mapped, Accounted, Keys
  <2> QED
    BY <2>2, <2>3, <2>4
<1>2. ASSUME NEW t \in Threads, CreateExecutorPool(t) PROVE Inv'
  <2>1. PICK p \in Pool \ allocated :
          /\ allocated' = allocated \cup {p}
          /\ target' = [target EXCEPT ![p] = addr[t]]
          /\ mine' = [mine EXCEPT ![t] = p]
    BY <1>2 DEF CreateExecutorPool
  <2>2. /\ pc[t] = "create" /\ addr[t] \in Addr
        /\ pc' = [pc EXCEPT ![t] = "insert"]
        /\ UNCHANGED <<executor_pools, deleted, stopped, snapshot, addr, got, joined,
                       phase, gets>>
    BY <1>2 DEF CreateExecutorPool, Looking
  <2>3. TypeOK'
    BY <2>1, <2>2 DEF TypeOK
  <2>4. Looking' /\ Found'
    BY <2>1, <2>2 DEF TypeOK, Looking, Found
  <2>5. Private' /\ Mapped'
    BY <2>1, <2>2 DEF TypeOK, Private, Mapped
  <2>6. Accounted'
    BY <2>1, <2>2 DEF TypeOK, Accounted, Looking
  <2> QED
    BY <2>3, <2>4, <2>5, <2>6
<1>3. ASSUME NEW t \in Threads, GetOrInsert(t) PROVE Inv'
  <2> DEFINE k == Key[addr[t]]
             w == Winner(t, k)
  <2>1. /\ pc[t] = "insert" /\ addr[t] \in Addr /\ k \in Keys
        /\ executor_pools' = [executor_pools EXCEPT ![k] = w]
        /\ got' = [got EXCEPT ![t] = w]
        /\ pc' = [pc EXCEPT ![t] = IF w = mine[t] THEN "use" ELSE "lose"]
        /\ UNCHANGED <<target, allocated, deleted, stopped, snapshot, addr, mine, joined,
                       phase, gets>>
    BY <1>3 DEF GetOrInsert, Looking, Keys
  <2>2. /\ executor_pools[k] = None => w = mine[t]
        /\ executor_pools[k] # None => w = executor_pools[k] /\ w # mine[t]
        /\ mine[t] \in allocated \ deleted /\ mine[t] # None
        /\ target[mine[t]] = addr[t]
        /\ \A j \in Keys : executor_pools[j] # mine[t]
    BY <2>1 DEF Winner, Private, TypeOK
  <2> HIDE DEF k, w
  <2>3. TypeOK'
    BY <2>1, <2>2 DEF TypeOK
  <2>4. Looking'
    BY <2>1 DEF TypeOK, Looking
  <2>5. Private'
    BY <2>1, <2>2 DEF TypeOK, Private
  <2>6. Found'
    BY <2>1, <2>2 DEF TypeOK, Found, Looking, Keys, k
  <2>7. Mapped'
    BY <2>1, <2>2 DEF TypeOK, Mapped, k
  <2>8. Accounted'
    <3>1. joined => phase = "running"
      BY <2>1 DEF Looking
    <3>2. phase # "destroyed"
      BY <2>1 DEF Looking
    <3>3. ASSUME NEW p \in allocated
          PROVE  \/ p \in deleted
                 \/ \E j \in Keys : executor_pools'[j] = p
                 \/ \E u \in Threads : pc'[u] \in {"insert", "lose"} /\ mine[u] = p
      <4>1. CASE p \in deleted
        BY <4>1
      <4>2. ASSUME NEW j \in Keys, executor_pools[j] = p
            PROVE  \E i \in Keys : executor_pools'[i] = p
        BY <2>1, <2>2, <4>2 DEF TypeOK
      <4>3. ASSUME NEW u \in Threads, pc[u] \in {"insert", "lose"}, mine[u] = p
            PROVE  \/ \E i \in Keys : executor_pools'[i] = p
                   \/ \E v \in Threads : pc'[v] \in {"insert", "lose"} /\ mine[v] = p
        BY <2>1, <2>2, <4>3 DEF TypeOK
      <4> QED
        BY <3>2, <4>1, <4>2, <4>3 DEF Accounted
    <3> QED
      BY <2>1, <3>1, <3>2, <3>3 DEF Accounted
  <2> QED
    BY <2>3, <2>4, <2>5, <2>6, <2>7, <2>8
<1>4. ASSUME NEW t \in Threads, DeleteLoser(t) PROVE Inv'
  BY <1>4 DEF DeleteLoser, Loser, TypeOK, Looking, Private, Found, Mapped, Accounted
<1>5. ASSUME NEW t \in Threads, Done(t) PROVE Inv'
  BY <1>5 DEF Done, mapVars, TypeOK, Looking, Private, Found, Mapped, Accounted
<1>6. ASSUME TakeSnapshot PROVE Inv'
  BY <1>6 DEF TakeSnapshot, Threads, Joined, Quiet, threadVars, TypeOK, Looking, Private, Found, Mapped,
              Accounted
<1>7. ASSUME NEW p \in Pool, StopOne(p) PROVE Inv'
  BY <1>7 DEF StopOne, threadVars, TypeOK, Looking, Private, Found, Mapped, Accounted
<1>8. ASSUME StartDestroy PROVE Inv'
  BY <1>8 DEF StartDestroy, Threads, Joined, Quiet, mapVars, threadVars, TypeOK, Looking,
              Private, Found, Mapped, Accounted
<1>9. ASSUME NEW p \in Pool, DestroyOne(p) PROVE Inv'
  BY <1>9 DEF DestroyOne, threadVars, TypeOK, Looking, Private, Found, Mapped, Accounted
<1>10. ASSUME FinishDestroy PROVE Inv'
  BY <1>10 DEF FinishDestroy, threadVars, TypeOK, Looking, Private, Found, Mapped, Accounted
<1>11. ASSUME UNCHANGED vars PROVE Inv'
  BY <1>11 DEF vars, TypeOK, Looking, Private, Found, Mapped, Accounted
<1> QED
  BY <1>1, <1>2, <1>3, <1>4, <1>5, <1>6, <1>7, <1>8, <1>9, <1>10, <1>11
     DEF Next, Thread, Terminating

\* The invariant holds in every reachable state of the manager.
LEMMA InvHolds ==
  ASSUME QuietCallers
  PROVE  Spec => []Inv
<1>1. Init => Inv
  BY InvInit
<1>2. Inv /\ [Next]_vars => Inv'
  BY InvStep
<1> QED
  BY <1>1, <1>2, PTL DEF Spec

----------------------------------------------------------------------------
(* The properties of the runs, for every instance.                         *)

\* The map, the snapshot of Stop() and the deleted pools are pools Get() made,
\* never a null pointer.
THEOREM ManagerTypeCorrect ==
  ASSUME QuietCallers
  PROVE  Spec => []TypeOK
<1>1. Inv => TypeOK
  BY DEF Inv
<1> QED
  BY <1>1, InvHolds, PTL

\* However many lookups of an endpoint race in Get(), they return one pool.
THEOREM LookupsAgree ==
  ASSUME QuietCallers
  PROVE  Spec => []OnePoolPerEndpoint
<1>1. Inv => OnePoolPerEndpoint
  BY DEF Inv, Found, OnePoolPerEndpoint
<1> QED
  BY <1>1, InvHolds, PTL

\* Neither the loser of a race in Get() nor Destroy() deletes a pool that a
\* caller works with or can still find in the map.
THEOREM PointersStayValid ==
  ASSUME QuietCallers
  PROVE  Spec => []PoolPointerValid
<1>1. Inv => PoolPointerValid
  <2> SUFFICES ASSUME Inv PROVE PoolPointerValid
    OBVIOUS
  <2>1. ASSUME NEW t \in Threads, pc[t] = "use" PROVE got[t] \in allocated \ deleted
    <3>1. Key[addr[t]] \in Keys /\ phase \in {"running", "stopping"}
      BY <2>1 DEF Inv, Looking, Keys
    <3> QED
      BY <2>1, <3>1 DEF Inv, Found, Mapped, Endpoint
  <2>2. ASSUME NEW k \in Keys, phase \in {"running", "stopping"}
        PROVE  executor_pools[k] \notin deleted
    BY <2>2, NoPoolAssumption DEF Inv, Mapped, TypeOK
  <2> QED
    BY <2>1, <2>2 DEF PoolPointerValid
<1> QED
  BY <1>1, InvHolds, PTL

\* When no two addresses print the same key, a lookup is answered with a pool
\* for the address asked for.
THEOREM LookupsReachTheirTarget ==
  ASSUME QuietCallers, \A a, b \in Addr : Key[a] = Key[b] => a = b
  PROVE  Spec => []TargetMatches
<1>1. Inv => TargetMatches
  <2> SUFFICES ASSUME Inv, NEW t \in Threads, pc[t] = "use"
               PROVE  target[got[t]] = addr[t]
    BY DEF TargetMatches
  <2>1. addr[t] \in Addr /\ Key[addr[t]] \in Keys
    BY DEF Inv, Looking, Keys
  <2>2. target[got[t]] \in Addr /\ Key[target[got[t]]] = Key[addr[t]]
    BY <2>1 DEF Inv, Found, Mapped, Endpoint
  <2> QED
    BY <2>1, <2>2
<1> QED
  BY <1>1, InvHolds, PTL

\* After a shutdown that joined the workers before Stop(), every pool Get()
\* made was deleted.
THEOREM EveryPoolDeleted ==
  ASSUME QuietCallers
  PROVE  Spec => []NoPoolLeaked
<1>1. Inv => NoPoolLeaked
  BY DEF Inv, Accounted, NoPoolLeaked
<1> QED
  BY <1>1, InvHolds, PTL
=============================================================================
