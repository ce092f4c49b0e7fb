---------------------- MODULE MysqlExecutorPoolManager ----------------------
(***************************************************************************)
(* The map from endpoints to connection pools                              *)
(* (mysql_executor_pool_manager.{h,cc}).  Pools are raw pointers: Get()    *)
(* may create one that loses the race for its key and is deleted at once,  *)
(* Stop() snapshots the map and Destroy() deletes the snapshot.            *)
(***************************************************************************)
EXTENDS Naturals, FiniteSets

CONSTANTS
  Workers,         \* the threads of the thread pool: tasks look pools up
  Callers,         \* the application's threads: Begin and EndTransaction do
  QuietCallers,    \* whether no Begin or EndTransaction runs during a shutdown
  Addr,            \* NodeAddr values asked for
  Key,             \* Key[a]: the 64 byte map key printed for address a
  Pool,            \* identities of MysqlExecutorPool objects, never reused
  None,            \* nullptr
  MaxGets          \* bound of the model: calls of Get()

Threads == Workers \cup Callers

ASSUME NoPoolAssumption == None \notin Pool
ASSUME ThreadAssumption == Workers \cap Callers = {} /\ QuietCallers \in BOOLEAN
ASSUME BoundAssumption == MaxGets \in Nat

VARIABLES
  executor_pools,  \* the concurrent map, None where a key is absent
  target,          \* target[p]: the address pool p was created for
  allocated,       \* pools ever created
  deleted,         \* pools deleted
  stopped,         \* pools whose Stop() was called
  snapshot,        \* pools_to_destroy_
  pc, addr,        \* where each thread is in Get(), and its argument
  mine,            \* the pool a thread created
  got,             \* the pool Get() returned to it, while it uses it
  joined,          \* how the proxy shuts down: SetMysqlConfig joins the workers
                   \* before Stop(), the proxy's own Stop() does not
  phase,           \* where Stop() and Destroy() are
  gets             \* calls of Get() so far

vars == <<executor_pools, target, allocated, deleted, stopped, snapshot, pc, addr,
          mine, got, joined, phase, gets>>

mapVars == <<executor_pools, target, allocated, deleted, stopped, snapshot>>
threadVars == <<pc, addr, mine, got, gets, joined>>

Keys == {Key[a] : a \in Addr}

Init ==
  /\ executor_pools = [k \in Keys |-> None]
  /\ target = [p \in Pool |-> None]
  /\ allocated = {} /\ deleted = {} /\ stopped = {} /\ snapshot = {}
  /\ pc = [t \in Threads |-> "idle"]
  /\ addr = [t \in Threads |-> None]
  /\ mine = [t \in Threads |-> None]
  /\ got = [t \in Threads |-> None]
  /\ joined \in BOOLEAN
  /\ phase = "running"
  /\ gets = 0

----------------------------------------------------------------------------
\* Mutant: the key leaves the port out, so all addresses share it.
Endpoint_NoPort(a) == Key[CHOOSE b \in Addr : TRUE]

\* The key Get() prints for an address.
Endpoint(a) == Key[a]

\* A task may look a pool up until Stop(), and one that is still queued when
\* Stop() runs without a join does so afterwards.  Nothing in the proxy keeps a
\* caller from it, at any time.
MayGet(t) ==
  \/ phase = "running"
  \/ t \in Workers /\ phase = "stopping" /\ ~joined
  \/ t \in Callers /\ ~QuietCallers

\* Get() looks its key up; a hit returns at once.
Get(t, a) ==
  LET p == executor_pools[Endpoint(a)]
  IN  /\ pc[t] = "idle" /\ gets < MaxGets
      /\ MayGet(t)
      /\ gets' = gets + 1
      /\ addr' = [addr EXCEPT ![t] = a]
      /\ got' = [got EXCEPT ![t] = p]
      /\ pc' = [pc EXCEPT ![t] = IF p # None THEN "use" ELSE "create"]
      /\ UNCHANGED <<mapVars, mine, joined, phase>>

\* A miss: a new pool is made outside the map.
CreateExecutorPool(t) ==
  /\ pc[t] = "create"
  /\ \E p \in Pool \ allocated :
       /\ allocated' = allocated \cup {p}
       /\ target' = [target EXCEPT ![p] = addr[t]]
       /\ mine' = [mine EXCEPT ![t] = p]
  /\ pc' = [pc EXCEPT ![t] = "insert"]
  /\ UNCHANGED <<executor_pools, deleted, stopped, snapshot, addr, got, joined, phase, gets>>

\* Mutant: Insert overwrites what another thread put there.
Winner_Overwrite(t, k) == mine[t]

\* The pool under the key after GetOrInsert: the one that was there first.
Winner(t, k) == IF executor_pools[k] = None THEN mine[t] ELSE executor_pools[k]

\* GetOrInsert: the first one in stays, the loser deletes its pool.
GetOrInsert(t) ==
  LET k == Endpoint(addr[t])
      winner == Winner(t, k)
  IN  /\ pc[t] = "insert"
      /\ executor_pools' = [executor_pools EXCEPT ![k] = winner]
      /\ got' = [got EXCEPT ![t] = winner]
      /\ pc' = [pc EXCEPT ![t] = IF winner = mine[t] THEN "use" ELSE "lose"]
      /\ UNCHANGED <<target, allocated, deleted, stopped, snapshot, addr, mine, joined,
                     phase, gets>>

\* Mutant: the pointer is cleared before the delete.
Loser_Null(t) == None

\* The pool the loser deletes: its own.
Loser(t) == mine[t]

DeleteLoser(t) ==
  /\ pc[t] = "lose"
  /\ deleted' = deleted \cup {Loser(t)}
  /\ pc' = [pc EXCEPT ![t] = "use"]
  /\ UNCHANGED <<executor_pools, target, allocated, stopped, snapshot, addr, mine, got,
                 joined, phase, gets>>

\* The task is over: GetExecutor, the statement and Reclaim used the pool.
Done(t) ==
  /\ pc[t] = "use"
  /\ pc' = [pc EXCEPT ![t] = "idle"]
  /\ mine' = [mine EXCEPT ![t] = None]
  /\ got' = [got EXCEPT ![t] = None]
  /\ UNCHANGED <<mapVars, addr, joined, phase, gets>>

----------------------------------------------------------------------------
\* What Join() of the thread pool waits for.
Joined == \A t \in Workers : pc[t] = "idle"

\* What it does not wait for, and the application has to see to.
Quiet == QuietCallers => \A t \in Callers : pc[t] = "idle"

\* Stop() takes a snapshot of the map.
TakeSnapshot ==
  /\ phase = "running"
  /\ joined => Joined
  /\ Quiet
  /\ snapshot' = {executor_pools[k] : k \in Keys} \ {None}
  /\ phase' = "stopping"
  /\ UNCHANGED <<executor_pools, target, allocated, deleted, stopped, threadVars>>

\* ... and stops its pools one after the other.
StopOne(p) ==
  /\ phase = "stopping"
  /\ p \in snapshot \ stopped
  /\ stopped' = stopped \cup {p}
  /\ UNCHANGED <<executor_pools, target, allocated, deleted, snapshot, phase,
                 threadVars>>

\* Mutant: Destroy() does not wait for the workers.
StartDestroy_NoJoin ==
  /\ phase = "stopping"
  /\ snapshot \subseteq stopped
  /\ phase' = "destroying"
  /\ UNCHANGED <<mapVars, threadVars>>

\* The workers are joined before Destroy() in either order.
StartDestroy ==
  /\ phase = "stopping"
  /\ snapshot \subseteq stopped
  /\ Joined
  /\ phase' = "destroying"
  /\ UNCHANGED <<mapVars, threadVars>>

DestroyOne(p) ==
  /\ phase = "destroying"
  /\ p \in snapshot \ deleted
  /\ deleted' = deleted \cup {p}
  /\ UNCHANGED <<executor_pools, target, allocated, stopped, snapshot, phase,
                 threadVars>>

\* executor_pools_.Reclaim() and pools_to_destroy_.clear().
FinishDestroy ==
  /\ phase = "destroying"
  /\ snapshot \subseteq deleted
  /\ executor_pools' = [k \in Keys |-> None]
  /\ snapshot' = {}
  /\ phase' = "destroyed"
  /\ UNCHANGED <<target, allocated, deleted, stopped, threadVars>>

Terminating == phase = "destroyed" /\ UNCHANGED vars

Thread(t) ==
  \/ \E a \in Addr : Get(t, a)
  \/ CreateExecutorPool(t) \/ GetOrInsert(t) \/ DeleteLoser(t) \/ Done(t)

Next ==
  \/ \E t \in Threads : Thread(t)
  \/ TakeSnapshot \/ StartDestroy \/ FinishDestroy
  \/ \E p \in Pool : StopOne(p) \/ DestroyOne(p)
  \/ Terminating

Spec == Init /\ [][Next]_vars

----------------------------------------------------------------------------
(* Properties                                                              *)

\* The map, the snapshot of Stop() and the pools that were stopped or deleted
\* consist of pools Get() created, never of a null pointer.
TypeOK ==
  /\ executor_pools \in [Keys -> Pool \cup {None}]
  /\ target \in [Pool -> Addr \cup {None}]
  /\ allocated \subseteq Pool
  /\ deleted \cup stopped \cup snapshot \subseteq allocated
  /\ pc \in [Threads -> {"idle", "create", "insert", "lose", "use"}]
  /\ addr \in [Threads -> Addr \cup {None}]
  /\ mine \in [Threads -> Pool \cup {None}]
  /\ got \in [Threads -> Pool \cup {None}]
  /\ joined \in BOOLEAN
  /\ phase \in {"running", "stopping", "destroying", "destroyed"}
  /\ gets \in 0 .. MaxGets

\* However the lookups race, those of one endpoint end up with the same
\* pool: its max_size is a limit per endpoint and not per race.
OnePoolPerEndpoint ==
  \A t, u \in Threads :
    pc[t] = "use" /\ pc[u] = "use" /\ addr[t] = addr[u] => got[t] = got[u]

\* A pool a thread works with, or can still look up, has not been deleted:
\* not by the loser of a race in Get(), and, when no caller begins or ends a
\* transaction meanwhile, not by Destroy().
PoolPointerValid ==
  /\ \A t \in Threads : pc[t] = "use" => got[t] \in allocated \ deleted
  /\ phase \in {"running", "stopping"} => \A k \in Keys : executor_pools[k] \notin deleted

\* Get() returns a pool that connects to the address asked for.
TargetMatches == \A t \in Threads : pc[t] = "use" => target[got[t]] = addr[t]

\* When the manager is gone after a shutdown that joined the workers first and
\* that no caller ran into, every pool it made was deleted, the losers of a race
\* by Get() and the others by Destroy().
NoPoolLeaked == joined /\ phase = "destroyed" => allocated \subseteq deleted
=============================================================================
