--------------------------- MODULE ConnectionPool ---------------------------
(***************************************************************************)
(* What a connection pool promises its borrowers, whatever its inside      *)
(* looks like: a connection is lent to one borrower at a time, it comes    *)
(* from the idle ones or is a new one, a connection the pool has given up  *)
(* never comes back, and at most Capacity connections are kept idle.       *)
(***************************************************************************)
EXTENDS Naturals, FiniteSets

CONSTANTS Borrowers, Connections, NoConnection, Capacity

VARIABLES idle,   \* connections kept for reuse
          lent,   \* lent[b]: the connection b works with, or NoConnection
          gone    \* connections given up: closed, expired or refused

poolVars == <<idle, lent, gone>>

Lent == {lent[b] : b \in Borrowers} \ {NoConnection}

PoolInit ==
  /\ idle = {}
  /\ lent = [b \in Borrowers |-> NoConnection]
  /\ gone = {}

\* Lend an idle connection.
LendIdle(b, c) ==
  /\ lent[b] = NoConnection
  /\ c \in idle
  /\ idle' = idle \ {c}
  /\ lent' = [lent EXCEPT ![b] = c]
  /\ UNCHANGED gone

\* Lend a connection opened for this borrower.
LendNew(b, c) ==
  /\ lent[b] = NoConnection
  /\ c \in Connections \ (idle \cup Lent \cup gone)
  /\ lent' = [lent EXCEPT ![b] = c]
  /\ UNCHANGED <<idle, gone>>

\* The borrower returns its connection and the pool has room for it.
Keep(b) ==
  /\ lent[b] # NoConnection
  /\ idle' = idle \cup {lent[b]}
  /\ Cardinality(idle') <= Capacity
  /\ lent' = [lent EXCEPT ![b] = NoConnection]
  /\ UNCHANGED gone

\* The borrower returns its connection and the pool gives it up.
GiveUp(b) ==
  /\ lent[b] # NoConnection
  /\ gone' = gone \cup {lent[b]}
  /\ lent' = [lent EXCEPT ![b] = NoConnection]
  /\ UNCHANGED idle

\* Idle connections are given up: dead, expired, or the pool shuts down.
Evict(S) ==
  /\ S \subseteq idle
  /\ idle' = idle \ S
  /\ gone' = gone \cup S
  /\ UNCHANGED lent

\* An attempt to open a connection fails.
OpenFails(c) ==
  /\ c \in Connections \ (idle \cup Lent \cup gone)
  /\ gone' = gone \cup {c}
  /\ UNCHANGED <<idle, lent>>

PoolNext ==
  \/ \E b \in Borrowers, c \in Connections : LendIdle(b, c) \/ LendNew(b, c)
  \/ \E b \in Borrowers : Keep(b) \/ GiveUp(b)
  \/ \E S \in SUBSET idle : Evict(S)
  \/ \E c \in Connections : OpenFails(c)

PoolSpec == PoolInit /\ [][PoolNext]_poolVars
=============================================================================
