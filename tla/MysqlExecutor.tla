--------------------------- MODULE MysqlExecutor ---------------------------
(***************************************************************************)
(* One MySQL connection object (class MysqlExecutor).  An executor is a    *)
(* record:                                                                 *)
(*   conn  the member is_connected                                         *)
(*   h     what the member mysql_ points to                                *)
(*           "null"   mysql_ is nullptr                                    *)
(*           "init"   mysql_init done, never connected                     *)
(*           "open"   connected to the server                              *)
(*           "lost"   still allocated, the server side is gone             *)
(*           "freed"  mysql_close was called, mysql_ still holds the       *)
(*                    address                                              *)
(* Every method is an operator on the record.  A method whose result the   *)
(* server or the network decides yields the SET of records it may leave.   *)
(***************************************************************************)

Handles == {"null", "init", "open", "lost", "freed"}

ExecutorState == [conn : BOOLEAN, h : Handles]

\* The constructor: mysql_init has run, nothing is connected yet.
New == [conn |-> FALSE, h |-> "init"]

\* Connect() on an object that is not connected.  A null handle is allocated
\* first.  A refused connection closes the handle and keeps its address.  A
\* call on a closed handle reads memory the library has released: it may
\* report either outcome, and no allocated handle results.
Connect(x) ==
  IF x.conn
  THEN {x}
  ELSE {[conn |-> TRUE,  h |-> IF x.h = "freed" THEN "freed" ELSE "open"],
        [conn |-> FALSE, h |-> "freed"]}

\* Mutant: Close() forgets mysql_close.
Close_NoFree(x) == [x EXCEPT !.conn = FALSE]

\* Close() reaches mysql_close only while is_connected is set.
Close(x) ==
  [conn |-> FALSE, h |-> IF x.conn /\ x.h # "null" THEN "null" ELSE x.h]

\* CheckAlive(): the answer is the conn field of the record it leaves.  A
\* ping that fails (the peer is gone, or the 5 s API timeout) only clears
\* is_connected.  The ping is where the client learns of a lost connection,
\* so the loss and its discovery are one choice here.
CheckAlive(x) ==
  IF ~x.conn
  THEN {x}
  ELSE {[conn |-> FALSE, h |-> IF x.h = "open" THEN "lost" ELSE x.h]}
         \cup (IF x.h \in {"open", "freed"} THEN {x} ELSE {})

\* StartReconnect(): Connect() up to RECONNECT_MAX_RETRY times, until one
\* succeeds.  Every attempt after a refused one starts from a closed handle,
\* so the records of the second attempt are those of all later ones.
StartReconnect(x) ==
  LET first == Connect(x)
  IN  first \cup UNION {Connect(y) : y \in {z \in first : ~z.conn}}

\* What running one statement leaves of a connected executor: the text
\* protocol does not touch the object; the prepared-statement path calls
\* CheckAlive() and reconnects when it fails.
RunQuery(x) ==
  {x} \cup UNION {StartReconnect(y) : y \in {z \in CheckAlive(x) : ~z.conn}}
=============================================================================
