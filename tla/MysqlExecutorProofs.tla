------------------------ MODULE MysqlExecutorProofs ------------------------
(***************************************************************************)
(* What the methods of one MysqlExecutor leave of its record, whatever the *)
(* server and the network answer.                                          *)
(***************************************************************************)
EXTENDS MysqlExecutor, TLAPS

----------------------------------------------------------------------------
(* The methods leave executor records.                                     *)

\* Any flag and any kind of handle make an executor record.
LEMMA RecordType == \A c \in BOOLEAN, v \in Handles : [conn |-> c, h |-> v] \in ExecutorState
BY DEF ExecutorState

\* The constructor and Close() return executor records.
LEMMA CloseType ==
  /\ New \in ExecutorState
  /\ \A x \in ExecutorState : Close(x) \in ExecutorState
BY DEF New, Close, ExecutorState, Handles

\* Whatever mysql_real_connect answers, Connect() leaves an executor record.
LEMMA ConnectType ==
  \A x \in ExecutorState : \A y \in Connect(x) : y \in ExecutorState
<1> SUFFICES ASSUME NEW x \in ExecutorState, NEW y \in Connect(x)
             PROVE  y \in ExecutorState
  OBVIOUS
<1>1. CASE x.conn
  BY <1>1 DEF Connect
<1>2. CASE ~x.conn
  <2>1. \/ y = [conn |-> TRUE, h |-> IF x.h = "freed" THEN "freed" ELSE "open"]
        \/ y = [conn |-> FALSE, h |-> "freed"]
    BY <1>2 DEF Connect
  <2>2. (IF x.h = "freed" THEN "freed" ELSE "open") \in Handles /\ "freed" \in Handles
    BY DEF Handles
  <2> QED
    BY <2>1, <2>2, RecordType
<1> QED
  BY <1>1, <1>2

\* Whatever the ping answers, CheckAlive() leaves an executor record.
LEMMA CheckAliveType ==
  \A x \in ExecutorState : \A y \in CheckAlive(x) : y \in ExecutorState
<1> SUFFICES ASSUME NEW x \in ExecutorState, NEW y \in CheckAlive(x)
             PROVE  y \in ExecutorState
  OBVIOUS
<1>1. \/ y = x
      \/ y = [conn |-> FALSE, h |-> IF x.h = "open" THEN "lost" ELSE x.h]
  BY DEF CheckAlive
<1>2. (IF x.h = "open" THEN "lost" ELSE x.h) \in Handles
  BY DEF ExecutorState, Handles
<1> QED
  BY <1>1, <1>2, RecordType

\* A statement, with or without a reconnect, leaves an executor record.
LEMMA RunQueryType ==
  \A x \in ExecutorState : \A y \in RunQuery(x) : y \in ExecutorState
BY ConnectType, CheckAliveType DEF RunQuery, StartReconnect

\* StartReconnect() leaves an executor record.
LEMMA StartReconnectType ==
  \A x \in ExecutorState : \A y \in StartReconnect(x) : y \in ExecutorState
BY ConnectType DEF StartReconnect

----------------------------------------------------------------------------
(* is_connected and mysql_ are two members that Connect(), Close() and the *)
(* ping change one after the other.  An open session implies is_connected, *)
(* so an executor that is not connected has none.                          *)

Sound(x) == (x.h = "open" => x.conn) /\ (x.h = "init" => ~x.conn)

\* After Connect() the handle is not a fresh one any more.
LEMMA ConnectSound ==
  ASSUME NEW x \in ExecutorState, Sound(x), NEW y \in Connect(x)
  PROVE  Sound(y) /\ y.h # "init"
<1>1. CASE x.conn
  BY <1>1 DEF Connect, Sound
<1>2. CASE ~x.conn
  <2>1. \/ y = [conn |-> TRUE, h |-> "freed"] \/ y = [conn |-> TRUE, h |-> "open"]
        \/ y = [conn |-> FALSE, h |-> "freed"]
    BY <1>2 DEF Connect
  <2> QED
    BY <2>1 DEF Sound
<1> QED
  BY <1>1, <1>2

\* Close() and the ping leave a sound executor and make no fresh handle.
LEMMA CloseSound ==
  ASSUME NEW x \in ExecutorState, Sound(x)
  PROVE  Sound(Close(x)) /\ (Close(x).h = "init" => x.h = "init")
BY DEF Close, Sound

\* The ping changes is_connected and the handle together.
LEMMA CheckAliveSound ==
  ASSUME NEW x \in ExecutorState, Sound(x), NEW y \in CheckAlive(x)
  PROVE  Sound(y) /\ (y.h = "init" => x.h = "init")
<1>1. \/ y = x
      \/ y = [conn |-> FALSE, h |-> IF x.h = "open" THEN "lost" ELSE x.h]
  BY DEF CheckAlive
<1> QED
  BY <1>1 DEF Sound

\* A statement, with the reconnect it may try, leaves a sound executor.
LEMMA RunQuerySound ==
  ASSUME NEW x \in ExecutorState, Sound(x), NEW y \in RunQuery(x)
  PROVE  Sound(y) /\ (y.h = "init" => x.h = "init")
<1>1. CASE y = x
  BY <1>1
<1>2. CASE y # x
  <2>1. PICK z \in CheckAlive(x) : y \in StartReconnect(z)
    BY <1>2 DEF RunQuery
  <2>2. z \in ExecutorState /\ Sound(z)
    BY CheckAliveType, CheckAliveSound
  <2>3. CASE y \in Connect(z)
    BY <2>2, <2>3, ConnectSound
  <2>4. ASSUME NEW w \in Connect(z), y \in Connect(w) PROVE Sound(y) /\ y.h # "init"
    <3>1. w \in ExecutorState /\ Sound(w)
      BY <2>2, ConnectType, ConnectSound
    <3> QED
      BY <2>4, <3>1, ConnectSound
  <2> QED
    BY <2>1, <2>3, <2>4 DEF StartReconnect
<1> QED
  BY <1>1, <1>2
=============================================================================
