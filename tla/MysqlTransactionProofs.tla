----------------------- MODULE MysqlTransactionProofs -----------------------
(***************************************************************************)
(* Proofs about transactions, for every number of handles, executors and   *)
(* statements.                                                             *)
(***************************************************************************)
EXTENDS MysqlTransaction, TLAPS

----------------------------------------------------------------------------
(* The shape of the state.                                                 *)

ExecTypes ==
  /\ idle \subseteq Executor
  /\ conn \in [Executor -> BOOLEAN]
  /\ sess \in [Executor -> {"auto", "tx", "down"}]

DataTypes ==
  /\ pend \in [Executor -> SUBSET Mark]
  /\ db \subseteq Mark
  /\ acked \in [Handles -> SUBSET Mark]

HandleTypes ==
  /\ state \in [Handles -> TxState]
  /\ held \in [Handles -> Executor \cup {None}]
  /\ count \in [Handles -> 0 .. MaxStmts]

CallTypes ==
  /\ op \in [Handles -> Ops]
  /\ at \in [Handles -> {"idle", "task", "prepared", "reply"}]
  /\ resOK \in [Handles -> BOOLEAN]
  /\ status \in [Handles -> BOOLEAN]

\* A call that is on its way to the server, or comes back with success.
Active(h) == at[h] \in {"task", "prepared"} \/ (at[h] = "reply" /\ status[h])

\* What the call under way says about the state of its handle.
Link(h) ==
  /\ at[h] # "idle" => op[h] # "none"
  /\ at[h] # "idle" /\ op[h] = "begin" => state[h] = "kNotInited"
  /\ at[h] # "idle" /\ op[h] # "begin" => state[h] \notin {"kNotInited", "kInValid"}
  /\ Active(h) => /\ held[h] # None
                  /\ op[h] # "begin" => state[h] = "kStarted"
                  /\ op[h] \in Stmts => count[h] > 0
  /\ at[h] = "prepared" => op[h] = "prepared"
  /\ state[h] = "kStarted" => held[h] # None

Links == \A h \in Handles : Link(h)

Types == ExecTypes /\ DataTypes /\ HandleTypes /\ CallTypes

Shape == Types /\ Links

\* The names of operations are told apart.
LEMMA OpFacts ==
  /\ Stmts \subseteq Ops /\ Stmts \cap {"none", "begin", "commit", "rollback"} = {}
  /\ {"none", "begin", "commit", "rollback"} \subseteq Ops
BY StmtAssumption DEF Ops

\* Proceed() changes the call of one handle.
LEMMA ProceedFacts ==
  ASSUME CallTypes, NEW h \in Handles, NEW o \in Ops,
         NEW p \in {"idle", "task", "prepared", "reply"}, Proceed(h, o, p)
  PROVE  /\ CallTypes'
         /\ op'[h] = o /\ at'[h] = p /\ resOK'[h] = TRUE /\ status'[h] = TRUE
         /\ \A g \in Handles \ {h} : /\ op'[g] = op[g] /\ at'[g] = at[g]
                                     /\ resOK'[g] = resOK[g] /\ status'[g] = status[g]
BY DEF Proceed, CallTypes

\* Refuse() ends the call of one handle with an error.
LEMMA RefuseFacts ==
  ASSUME CallTypes, NEW h \in Handles, NEW o \in Ops, Refuse(h, o)
  PROVE  /\ CallTypes'
         /\ op'[h] = o /\ at'[h] = "reply" /\ resOK'[h] = TRUE /\ status'[h] = FALSE
         /\ \A g \in Handles \ {h} : /\ op'[g] = op[g] /\ at'[g] = at[g]
                                     /\ resOK'[g] = resOK[g] /\ status'[g] = status[g]
BY DEF Refuse, CallTypes

\* Begin goes on with its task or is refused, and is a call of one handle.
LEMMA BeginFacts ==
  ASSUME CallTypes, NEW h \in Handles, Proceed(h, "begin", "task") \/ Refuse(h, "begin")
  PROVE  /\ CallTypes'
         /\ op'[h] = "begin" /\ at'[h] \in {"task", "reply"}
         /\ at'[h] = "reply" => status'[h] = FALSE
         /\ \A g \in Handles \ {h} : /\ op'[g] = op[g] /\ at'[g] = at[g]
                                     /\ resOK'[g] = resOK[g] /\ status'[g] = status[g]
<1>1. "begin" \in Ops
  BY OpFacts
<1>2. CASE Proceed(h, "begin", "task")
  BY <1>1, <1>2, ProceedFacts
<1>3. CASE Refuse(h, "begin")
  BY <1>1, <1>3, RefuseFacts
<1> QED
  BY <1>2, <1>3

\* Reply() hands the outcome of the task to one handle.
LEMMA ReplyFacts ==
  ASSUME CallTypes, NEW h \in Handles, NEW ok \in BOOLEAN, Reply(h, ok)
  PROVE  /\ CallTypes'
         /\ op' = op /\ at'[h] = "reply" /\ resOK'[h] = ok /\ status'[h] = ok
         /\ \A g \in Handles \ {h} : /\ op'[g] = op[g] /\ at'[g] = at[g]
                                     /\ resOK'[g] = resOK[g] /\ status'[g] = status[g]
BY DEF Reply, CallTypes

\* The end of a call leaves its outcome.
LEMMA ReturnFacts ==
  ASSUME CallTypes, NEW h \in Handles, at' = [at EXCEPT ![h] = "idle"],
         UNCHANGED <<op, resOK, status>>
  PROVE  /\ CallTypes' /\ at'[h] = "idle"
         /\ \A g \in Handles \ {h} : at'[g] = at[g]
BY DEF CallTypes

\* A statement of a handle has a mark of its own.
LEMMA MarkFacts ==
  ASSUME HandleTypes, NEW h \in Handles, count[h] > 0
  PROVE  <<h, count[h]>> \in Mark
BY ApiAssumption DEF HandleTypes, Mark

\* What the server does keeps its state well formed.
LEMMA ServeTypes ==
  ASSUME ExecTypes, DataTypes, NEW e \in Executor, NEW h \in Handles, NEW o \in Ops,
         o \in Stmts => <<h, count[h]>> \in Mark, o # "none",
         Serve(e, h, o) \/ ServeThenLose(e, h, o) \/ EndSession(e)
  PROVE  /\ sess' \in [Executor -> {"auto", "tx", "down"}]
         /\ pend' \in [Executor -> SUBSET Mark]
         /\ db' \subseteq Mark
<1>0. o \in {"begin", "commit", "rollback"} \cup Stmts
  BY OpFacts DEF Ops
<1>1. CASE Serve(e, h, o)
  <2>1. sess' \in [Executor -> {"auto", "tx", "down"}]
    BY <1>1 DEF Serve, ExecTypes
  <2>2. pend' \in [Executor -> SUBSET Mark]
    <3>1. CASE o \in {"begin", "commit", "rollback"}
      BY <1>1, <3>1, OpFacts DEF Serve, DataTypes
    <3>2. CASE o \in Stmts
      BY <1>1, <3>2, OpFacts DEF Serve, DataTypes
    <3> QED
      BY <1>0, <3>1, <3>2
  <2>3. db' \subseteq Mark
    BY <1>0, <1>1 DEF Serve, DataTypes
  <2> QED
    BY <2>1, <2>2, <2>3
<1>2. CASE ServeThenLose(e, h, o)
  BY <1>0, <1>2 DEF ServeThenLose, ExecTypes, DataTypes
<1>3. CASE EndSession(e)
  BY <1>3 DEF EndSession, ExecTypes, DataTypes
<1> QED
  BY <1>1, <1>2, <1>3

\* Nothing has been called yet.
LEMMA ShapeInit == Init => Shape
<1> SUFFICES ASSUME Init PROVE Shape
  OBVIOUS
<1>1. ExecTypes /\ DataTypes
  BY DEF Init, ExecTypes, DataTypes
<1>2. HandleTypes /\ CallTypes
  BY ApiAssumption DEF Init, HandleTypes, CallTypes, TxState, Ops
<1>3. Links
  BY DEF Init, Links, Link, Active
<1> QED
  BY <1>1, <1>2, <1>3 DEF Shape, Types

\* Every step keeps the types and the links between calls and handles.
LEMMA ShapeStep == Shape /\ [Next]_vars => Shape'
<1> SUFFICES ASSUME ExecTypes, DataTypes, HandleTypes, CallTypes, Links, [Next]_vars
             PROVE  Shape'
  BY DEF Shape, Types
<1> USE HandleAssumption
<1>x. UNCHANGED <<idle, conn, sess>> => ExecTypes'
  BY DEF ExecTypes
<1>d. UNCHANGED <<pend, db, acked>> => DataTypes'
  BY DEF DataTypes
<1>h. UNCHANGED <<state, held, count>> => HandleTypes'
  BY DEF HandleTypes
<1>c. UNCHANGED callVars => CallTypes'
  BY DEF CallTypes, callVars
<1>l. UNCHANGED <<state, held, count, op, at, status>> => Links'
  BY DEF Links, Link, Active
<1>1. ASSUME NEW h \in Handles, BeginFails(h) PROVE Shape'
  <2>1. /\ state[h] = "kNotInited" /\ Refuse(h, "begin")
        /\ UNCHANGED <<idle, conn, sess, pend, db, state, held, count, acked>>
    BY <1>1 DEF BeginFails, serverVars
  <2>2. /\ CallTypes' /\ op'[h] = "begin" /\ at'[h] = "reply" /\ status'[h] = FALSE
        /\ \A g \in Handles \ {h} : op'[g] = op[g] /\ at'[g] = at[g] /\ status'[g] = status[g]
    BY <2>1, OpFacts, RefuseFacts
  <2>3. Links'
    BY <2>1, <2>2, OpFacts DEF Links, Link, Active
  <2> QED
    BY <2>1, <2>2, <2>3, <1>x, <1>d, <1>h DEF Shape, Types
<1>2. ASSUME NEW h \in Handles, NEW e \in Executor, held' = [held EXCEPT ![h] = e],
             state[h] = "kNotInited",
             Proceed(h, "begin", "task") \/ Refuse(h, "begin"),
             UNCHANGED <<state, count>>
      PROVE  HandleTypes' /\ CallTypes' /\ Links'
  <2>1. /\ CallTypes' /\ op'[h] = "begin" /\ at'[h] \in {"task", "reply"}
        /\ \A g \in Handles \ {h} : op'[g] = op[g] /\ at'[g] = at[g] /\ status'[g] = status[g]
    BY <1>2, BeginFacts
  <2>2. HandleTypes' /\ held'[h] = e /\ \A g \in Handles \ {h} : held'[g] = held[g]
    BY <1>2 DEF HandleTypes
  <2>3. Links'
    BY <1>2, <2>1, <2>2, OpFacts DEF Links, Link, Active
  <2> QED
    BY <2>1, <2>2, <2>3
<1>3. ASSUME NEW h \in Handles, NEW e \in Executor, BeginIdle(h, e) PROVE Shape'
  <2>1. HandleTypes' /\ CallTypes' /\ Links'
    BY <1>2, <1>3 DEF BeginIdle
  <2>2. ExecTypes' /\ DataTypes'
    BY <1>3, <1>d DEF BeginIdle, ExecTypes, serverVars
  <2> QED
    BY <2>1, <2>2 DEF Shape, Types
<1>4. ASSUME NEW h \in Handles, NEW e \in Executor, BeginNew(h, e) PROVE Shape'
  <2>1. HandleTypes' /\ CallTypes' /\ Links'
    BY <1>2, <1>4 DEF BeginNew
  <2>2. ExecTypes' /\ DataTypes'
    BY <1>4, <1>d DEF BeginNew, ExecTypes
  <2> QED
    BY <2>1, <2>2 DEF Shape, Types
<1>5. ASSUME NEW h \in Handles, FinishBegin(h) PROVE Shape'
  <2>1. /\ at[h] = "reply" /\ op[h] = "begin" /\ at' = [at EXCEPT ![h] = "idle"]
        /\ UNCHANGED <<idle, conn, sess, pend, db, op, resOK, status, count, acked>>
    BY <1>5 DEF FinishBegin, serverVars
  <2>2. CallTypes' /\ at'[h] = "idle" /\ \A g \in Handles \ {h} : at'[g] = at[g]
    BY <2>1, ReturnFacts
  <2>3. \/ status[h] /\ state' = [state EXCEPT ![h] = "kStarted"] /\ held' = held
        \/ ~status[h] /\ held' = [held EXCEPT ![h] = None] /\ state' = state
    BY <1>5 DEF FinishBegin
  <2>4. HandleTypes'
    BY <2>1, <2>3 DEF HandleTypes, TxState
  <2>5. Links'
    BY <2>1, <2>2, <2>3 DEF Links, Link, Active, HandleTypes
  <2> QED
    BY <2>1, <2>2, <2>4, <2>5, <1>x, <1>d DEF Shape, Types
<1>6. ASSUME NEW h \in Handles, NEW o \in Stmts \cup {"commit", "rollback"}, CallRefused(h, o)
      PROVE  Shape'
  <2>1. /\ state[h] \notin {"kNotInited", "kInValid"} /\ Refuse(h, o) /\ o \in Ops
        /\ o # "begin" /\ o # "none"
        /\ UNCHANGED <<idle, conn, sess, pend, db, state, held, count, acked>>
    BY <1>6, OpFacts DEF CallRefused, Usable, serverVars
  <2>2. /\ CallTypes' /\ op'[h] = o /\ at'[h] = "reply" /\ status'[h] = FALSE
        /\ \A g \in Handles \ {h} : op'[g] = op[g] /\ at'[g] = at[g] /\ status'[g] = status[g]
    BY <2>1, RefuseFacts
  <2>3. Links'
    BY <2>1, <2>2 DEF Links, Link, Active
  <2> QED
    BY <2>1, <2>2, <2>3, <1>x, <1>d, <1>h DEF Shape, Types
<1>7. ASSUME NEW h \in Handles, NEW o \in Stmts \cup {"commit", "rollback"},
             CallFindsLost(h, o)
      PROVE  Shape'
  <2>1. /\ state[h] = "kStarted" /\ Refuse(h, o) /\ o \in Ops
        /\ o # "begin" /\ o # "none"
        /\ conn' = [conn EXCEPT ![held[h]] = FALSE]
        /\ state' = [state EXCEPT ![h] = "kRollBacked"]
        /\ UNCHANGED <<idle, sess, pend, db, held, count, acked>>
    BY <1>7, OpFacts DEF CallFindsLost, MayRun, serverVars
  <2>2. /\ CallTypes' /\ op'[h] = o /\ at'[h] = "reply" /\ status'[h] = FALSE
        /\ \A g \in Handles \ {h} : op'[g] = op[g] /\ at'[g] = at[g] /\ status'[g] = status[g]
    BY <2>1, RefuseFacts
  <2>3. ExecTypes' /\ HandleTypes'
    BY <2>1 DEF ExecTypes, HandleTypes, TxState
  <2>4. Links'
    BY <2>1, <2>2 DEF Links, Link, Active, HandleTypes
  <2> QED
    BY <2>1, <2>2, <2>3, <2>4, <1>d DEF Shape, Types
<1>8. ASSUME NEW h \in Handles, NEW o \in Stmts \cup {"commit", "rollback"}, CallSent(h, o)
      PROVE  Shape'
  <2>1. /\ state[h] = "kStarted" /\ o \in Ops /\ o # "begin" /\ o # "none"
        /\ Proceed(h, o, "task") \/ Refuse(h, o)
        /\ o \in Stmts => count[h] < MaxStmts
        /\ count' = [count EXCEPT ![h] = IF o \in Stmts THEN count[h] + 1 ELSE count[h]]
        /\ UNCHANGED <<idle, conn, sess, pend, db, state, held, acked>>
    BY <1>8, OpFacts DEF CallSent, MayRun, serverVars
  <2>2. /\ CallTypes' /\ op'[h] = o /\ at'[h] \in {"task", "reply"}
        /\ \A g \in Handles \ {h} : op'[g] = op[g] /\ at'[g] = at[g] /\ status'[g] = status[g]
    BY <2>1, RefuseFacts, ProceedFacts
  <2>3. HandleTypes' /\ (o \in Stmts => count'[h] > 0)
    BY <2>1, ApiAssumption DEF HandleTypes
  <2>4. Links'
    BY <2>1, <2>2, <2>3 DEF Links, Link, Active, HandleTypes
  <2> QED
    BY <2>1, <2>2, <2>3, <2>4, <1>x, <1>d DEF Shape, Types
<1>9. ASSUME NEW h \in Handles, at[h] \in {"task", "prepared"}, NEW ok \in BOOLEAN,
             Reply(h, ok), UNCHANGED <<state, held, count>>
      PROVE  HandleTypes' /\ CallTypes' /\ Links'
  <2>1. /\ CallTypes' /\ op' = op /\ at'[h] = "reply" /\ status'[h] = ok
        /\ \A g \in Handles \ {h} : at'[g] = at[g] /\ status'[g] = status[g]
    BY <1>9, ReplyFacts
  <2>2. Links'
    BY <1>9, <2>1 DEF Links, Link, Active
  <2> QED
    BY <1>9, <1>h, <2>1, <2>2
<1>10. ASSUME NEW h \in Handles, at[h] \in {"task", "prepared"}
       PROVE  /\ held[h] \in Executor /\ op[h] \in Ops /\ op[h] # "none"
              /\ op[h] \in Stmts => <<h, count[h]>> \in Mark
  BY <1>10, MarkFacts DEF Links, Link, Active, HandleTypes, CallTypes
<1>11. ASSUME NEW h \in Handles, RunText(h) PROVE Shape'
  <2>1. /\ at[h] = "task" /\ UNCHANGED <<idle, conn, state, held, count, acked>>
        /\ \E ok \in BOOLEAN : Reply(h, ok)
        /\ \/ UNCHANGED serverVars
           \/ Serve(held[h], h, op[h])
           \/ ServeThenLose(held[h], h, op[h])
    BY <1>11 DEF RunText
  <2>2. HandleTypes' /\ CallTypes' /\ Links'
    BY <2>1, <1>9
  <2>3. /\ sess' \in [Executor -> {"auto", "tx", "down"}]
        /\ pend' \in [Executor -> SUBSET Mark]
        /\ db' \subseteq Mark
    BY <2>1, <1>10, ServeTypes DEF ExecTypes, DataTypes, serverVars
  <2>4. ExecTypes' /\ DataTypes'
    BY <2>1, <2>3 DEF ExecTypes, DataTypes
  <2> QED
    BY <2>2, <2>4 DEF Shape, Types
<1>12. ASSUME NEW h \in Handles, Prepare(h) PROVE Shape'
  <2>1. /\ at[h] = "task" /\ op[h] = "prepared" /\ op[h] \in Ops
        /\ UNCHANGED <<idle, conn, sess, pend, db, state, held, count, acked>>
        /\ Proceed(h, op[h], "prepared") \/ Reply(h, FALSE)
    BY <1>12 DEF Prepare, serverVars, CallTypes
  <2>2. CASE Proceed(h, op[h], "prepared")
    <3>1. /\ CallTypes' /\ op'[h] = op[h] /\ at'[h] = "prepared"
          /\ \A g \in Handles \ {h} : op'[g] = op[g] /\ at'[g] = at[g] /\ status'[g] = status[g]
      BY <2>1, <2>2, ProceedFacts
    <3>2. Links'
      BY <2>1, <3>1 DEF Links, Link, Active
    <3> QED
      BY <2>1, <3>1, <3>2, <1>x, <1>d, <1>h DEF Shape, Types
  <2>3. CASE Reply(h, FALSE)
    BY <2>1, <2>3, <1>9, <1>x, <1>d DEF Shape, Types
  <2> QED
    BY <2>1, <2>2, <2>3
<1>13. ASSUME NEW h \in Handles, RunPrepared(h) PROVE Shape'
  <2>1. /\ at[h] = "prepared" /\ UNCHANGED <<idle, conn, state, held, count, acked>>
        /\ \E ok \in BOOLEAN : Reply(h, ok)
        /\ \/ UNCHANGED serverVars
           \/ Serve(held[h], h, op[h])
           \/ ServeThenLose(held[h], h, op[h])
    BY <1>13 DEF RunPrepared
  <2>2. HandleTypes' /\ CallTypes' /\ Links'
    BY <2>1, <1>9
  <2>3. /\ sess' \in [Executor -> {"auto", "tx", "down"}]
        /\ pend' \in [Executor -> SUBSET Mark]
        /\ db' \subseteq Mark
    BY <2>1, <1>10, ServeTypes DEF ExecTypes, DataTypes, serverVars
  <2>4. ExecTypes' /\ DataTypes'
    BY <2>1, <2>3 DEF ExecTypes, DataTypes
  <2> QED
    BY <2>2, <2>4 DEF Shape, Types
<1>14. ASSUME NEW h \in Handles, Reconnect(h) PROVE Shape'
  <2>1. /\ at[h] = "prepared" /\ Reply(h, FALSE)
        /\ UNCHANGED <<idle, pend, db, state, held, count, acked>>
    BY <1>14 DEF Reconnect
  <2>2. ExecTypes'
    BY <1>14 DEF Reconnect, ExecTypes
  <2> QED
    BY <2>1, <2>2, <1>9, <1>d DEF Shape, Types
<1>15. ASSUME NEW h \in Handles, FinishStatement(h) PROVE Shape'
  <2>1. /\ at[h] = "reply" /\ op[h] \in Stmts /\ at' = [at EXCEPT ![h] = "idle"]
        /\ UNCHANGED <<idle, conn, sess, pend, db, state, held, op, resOK, status, count>>
        /\ acked' = IF status[h] THEN [acked EXCEPT ![h] = acked[h] \cup {<<h, count[h]>>}]
                                 ELSE acked
    BY <1>15 DEF FinishStatement, serverVars
  <2>2. CallTypes' /\ at'[h] = "idle" /\ \A g \in Handles \ {h} : at'[g] = at[g]
    BY <2>1, ReturnFacts
  <2>3. status[h] => <<h, count[h]>> \in Mark
    BY <2>1, MarkFacts DEF Links, Link, Active
  <2>4. DataTypes'
    BY <2>1, <2>3 DEF DataTypes
  <2>5. Links'
    BY <2>1, <2>2 DEF Links, Link, Active
  <2> QED
    BY <2>1, <2>2, <2>4, <2>5, <1>x, <1>h DEF Shape, Types
<1>16. ASSUME NEW h \in Handles, FinishEnd(h) PROVE Shape'
  <2>1. /\ at[h] = "reply" /\ op[h] \in {"commit", "rollback"}
        /\ at' = [at EXCEPT ![h] = "idle"]
        /\ UNCHANGED <<op, resOK, status, count, acked>>
    BY <1>16 DEF FinishEnd
  <2>2. CallTypes' /\ at'[h] = "idle" /\ \A g \in Handles \ {h} : at'[g] = at[g]
    BY <2>1, ReturnFacts
  <2>3. CASE ~Ended(h)
    <3>1. UNCHANGED <<idle, conn, sess, pend, db, state, held>>
      BY <1>16, <2>3 DEF FinishEnd, serverVars
    <3>2. Links'
      BY <2>1, <2>2, <3>1 DEF Links, Link, Active
    <3> QED
      BY <2>1, <2>2, <3>1, <3>2, <1>x, <1>d, <1>h DEF Shape, Types
  <2>4. CASE Ended(h)
    <3>1. /\ state' = [state EXCEPT ![h] = EndState(op[h])]
          /\ \/ /\ held[h] # None
                /\ idle' = idle \cup {held[h]}
                /\ held' = [held EXCEPT ![h] = None]
                /\ UNCHANGED <<conn, sess, pend, db>>
             \/ /\ held[h] # None
                /\ conn' = [conn EXCEPT ![held[h]] = FALSE]
                /\ EndSession(held[h])
                /\ UNCHANGED <<idle, held>>
             \/ held[h] = None /\ UNCHANGED <<idle, held, conn, sess, pend, db>>
      BY <1>16, <2>4 DEF FinishEnd, EndTransaction, NeedsReclaim, AfterKeep, serverVars
    <3>2. EndState(op[h]) \in {"kRollBacked", "kCommitted"}
      BY DEF EndState
    <3>3. HandleTypes'
      BY <2>1, <3>1, <3>2 DEF HandleTypes, TxState
    <3>4. ExecTypes'
      BY <3>1 DEF HandleTypes, ExecTypes, EndSession
    <3>5. DataTypes'
      BY <2>1, <3>1 DEF DataTypes, EndSession
    <3>6. /\ state'[h] \in {"kRollBacked", "kCommitted"}
          /\ \A g \in Handles \ {h} : state'[g] = state[g] /\ held'[g] = held[g]
      BY <3>1, <3>2 DEF HandleTypes
    <3>7. Links'
      BY <2>1, <2>2, <3>6 DEF Links, Link, Active
    <3> QED
      BY <2>2, <3>3, <3>4, <3>5, <3>7 DEF Shape, Types
  <2> QED
    BY <2>3, <2>4
<1>17. ASSUME NEW h \in Handles, DestroyHandle(h) PROVE Shape'
  <2>1. /\ at[h] = "idle" /\ UNCHANGED <<idle, op, at, resOK, status, count, acked>>
        /\ state' = [state EXCEPT ![h] = "kInValid"]
        /\ held' = [held EXCEPT ![h] = None]
        /\ \/ UNCHANGED <<conn, sess, pend, db>>
           \/ conn' = [conn EXCEPT ![held[h]] = FALSE] /\ EndSession(held[h])
    BY <1>17 DEF DestroyHandle, serverVars, callVars
  <2>2. HandleTypes'
    BY <2>1 DEF HandleTypes, TxState
  <2>3. ExecTypes' /\ DataTypes'
    BY <2>1 DEF ExecTypes, DataTypes, EndSession
  <2>4. Links'
    BY <2>1 DEF Links, Link, Active, HandleTypes
  <2> QED
    BY <2>1, <2>2, <2>3, <2>4, <1>c DEF Shape, Types, callVars
<1>18. ASSUME NEW e \in Executor, EvictIdle(e) \/ ServerDrop(e) PROVE Shape'
  <2>1. /\ EndSession(e) /\ idle' \subseteq idle
        /\ conn' = conn \/ conn' = [conn EXCEPT ![e] = FALSE]
        /\ UNCHANGED <<state, held, callVars, count, acked>>
    BY <1>18 DEF EvictIdle, ServerDrop
  <2>2. ExecTypes' /\ DataTypes'
    BY <2>1 DEF ExecTypes, DataTypes, EndSession
  <2> QED
    BY <2>1, <2>2, <1>h, <1>c, <1>l DEF Shape, Types, callVars
<1>19. ASSUME UNCHANGED vars PROVE Shape'
  BY <1>19, <1>x, <1>d, <1>h, <1>c, <1>l DEF vars, serverVars, callVars, Shape, Types
<1> QED
  BY <1>1, <1>3, <1>4, <1>5, <1>6, <1>7, <1>8, <1>11, <1>12, <1>13, <1>14, <1>15, <1>16,
     <1>17, <1>18, <1>19
     DEF Next, Begin, Task, Call, Terminating

----------------------------------------------------------------------------
(* Whose an executor is: one handle's or the pool's.  A handle that has    *)
(* ended and still has its executor has a closed one.                      *)

Closed ==
  \A h \in Handles : state[h] \in {"kCommitted", "kRollBacked"} /\ held[h] # None =>
    ~conn[held[h]]

OwnInv == ExclusiveExecutor /\ Closed

\* Nobody has an executor yet.
LEMMA OwnInit == Init => OwnInv
BY DEF Init, OwnInv, ExclusiveExecutor, Closed

\* Lending, keeping and closing pass an executor from one owner to the next.
LEMMA OwnStep == Shape /\ OwnInv /\ [Next]_vars => OwnInv'
<1> SUFFICES ASSUME ExecTypes, HandleTypes, CallTypes, Links, ExclusiveExecutor, Closed,
                    [Next]_vars
             PROVE  OwnInv'
  BY DEF Shape, Types, OwnInv
<1> USE HandleAssumption
<1>u. UNCHANGED <<idle, held, state, conn>> => OwnInv'
  BY DEF OwnInv, ExclusiveExecutor, Closed
<1>1. ASSUME NEW h \in Handles, NEW e \in Executor, BeginIdle(h, e) PROVE OwnInv'
  <2>1. /\ e \in idle /\ idle' = idle \ {e} /\ held' = [held EXCEPT ![h] = e]
        /\ state[h] = "kNotInited" /\ UNCHANGED <<conn, state>>
    BY <1>1 DEF BeginIdle
  <2> QED
    BY <2>1 DEF OwnInv, ExclusiveExecutor, Closed, HandleTypes
<1>2. ASSUME NEW h \in Handles, NEW e \in Executor, BeginNew(h, e) PROVE OwnInv'
  <2>1. /\ e \notin idle /\ \A g \in Handles : held[g] # e
        /\ held' = [held EXCEPT ![h] = e] /\ conn' = [conn EXCEPT ![e] = TRUE]
        /\ state[h] = "kNotInited" /\ UNCHANGED <<idle, state>>
    BY <1>2 DEF BeginNew, Referenced
  <2>2. ExclusiveExecutor'
    BY <2>1 DEF ExclusiveExecutor, HandleTypes
  <2>3. Closed'
    BY <2>1 DEF Closed, HandleTypes, ExecTypes
  <2> QED
    BY <2>2, <2>3 DEF OwnInv
<1>3. ASSUME NEW h \in Handles, FinishBegin(h) PROVE OwnInv'
  <2>1. /\ UNCHANGED <<idle, conn>>
        /\ \/ state' = [state EXCEPT ![h] = "kStarted"] /\ held' = held
           \/ held' = [held EXCEPT ![h] = None] /\ state' = state
    BY <1>3 DEF FinishBegin
  <2> QED
    BY <2>1 DEF OwnInv, ExclusiveExecutor, Closed, HandleTypes, ExecTypes
<1>4. ASSUME NEW h \in Handles, NEW o, CallFindsLost(h, o) PROVE OwnInv'
  <2>1. /\ conn' = [conn EXCEPT ![held[h]] = FALSE]
        /\ state' = [state EXCEPT ![h] = "kRollBacked"] /\ UNCHANGED <<idle, held>>
    BY <1>4 DEF CallFindsLost
  <2> QED
    BY <2>1 DEF OwnInv, ExclusiveExecutor, Closed, HandleTypes, ExecTypes
<1>5. ASSUME NEW h \in Handles, Reconnect(h) PROVE OwnInv'
  <2>1. /\ state[h] = "kStarted" /\ UNCHANGED <<idle, held, state>>
        /\ \A d \in Executor \ {held[h]} : conn'[d] = conn[d]
    BY <1>5, OpFacts DEF Reconnect, Links, Link, Active, ExecTypes
  <2> QED
    BY <2>1 DEF OwnInv, ExclusiveExecutor, Closed, HandleTypes
<1>6. ASSUME NEW h \in Handles, FinishEnd(h) PROVE OwnInv'
  <2>1. CASE ~Ended(h)
    BY <1>6, <2>1, <1>u DEF FinishEnd
  <2>2. CASE Ended(h)
    <3>1. state' = [state EXCEPT ![h] = EndState(op[h])]
      BY <1>6, <2>2 DEF FinishEnd, EndTransaction
    <3>2. CASE /\ held[h] # None
               /\ idle' = idle \cup {held[h]}
               /\ held' = [held EXCEPT ![h] = None]
               /\ UNCHANGED conn
      BY <3>1, <3>2 DEF OwnInv, ExclusiveExecutor, Closed, HandleTypes, ExecTypes
    <3>3. CASE /\ held[h] # None
               /\ conn' = [conn EXCEPT ![held[h]] = FALSE]
               /\ UNCHANGED <<idle, held>>
      BY <3>1, <3>3 DEF OwnInv, ExclusiveExecutor, Closed, HandleTypes, ExecTypes
    <3>4. CASE held[h] = None /\ UNCHANGED <<idle, held, conn>>
      BY <3>1, <3>4 DEF OwnInv, ExclusiveExecutor, Closed, HandleTypes
    <3> QED
      BY <1>6, <2>2, <3>2, <3>3, <3>4 DEF FinishEnd, EndTransaction, NeedsReclaim, AfterKeep
  <2> QED
    BY <2>1, <2>2
<1>7. ASSUME NEW h \in Handles, DestroyHandle(h) PROVE OwnInv'
  <2>1. /\ state' = [state EXCEPT ![h] = "kInValid"] /\ held' = [held EXCEPT ![h] = None]
        /\ conn' = conn \/ conn' = [conn EXCEPT ![held[h]] = FALSE]
        /\ UNCHANGED idle
    BY <1>7 DEF DestroyHandle
  <2> QED
    BY <2>1 DEF OwnInv, ExclusiveExecutor, Closed, HandleTypes, ExecTypes
<1>8. ASSUME NEW e \in Executor, EvictIdle(e) PROVE OwnInv'
  <2>1. /\ idle' = idle \ {e} /\ conn' = [conn EXCEPT ![e] = FALSE]
        /\ UNCHANGED <<state, held>>
    BY <1>8 DEF EvictIdle
  <2> QED
    BY <2>1 DEF OwnInv, ExclusiveExecutor, Closed, HandleTypes, ExecTypes
<1>9. ASSUME NEW h \in Handles,
             \/ BeginFails(h) \/ RunText(h) \/ Prepare(h) \/ RunPrepared(h)
             \/ FinishStatement(h) \/ \E o : CallRefused(h, o) \/ CallSent(h, o)
      PROVE  OwnInv'
  BY <1>9, <1>u DEF BeginFails, RunText, Prepare, RunPrepared, FinishStatement, CallRefused,
                    CallSent
<1>10. ASSUME NEW e \in Executor, ServerDrop(e) PROVE OwnInv'
  BY <1>10, <1>u DEF ServerDrop
<1>11. ASSUME UNCHANGED vars PROVE OwnInv'
  BY <1>11, <1>u DEF vars
<1> QED
  BY <1>1, <1>2, <1>3, <1>4, <1>5, <1>6, <1>7, <1>8, <1>9, <1>10, <1>11
     DEF Next, Begin, Task, Call, Terminating

----------------------------------------------------------------------------
(* Clean sessions in the pool.  When the caller takes a Commit or Rollback *)
(* for done, the session is out of its transaction or the executor closed. *)

EndClean ==
  \A h \in Handles :
    /\ at[h] = "reply" /\ op[h] \in {"commit", "rollback"} /\ Ended(h)
    /\ held[h] # None /\ conn[held[h]]
    => sess[held[h]] # "tx"

CleanInv == PooledClean /\ EndClean

\* The blocking calls take a refusal before the send for a success.
Honest == Api = "async" \/ Faults \cap {"filter", "timeout"} = {}

\* There are no sessions yet.
LEMMA CleanInit == Init => CleanInv
BY DEF Init, CleanInv, PooledClean, EndClean

\* Every step keeps the sessions in the pool clean.
LEMMA CleanStep == Honest /\ Shape /\ OwnInv /\ CleanInv /\ [Next]_vars => CleanInv'
<1> SUFFICES ASSUME Honest, ExecTypes, HandleTypes, CallTypes, Links, ExclusiveExecutor,
                    Closed, PooledClean, EndClean, [Next]_vars
             PROVE  CleanInv'
  BY DEF Shape, Types, OwnInv, CleanInv
<1> USE HandleAssumption, ApiAssumption DEF Ended
<1>c. UNCHANGED callVars /\ UNCHANGED <<idle, held>>
        /\ (\A d \in Executor : conn'[d] = conn[d] /\ sess'[d] \in {sess[d], "down"})
        => CleanInv'
  BY DEF callVars, CleanInv, PooledClean, EndClean, ExecTypes, HandleTypes
<1>r. ASSUME NEW h \in Handles,
             UNCHANGED <<idle, sess, held>>,
             \A d \in Executor : conn'[d] => conn[d],
             \A g \in Handles \ {h} : /\ op'[g] = op[g] /\ at'[g] = at[g]
                                      /\ resOK'[g] = resOK[g] /\ status'[g] = status[g],
             (/\ at'[h] = "reply" /\ op'[h] \in {"commit", "rollback"} /\ Ended(h)'
              /\ held[h] # None /\ conn'[held[h]])
               => sess[held[h]] # "tx"
      PROVE  CleanInv'
  BY <1>r DEF CleanInv, PooledClean, EndClean, HandleTypes, ExecTypes
<1>1. ASSUME NEW h \in Handles, BeginFails(h) PROVE CleanInv'
  <2>1. Refuse(h, "begin") /\ UNCHANGED <<idle, conn, sess, held>>
    BY <1>1 DEF BeginFails, serverVars
  <2>2. /\ op'[h] = "begin"
        /\ \A g \in Handles \ {h} : /\ op'[g] = op[g] /\ at'[g] = at[g]
                                    /\ resOK'[g] = resOK[g] /\ status'[g] = status[g]
    BY <2>1, BeginFacts
  <2> QED
    BY <2>1, <2>2, <1>r
<1>2. ASSUME NEW h \in Handles, NEW e \in Executor, BeginIdle(h, e) PROVE CleanInv'
  <2>1. /\ idle' = idle \ {e} /\ held' = [held EXCEPT ![h] = e] /\ UNCHANGED <<conn, sess>>
        /\ Proceed(h, "begin", "task") \/ Refuse(h, "begin")
    BY <1>2 DEF BeginIdle, serverVars
  <2>2. /\ op'[h] = "begin"
        /\ \A g \in Handles \ {h} : /\ op'[g] = op[g] /\ at'[g] = at[g]
                                    /\ resOK'[g] = resOK[g] /\ status'[g] = status[g]
    BY <2>1, BeginFacts
  <2> QED
    BY <2>1, <2>2 DEF CleanInv, PooledClean, EndClean, HandleTypes
<1>3. ASSUME NEW h \in Handles, NEW e \in Executor, BeginNew(h, e) PROVE CleanInv'
  <2>1. /\ held' = [held EXCEPT ![h] = e] /\ conn' = [conn EXCEPT ![e] = TRUE]
        /\ sess' = [sess EXCEPT ![e] = "auto"] /\ idle' = idle
        /\ Proceed(h, "begin", "task") \/ Refuse(h, "begin")
    BY <1>3 DEF BeginNew
  <2>2. /\ op'[h] = "begin"
        /\ \A g \in Handles \ {h} : /\ op'[g] = op[g] /\ at'[g] = at[g]
                                    /\ resOK'[g] = resOK[g] /\ status'[g] = status[g]
    BY <2>1, BeginFacts
  <2>3. PooledClean'
    BY <2>1 DEF PooledClean, ExecTypes
  <2>4. EndClean'
    BY <2>1, <2>2 DEF EndClean, HandleTypes, ExecTypes
  <2> QED
    BY <2>3, <2>4 DEF CleanInv
<1>4. ASSUME NEW h \in Handles, FinishBegin(h) PROVE CleanInv'
  <2>1. /\ at' = [at EXCEPT ![h] = "idle"]
        /\ held' = held \/ held' = [held EXCEPT ![h] = None]
        /\ UNCHANGED <<idle, conn, sess, op, resOK, status>>
    BY <1>4 DEF FinishBegin, serverVars
  <2> QED
    BY <2>1 DEF CleanInv, PooledClean, EndClean, HandleTypes, CallTypes
<1>5. ASSUME NEW h \in Handles, NEW o \in Stmts \cup {"commit", "rollback"}, CallRefused(h, o)
      PROVE  CleanInv'
  <2>1. /\ Refuse(h, o) /\ UNCHANGED <<idle, conn, sess, held>>
        /\ state[h] \notin {"kNotInited", "kInValid"}
        /\ "filter" \in Faults \/ state[h] # "kStarted"
    BY <1>5 DEF CallRefused, Usable, MayRun, serverVars
  <2>2. /\ status'[h] = FALSE
        /\ \A g \in Handles \ {h} : /\ op'[g] = op[g] /\ at'[g] = at[g]
                                    /\ resOK'[g] = resOK[g] /\ status'[g] = status[g]
    BY <2>1, RefuseFacts, OpFacts
  <2>3. Ended(h)' => state[h] \in {"kCommitted", "kRollBacked"}
    BY <2>1, <2>2 DEF Honest, HandleTypes, TxState
  <2> QED
    BY <2>1, <2>2, <2>3, <1>r DEF Closed
<1>6. ASSUME NEW h \in Handles, NEW o \in Stmts \cup {"commit", "rollback"},
             CallFindsLost(h, o)
      PROVE  CleanInv'
  <2>1. /\ Refuse(h, o) /\ UNCHANGED <<idle, sess, held>>
        /\ conn' = [conn EXCEPT ![held[h]] = FALSE]
    BY <1>6 DEF CallFindsLost, serverVars
  <2>2. \A g \in Handles \ {h} : /\ op'[g] = op[g] /\ at'[g] = at[g]
                                 /\ resOK'[g] = resOK[g] /\ status'[g] = status[g]
    BY <2>1, RefuseFacts, OpFacts
  <2>3. /\ \A d \in Executor : conn'[d] => conn[d]
        /\ held[h] # None => ~conn'[held[h]]
    BY <2>1 DEF ExecTypes, HandleTypes
  <2> QED
    BY <2>1, <2>2, <2>3, <1>r
<1>7. ASSUME NEW h \in Handles, NEW o \in Stmts \cup {"commit", "rollback"}, CallSent(h, o)
      PROVE  CleanInv'
  <2>1. /\ UNCHANGED <<idle, conn, sess, held>>
        /\ Proceed(h, o, "task") \/ (StoppedBeforeSend /\ Refuse(h, o))
    BY <1>7 DEF CallSent, serverVars
  <2>2. /\ at'[h] = "reply" => StoppedBeforeSend /\ status'[h] = FALSE
        /\ \A g \in Handles \ {h} : /\ op'[g] = op[g] /\ at'[g] = at[g]
                                    /\ resOK'[g] = resOK[g] /\ status'[g] = status[g]
    BY <2>1, RefuseFacts, ProceedFacts, OpFacts
  <2>3. at'[h] = "reply" => ~Ended(h)'
    BY <2>2 DEF Honest, StoppedBeforeSend
  <2> QED
    BY <2>1, <2>2, <2>3, <1>r
<1>8. ASSUME NEW h \in Handles, at[h] \in {"task", "prepared"}, UNCHANGED <<idle, held>>,
             NEW ok \in BOOLEAN, Reply(h, ok),
             \A d \in Executor \ {held[h]} : conn'[d] = conn[d] /\ sess'[d] = sess[d],
             ok /\ op[h] \in {"commit", "rollback"} => sess'[held[h]] # "tx"
      PROVE  CleanInv'
  <2>1. /\ op' = op /\ resOK'[h] = ok /\ status'[h] = ok
        /\ \A g \in Handles \ {h} : /\ at'[g] = at[g]
                                    /\ resOK'[g] = resOK[g] /\ status'[g] = status[g]
    BY <1>8, ReplyFacts
  <2>2. held[h] # None
    BY <1>8 DEF Links, Link, Active
  <2>3. PooledClean'
    BY <1>8, <2>2 DEF PooledClean, ExclusiveExecutor, ExecTypes
  <2>4. EndClean'
    BY <1>8, <2>1, <2>2 DEF EndClean, ExclusiveExecutor, HandleTypes
  <2> QED
    BY <2>3, <2>4 DEF CleanInv
<1>9. ASSUME NEW h \in Handles, RunText(h) PROVE CleanInv'
  <2>1. at[h] = "task" /\ held[h] \in Executor /\ UNCHANGED <<idle, conn, held>>
    BY <1>9 DEF RunText, Links, Link, Active, HandleTypes
  <2>2. ASSUME UNCHANGED serverVars, Reply(h, FALSE) PROVE CleanInv'
    BY <2>1, <2>2, <1>8 DEF serverVars
  <2>3. ASSUME Serve(held[h], h, op[h]), Reply(h, TRUE) PROVE CleanInv'
    <3>1. /\ \A d \in Executor \ {held[h]} : sess'[d] = sess[d]
          /\ op[h] \in {"commit", "rollback"} => sess'[held[h]] = "auto"
      BY <2>1, <2>3 DEF Serve, ExecTypes
    <3> QED
      BY <2>1, <2>3, <3>1, <1>8
  <2>4. ASSUME ServeThenLose(held[h], h, op[h]), Reply(h, FALSE) PROVE CleanInv'
    BY <2>1, <2>4, <1>8 DEF ServeThenLose, ExecTypes
  <2> QED
    BY <1>9, <2>2, <2>3, <2>4 DEF RunText
<1>10. ASSUME NEW h \in Handles, Prepare(h) PROVE CleanInv'
  <2>1. /\ at[h] = "task" /\ op[h] = "prepared" /\ op[h] \in Ops
        /\ UNCHANGED <<idle, conn, sess, held>>
        /\ Proceed(h, op[h], "prepared") \/ Reply(h, FALSE)
    BY <1>10 DEF Prepare, serverVars, CallTypes
  <2>2. /\ op'[h] = "prepared"
        /\ \A g \in Handles \ {h} : /\ op'[g] = op[g] /\ at'[g] = at[g]
                                    /\ resOK'[g] = resOK[g] /\ status'[g] = status[g]
    BY <2>1, ProceedFacts, ReplyFacts
  <2> QED
    BY <2>1, <2>2, <1>r
<1>11. ASSUME NEW h \in Handles, RunPrepared(h) \/ Reconnect(h) PROVE CleanInv'
  <2>1. /\ at[h] = "prepared" /\ op[h] = "prepared"
        /\ UNCHANGED <<idle, held>> /\ \E ok \in BOOLEAN : Reply(h, ok)
    BY <1>11 DEF RunPrepared, Reconnect, Links, Link
  <2>2. \A d \in Executor \ {held[h]} : conn'[d] = conn[d] /\ sess'[d] = sess[d]
    BY <1>11 DEF RunPrepared, Reconnect, Serve, ServeThenLose, serverVars, ExecTypes
  <2> QED
    BY <2>1, <2>2, <1>8
<1>12. ASSUME NEW h \in Handles, FinishStatement(h) PROVE CleanInv'
  <2>1. /\ at' = [at EXCEPT ![h] = "idle"]
        /\ UNCHANGED <<idle, conn, sess, held, op, resOK, status>>
    BY <1>12 DEF FinishStatement, serverVars
  <2> QED
    BY <2>1 DEF CleanInv, PooledClean, EndClean, CallTypes
<1>13. ASSUME NEW h \in Handles, FinishEnd(h) PROVE CleanInv'
  <2>1. /\ at[h] = "reply" /\ op[h] \in {"commit", "rollback"}
        /\ UNCHANGED <<op, resOK, status>>
        /\ at'[h] = "idle" /\ \A g \in Handles \ {h} : at'[g] = at[g]
    BY <1>13 DEF FinishEnd, CallTypes
  <2>2. CASE UNCHANGED <<idle, held, conn, sess>>
    BY <2>1, <2>2 DEF CleanInv, PooledClean, EndClean
  <2>3. CASE /\ Ended(h) /\ held[h] # None
             /\ idle' = idle \cup {held[h]}
             /\ held' = [held EXCEPT ![h] = None]
             /\ UNCHANGED <<conn, sess>>
    BY <2>1, <2>3 DEF CleanInv, PooledClean, EndClean, HandleTypes
  <2>4. CASE /\ held[h] # None
             /\ conn' = [conn EXCEPT ![held[h]] = FALSE]
             /\ EndSession(held[h])
             /\ UNCHANGED <<idle, held>>
    BY <2>1, <2>4 DEF EndSession, CleanInv, PooledClean, EndClean, HandleTypes, ExecTypes
  <2> QED
    BY <1>13, <2>2, <2>3, <2>4
       DEF FinishEnd, EndTransaction, NeedsReclaim, AfterKeep, serverVars
<1>14. ASSUME NEW h \in Handles, DestroyHandle(h) PROVE CleanInv'
  <2>1. /\ held' = [held EXCEPT ![h] = None] /\ UNCHANGED <<idle, op, at, resOK, status>>
        /\ at[h] = "idle"
        /\ \A d \in Executor : (conn'[d] => conn[d]) /\ sess'[d] \in {sess[d], "down"}
    BY <1>14 DEF DestroyHandle, serverVars, callVars, EndSession, ExecTypes
  <2> QED
    BY <2>1 DEF CleanInv, PooledClean, EndClean, HandleTypes, ExecTypes
<1>15. ASSUME NEW e \in Executor, EvictIdle(e) \/ ServerDrop(e) PROVE CleanInv'
  <2>1. /\ UNCHANGED <<held, op, at, resOK, status>> /\ idle' \subseteq idle
        /\ \A d \in Executor : (conn'[d] => conn[d]) /\ sess'[d] \in {sess[d], "down"}
    BY <1>15 DEF EvictIdle, ServerDrop, EndSession, callVars, ExecTypes
  <2> QED
    BY <2>1 DEF CleanInv, PooledClean, EndClean, HandleTypes, ExecTypes
<1>16. ASSUME UNCHANGED vars PROVE CleanInv'
  BY <1>16, <1>c DEF vars, serverVars
<1> QED
  BY <1>1, <1>2, <1>3, <1>4, <1>5, <1>6, <1>7, <1>9, <1>10, <1>11, <1>12, <1>13, <1>14,
     <1>15, <1>16
     DEF Next, Begin, Task, Call, Terminating

----------------------------------------------------------------------------
(* What is durable.  These invariants are about the future based calls     *)
(* without prepared statements: the blocking ones take a refusal for a     *)
(* success, and a prepared statement may reconnect inside a transaction.   *)

\* A Commit or Rollback has succeeded and its caller does not know it yet.
Ending(h) == at[h] = "reply" /\ op[h] \in {"commit", "rollback"} /\ status[h]

\* The marks that wait in a session belong to the started handle that has it.
PendInv ==
  \A e \in Executor : \A m \in pend[e] :
    sess[e] = "tx" /\ held[m[1]] = e /\ state[m[1]] = "kStarted"

\* The session of a handle is in a transaction, or lost for good, from Begin
\* until Commit or Rollback; while it is there it has all the marks that were
\* reported, and Commit makes them durable.
HandleData(h) ==
  /\ state[h] = "kNotInited" => acked[h] = {}
  /\ Active(h) /\ op[h] = "begin" =>
       conn[held[h]] /\ (at[h] = "reply" => sess[held[h]] # "auto")
  /\ state[h] = "kStarted" =>
       conn[held[h]] /\ sess[held[h]] # (IF Ending(h) THEN "tx" ELSE "auto")
  /\ state[h] = "kStarted" /\ ~Ending(h) /\ sess[held[h]] = "tx" =>
       /\ acked[h] \subseteq pend[held[h]]
       /\ at[h] = "reply" /\ op[h] \in Stmts /\ status[h] => <<h, count[h]>> \in pend[held[h]]
  /\ state[h] = "kStarted" /\ Ending(h) /\ op[h] = "commit" => acked[h] \subseteq db
  /\ state[h] = "kCommitted" => acked[h] \subseteq db

DataInv == PendInv /\ \A h \in Handles : HandleData(h)

\* Nothing is written yet.
LEMMA DataInit == Init => DataInv
BY DEF Init, DataInv, PendInv, HandleData, Active, Ending

\* A handle that does not move keeps HandleData: its executor does not change
\* or loses its session.
LEMMA DataFrame ==
  ASSUME HandleTypes, NEW g \in Handles, Link(g), HandleData(g), db \subseteq db',
         state'[g] = state[g], held'[g] = held[g], count'[g] = count[g],
         acked'[g] = acked[g], op'[g] = op[g], at'[g] = at[g], status'[g] = status[g],
         held[g] \in Executor =>
           /\ conn'[held[g]] = conn[held[g]]
           /\ \/ sess'[held[g]] = "down"
              \/ sess'[held[g]] = sess[held[g]] /\ pend'[held[g]] = pend[held[g]]
  PROVE  HandleData(g)'
<1>1. state[g] = "kStarted" \/ Active(g) => held[g] \in Executor
  BY DEF Link, HandleTypes
<1>2. Active(g)' = Active(g) /\ Ending(g)' = Ending(g)
  BY DEF Active, Ending
<1> QED
  BY <1>1, <1>2 DEF HandleData

\* The steps of a transaction keep its marks together until they are durable.
LEMMA DataStep ==
  ASSUME Api = "async", "prepared" \notin Stmts
  PROVE  Shape /\ OwnInv /\ DataInv /\ [Next]_vars => DataInv'
<1> SUFFICES ASSUME ExecTypes, DataTypes, HandleTypes, CallTypes, Links, ExclusiveExecutor,
                    PendInv, \A h \in Handles : HandleData(h), [Next]_vars
             PROVE  DataInv'
  BY DEF Shape, Types, OwnInv, DataInv
<1> USE HandleAssumption
<1>l. \A h \in Handles : Link(h)
  BY DEF Links
<1>m. \A e \in Executor : \A m \in pend[e] : m \in Mark /\ m[1] \in Handles
  BY DEF DataTypes, Mark
<1>o. \A g, h \in Handles : g # h /\ held[h] \in Executor => held[g] # held[h]
  BY DEF ExclusiveExecutor
<1>p. \A h \in Handles : held[h] \in Executor /\ state[h] # "kStarted" => pend[held[h]] = {}
  BY <1>m, <1>o DEF PendInv
<1>1. ASSUME NEW h \in Handles, NEW o \in Ops, Refuse(h, o), at[h] = "idle",
             UNCHANGED <<conn, sess, pend, db, acked, state, held>>,
             \A g \in Handles \ {h} : count'[g] = count[g]
      PROVE  DataInv'
  <2>1. /\ at'[h] = "reply" /\ status'[h] = FALSE
        /\ \A g \in Handles \ {h} : op'[g] = op[g] /\ at'[g] = at[g] /\ status'[g] = status[g]
    BY <1>1, RefuseFacts
  <2>2. \A g \in Handles \ {h} : HandleData(g)'
    BY <1>1, <1>l, <2>1, DataFrame
  <2>3. HandleData(h)'
    BY <1>1, <2>1 DEF HandleData, Active, Ending
  <2>4. PendInv'
    BY <1>1 DEF PendInv
  <2> QED
    BY <2>2, <2>3, <2>4 DEF DataInv
<1>2. ASSUME NEW h \in Handles, BeginFails(h) PROVE DataInv'
  BY <1>1, <1>2, OpFacts DEF BeginFails, serverVars
<1>3. ASSUME NEW h \in Handles, NEW o \in Stmts \cup {"commit", "rollback"}, CallRefused(h, o)
      PROVE  DataInv'
  BY <1>1, <1>3, OpFacts DEF CallRefused, Usable, serverVars
<1>4. ASSUME NEW h \in Handles, NEW e \in Executor, BeginIdle(h, e) \/ BeginNew(h, e)
      PROVE  DataInv'
  <2>1. /\ state[h] = "kNotInited"
        /\ held' = [held EXCEPT ![h] = e]
        /\ \A g \in Handles : held[g] # e
        /\ Proceed(h, "begin", "task") \/ Refuse(h, "begin")
        /\ UNCHANGED <<pend, db, state, count, acked>>
    BY <1>4 DEF BeginIdle, BeginNew, Referenced, serverVars, ExclusiveExecutor
  <2>2. conn'[e] /\ \A d \in Executor \ {e} : conn'[d] = conn[d] /\ sess'[d] = sess[d]
    BY <1>4 DEF BeginIdle, BeginNew, serverVars, ExecTypes
  <2>3. /\ op'[h] = "begin" /\ (at'[h] = "reply" => status'[h] = FALSE)
        /\ at'[h] \in {"task", "reply"}
        /\ \A g \in Handles \ {h} : op'[g] = op[g] /\ at'[g] = at[g] /\ status'[g] = status[g]
    BY <2>1, BeginFacts
  <2>4. held'[h] = e /\ \A g \in Handles \ {h} : held'[g] = held[g]
    BY <2>1 DEF HandleTypes
  <2>5. \A g \in Handles \ {h} : HandleData(g)'
    BY <1>l, <2>1, <2>2, <2>3, <2>4, DataFrame
  <2>6. HandleData(h)'
    BY <2>1, <2>2, <2>3, <2>4 DEF HandleData, Active, Ending
  <2>7. PendInv'
    BY <1>m, <2>1, <2>2, <2>4 DEF PendInv
  <2> QED
    BY <2>5, <2>6, <2>7 DEF DataInv
<1>5. ASSUME NEW h \in Handles, FinishBegin(h) PROVE DataInv'
  <2>1. /\ at[h] = "reply" /\ op[h] = "begin" /\ state[h] = "kNotInited"
        /\ at'[h] = "idle" /\ \A g \in Handles \ {h} : at'[g] = at[g]
        /\ UNCHANGED <<conn, sess, pend, db, op, status, count, acked>>
    BY <1>5, <1>l DEF FinishBegin, Link, CallTypes, serverVars
  <2>2. /\ \A g \in Handles \ {h} : state'[g] = state[g] /\ held'[g] = held[g]
        /\ \/ status[h] /\ state'[h] = "kStarted" /\ held'[h] = held[h]
           \/ state'[h] = "kNotInited"
    BY <1>5, <2>1 DEF FinishBegin, HandleTypes
  <2>3. \A g \in Handles \ {h} : HandleData(g)'
    BY <1>l, <2>1, <2>2, DataFrame
  <2>4. HandleData(h)'
    BY <2>1, <2>2 DEF HandleData, Active, Ending
  <2>5. PendInv'
    BY <1>m, <2>1, <2>2 DEF PendInv
  <2> QED
    BY <2>3, <2>4, <2>5 DEF DataInv
<1>6. ASSUME NEW h \in Handles, NEW o \in Stmts \cup {"commit", "rollback"},
             CallFindsLost(h, o)
      PROVE  DataInv'
  <2>1. /\ state[h] = "kStarted" /\ at[h] = "idle" /\ Refuse(h, o)
        /\ held[h] \in Executor /\ ~(conn[held[h]] /\ sess[held[h]] # "down")
        /\ conn' = [conn EXCEPT ![held[h]] = FALSE]
        /\ state' = [state EXCEPT ![h] = "kRollBacked"]
        /\ UNCHANGED <<sess, pend, db, held, count, acked>>
    BY <1>6, <1>l
       DEF CallFindsLost, Usable, MayRun, Alive, serverVars, Link, HandleTypes
  <2>2. sess[held[h]] = "down" /\ pend[held[h]] = {}
    <3>1. HandleData(h) /\ conn[held[h]]
      BY <2>1 DEF HandleData
    <3>2. sess[held[h]] = "down"
      BY <2>1, <3>1
    <3> QED
      BY <2>1, <3>2 DEF PendInv
  <2>o. o \in Ops
    BY OpFacts
  <2>3. /\ at'[h] = "reply" /\ status'[h] = FALSE
        /\ \A g \in Handles \ {h} : op'[g] = op[g] /\ at'[g] = at[g] /\ status'[g] = status[g]
    BY <2>1, <2>o, RefuseFacts
  <2>4. /\ state'[h] = "kRollBacked" /\ \A g \in Handles \ {h} : state'[g] = state[g]
        /\ \A d \in Executor \ {held[h]} : conn'[d] = conn[d]
    BY <2>1 DEF HandleTypes, ExecTypes
  <2>5. \A g \in Handles \ {h} : HandleData(g)'
    BY <1>l, <1>o, <2>1, <2>3, <2>4, DataFrame
  <2>6. HandleData(h)'
    BY <2>3, <2>4 DEF HandleData, Active, Ending
  <2>7. PendInv'
    BY <1>m, <2>1, <2>2, <2>4 DEF PendInv
  <2> QED
    BY <2>5, <2>6, <2>7 DEF DataInv
<1>7. ASSUME NEW h \in Handles, NEW o \in Stmts \cup {"commit", "rollback"}, CallSent(h, o)
      PROVE  DataInv'
  <2>1. /\ state[h] = "kStarted" /\ at[h] = "idle"
        /\ Proceed(h, o, "task") \/ Refuse(h, o)
        /\ UNCHANGED <<conn, sess, pend, db, state, held, acked>>
        /\ \A g \in Handles \ {h} : count'[g] = count[g]
    BY <1>7 DEF CallSent, Usable, MayRun, serverVars, HandleTypes
  <2>2. CASE Refuse(h, o)
    BY <1>1, <2>1, <2>2, OpFacts
  <2>3. CASE Proceed(h, o, "task")
    <3>0. o \in Ops
      BY OpFacts
    <3>1. /\ at'[h] = "task" /\ op'[h] = o
          /\ \A g \in Handles \ {h} : op'[g] = op[g] /\ at'[g] = at[g] /\ status'[g] = status[g]
      BY <2>3, <3>0, ProceedFacts
    <3>2. \A g \in Handles \ {h} : HandleData(g)'
      BY <1>l, <2>1, <3>1, DataFrame
    <3>3. HandleData(h)'
      BY <2>1, <3>1, OpFacts DEF HandleData, Active, Ending
    <3>4. PendInv'
      BY <2>1 DEF PendInv
    <3> QED
      BY <3>2, <3>3, <3>4 DEF DataInv
  <2> QED
    BY <2>1, <2>2, <2>3
<1>8. ASSUME NEW h \in Handles, RunText(h) PROVE DataInv'
  <2> DEFINE e == held[h]
  <2>1. /\ at[h] = "task" /\ e \in Executor
        /\ UNCHANGED <<conn, state, held, count, acked>>
        /\ op[h] # "begin" => state[h] = "kStarted"
        /\ op[h] = "begin" => state[h] = "kNotInited"
        /\ op[h] \in {"begin", "commit", "rollback"} \cup Stmts
    BY <1>8, <1>l DEF RunText, Link, Active, HandleTypes, CallTypes, Ops
  <2>f. ASSUME NEW ok \in BOOLEAN, Reply(h, ok), db \subseteq db',
               \A d \in Executor \ {e} : sess'[d] = sess[d] /\ pend'[d] = pend[d]
        PROVE  /\ \A g \in Handles \ {h} : HandleData(g)'
               /\ op' = op /\ at'[h] = "reply" /\ status'[h] = ok
    <3>1. /\ op' = op /\ at'[h] = "reply" /\ status'[h] = ok
          /\ \A g \in Handles \ {h} : at'[g] = at[g] /\ status'[g] = status[g]
      BY <2>f, ReplyFacts
    <3>2. \A g \in Handles \ {h} : HandleData(g)'
      BY <1>l, <1>o, <2>1, <2>f, <3>1, DataFrame
    <3> QED
      BY <3>1, <3>2
  <2>2. ASSUME UNCHANGED <<sess, pend, db>>, Reply(h, FALSE) PROVE DataInv'
    <3>1. /\ \A g \in Handles \ {h} : HandleData(g)'
          /\ op' = op /\ at'[h] = "reply" /\ status'[h] = FALSE
      BY <2>2, <2>f
    <3>2. HandleData(h)'
      BY <2>1, <2>2, <3>1 DEF HandleData, Active, Ending
    <3>3. PendInv'
      BY <2>1, <2>2 DEF PendInv
    <3> QED
      BY <3>1, <3>2, <3>3 DEF DataInv
  <2>3. ASSUME ServeThenLose(e, h, op[h]), Reply(h, FALSE) PROVE DataInv'
    <3>1. /\ sess'[e] = "down" /\ pend'[e] = {}
          /\ \A d \in Executor \ {e} : sess'[d] = sess[d] /\ pend'[d] = pend[d]
      BY <2>1, <2>3 DEF ServeThenLose, ExecTypes, DataTypes
    <3>2. db \subseteq db'
      BY <2>3, OpFacts DEF ServeThenLose
    <3>3. /\ \A g \in Handles \ {h} : HandleData(g)'
          /\ op' = op /\ at'[h] = "reply" /\ status'[h] = FALSE
      BY <2>3, <2>f, <3>1, <3>2
    <3>4. HandleData(h)'
      BY <2>1, <3>1, <3>2, <3>3 DEF HandleData, Active, Ending
    <3>5. PendInv'
      BY <2>1, <3>1 DEF PendInv
    <3> QED
      BY <3>3, <3>4, <3>5 DEF DataInv
  <2>4. ASSUME Serve(e, h, op[h]), Reply(h, TRUE), sess[e] # "down" PROVE DataInv'
    <3>1. \A d \in Executor \ {e} : sess'[d] = sess[d] /\ pend'[d] = pend[d]
      BY <2>1, <2>4 DEF Serve, ExecTypes, DataTypes
    <3>2. db \subseteq db'
      BY <2>4, OpFacts DEF Serve
    <3>3. /\ \A g \in Handles \ {h} : HandleData(g)'
          /\ op' = op /\ at'[h] = "reply" /\ status'[h] = TRUE
      BY <2>4, <2>f, <3>1, <3>2
    <3>4. CASE op[h] = "begin"
      <4>1. sess'[e] = "tx" /\ pend'[e] = {}
        BY <2>1, <2>4, <3>4, OpFacts DEF Serve, ExecTypes, DataTypes
      <4>2. HandleData(h)'
        BY <2>1, <3>3, <3>4, <4>1 DEF HandleData, Active, Ending
      <4>3. PendInv'
        BY <2>1, <3>1, <4>1 DEF PendInv
      <4> QED
        BY <3>3, <4>2, <4>3 DEF DataInv
    <3>5. CASE op[h] \in {"commit", "rollback"}
      <4>1. /\ sess'[e] = "auto" /\ pend'[e] = {}
            /\ op[h] = "commit" => db' = db \cup pend[e]
        BY <2>1, <2>4, <3>5, OpFacts DEF Serve, ExecTypes, DataTypes
      <4>2. sess[e] = "tx" /\ acked[h] \subseteq pend[e] /\ conn[e]
        BY <2>1, <2>4, <3>5 DEF HandleData, Ending, ExecTypes
      <4>3. HandleData(h)'
        BY <2>1, <3>3, <3>5, <4>1, <4>2 DEF HandleData, Active, Ending
      <4>4. PendInv'
        BY <2>1, <3>1, <4>1 DEF PendInv
      <4> QED
        BY <3>3, <4>3, <4>4 DEF DataInv
    <3>6. CASE op[h] \in Stmts
      <4>1. op[h] \notin {"begin", "commit", "rollback"} /\ state[h] = "kStarted"
        BY <2>1, <3>6, OpFacts
      <4>2. sess[e] = "tx" /\ acked[h] \subseteq pend[e] /\ conn[e]
        BY <2>1, <2>4, <4>1 DEF HandleData, Ending, ExecTypes
      <4>3. sess'[e] = "tx" /\ pend'[e] = pend[e] \cup {<<h, count[h]>>}
        BY <2>1, <2>4, <3>6, <4>1, <4>2 DEF Serve, ExecTypes, DataTypes
      <4>4. HandleData(h)'
        BY <2>1, <3>3, <4>1, <4>2, <4>3 DEF HandleData, Active, Ending
      <4>5. PendInv'
        BY <2>1, <3>1, <4>1, <4>2, <4>3 DEF PendInv
      <4> QED
        BY <3>3, <4>4, <4>5 DEF DataInv
    <3> QED
      BY <2>1, <3>4, <3>5, <3>6
  <2> QED
    BY <1>8, <2>2, <2>3, <2>4 DEF RunText, serverVars
<1>9. ASSUME NEW h \in Handles, Prepare(h) \/ RunPrepared(h) \/ Reconnect(h) PROVE DataInv'
  <2>1. op[h] = "prepared" /\ op[h] \in Ops
    BY <1>9, <1>l DEF Prepare, RunPrepared, Reconnect, Link, CallTypes
  <2> QED
    BY <2>1 DEF Ops
<1>10. ASSUME NEW h \in Handles, FinishStatement(h) PROVE DataInv'
  <2>1. /\ at[h] = "reply" /\ op[h] \in Stmts /\ op[h] \notin {"begin", "commit", "rollback"}
        /\ at'[h] = "idle" /\ \A g \in Handles \ {h} : at'[g] = at[g]
        /\ UNCHANGED <<conn, sess, pend, db, state, held, op, status, count>>
        /\ status[h] => state[h] = "kStarted"
        /\ \A g \in Handles \ {h} : acked'[g] = acked[g]
        /\ acked'[h] = IF status[h] THEN acked[h] \cup {<<h, count[h]>>} ELSE acked[h]
    BY <1>10, <1>l, OpFacts DEF FinishStatement, Link, Active, CallTypes, DataTypes, serverVars
  <2>2. \A g \in Handles \ {h} : HandleData(g)'
    BY <1>l, <2>1, DataFrame
  <2>3. HandleData(h)'
    <3>1. ~Ending(h) /\ ~Ending(h)' /\ ~Active(h)' /\ HandleData(h)
      BY <2>1 DEF Active, Ending
    <3>2. CASE status[h]
      BY <2>1, <3>1, <3>2 DEF HandleData
    <3>3. CASE ~status[h]
      BY <2>1, <3>1, <3>3 DEF HandleData
    <3> QED
      BY <3>2, <3>3
  <2>4. PendInv'
    BY <2>1 DEF PendInv
  <2> QED
    BY <2>2, <2>3, <2>4 DEF DataInv
<1>11. ASSUME NEW h \in Handles, FinishEnd(h) PROVE DataInv'
  <2>1. /\ at[h] = "reply" /\ op[h] \in {"commit", "rollback"}
        /\ at'[h] = "idle" /\ \A g \in Handles \ {h} : at'[g] = at[g]
        /\ UNCHANGED <<op, status, count, acked>>
    BY <1>11 DEF FinishEnd, CallTypes
  <2>2. CASE ~status[h]
    <3>1. UNCHANGED <<conn, sess, pend, db, state, held>>
      BY <1>11, <2>2 DEF FinishEnd, Ended, serverVars
    <3>2. \A g \in Handles \ {h} : HandleData(g)'
      BY <1>l, <2>1, <3>1, DataFrame
    <3>3. HandleData(h)'
      BY <2>1, <2>2, <3>1 DEF HandleData, Active, Ending
    <3>4. PendInv'
      BY <3>1 DEF PendInv
    <3> QED
      BY <3>2, <3>3, <3>4 DEF DataInv
  <2>3. CASE status[h]
    <3>1. /\ state[h] = "kStarted" /\ held[h] \in Executor /\ Ending(h)
      BY <1>l, <2>1, <2>3 DEF Link, Active, Ending, HandleTypes
    <3>2. pend[held[h]] = {}
      BY <3>1 DEF HandleData, PendInv
    <3>3. /\ state' = [state EXCEPT ![h] = EndState(op[h])]
          /\ \/ /\ held' = [held EXCEPT ![h] = None]
                /\ UNCHANGED <<conn, sess, pend, db>>
             \/ /\ conn' = [conn EXCEPT ![held[h]] = FALSE]
                /\ EndSession(held[h])
                /\ UNCHANGED held
      BY <1>11, <2>3, <3>1
         DEF FinishEnd, Ended, EndTransaction, NeedsReclaim, AfterKeep, serverVars
    <3>4. /\ state'[h] = IF op[h] = "rollback" THEN "kRollBacked" ELSE "kCommitted"
          /\ \A g \in Handles \ {h} : state'[g] = state[g] /\ held'[g] = held[g]
      BY <3>3 DEF HandleTypes, EndState
    <3>5. /\ db' = db /\ \A d \in Executor : pend'[d] = pend[d]
          /\ \A d \in Executor \ {held[h]} : conn'[d] = conn[d] /\ sess'[d] = sess[d]
      BY <3>2, <3>3 DEF EndSession, ExecTypes, DataTypes
    <3>6. \A g \in Handles \ {h} : HandleData(g)'
      BY <1>l, <1>o, <2>1, <3>1, <3>4, <3>5, DataFrame
    <3>7. HandleData(h)'
      BY <2>1, <3>1, <3>4, <3>5 DEF HandleData, Active, Ending
    <3>8. PendInv'
      BY <1>m, <3>1, <3>2, <3>4, <3>5 DEF PendInv
    <3> QED
      BY <3>6, <3>7, <3>8 DEF DataInv
  <2> QED
    BY <2>2, <2>3
<1>12. ASSUME NEW h \in Handles, DestroyHandle(h) PROVE DataInv'
  <2>1. /\ UNCHANGED <<op, at, status, count, acked, db>> /\ at[h] = "idle"
        /\ state' = [state EXCEPT ![h] = "kInValid"]
        /\ held' = [held EXCEPT ![h] = None]
    BY <1>12 DEF DestroyHandle, callVars, serverVars, EndSession
  <2>2. /\ state'[h] = "kInValid"
        /\ \A g \in Handles \ {h} : state'[g] = state[g] /\ held'[g] = held[g]
    BY <2>1 DEF HandleTypes
  <2>3. /\ \A d \in Executor \ {held[h]} :
             conn'[d] = conn[d] /\ sess'[d] = sess[d] /\ pend'[d] = pend[d]
        /\ held[h] \in Executor => pend'[held[h]] = {}
    BY <1>12 DEF DestroyHandle, serverVars, EndSession, ExecTypes, DataTypes
  <2>4. \A g \in Handles \ {h} : HandleData(g)'
    BY <1>l, <1>o, <2>1, <2>2, <2>3, DataFrame
  <2>5. HandleData(h)'
    BY <2>1, <2>2 DEF HandleData, Active, Ending
  <2>6. PendInv'
    BY <1>m, <2>2, <2>3 DEF PendInv
  <2> QED
    BY <2>4, <2>5, <2>6 DEF DataInv
<1>13. ASSUME NEW e \in Executor, EvictIdle(e) \/ ServerDrop(e) PROVE DataInv'
  <2>1. /\ UNCHANGED <<state, held, op, at, status, count, acked, db>>
        /\ sess'[e] = "down" /\ pend'[e] = {}
        /\ \A d \in Executor \ {e} :
             conn'[d] = conn[d] /\ sess'[d] = sess[d] /\ pend'[d] = pend[d]
    BY <1>13 DEF EvictIdle, ServerDrop, EndSession, callVars, ExecTypes, DataTypes
  <2>2. conn'[e] = conn[e] \/ \A g \in Handles : held[g] # e
    BY <1>13 DEF EvictIdle, ServerDrop, ExclusiveExecutor
  <2>3. \A g \in Handles : HandleData(g)'
    BY <1>l, <2>1, <2>2, DataFrame
  <2>4. PendInv'
    BY <2>1 DEF PendInv
  <2> QED
    BY <2>3, <2>4 DEF DataInv
<1>14. ASSUME UNCHANGED vars PROVE DataInv'
  BY <1>14 DEF vars, serverVars, callVars, DataInv, PendInv, HandleData, Active, Ending
<1> QED
  BY <1>2, <1>3, <1>4, <1>5, <1>6, <1>7, <1>8, <1>9, <1>10, <1>11, <1>12, <1>13, <1>14
     DEF Next, Begin, Task, Call, Terminating

\* A handle has something durable only by its Commit.
CommittedBy(h) ==
  \/ state[h] \in {"kCommitted", "kInValid"}
  \/ state[h] = "kStarted" /\ Ending(h) /\ op[h] = "commit"

VisibleInv == \A m \in db : CommittedBy(m[1])

\* If no answer gets lost, only the Commit of a handle makes its marks durable.
LEMMA VisibleStep ==
  ASSUME Api = "async", "prepared" \notin Stmts, "replylost" \notin Faults
  PROVE  Shape /\ OwnInv /\ DataInv /\ VisibleInv /\ [Next]_vars => VisibleInv'
<1> SUFFICES ASSUME ExecTypes, DataTypes, HandleTypes, CallTypes, Links, ExclusiveExecutor,
                    PendInv, \A h \in Handles : HandleData(h), VisibleInv, [Next]_vars
             PROVE  VisibleInv'
  BY DEF Shape, Types, OwnInv, DataInv
<1> USE HandleAssumption
<1>l. \A h \in Handles : Link(h)
  BY DEF Links
<1>m. \A m \in Mark : m[1] \in Handles
  BY DEF Mark
<1>0. \A m \in db : m[1] \in Handles /\ CommittedBy(m[1])
  BY <1>m DEF DataTypes, VisibleInv
<1>f. ASSUME NEW h \in Handles, db' = db,
             \A g \in Handles \ {h} : /\ state'[g] = state[g] /\ op'[g] = op[g]
                                      /\ at'[g] = at[g] /\ status'[g] = status[g],
             CommittedBy(h) => CommittedBy(h)'
      PROVE  VisibleInv'
  <2>1. \A g \in Handles \ {h} : CommittedBy(g) => CommittedBy(g)'
    BY <1>f DEF CommittedBy, Ending
  <2> QED
    BY <1>0, <1>f, <2>1 DEF VisibleInv
<1>u. UNCHANGED <<db, state, op, at, status>> => VisibleInv'
  BY DEF VisibleInv, CommittedBy, Ending
<1>1. ASSUME NEW h \in Handles, NEW e \in Executor, BeginIdle(h, e) \/ BeginNew(h, e)
      PROVE  VisibleInv'
  <2>1. /\ state[h] = "kNotInited" /\ UNCHANGED <<db, state>>
        /\ Refuse(h, "begin") \/ Proceed(h, "begin", "task")
    BY <1>1 DEF BeginIdle, BeginNew, serverVars
  <2>2. \A g \in Handles \ {h} : op'[g] = op[g] /\ at'[g] = at[g] /\ status'[g] = status[g]
    BY <2>1, BeginFacts
  <2> QED
    BY <2>1, <2>2, <1>f DEF CommittedBy
<1>2. ASSUME NEW h \in Handles, FinishBegin(h) \/ BeginFails(h) PROVE VisibleInv'
  <2>1. CASE BeginFails(h)
    <3>1. state[h] = "kNotInited" /\ UNCHANGED <<db, state>> /\ Refuse(h, "begin")
      BY <2>1 DEF BeginFails, serverVars
    <3>2. \A g \in Handles \ {h} : op'[g] = op[g] /\ at'[g] = at[g] /\ status'[g] = status[g]
      BY <3>1, OpFacts, RefuseFacts
    <3> QED
      BY <3>1, <3>2, <1>f DEF CommittedBy
  <2>2. CASE FinishBegin(h)
    <3>1. /\ state[h] = "kNotInited" /\ UNCHANGED <<db, op, status>>
          /\ \A g \in Handles \ {h} : at'[g] = at[g] /\ state'[g] = state[g]
      BY <2>2, <1>l DEF FinishBegin, serverVars, Link, CallTypes, HandleTypes
    <3> QED
      BY <3>1, <1>f DEF CommittedBy
  <2> QED
    BY <1>2, <2>1, <2>2
<1>3. ASSUME NEW h \in Handles, NEW o \in Stmts \cup {"commit", "rollback"}, Call(h, o)
      PROVE  VisibleInv'
  <2>1. /\ at[h] = "idle" /\ db' = db /\ o \in Ops
        /\ Refuse(h, o) \/ Proceed(h, o, "task")
        /\ \/ state' = state
           \/ state[h] = "kStarted" /\ state' = [state EXCEPT ![h] = "kRollBacked"]
    BY <1>3, OpFacts
       DEF Call, CallRefused, CallFindsLost, CallSent, Usable, MayRun, serverVars
  <2>2. \A g \in Handles \ {h} : op'[g] = op[g] /\ at'[g] = at[g] /\ status'[g] = status[g]
    BY <2>1, RefuseFacts, ProceedFacts
  <2> QED
    BY <2>1, <2>2, <1>f DEF CommittedBy, Ending, HandleTypes
<1>4. ASSUME NEW h \in Handles, RunText(h) PROVE VisibleInv'
  <2> DEFINE e == held[h]
  <2>1. /\ at[h] = "task" /\ e \in Executor
        /\ UNCHANGED <<state, held>>
        /\ op[h] # "begin" => state[h] = "kStarted"
        /\ op[h] = "begin" => state[h] = "kNotInited"
        /\ op[h] \in {"begin", "commit", "rollback"} \cup Stmts
    BY <1>4, <1>l DEF RunText, Link, Active, HandleTypes, CallTypes, Ops
  <2>2. ~CommittedBy(h)
    BY <2>1 DEF CommittedBy, Ending
  <2>3. PICK ok \in BOOLEAN :
          /\ Reply(h, ok)
          /\ \/ db' = db
             \/ ok /\ sess[e] # "down" /\ Serve(e, h, op[h])
    BY <1>4 DEF RunText, serverVars
  <2>4. /\ op' = op /\ at'[h] = "reply" /\ status'[h] = ok
        /\ \A g \in Handles \ {h} : at'[g] = at[g] /\ status'[g] = status[g]
    BY <2>3, ReplyFacts
  <2>5. CASE db' = db
    BY <2>1, <2>2, <2>4, <2>5, <1>f
  <2>6. CASE ok /\ sess[e] # "down" /\ Serve(e, h, op[h])
    <3>1. pend[e] # {} => op[h] # "begin"
      <4>1. ASSUME NEW m \in pend[e] PROVE m[1] = h /\ state[h] = "kStarted"
        BY <2>1, <1>m DEF PendInv, DataTypes, ExclusiveExecutor
      <4> QED
        BY <2>1, <4>1
    <3>2. op[h] \in Stmts => sess[e] = "tx"
      <4>1. HandleData(h) /\ ~Ending(h) /\ sess[e] \in {"auto", "tx", "down"}
        BY <2>1 DEF Ending, ExecTypes
      <4>2. op[h] \in Stmts => state[h] = "kStarted"
        BY <2>1, OpFacts
      <4> QED
        BY <2>6, <4>1, <4>2 DEF HandleData
    <3>3. db' = db \/ (op[h] = "commit" /\ db' = db \cup pend[e])
      <4>1. CASE op[h] \in Stmts
        BY <2>6, <3>2, <4>1, OpFacts DEF Serve
      <4>2. CASE op[h] \in {"begin", "commit", "rollback"}
        BY <2>6, <3>1, <4>2, OpFacts DEF Serve
      <4> QED
        BY <2>1, <4>1, <4>2
    <3>4. CASE op[h] = "commit" /\ db' = db \cup pend[e]
      <4>1. CommittedBy(h)'
        BY <2>1, <2>4, <2>6, <3>4 DEF CommittedBy, Ending
      <4>2. \A g \in Handles \ {h} : CommittedBy(g) => CommittedBy(g)'
        BY <2>1, <2>4 DEF CommittedBy, Ending
      <4>3. \A m \in pend[e] : m[1] = h
        BY <2>1, <1>m DEF PendInv, DataTypes, ExclusiveExecutor
      <4> QED
        BY <1>0, <2>2, <3>4, <4>1, <4>2, <4>3 DEF VisibleInv
    <3> QED
      BY <2>5, <3>3, <3>4
  <2> QED
    BY <2>3, <2>5, <2>6
<1>5. ASSUME NEW h \in Handles, Prepare(h) \/ RunPrepared(h) \/ Reconnect(h) PROVE VisibleInv'
  <2>1. op[h] = "prepared" /\ op[h] \in Ops
    BY <1>5, <1>l DEF Prepare, RunPrepared, Reconnect, Link, CallTypes
  <2> QED
    BY <2>1 DEF Ops
<1>6. ASSUME NEW h \in Handles, FinishStatement(h) PROVE VisibleInv'
  <2>1. /\ op[h] \in Stmts /\ UNCHANGED <<db, state, op, status>>
        /\ \A g \in Handles \ {h} : at'[g] = at[g]
    BY <1>6 DEF FinishStatement, serverVars, CallTypes
  <2> QED
    BY <2>1, <1>f, OpFacts DEF CommittedBy, Ending
<1>7. ASSUME NEW h \in Handles, FinishEnd(h) PROVE VisibleInv'
  <2>1. /\ op[h] \in {"commit", "rollback"} /\ UNCHANGED <<db, op, status>>
        /\ \A g \in Handles \ {h} : at'[g] = at[g] /\ state'[g] = state[g]
        /\ \/ ~status[h] /\ state' = state
           \/ status[h] /\ state'[h] = IF op[h] = "rollback" THEN "kRollBacked" ELSE "kCommitted"
        /\ at[h] = "reply"
    BY <1>7 DEF FinishEnd, Ended, EndTransaction, EndSession, EndState, serverVars, CallTypes,
                HandleTypes
  <2>2. status[h] => state[h] = "kStarted"
    BY <1>l, <2>1 DEF Link, Active
  <2> QED
    BY <2>1, <2>2, <1>f DEF CommittedBy, Ending
<1>8. ASSUME NEW h \in Handles, DestroyHandle(h) PROVE VisibleInv'
  <2>1. /\ UNCHANGED <<db, op, at, status>> /\ state'[h] = "kInValid"
        /\ \A g \in Handles \ {h} : state'[g] = state[g]
    BY <1>8 DEF DestroyHandle, EndSession, serverVars, callVars, HandleTypes
  <2> QED
    BY <2>1, <1>f DEF CommittedBy
<1>9. ASSUME NEW e \in Executor, EvictIdle(e) \/ ServerDrop(e) PROVE VisibleInv'
  BY <1>9, <1>u DEF EvictIdle, ServerDrop, EndSession, callVars
<1>10. ASSUME UNCHANGED vars PROVE VisibleInv'
  BY <1>10, <1>u DEF vars, serverVars, callVars
<1> QED
  BY <1>1, <1>2, <1>3, <1>4, <1>5, <1>6, <1>7, <1>8, <1>9, <1>10
     DEF Next, Begin, Task, Terminating

----------------------------------------------------------------------------
(* The properties of the runs, for every instance.                         *)

\* The shape and the ownership hold in every reachable state of either form.
LEMMA OwnHolds == Spec => [](Shape /\ OwnInv)
<1>1. Init => Shape /\ OwnInv
  BY ShapeInit, OwnInit
<1>2. Shape /\ OwnInv /\ [Next]_vars => (Shape /\ OwnInv)'
  BY ShapeStep, OwnStep
<1> QED
  BY <1>1, <1>2, PTL DEF Spec

\* The state is well-typed, whatever fails and however a handle is used.
THEOREM TransactionTypeCorrect == Spec => []TypeOK
<1>1. Shape => TypeOK
  BY DEF Shape, Types, ExecTypes, DataTypes, HandleTypes, CallTypes, TypeOK
<1> QED
  BY <1>1, OwnHolds, PTL

\* An executor belongs to one handle or to the pool, in both forms of the calls,
\* after errors and reconnects, and when an ended handle is used again.
THEOREM ExecutorsAreExclusive == Spec => []ExclusiveExecutor
<1>1. OwnInv => ExclusiveExecutor
  BY DEF OwnInv
<1> QED
  BY <1>1, OwnHolds, PTL

\* With the future based calls, and with the blocking ones when no call is
\* stopped before it is sent, no session in the pool has a transaction open.
THEOREM PoolIsClean ==
  ASSUME Api = "async" \/ Faults \cap {"filter", "timeout"} = {}
  PROVE  Spec => []PooledClean
<1>1. Init => Shape /\ OwnInv /\ CleanInv
  BY ShapeInit, OwnInit, CleanInit
<1>2. Shape /\ OwnInv /\ CleanInv /\ [Next]_vars => (Shape /\ OwnInv /\ CleanInv)'
  BY ShapeStep, OwnStep, CleanStep DEF Honest
<1>3. CleanInv => PooledClean
  BY DEF CleanInv
<1> QED
  BY <1>1, <1>2, <1>3, PTL DEF Spec

\* With the future based calls a transaction that has ended keeps its outcome
\* until the handle is gone, also when it is used again.
THEOREM OutcomesAreStable ==
  ASSUME Api = "async"
  PROVE  Spec => OutcomeStable
<1>1. Shape /\ [Next]_vars =>
        [\A h \in Handles : state[h] \in {"kCommitted", "kRollBacked"} =>
           state'[h] \in {state[h], "kInValid"}]_vars
  <2> SUFFICES ASSUME HandleTypes, CallTypes, Links, Next,
                      NEW g \in Handles, state[g] \in {"kCommitted", "kRollBacked"}
               PROVE  state'[g] \in {state[g], "kInValid"}
    BY DEF Shape, Types
  <2>u. state' = state => state'[g] \in {state[g], "kInValid"}
    OBVIOUS
  <2>1. ASSUME NEW h \in Handles, FinishBegin(h) PROVE state'[g] = state[g]
    <3>1. state[h] = "kNotInited"
      BY <2>1 DEF FinishBegin, Links, Link
    <3> QED
      BY <2>1, <3>1 DEF FinishBegin, HandleTypes
  <2>2. ASSUME NEW h \in Handles, NEW o, Call(h, o) PROVE state'[g] = state[g]
    BY <2>2 DEF Call, CallRefused, CallFindsLost, CallSent, MayRun, HandleTypes
  <2>3. ASSUME NEW h \in Handles, FinishEnd(h) PROVE state'[g] = state[g]
    <3>1. at[h] = "reply" /\ op[h] # "begin"
      BY <2>3 DEF FinishEnd
    <3>2. status[h] => state[h] = "kStarted"
      BY <3>1 DEF Links, Link, Active
    <3> QED
      BY <2>3, <3>2 DEF FinishEnd, Ended, EndTransaction, HandleTypes
  <2>4. ASSUME NEW h \in Handles, DestroyHandle(h) PROVE state'[g] \in {state[g], "kInValid"}
    BY <2>4 DEF DestroyHandle, HandleTypes
  <2>5. ASSUME NEW h \in Handles,
               \/ BeginFails(h) \/ Task(h) \/ FinishStatement(h)
               \/ \E e \in Executor : BeginIdle(h, e) \/ BeginNew(h, e)
        PROVE  state' = state
    BY <2>5 DEF BeginFails, Task, RunText, Prepare, RunPrepared, Reconnect, FinishStatement,
                BeginIdle, BeginNew
  <2>6. ASSUME NEW e \in Executor, EvictIdle(e) \/ ServerDrop(e) PROVE state' = state
    BY <2>6 DEF EvictIdle, ServerDrop
  <2>7. ASSUME Terminating PROVE state' = state
    BY <2>7 DEF Terminating, vars
  <2> QED
    BY <2>u, <2>1, <2>2, <2>3, <2>4, <2>5, <2>6, <2>7 DEF Next, Begin
<1> QED
  BY <1>1, OwnHolds, PTL DEF Spec, OutcomeStable

\* With the future based calls and without prepared statements, a handle in
\* state kCommitted has everything durable that was reported as successful,
\* whatever sessions and answers were lost on the way.
THEOREM CommitsAreDurable ==
  ASSUME Api = "async", "prepared" \notin Stmts
  PROVE  Spec => []CommittedDurable
<1>1. Init => Shape /\ OwnInv /\ DataInv
  BY ShapeInit, OwnInit, DataInit
<1>2. Shape /\ OwnInv /\ DataInv /\ [Next]_vars => (Shape /\ OwnInv /\ DataInv)'
  BY ShapeStep, OwnStep, DataStep
<1>3. DataInv => CommittedDurable
  BY DEF DataInv, HandleData, CommittedDurable
<1> QED
  BY <1>1, <1>2, <1>3, PTL DEF Spec

\* Under the same conditions, and if the answer to a Commit is not lost, nothing
\* of a started or rolled back transaction is durable.
LEMMA VisibleHolds ==
  ASSUME Api = "async", "prepared" \notin Stmts, "replylost" \notin Faults
  PROVE  Spec => [](Shape /\ VisibleInv)
<1>1. Init => Shape /\ OwnInv /\ DataInv /\ VisibleInv
  BY ShapeInit, OwnInit, DataInit DEF Init, VisibleInv
<1>2. Shape /\ OwnInv /\ DataInv /\ VisibleInv /\ [Next]_vars
        => (Shape /\ OwnInv /\ DataInv /\ VisibleInv)'
  BY ShapeStep, OwnStep, DataStep, VisibleStep
<1> QED
  BY <1>1, <1>2, PTL DEF Spec

\* A handle that was rolled back, by Rollback or because its connection was
\* found lost, has written nothing that is durable.
THEOREM RollbacksLeaveNothing ==
  ASSUME Api = "async", "prepared" \notin Stmts, "replylost" \notin Faults
  PROVE  Spec => []RolledBackInvisible
<1>1. VisibleInv => RolledBackInvisible
  BY DEF VisibleInv, CommittedBy, RolledBackInvisible, Durable
<1> QED
  BY <1>1, VisibleHolds, PTL

\* Nothing of a started transaction is durable before its Commit.
THEOREM StartedIsInvisible ==
  ASSUME Api = "async", "prepared" \notin Stmts, "replylost" \notin Faults
  PROVE  Spec => []StartedInvisible
<1>1. VisibleInv => StartedInvisible
  BY DEF VisibleInv, CommittedBy, Ending, StartedInvisible, Durable
<1> QED
  BY <1>1, VisibleHolds, PTL
=============================================================================
