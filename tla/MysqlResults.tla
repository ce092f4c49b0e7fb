---------------------------- MODULE MysqlResults ----------------------------
(***************************************************************************)
(* MysqlResults objects and the calls of MysqlExecutor that fill them:     *)
(* QueryAll and Execute clear an object, run the statement and leave       *)
(* either rows or an error in it; the caller reads, clears, moves, reuses  *)
(* and destroys the objects.                                               *)
(*                                                                         *)
(* An object is a record of its members:                                   *)
(*   num        error_number_, 0 or 1 for any other number                 *)
(*   msg        error_message_ is not empty                                *)
(*   has_value  has_value_                                                 *)
(*   rows       result_set_: for every row the call that fetched it and,   *)
(*              for NativeString, the MYSQL_RES its string_views point to  *)
(*   nulls      null_flags_: for every row the call that fetched it        *)
(*   fields     fields_name_: the calls that appended their names          *)
(*   raw        mysql_res_                                                 *)
(* A call has one caller and runs on an executor of its own, so it is one  *)
(* step.                                                                   *)
(***************************************************************************)
EXTENDS Naturals, Sequences, FiniteSets

CONSTANTS
  Object,       \* storage for MysqlResults objects, all of one type
  Res,          \* identities of MYSQL_RES, never reused
  None,         \* nullptr
  MaxRows,      \* bound of the model: rows of a result set
  MaxCalls,     \* bound of the model: calls that run a statement
  ReuseFailed,  \* whether callers run a statement with, or assign to, an
                \* object that holds an error
  MoveFailed,   \* whether callers move an object that holds an error
  OutOfMemory   \* whether mysql_stmt_init may fail

ASSUME NoResAssumption == None \notin Res
ASSUME RowsAssumption == MaxRows \in Nat /\ MaxCalls \in Nat

VARIABLES
  mode,       \* MysqlResults<Args...>::mode of the type
  live,       \* objects constructed and not destroyed
  obj,        \* their members
  allocated,  \* MYSQL_RES mysql_store_result has handed out
  freed,      \* ... and mysql_free_result was called for
  lost,       \* ... and a move assignment has overwritten the pointer to
  metas,      \* MYSQL_RES of metadata handed out, which nobody frees
  last,       \* the last call that filled the object: number, result, rows
  calls       \* calls so far

vars == <<mode, live, obj, allocated, freed, lost, metas, last, calls>>

Modes == {"BindType", "OnlyExec", "NativeString"}

Results ==
  [num : {0, 1}, msg : BOOLEAN, has_value : BOOLEAN,
   rows : Seq([call : 1 .. MaxCalls, buf : Res \cup {None}]),
   nulls : Seq(1 .. MaxCalls), fields : Seq(1 .. MaxCalls),
   raw : Res \cup {None}]

\* The constructor.
Fresh ==
  [num |-> 0, msg |-> FALSE, has_value |-> FALSE, rows |-> <<>>, nulls |-> <<>>,
   fields |-> <<>>, raw |-> None]

NoCall == [call |-> 0, result |-> "none", rows |-> 0]

Init ==
  /\ mode \in Modes
  /\ live = {}
  /\ obj = [o \in Object |-> Fresh]
  /\ allocated = {} /\ freed = {} /\ lost = {}
  /\ metas = 0
  /\ last = [o \in Object |-> NoCall]
  /\ calls = 0

\* Mutant: the field names of the last call stay.
Clear_KeepsFields(x) == [Fresh EXCEPT !.num = x.num, !.fields = x.fields]

\* Clear() resets every member but error_number_, and frees the MYSQL_RES.
Clear(x) == [Fresh EXCEPT !.num = x.num]

\* Mutant: no null check before mysql_free_result.
Released_Unchecked(x) == {x.raw}

\* mysql_free_result of the MYSQL_RES an object owns, if it owns one.
Released(x) == {x.raw} \ {None}

----------------------------------------------------------------------------
(* What a call leaves in the object.                                       *)

\* Mutant: only the message is set.
Failed_NoNumber(x, n) == [x EXCEPT !.msg = (n # 0)]

\* SetErrorMessage and SetErrorNumber with what the library reports.
Failed(x, n) == [x EXCEPT !.num = n, !.msg = (n # 0)]

\* A row and its null flags are pushed, k times.
Fetched(x, q, k, buf) ==
  [x EXCEPT !.rows = @ \o [i \in 1 .. k |-> [call |-> q, buf |-> buf]],
            !.nulls = @ \o [i \in 1 .. k |-> q]]

\* QueryAll sets has_value_ when QueryAllInternal has returned true.
Valued(x) == [x EXCEPT !.has_value = TRUE]

\* SetFieldsName appends.
Named(x, q) == [x EXCEPT !.fields = Append(@, q)]

\* The error numbers of a statement that could not be prepared, bound or
\* executed.  Without a MYSQL_STMT GetErrorNumber() answers 0.
StatementErrors == IF OutOfMemory THEN {0, 1} ELSE {1}

\* The object o holds x after call number calls + 1 with that result.
Return(o, x, result, k) ==
  /\ obj' = [obj EXCEPT ![o] = x]
  /\ last' = [last EXCEPT ![o] = [call |-> calls + 1, result |-> result, rows |-> k]]
  /\ calls' = calls + 1
  /\ UNCHANGED <<mode, live>>

MayCall(o) ==
  /\ o \in live
  /\ calls < MaxCalls
  /\ ReuseFailed \/ obj[o].num = 0

----------------------------------------------------------------------------
(* QueryAll with BindType: a prepared statement.                           *)

\* Init, the check of the output types, BindParam, or ExecuteStatement fails,
\* before, between or after the first two GetResultsMeta().
BindTypeRefused(o) ==
  /\ mode = "BindType" /\ MayCall(o)
  /\ \E n \in StatementErrors : Return(o, Failed(Clear(obj[o]), n), "failed", 0)
  /\ freed' = freed \cup Released(obj[o])
  /\ \E m \in 0 .. 2 : metas' = metas + m
  /\ UNCHANGED <<allocated, lost>>

\* mysql_stmt_store_result or mysql_stmt_fetch fails after k rows.
BindTypeFetchFails(o, k) ==
  /\ mode = "BindType" /\ MayCall(o)
  /\ Return(o, Failed(Fetched(Clear(obj[o]), calls + 1, k, None), 1), "failed", k)
  /\ freed' = freed \cup Released(obj[o])
  /\ metas' = metas + 2
  /\ UNCHANGED <<allocated, lost>>

\* The field names are read from a third one.
BindTypeQuery(o, k) ==
  /\ mode = "BindType" /\ MayCall(o)
  /\ Return(o, Valued(Named(Fetched(Clear(obj[o]), calls + 1, k, None), calls + 1)), "ok", k)
  /\ freed' = freed \cup Released(obj[o])
  /\ metas' = metas + 3
  /\ UNCHANGED <<allocated, lost>>

----------------------------------------------------------------------------
(* QueryAll with NativeString: the text protocol.                          *)

\* mysql_real_query or mysql_store_result fails.
NativeFails(o) ==
  /\ mode = "NativeString" /\ MayCall(o)
  /\ Return(o, Failed(Clear(obj[o]), 1), "failed", 0)
  /\ freed' = freed \cup Released(obj[o])
  /\ UNCHANGED <<allocated, lost, metas>>

\* Mutant: no result set is taken for an error.
NativeNoResult_Error(o) ==
  /\ mode = "NativeString" /\ MayCall(o)
  /\ Return(o, Failed(Clear(obj[o]), 1), "ok", 0)
  /\ freed' = freed \cup Released(obj[o])
  /\ UNCHANGED <<allocated, lost, metas>>

\* The statement produced no result set: mysql_store_result returns null and
\* the error number the object gets is 0.
NativeNoResult(o) ==
  /\ mode = "NativeString" /\ MayCall(o)
  /\ Return(o, Failed(Clear(obj[o]), 0), "ok", 0)
  /\ freed' = freed \cup Released(obj[o])
  /\ UNCHANGED <<allocated, lost, metas>>

\* Mutant: the object forgets the MYSQL_RES its rows point into.
Stored_Dropped(x, r) == x

\* SetRawMysqlRes: the object keeps the MYSQL_RES its rows point into.
Stored(x, r) == [x EXCEPT !.raw = r]

NativeQuery(o, k, r) ==
  /\ mode = "NativeString" /\ MayCall(o)
  /\ r \in Res \ allocated
  /\ allocated' = allocated \cup {r}
  /\ Return(o, Valued(Named(Stored(Fetched(Clear(obj[o]), calls + 1, k, r), r), calls + 1)),
            "ok", k)
  /\ freed' = freed \cup Released(obj[o])
  /\ UNCHANGED <<lost, metas>>

----------------------------------------------------------------------------
(* Execute with OnlyExec.                                                  *)

\* With arguments: a prepared statement, after Clear().
ExecuteArgs(o) ==
  /\ mode = "OnlyExec" /\ MayCall(o)
  /\ \/ Return(o, Clear(obj[o]), "ok", 0)
     \/ \E n \in StatementErrors : Return(o, Failed(Clear(obj[o]), n), "failed", 0)
  /\ freed' = freed \cup Released(obj[o])
  /\ UNCHANGED <<allocated, lost, metas>>

\* Without arguments: mysql_real_query, and the object is not cleared first.
ExecuteText(o) ==
  /\ mode = "OnlyExec" /\ MayCall(o)
  /\ Return(o, obj[o], "ok", 0) \/ Return(o, Failed(obj[o], 1), "failed", 0)
  /\ UNCHANGED <<allocated, freed, lost, metas>>

----------------------------------------------------------------------------
(* The caller.                                                             *)

Construct(o) ==
  /\ o \notin live
  /\ live' = live \cup {o}
  /\ obj' = [obj EXCEPT ![o] = Fresh]
  /\ last' = [last EXCEPT ![o] = NoCall]
  /\ UNCHANGED <<mode, allocated, freed, lost, metas, calls>>

\* GetResultSet: NativeString rows are copied, BindType rows moved out once.
GetResultSet(o) ==
  /\ o \in live /\ obj[o].has_value
  /\ obj' = [obj EXCEPT ![o] =
               IF mode = "NativeString" THEN @ ELSE [@ EXCEPT !.rows = <<>>, !.has_value = FALSE]]
  /\ UNCHANGED <<mode, live, allocated, freed, lost, metas, last, calls>>

ClearObject(o) ==
  /\ o \in live
  /\ obj' = [obj EXCEPT ![o] = Clear(@)]
  /\ freed' = freed \cup Released(obj[o])
  /\ last' = [last EXCEPT ![o] = NoCall]
  /\ UNCHANGED <<mode, live, allocated, lost, metas, calls>>

\* Mutant: the moved-from object keeps its pointer.
MovedFrom_KeepsRaw(x) == [x EXCEPT !.rows = <<>>, !.nulls = <<>>, !.fields = <<>>,
                                   !.msg = FALSE]

\* What a move leaves behind: empty containers, a null mysql_res_, and
\* has_value_ and error_number_ as they were.
MovedFrom(x) ==
  [x EXCEPT !.rows = <<>>, !.nulls = <<>>, !.fields = <<>>, !.msg = FALSE, !.raw = None]

MayMove(o, p) == o \in live /\ p # o /\ (MoveFailed \/ obj[o].num = 0)

\* The move constructor does not mention error_number_: it starts at 0.
MoveConstruct(o, p) ==
  /\ MayMove(o, p) /\ p \notin live
  /\ live' = live \cup {p}
  /\ obj' = [obj EXCEPT ![p] = [obj[o] EXCEPT !.num = 0], ![o] = MovedFrom(@)]
  /\ last' = [last EXCEPT ![p] = last[o], ![o] = NoCall]
  /\ UNCHANGED <<mode, allocated, freed, lost, metas, calls>>

\* Move assignment keeps the target's error_number_ and overwrites the
\* MYSQL_RES the target owned.
MoveAssign(o, p) ==
  /\ MayMove(o, p) /\ p \in live
  /\ ReuseFailed \/ obj[p].num = 0
  /\ obj' = [obj EXCEPT ![p] = [obj[o] EXCEPT !.num = obj[p].num], ![o] = MovedFrom(@)]
  /\ last' = [last EXCEPT ![p] = last[o], ![o] = NoCall]
  /\ lost' = lost \cup Released(obj[p])
  /\ UNCHANGED <<mode, live, allocated, freed, metas, calls>>

\* Mutant: the destructor leaves the MYSQL_RES alone.
Destroy_NoFree(o) ==
  /\ o \in live
  /\ live' = live \ {o}
  /\ obj' = [obj EXCEPT ![o] = Fresh]
  /\ last' = [last EXCEPT ![o] = NoCall]
  /\ UNCHANGED <<mode, allocated, freed, lost, metas, calls>>

Destroy(o) ==
  /\ o \in live
  /\ live' = live \ {o}
  /\ freed' = freed \cup Released(obj[o])
  /\ obj' = [obj EXCEPT ![o] = Fresh]
  /\ last' = [last EXCEPT ![o] = NoCall]
  /\ UNCHANGED <<mode, allocated, lost, metas, calls>>

QueryAll(o) ==
  \/ BindTypeRefused(o) \/ NativeFails(o) \/ NativeNoResult(o)
  \/ \E k \in 0 .. MaxRows :
       \/ BindTypeFetchFails(o, k) \/ BindTypeQuery(o, k)
       \/ \E r \in Res : NativeQuery(o, k, r)

Execute(o) == ExecuteArgs(o) \/ ExecuteText(o)

Next ==
  \E o \in Object :
    \/ Construct(o) \/ QueryAll(o) \/ Execute(o)
    \/ GetResultSet(o) \/ ClearObject(o) \/ Destroy(o)
    \/ \E p \in Object : MoveConstruct(o, p) \/ MoveAssign(o, p)

Spec == Init /\ [][Next]_vars

----------------------------------------------------------------------------
(* Properties                                                              *)

\* Every member keeps its type; a MYSQL_RES is freed only after the library
\* handed it out, and only NativeString objects own one.
TypeOK ==
  /\ mode \in Modes
  /\ live \subseteq Object
  /\ obj \in [Object -> Results]
  /\ allocated \subseteq Res
  /\ freed \subseteq allocated /\ lost \subseteq allocated
  /\ metas \in Nat
  /\ \A o \in Object : obj[o].raw # None => mode = "NativeString" /\ obj[o].raw \in allocated
  /\ last \in [Object -> [call : 0 .. MaxCalls, result : {"none", "ok", "failed"},
                          rows : 0 .. MaxRows]]
  /\ calls \in 0 .. MaxCalls

\* However objects are cleared, reused and moved, a MYSQL_RES has one owner
\* and is freed once: no object owns one that was freed.
RawOwnedOnce ==
  \A o \in live : obj[o].raw # None =>
    /\ obj[o].raw \notin freed
    /\ \A p \in live : obj[p].raw = obj[o].raw => p = o

\* The string_views of a NativeString result point into the MYSQL_RES the
\* same object owns, so they are valid as long as the object has rows.
ViewsValid ==
  mode = "NativeString" =>
    \A o \in live : \A i \in 1 .. Len(obj[o].rows) : obj[o].rows[i].buf = obj[o].raw

\* What GetResultSet hands out is complete and of one call: all the rows the
\* last call fetched, their null flags, its field names, nothing of an
\* earlier call and nothing of a call that failed half way.
ResultConsistent ==
  \A o \in live : obj[o].has_value /\ last[o].call # 0 =>
    /\ last[o].result = "ok"
    /\ Len(obj[o].rows) = last[o].rows
    /\ \A i \in 1 .. Len(obj[o].rows) : obj[o].rows[i].call = last[o].call
    /\ obj[o].nulls = [i \in 1 .. last[o].rows |-> last[o].call]
    /\ obj[o].fields = <<last[o].call>>

\* A call that failed leaves an object that is not OK(), also when the object
\* is reused; the proxy derives its Status from nothing else.
FailureReported == \A o \in live : last[o].result = "failed" => obj[o].num # 0

\* A call that succeeded leaves an object that is OK().
SuccessReported == \A o \in live : last[o].result = "ok" => obj[o].num = 0

\* Every MYSQL_RES of mysql_store_result was freed, or belongs to an object
\* whose destructor frees it, or was overwritten by a move assignment, the
\* one way to lose it.  The metadata of prepared statements is not among
\* them: nobody frees it.
StoredResultsFreed ==
  \A r \in allocated \ (freed \cup lost) : \E o \in live : obj[o].raw = r

\* Move assignment releases what the target owned (it does not).
AssignFrees == lost = {}

\* The results of GetResultsMeta() are freed (they are not).
MetadataFreed == metas = 0
=============================================================================
