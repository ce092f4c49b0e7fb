----------------------------- MODULE MysqlQuery -----------------------------
(***************************************************************************)
(* One call of MysqlExecutor::QueryAll or Execute, step by step: the       *)
(* prepared statement (MysqlStatement), the argument and result bindings   *)
(* (mysql_binder), the row buffers (QueryHandle, FetchResults,             *)
(* FetchTruncatedResults) and, for NativeString, the formatted text        *)
(* (Formatter).                                                            *)
(*                                                                         *)
(* A byte is <<r, j>>: the j-th byte of what row r holds in the column;    *)
(* Zero is the byte of a fresh buffer and Outside one read past a buffer's *)
(* end.  So a buffer tells which row wrote each of its bytes.              *)
(*                                                                         *)
(* mysql_stmt_bind_result copies the MYSQL_BINDs: afterwards the library   *)
(* has its own addresses and lengths.  A std::vector that grows moves, and *)
(* the library's address is then one of released memory; what a write      *)
(* there does to other objects is left out.                                *)
(***************************************************************************)
EXTENDS MysqlFormatter, MysqlExecutor

CONSTANTS
  Calls,        \* the calls: [kind, cols, fields, args, items, size]
                \*   kind    "bind", "exec" or "text"
                \*   cols    OutputArgs...
                \*   fields  the types of the fields the statement yields
                \*   args    the arguments
                \*   items   the statement, for kind "text"
                \*   size    dynamic_buffer_init_size
  MinBuffer,    \* TRPC_BIND_BUFFER_MIN_SIZE
  MaxRows,      \* bound of the model: rows of a result set
  Lengths,      \* bound of the model: lengths of variable-length values
  FreeResult,   \* the results mysql_stmt_free_result may report, TRUE for success
  FetchColumnFails  \* whether mysql_stmt_fetch_column may fail

ASSUME SizeAssumption ==
  /\ MinBuffer \in Nat \ {0} /\ MaxRows \in Nat /\ Lengths \subseteq Nat
  /\ \A c \in Calls : c.size \in Nat

\* The types of arguments that MysqlInputType or an overload of StepInputBind is for.
BoundTypes == NumberTypes \cup {"str", "view", "blob", "time"}

\* A query whose statement yields no result set has no metadata to look at.  The
\* question marks of a text are escaped, and its holes and arguments are equal in
\* number.  An argument is [t, v] and has a type that can be printed or bound.
ASSUME CallAssumption ==
  \A c \in Calls :
    /\ c.kind \in {"bind", "exec", "text"}
    /\ c.kind = "bind" => Len(c.fields) > 0
    /\ c.kind = "text" => /\ c.items \in Seq(Items) /\ Escaped(c.items)
                          /\ Cardinality(Holes(c.items)) = Len(c.args)
    /\ c.args = [i \in 1..Len(c.args) |->
                   [t |-> c.args[i].t,
                    v |-> [n |-> c.args[i].v.n, extra |-> c.args[i].v.extra]]]
    /\ \A i \in DOMAIN c.args :
         c.args[i].t \in IF c.kind = "text" THEN TextTypes ELSE BoundTypes

VARIABLES
  call,   \* the call
  pc,     \* its next step
  conn,   \* the executor it runs on
  stmt,   \* mysql_stmt_: "null", "open", or "cut" when its session is gone
  sent,   \* what the server received: a text, or the bound arguments
  buf,    \* output_buffer
  len,    \* output_length
  null,   \* null_flag_buffer
  lib,    \* the library's copy of each bind: its buffer_length, and whether
          \* its buffer still is output_buffer's
  skip,   \* how far behind the start of the buffer output_binds points
  rows,   \* the rows fetched, as the server has them: [null, len] per column
  out,    \* the result set: the bytes of each column and the null flags
  grown,  \* for each column the row for which its buffer grew first, or 0
  spilt,  \* for each column the first row for which the library stored, or was
          \* told it may store, outside its buffer, or 0
  metas,  \* MYSQL_RES of metadata not freed
  ok      \* what the call returned

bufVars == <<buf, len, null, lib, skip, rows, out, grown, spilt>>
vars == <<call, pc, conn, stmt, sent, bufVars, metas, ok>>

Zero == <<0, 0>>
Outside == <<0, 1>>

Bytes(r, n) == [j \in 1..n |-> <<r, j>>]
Fill(s, n) == [j \in 1..n |-> IF j <= Len(s) THEN s[j] ELSE Zero]
Overwrite(s, at, bytes) ==
  [j \in DOMAIN s |-> IF j - at \in DOMAIN bytes THEN bytes[j - at] ELSE s[j]]
Lesser(m, n) == IF m < n THEN m ELSE n

----------------------------------------------------------------------------
(* The type tables.  Signed and unsigned types share an entry.             *)

\* sizeof(T).
SizeOf ==
  [int8 |-> 1, int16 |-> 2, int32 |-> 4, int64 |-> 8, float |-> 4, double |-> 8,
   MysqlTime |-> 40]

TimeTypes == {"TIME", "DATE", "DATETIME", "TIMESTAMP"}
BlobTypes == {"TINY_BLOB", "BLOB", "MEDIUM_BLOB", "LONG_BLOB", "BIT"}

\* Mutant: 64-bit fields are accepted for a 32-bit type.
OutputTypes_Wide ==
  [int8 |-> {"TINY"}, int16 |-> {"SHORT", "YEAR"}, int32 |-> {"LONG", "LONGLONG"},
   int64 |-> {"LONGLONG"}, float |-> {"FLOAT"}, double |-> {"DOUBLE"},
   MysqlTime |-> {"YEAR"} \cup TimeTypes,
   string |-> {"YEAR", "STRING", "VAR_STRING", "NEWDECIMAL"} \cup TimeTypes \cup BlobTypes,
   MysqlBlob |-> BlobTypes]

\* MysqlOutputType<T>::types: the fields a C++ type can receive.
OutputTypes ==
  [int8 |-> {"TINY"}, int16 |-> {"SHORT", "YEAR"}, int32 |-> {"LONG", "INT24"},
   int64 |-> {"LONGLONG"}, float |-> {"FLOAT"}, double |-> {"DOUBLE"},
   MysqlTime |-> {"YEAR"} \cup TimeTypes,
   string |-> {"YEAR", "STRING", "VAR_STRING", "NEWDECIMAL"} \cup TimeTypes \cup BlobTypes,
   MysqlBlob |-> BlobTypes]

\* OutputArgs... are types that MysqlOutputType<T> is defined for.
ASSUME ColumnAssumption == \A c \in Calls : c.cols \in Seq(DOMAIN OutputTypes)

\* MysqlInputType<T> and the StepInputBind overloads: the type an argument is
\* bound with; a type without an entry is bound as NULL.
InputType(t) ==
  CASE t = "int8" -> "TINY"      [] t = "int16" -> "SHORT"  [] t = "int32" -> "LONG"
    [] t = "int64" -> "LONGLONG" [] t = "float" -> "FLOAT"  [] t = "double" -> "DOUBLE"
    [] t \in {"str", "view"} -> "STRING" [] t = "blob" -> "BLOB"    [] t = "time" -> "DATETIME"
    [] OTHER -> "NULL"

\* The library: how many bytes a fixed-width value takes in a buffer of the
\* bound type.
Width(f) ==
  CASE f = "TINY" -> 1                        [] f \in {"SHORT", "YEAR"} -> 2
    [] f \in {"LONG", "INT24", "FLOAT"} -> 4  [] f \in {"LONGLONG", "DOUBLE"} -> 8
    [] f \in TimeTypes -> 40

Dynamic(t) == t \in {"string", "MysqlBlob"}

\* CheckFieldsOutputArgs reports no error.
CheckFieldsOutputArgs(cols, fields) ==
  Len(fields) = Len(cols) /\ \A i \in DOMAIN cols : fields[i] \in OutputTypes[cols[i]]

Columns == DOMAIN call.cols

Init ==
  /\ call \in Calls
  /\ pc = IF call.kind = "text" THEN "format" ELSE "init"
  /\ conn = [conn |-> TRUE, h |-> "open"]
  /\ stmt = "null"
  /\ sent = <<>>
  /\ buf = <<>> /\ len = <<>> /\ null = <<>> /\ lib = <<>>
  /\ rows = <<>> /\ out = <<>>
  /\ skip = [i \in DOMAIN call.cols |-> 0]
  /\ grown = [i \in DOMAIN call.cols |-> 0]
  /\ spilt = [i \in DOMAIN call.cols |-> 0]
  /\ metas = 0
  /\ ok = "none"

----------------------------------------------------------------------------
(* The text path.                                                          *)

\* QueryAllInternal(MysqlResults<NativeString>&, ...) up to mysql_real_query,
\* which may fail.
QueryText ==
  /\ pc = "format"
  /\ sent' = FormatQuery(Written(call.items), call.args)
  /\ pc' = "done"
  /\ ok' \in {"ok", "fail"}
  /\ UNCHANGED <<call, conn, stmt, bufVars, metas>>

----------------------------------------------------------------------------
(* The prepared statement.                                                 *)

\* MysqlStatement::CloseStatement() when mysql_stmt_ is s.
CloseStatement(s) ==
  \E freed \in FreeResult : stmt' = IF freed THEN "null" ELSE s

\* The call closes its statement and returns.
Return(s, result) ==
  /\ CloseStatement(s)
  /\ pc' = "done"
  /\ ok' = result

\* The call goes on to its step p.
Continue(p) == pc' = p /\ UNCHANGED ok

\* MysqlStatement::Init: no memory, a statement the server refuses, or done.
StmtInit ==
  /\ pc = "init"
  /\ \/ \E s \in {"null", "open"} : Return(s, "fail")
     \/ stmt' = "open" /\ Continue(IF call.kind = "bind" THEN "check" ELSE "params")
  /\ UNCHANGED <<call, conn, sent, bufVars, metas>>

\* GetResultsMeta() allocates a MYSQL_RES.
GetResultsMeta == metas' = metas + 1

\* CheckFieldsOutputArgs on the metadata.
CheckFields ==
  /\ pc = "check"
  /\ GetResultsMeta
  /\ IF CheckFieldsOutputArgs(call.cols, call.fields)
     THEN Continue("params") /\ UNCHANGED stmt
     ELSE Return(stmt, "fail")
  /\ UNCHANGED <<call, conn, sent, bufVars>>

\* BindInputArgs: the parameters, each with the type of its bind.
BindInputArgs ==
  [i \in DOMAIN call.args |->
     [t |-> InputType(call.args[i].t), v |-> call.args[i].v]]

\* QueryHandle(): the size ResizeBuffers gives the buffer of a column.
HandleSize(t) == IF Dynamic(t) THEN call.size ELSE 0

\* Mutant: an empty variable-length buffer is left empty.
StepOutputBind_NoMinimum(t, n) == IF Dynamic(t) THEN n ELSE SizeOf[t]

\* StepOutputBind: the size of a buffer that had size n.
StepOutputBind(t, n) ==
  CASE Dynamic(t) /\ n = 0 -> MinBuffer
    [] Dynamic(t) /\ n > 0 -> n
    [] OTHER -> SizeOf[t]

\* QueryHandle and BindOutputs.
BindOutputs ==
  /\ buf' = [i \in Columns |->
               Fill(<<>>, StepOutputBind(call.cols[i], HandleSize(call.cols[i])))]
  /\ len' = [i \in Columns |-> 0]
  /\ null' = [i \in Columns |-> FALSE]
  /\ GetResultsMeta

\* Mutant: a failed BindParam returns without CloseStatement.
BindParams_LeaveOpen ==
  /\ pc = "params"
  /\ pc' = "done" /\ ok' = "fail"
  /\ UNCHANGED <<call, conn, stmt, sent, bufVars, metas>>

\* BindParam, which may fail, then in a query the output side.
BindParams ==
  /\ pc = "params"
  /\ \/ Return(stmt, "fail") /\ UNCHANGED <<buf, len, null, metas>>
     \/ /\ Continue("execute") /\ UNCHANGED stmt
        /\ IF call.kind = "bind" THEN BindOutputs ELSE UNCHANGED <<buf, len, null, metas>>
  /\ UNCHANGED <<call, conn, sent, lib, skip, rows, out, grown, spilt>>

\* ExecuteStatement when the ping fails: a new session does not know the
\* statement, so the call fails whether or not StartReconnect succeeds.
ExecuteLost ==
  /\ pc = "execute"
  /\ \E dead \in {y \in CheckAlive(conn) : ~y.conn} : conn' \in StartReconnect(dead)
  /\ Return("cut", "fail")
  /\ UNCHANGED <<call, sent, bufVars, metas>>

\* ExecuteStatement on a live connection: the library takes its copy of the
\* binds and the server gets the arguments; either may fail.
ExecuteStatement ==
  /\ pc = "execute" /\ conn \in CheckAlive(conn)
  /\ \/ Return(stmt, "fail") /\ UNCHANGED <<sent, lib>>
     \/ /\ sent' = BindInputArgs
        /\ IF call.kind = "exec"
           THEN Return(stmt, "ok") /\ UNCHANGED lib
           ELSE /\ lib' = [i \in Columns |-> [cap |-> Len(buf[i]), live |-> TRUE]]
                /\ Continue("store") /\ UNCHANGED stmt
  /\ UNCHANGED <<call, conn, buf, len, null, skip, rows, out, grown, spilt, metas>>

StoreResult ==
  /\ pc = "store"
  /\ Return(stmt, "fail") \/ (Continue("fetch") /\ UNCHANGED stmt)
  /\ UNCHANGED <<call, conn, sent, bufVars, metas>>

----------------------------------------------------------------------------
(* Fetching the rows.                                                      *)

\* The values the server may have in column i.
Cells(i) ==
  {[null |-> TRUE, len |-> 0]} \cup
  {[null |-> FALSE, len |-> n] :
     n \in IF Dynamic(call.cols[i]) THEN Lengths ELSE {Width(call.fields[i])}}

Rows == {row \in [Columns -> UNION {Cells(i) : i \in Columns}] :
           \A i \in Columns : row[i] \in Cells(i)}

\* How much of a value mysql_stmt_fetch stores in column i.  It looks at
\* buffer_length only for variable-length values.
Stored(i, cell) ==
  IF Dynamic(call.cols[i]) THEN Lesser(cell.len, lib[i].cap) ELSE cell.len

\* The buffer of column i after mysql_stmt_fetch stored row r: a NULL stores
\* nothing, and after the buffer has moved the value goes elsewhere.
Fetched(i, cell, r) ==
  IF cell.null \/ ~lib[i].live THEN buf[i]
  ELSE Overwrite(buf[i], 0, Bytes(r, Stored(i, cell)))

\* The buffer b after FetchTruncatedResults made room for the length n.
Grow(b, n) == IF n <= Len(b) THEN b ELSE Fill(b, n)

\* Mutant: the rest of the column is stored from the start of the buffer.
FetchTruncatedResults_FromStart(b, n, r) ==
  Overwrite(Grow(b, n), 0, [j \in 1..n - Len(b) |-> <<r, Len(b) + j>>])

\* FetchTruncatedResults for one variable-length column with the buffer b and
\* the length n: a longer value makes the buffer grow, and
\* mysql_stmt_fetch_column adds what lies behind the old size.
FetchTruncatedResults(b, n, r) ==
  Overwrite(Grow(b, n), Len(b), [j \in 1..n - Len(b) |-> <<r, Len(b) + j>>])

\* StepTupleSet: the value handed to the caller, read behind the first k bytes.
StepTupleSet(t, b, k, n, isNull) ==
  CASE ~Dynamic(t) -> b
    [] Dynamic(t) /\ isNull -> <<>>
    [] OTHER -> [j \in 1..n |-> IF k + j <= Len(b) THEN b[k + j] ELSE Outside]

SetResultTuple(bufs, at, lens, nulls) ==
  [i \in Columns |-> StepTupleSet(call.cols[i], bufs[i], at[i], lens[i], nulls[i])]

\* One round of the loop in FetchResults.  The library also reports a
\* truncation (clipped) when an unsigned number does not fit the signed type
\* the column is bound with; its bytes are all there.
\*
\* FetchTruncatedResults goes through the columns in their order.  For a
\* buffer that grows it tells the library the size of the whole buffer at the
\* address behind the old size.  When mysql_stmt_fetch_column fails it returns
\* at that column, whose bind still points behind the old size; FetchResults
\* does not look at what it returned.
FetchRow ==
  /\ pc = "fetch" /\ Len(rows) < MaxRows
  /\ \E row \in Rows :
     \E clipped \in IF \E i \in Columns : ~Dynamic(call.cols[i]) /\ ~row[i].null
                    THEN BOOLEAN ELSE {FALSE},
        failed \in {0} \cup (IF FetchColumnFails THEN Columns ELSE {}) :
       LET r == Len(rows) + 1
           lens == [i \in Columns |-> IF row[i].null THEN len[i] ELSE row[i].len]
           got == [i \in Columns |-> Fetched(i, row[i], r)]
           truncated == clipped \/ \E i \in Columns :
                                     ~row[i].null /\ Stored(i, row[i]) < row[i].len
           reached(i) == /\ truncated /\ Dynamic(call.cols[i])
                         /\ failed = 0 \/ i <= failed
           full == [i \in Columns |->
                      CASE ~reached(i) -> got[i]
                        [] reached(i) /\ i = failed -> Grow(got[i], lens[i])
                        [] OTHER -> FetchTruncatedResults(got[i], lens[i], r)]
           moved(i) == Len(full[i]) > Len(got[i])
           outside(i) ==
             \/ ~row[i].null /\ (~lib[i].live \/ Stored(i, row[i]) > Len(buf[i]))
             \/ moved(i) /\ Len(got[i]) + lens[i] > Len(full[i])
       IN  /\ failed # 0 => moved(failed)
           /\ buf' = full
           /\ len' = lens
           /\ null' = [i \in Columns |-> row[i].null]
           /\ lib' = [i \in Columns |-> [lib[i] EXCEPT !.live = @ /\ ~moved(i)]]
           /\ skip' = [i \in Columns |-> CASE ~moved(i) -> skip[i]
                                           [] moved(i) /\ i = failed -> Len(got[i])
                                           [] OTHER -> 0]
           /\ grown' = [i \in Columns |->
                          IF grown[i] = 0 /\ moved(i) THEN r ELSE grown[i]]
           /\ spilt' = [i \in Columns |->
                          IF spilt[i] = 0 /\ outside(i) THEN r ELSE spilt[i]]
           /\ rows' = Append(rows, row)
           /\ out' = Append(out, [vals  |-> SetResultTuple(full, skip', lens, null'),
                                 nulls |-> null'])
  /\ UNCHANGED <<call, pc, conn, stmt, sent, metas, ok>>

\* The loop ends with an error or with MYSQL_NO_DATA; then SetFieldsName.
FetchEnd ==
  /\ pc = "fetch"
  /\ \/ Return(stmt, "fail") /\ UNCHANGED metas
     \/ Return(stmt, "ok") /\ GetResultsMeta
  /\ UNCHANGED <<call, conn, sent, bufVars>>

Next ==
  \/ QueryText
  \/ StmtInit \/ CheckFields \/ BindParams \/ ExecuteLost \/ ExecuteStatement
  \/ StoreResult \/ FetchRow \/ FetchEnd

Spec == Init /\ [][Next]_vars

----------------------------------------------------------------------------
(* Properties.                                                             *)

\* The state is well-typed; every buffer handed to the library has room.
TypeOK ==
  /\ call \in Calls
  /\ pc \in {"format", "init", "check", "params", "execute", "store", "fetch", "done"}
  /\ conn \in ExecutorState
  /\ stmt \in {"null", "open", "cut"}
  /\ ok \in {"none", "ok", "fail"}
  /\ metas \in 0..3
  /\ \A i \in Columns : skip[i] \in Nat /\ grown[i] \in Nat /\ spilt[i] \in Nat
  /\ \A i \in DOMAIN buf : Len(buf[i]) > 0
  /\ pc \in {"store", "fetch"} => DOMAIN lib = Columns /\ DOMAIN buf = Columns
  /\ Len(rows) = Len(out)

\* ~MysqlStatement() asserts that mysql_stmt_ is null: on every path out of
\* QueryAllInternal and ExecuteInternal the statement has been closed.
StatementClosed == pc = "done" => stmt = "null"

\* Whatever CheckFieldsOutputArgs allows, mysql_stmt_fetch stores no more
\* bytes than a buffer has until the row that buffer first grows for: the type
\* table, sizeof(T) and the field type the bind is given agree.  From that row
\* on FetchTruncatedResults lets the library store outside.  No value of any
\* row is read past the end of its buffer, although the length is the server's
\* or, for a NULL, that of an earlier row: the buffers follow the lengths, also
\* after a truncation in another column.
BuffersInBounds ==
  /\ \A i \in Columns : spilt[i] \in {0, grown[i]}
  /\ \A r \in DOMAIN out, i \in Columns :
       Outside \notin {out[r].vals[i][j] : j \in DOMAIN out[r].vals[i]}

\* Not so: the library never gets to store outside a buffer.
StoresInBounds == \A i \in Columns : spilt[i] = 0

\* The value of column i in row r is the server's.  A MysqlTime received from
\* a YEAR field holds it in its first member only.
CellFaithful(r, i) ==
  LET cell == rows[r][i]
      val == out[r].vals[i]
  IN  /\ out[r].nulls[i] = cell.null
      /\ ~cell.null => SubSeq(val, 1, cell.len) = Bytes(r, cell.len)
      /\ Dynamic(call.cols[i]) => Len(val) = cell.len

\* FetchResults delivers the server's rows, with the right NULL flags, up to
\* and including the row for which the buffer of a column first had to grow.
FaithfulUntilGrown ==
  \A r \in DOMAIN out, i \in Columns :
    (grown[i] = 0 \/ r <= grown[i]) => CellFaithful(r, i)

\* QueryAll "retrieves all resulting rows, storing each row as a tuple": every
\* row of the result set is the server's.  FetchTruncatedResults breaks it for
\* the rows after one it had to grow a buffer for.
RowsFaithful == \A r \in DOMAIN out, i \in Columns : CellFaithful(r, i)

\* The C++ type the server-side type of a bound argument stands for; strings
\* of all kinds are "str".
ReadParam(p) ==
  [t |-> CASE p.t = "TINY" -> "int8"      [] p.t = "SHORT" -> "int16" [] p.t = "LONG" -> "int32"
           [] p.t = "LONGLONG" -> "int64" [] p.t = "FLOAT" -> "float" [] p.t = "DOUBLE" -> "double"
           [] p.t = "STRING" -> "str"     [] p.t = "BLOB" -> "blob"   [] p.t = "DATETIME" -> "time"
           [] OTHER -> "null",
   v |-> p.v]

AsBound(arg) == [t |-> IF arg.t = "view" THEN "str" ELSE arg.t, v |-> arg.v]

\* The text the server got says what the caller meant: its literals are the
\* arguments, in their order, and the rest (escaped question marks included)
\* is as written.
TextMeant ==
  /\ SameShape(sent, call.items)
  /\ ArgumentsOf(sent) = [i \in DOMAIN call.args |-> Meant(call.args[i])]

\* The server reads the arguments the caller passed, in their order: any of
\* them as bound parameters, and those a text can carry as the literals
\* Formatter puts for the placeholders.
ArgumentsArrive ==
  CASE call.kind = "text" /\ pc = "done" -> Carried(call.args) => TextMeant
    [] call.kind # "text" /\ (ok = "ok" \/ pc \in {"store", "fetch"}) ->
         [i \in DOMAIN sent |-> ReadParam(sent[i])] =
         [i \in DOMAIN call.args |-> AsBound(call.args[i])]
    [] OTHER -> TRUE

\* Not so: a text carries every argument that can be printed.
TextCarriesAll == call.kind = "text" /\ pc = "done" => TextMeant

\* Not so: GetResultsMeta() hands out metadata that nobody frees.
MetadataFreed == pc = "done" => metas = 0
=============================================================================
