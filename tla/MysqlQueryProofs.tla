-------------------------- MODULE MysqlQueryProofs --------------------------
(***************************************************************************)
(* Proofs about one call of QueryAll or Execute, for every set of calls,   *)
(* every number and length of rows and every buffer size.                  *)
(***************************************************************************)
EXTENDS MysqlQuery, MysqlExecutorProofs, SequenceTheorems, FiniteSetTheorems,
        WellFoundedInduction

----------------------------------------------------------------------------
(* Where the call is.  A statement is open between Init and CloseStatement,*)
(* a result set is only fetched after its fields were checked, and every   *)
(* phase adds at most one MYSQL_RES of metadata.                           *)

PCs == {"format", "init", "check", "params", "execute", "store", "fetch", "done"}

Opened == {"check", "params", "execute", "store", "fetch"}

Control ==
  /\ call \in Calls /\ pc \in PCs /\ conn \in ExecutorState
  /\ stmt \in {"null", "open", "cut"} /\ ok \in {"none", "ok", "fail"}
  /\ pc # "done" => ok = "none"
  /\ pc \in {"format", "init"} => stmt = "null"
  /\ pc \in Opened => stmt = "open"
  /\ pc \notin {"format", "done"} => call.kind \in {"bind", "exec"}
  /\ pc = "format" => call.kind = "text"
  /\ pc \in {"check", "store", "fetch"} => call.kind = "bind"
  /\ call.kind = "bind" /\ pc \in {"params", "execute", "store", "fetch"} =>
       CheckFieldsOutputArgs(call.cols, call.fields)

Meta ==
  /\ metas \in 0 .. 3
  /\ pc \in {"format", "init", "check"} => metas = 0
  /\ pc = "params" => metas <= 1
  /\ pc \in {"execute", "store", "fetch"} => metas <= 2

\* CloseStatement() leaves the pointer null or as it was.
LEMMA CloseStatementType ==
  ASSUME NEW s \in {"null", "open", "cut"}, CloseStatement(s)
  PROVE  stmt' \in {"null", "open", "cut"}
BY DEF CloseStatement

\* Every step keeps the order of the phases.
LEMMA ControlStep == Control /\ Meta /\ [Next]_vars => Control' /\ Meta'
<1> SUFFICES ASSUME Control, Meta, [Next]_vars PROVE Control' /\ Meta'
  OBVIOUS
<1> USE DEF Control, Meta, PCs, Opened
<1>1. ASSUME UNCHANGED <<call, pc, conn, stmt, metas, ok>> PROVE Control' /\ Meta'
  BY <1>1
<1>2. CASE QueryText
  BY <1>2 DEF QueryText
<1>3. CASE StmtInit
  BY <1>3, CloseStatementType DEF StmtInit, Return, Continue
<1>4. CASE CheckFields
  BY <1>4, CloseStatementType DEF CheckFields, Return, Continue, GetResultsMeta
<1>5. CASE BindParams
  <2>1. metas' = metas \/ metas' = metas + 1
    BY <1>5 DEF BindParams, BindOutputs, GetResultsMeta
  <2> QED
    BY <1>5, <2>1, CloseStatementType DEF BindParams, Return, Continue
<1>6. CASE ExecuteLost
  <2>1. conn' \in ExecutorState
    BY <1>6, CheckAliveType, StartReconnectType DEF ExecuteLost
  <2> QED
    BY <1>6, <2>1, CloseStatementType DEF ExecuteLost, Return
<1>7. CASE ExecuteStatement
  BY <1>7, CloseStatementType DEF ExecuteStatement, Return, Continue
<1>8. CASE StoreResult
  BY <1>8, CloseStatementType DEF StoreResult, Return, Continue
<1>9. CASE FetchRow
  BY <1>1, <1>9 DEF FetchRow
<1>10. CASE FetchEnd
  BY <1>10, CloseStatementType DEF FetchEnd, Return, GetResultsMeta
<1>11. CASE UNCHANGED vars
  BY <1>1, <1>11 DEF vars
<1> QED
  BY <1>2, <1>3, <1>4, <1>5, <1>6, <1>7, <1>8, <1>9, <1>10, <1>11
     DEF Next

\* The call starts with nothing open.
LEMMA ControlInit == Init => Control /\ Meta
<1> SUFFICES ASSUME Init PROVE Control /\ Meta
  OBVIOUS
<1>1. /\ call \in Calls /\ stmt = "null" /\ ok = "none" /\ metas = 0
      /\ conn \in ExecutorState
      /\ pc = IF call.kind = "text" THEN "format" ELSE "init"
  BY DEF Init, ExecutorState, Handles
<1>2. call.kind \in {"bind", "exec", "text"}
  BY <1>1, CallAssumption
<1> QED
  BY <1>1, <1>2 DEF Control, Meta, PCs, Opened

\* When mysql_stmt_free_result succeeds, the statement is closed on every path out of the
\* call, as the assertion of ~MysqlStatement demands.
THEOREM StatementIsClosed ==
  ASSUME FreeResult = {TRUE}
  PROVE  Spec => []StatementClosed
<1>1. Init => StatementClosed
  BY DEF Init, StatementClosed
<1>2. Control /\ StatementClosed /\ [Next]_vars => StatementClosed'
  <2> SUFFICES ASSUME Control, StatementClosed, [Next]_vars, pc' = "done" PROVE stmt' = "null"
    BY DEF StatementClosed
  <2>1. ASSUME NEW s, NEW r, Return(s, r) PROVE stmt' = "null"
    BY <2>1 DEF Return, CloseStatement
  <2>2. CASE QueryText
    BY <2>2 DEF QueryText, Control
  <2>3. CASE UNCHANGED <<pc, stmt>>
    BY <2>3 DEF StatementClosed
  <2>4. CASE \/ StmtInit \/ CheckFields \/ BindParams \/ ExecuteLost \/ ExecuteStatement
             \/ StoreResult \/ FetchEnd
    BY <2>1, <2>4 DEF StmtInit, CheckFields, BindParams, ExecuteLost, ExecuteStatement,
                      StoreResult, FetchEnd, Continue
  <2> QED
    BY <2>2, <2>3, <2>4 DEF Next, FetchRow, vars
<1> QED
  BY <1>1, <1>2, ControlInit, ControlStep, PTL DEF Spec

----------------------------------------------------------------------------
(* Bytes and buffers.                                                      *)

\* The bytes a buffer can hold: fresh ones and those of rows.
Byte == {Zero} \cup (Nat \ {0}) \X (Nat \ {0})

\* What is read past a buffer is no byte of a row or of a fresh buffer.
LEMMA OutsideNoByte == Outside \notin Byte /\ Zero \in Byte
BY DEF Outside, Byte, Zero

\* The bytes of a row are bytes.
LEMMA RowByte == \A r, j \in Nat \ {0} : <<r, j>> \in Byte
BY DEF Byte

\* What row r holds in a column.
LEMMA BytesFacts ==
  ASSUME NEW r \in Nat \ {0}, NEW n \in Nat
  PROVE  /\ Bytes(r, n) \in Seq(Byte) /\ Len(Bytes(r, n)) = n
         /\ DOMAIN Bytes(r, n) = 1 .. n /\ \A j \in 1 .. n : Bytes(r, n)[j] = <<r, j>>
<1>1. \A j \in 1 .. n : <<r, j>> \in Byte
  BY RowByte
<1> QED
  BY <1>1 DEF Bytes

\* resize() keeps what was there and adds fresh bytes.
LEMMA FillFacts ==
  ASSUME NEW s \in Seq(Byte), NEW n \in Nat
  PROVE  /\ Fill(s, n) \in Seq(Byte) /\ Len(Fill(s, n)) = n
         /\ \A j \in 1 .. n : j <= Len(s) => Fill(s, n)[j] = s[j]
<1>1. Len(s) \in Nat /\ \A j \in 1 .. Len(s) : s[j] \in Byte
  OBVIOUS
<1>2. \A j \in 1 .. n : (IF j <= Len(s) THEN s[j] ELSE Zero) \in Byte
  BY <1>1, OutsideNoByte
<1> QED
  BY <1>2 DEF Fill

\* A store of bytes changes these places and not the size.
LEMMA OverwriteFacts ==
  ASSUME NEW s \in Seq(Byte), NEW at \in Nat, NEW b, NEW n \in Nat, DOMAIN b = 1 .. n,
         \A j \in 1 .. n : b[j] \in Byte
  PROVE  /\ Overwrite(s, at, b) \in Seq(Byte) /\ Len(Overwrite(s, at, b)) = Len(s)
         /\ \A j \in 1 .. Len(s) :
              Overwrite(s, at, b)[j] = IF j - at \in 1 .. n THEN b[j - at] ELSE s[j]
<1>1. Len(s) \in Nat /\ DOMAIN s = 1 .. Len(s) /\ \A j \in 1 .. Len(s) : s[j] \in Byte
  OBVIOUS
<1>2. \A j \in 1 .. Len(s) : (IF j - at \in 1 .. n THEN b[j - at] ELSE s[j]) \in Byte
  BY <1>1
<1>3. Overwrite(s, at, b) =
        [j \in 1 .. Len(s) |-> IF j - at \in 1 .. n THEN b[j - at] ELSE s[j]]
  BY <1>1 DEF Overwrite
<1> QED
  BY <1>1, <1>2, <1>3

\* A longer value makes the buffer as long as the value and completes it.
LEMMA FetchTruncatedFacts ==
  ASSUME NEW b \in Seq(Byte), NEW n \in Nat, NEW r \in Nat \ {0}
  PROVE  LET w == FetchTruncatedResults(b, n, r)
             g == Grow(b, n)
         IN  /\ w \in Seq(Byte) /\ g \in Seq(Byte)
             /\ n <= Len(b) => w = b /\ g = b
             /\ n > Len(b) => Len(w) = n /\ Len(g) = n
             /\ n > Len(b) => \A j \in 1 .. n : w[j] = IF j <= Len(b) THEN b[j] ELSE <<r, j>>
<1> DEFINE m == IF n > Len(b) THEN n - Len(b) ELSE 0
           rest == [j \in 1 .. n - Len(b) |-> <<r, Len(b) + j>>]
           f == Grow(b, n)
           w == Overwrite(f, Len(b), rest)
<1>1. Len(b) \in Nat
  OBVIOUS
<1>2. m \in Nat /\ 1 .. n - Len(b) = 1 .. m
  BY <1>1
<1>3. DOMAIN rest = 1 .. m /\ \A j \in 1 .. m : rest[j] = <<r, Len(b) + j>>
  BY <1>1, <1>2
<1>4. \A j \in 1 .. m : rest[j] \in Byte
  BY <1>1, <1>3, RowByte
<1>5. /\ f \in Seq(Byte) /\ \A j \in 1 .. Len(b) : f[j] = b[j]
      /\ n <= Len(b) => f = b
      /\ n > Len(b) => Len(f) = n
  <2>1. /\ Fill(b, n) \in Seq(Byte) /\ Len(Fill(b, n)) = n
        /\ \A j \in 1 .. n : j <= Len(b) => Fill(b, n)[j] = b[j]
    BY FillFacts
  <2> QED
    BY <1>1, <2>1 DEF Grow
<1>6. FetchTruncatedResults(b, n, r) = w
  BY DEF FetchTruncatedResults
<1> HIDE DEF f, rest, m
<1>7. /\ w \in Seq(Byte) /\ Len(w) = Len(f)
      /\ \A j \in 1 .. Len(f) : w[j] = IF j - Len(b) \in 1 .. m THEN rest[j - Len(b)] ELSE f[j]
  BY <1>1, <1>2, <1>3, <1>4, <1>5, OverwriteFacts
<1> HIDE DEF w
<1>8. CASE n <= Len(b)
  <2>1. m = 0
    BY <1>1, <1>8 DEF m
  <2>2. Len(w) = Len(b) /\ \A j \in 1 .. Len(b) : w[j] = b[j]
    BY <1>1, <1>5, <1>7, <1>8, <2>1
  <2>3. w = b
    BY <1>7, <2>2, SeqEqual
  <2> QED
    BY <1>1, <1>5, <1>6, <1>8, <2>3 DEF f
<1>9. CASE n > Len(b)
  <2>1. m = n - Len(b)
    BY <1>9 DEF m
  <2>2. ASSUME NEW j \in 1 .. n PROVE w[j] = IF j <= Len(b) THEN b[j] ELSE <<r, j>>
    <3>1. CASE j <= Len(b)
      BY <1>1, <1>5, <1>7, <1>9, <3>1
    <3>2. CASE j > Len(b)
      <4>1. j - Len(b) \in 1 .. m /\ Len(b) + (j - Len(b)) = j
        BY <1>1, <1>9, <2>1, <3>2
      <4>2. w[j] = rest[j - Len(b)] /\ rest[j - Len(b)] = <<r, Len(b) + (j - Len(b))>>
        BY <1>3, <1>5, <1>7, <1>9, <4>1
      <4> QED
        BY <1>1, <3>2, <4>1, <4>2
    <3> QED
      BY <1>1, <3>1, <3>2
  <2> QED
    BY <1>1, <1>5, <1>6, <1>7, <1>9, <2>2 DEF f
<1> QED
  BY <1>1, <1>8, <1>9

\* The type table, sizeof(T) and the width of the fields agree.
LEMMA WidthFits ==
  ASSUME NEW t \in DOMAIN OutputTypes, ~Dynamic(t)
  PROVE  /\ SizeOf[t] \in Nat /\ SizeOf[t] > 0
         /\ \A f \in OutputTypes[t] : Width(f) \in Nat /\ Width(f) <= SizeOf[t]
<1>1. t \in {"int8", "int16", "int32", "int64", "float", "double", "MysqlTime"}
  BY DEF OutputTypes, Dynamic
<1>2. CASE t = "int8"
  BY <1>2 DEF OutputTypes, SizeOf, Width, TimeTypes
<1>3. CASE t = "int16"
  BY <1>3 DEF OutputTypes, SizeOf, Width, TimeTypes
<1>4. CASE t = "int32"
  BY <1>4 DEF OutputTypes, SizeOf, Width, TimeTypes
<1>5. CASE t = "int64"
  BY <1>5 DEF OutputTypes, SizeOf, Width, TimeTypes
<1>6. CASE t = "float"
  BY <1>6 DEF OutputTypes, SizeOf, Width, TimeTypes
<1>7. CASE t = "double"
  BY <1>7 DEF OutputTypes, SizeOf, Width, TimeTypes
<1>8. CASE t = "MysqlTime"
  BY <1>8 DEF OutputTypes, SizeOf, Width, TimeTypes
<1> QED
  BY <1>1, <1>2, <1>3, <1>4, <1>5, <1>6, <1>7, <1>8

----------------------------------------------------------------------------
(* One column of one row.                                                  *)

BufferOK(i) ==
  /\ buf[i] \in Seq(Byte) /\ Len(buf[i]) > 0 /\ len[i] \in Nat
  /\ ~Dynamic(call.cols[i]) => Len(buf[i]) = SizeOf[call.cols[i]]

\* The library's copy of a bind promises no more room than there is, and is exact until the
\* buffer grows.
LibOK(i) ==
  /\ lib[i] \in [cap : Nat, live : BOOLEAN] /\ lib[i].cap <= Len(buf[i])
  /\ grown[i] = 0 => lib[i].live /\ lib[i].cap = Len(buf[i])

CellOK(i, cell) ==
  /\ cell.null \in BOOLEAN /\ cell.len \in Nat /\ (cell.null => cell.len = 0)
  /\ ~Dynamic(call.cols[i]) => cell.len <= SizeOf[call.cols[i]]

\* What the server can have in a column whose field was checked.
LEMMA CellFacts ==
  ASSUME call \in Calls, CheckFieldsOutputArgs(call.cols, call.fields),
         NEW i \in Columns, NEW cell \in Cells(i)
  PROVE  CellOK(i, cell)
<1>1. call.cols[i] \in DOMAIN OutputTypes /\ call.fields[i] \in OutputTypes[call.cols[i]]
  BY ColumnAssumption DEF CheckFieldsOutputArgs, Columns
<1>2. CASE cell = [null |-> TRUE, len |-> 0]
  <2>1. ~Dynamic(call.cols[i]) => SizeOf[call.cols[i]] \in Nat
    BY <1>1, WidthFits
  <2> QED
    BY <1>2, <2>1 DEF CellOK
<1>3. ASSUME Dynamic(call.cols[i]), NEW n \in Lengths, cell = [null |-> FALSE, len |-> n]
      PROVE  CellOK(i, cell)
  BY <1>3, SizeAssumption DEF CellOK
<1>4. ASSUME ~Dynamic(call.cols[i]), cell = [null |-> FALSE, len |-> Width(call.fields[i])]
      PROVE  CellOK(i, cell)
  BY <1>1, <1>4, WidthFits DEF CellOK
<1> QED
  BY <1>2, <1>3, <1>4 DEF Cells

\* mysql_stmt_fetch stores within the buffer, and all of it when the value fits.
LEMMA FetchedFacts ==
  ASSUME NEW i, NEW cell, CellOK(i, cell), BufferOK(i), LibOK(i), NEW r \in Nat \ {0}
  PROVE  LET g == Fetched(i, cell, r)
             n == Stored(i, cell)
         IN  /\ g \in Seq(Byte) /\ Len(g) = Len(buf[i])
             /\ n \in Nat /\ n <= Len(buf[i]) /\ n <= cell.len
             /\ ~Dynamic(call.cols[i]) => n = cell.len
             /\ n < cell.len /\ lib[i].live /\ grown[i] = 0 => n = Len(buf[i])
             /\ lib[i].cap >= cell.len => n = cell.len
             /\ ~cell.null /\ lib[i].live => \A j \in 1 .. n : g[j] = <<r, j>>
<1> DEFINE n == Stored(i, cell)
           g == Fetched(i, cell, r)
           b == Bytes(r, n)
<1>1. Len(buf[i]) \in Nat /\ lib[i].cap \in Nat /\ lib[i].cap <= Len(buf[i]) /\ cell.len \in Nat
  BY DEF BufferOK, LibOK, CellOK
<1>2. /\ n \in Nat /\ n <= Len(buf[i]) /\ n <= cell.len
      /\ ~Dynamic(call.cols[i]) => n = cell.len
      /\ n < cell.len /\ lib[i].live /\ grown[i] = 0 => n = Len(buf[i])
      /\ lib[i].cap >= cell.len => n = cell.len
  <2>1. CASE Dynamic(call.cols[i])
    BY <1>1, <2>1 DEF Stored, Lesser, LibOK
  <2>2. CASE ~Dynamic(call.cols[i])
    BY <1>1, <2>2 DEF Stored, BufferOK, CellOK
  <2> QED
    BY <2>1, <2>2
<1>3. g = IF cell.null \/ ~lib[i].live THEN buf[i] ELSE Overwrite(buf[i], 0, b)
  BY DEF Fetched
<1> HIDE DEF n, g
<1>4. b \in Seq(Byte) /\ DOMAIN b = 1 .. n /\ \A j \in 1 .. n : b[j] = <<r, j>>
  BY <1>2, BytesFacts
<1> HIDE DEF b
<1>5. buf[i] \in Seq(Byte) /\ \A j \in 1 .. n : b[j] \in Byte
  BY <1>2, <1>4, RowByte DEF BufferOK
<1>6. CASE cell.null \/ ~lib[i].live
  BY <1>2, <1>3, <1>5, <1>6 DEF n, g
<1>7. CASE ~cell.null /\ lib[i].live
  <2>1. g = Overwrite(buf[i], 0, b)
    BY <1>3, <1>7
  <2>2. 0 \in Nat
    OBVIOUS
  <2>3. /\ g \in Seq(Byte) /\ Len(g) = Len(buf[i])
        /\ \A j \in 1 .. Len(buf[i]) : g[j] = IF j - 0 \in 1 .. n THEN b[j - 0] ELSE buf[i][j]
    BY <1>2, <1>4, <1>5, <2>1, <2>2, OverwriteFacts
  <2>4. \A j \in 1 .. n : g[j] = <<r, j>>
    <3> TAKE j \in 1 .. n
    <3>1. j \in 1 .. Len(buf[i]) /\ j - 0 = j
      BY <1>1, <1>2
    <3> QED
      BY <1>4, <2>3, <3>1
  <2> QED
    BY <1>2, <2>3, <2>4 DEF n, g
<1> QED
  BY <1>6, <1>7

\* The length and the buffer of column i after FetchTruncatedResults.
RowLength(i, cell) == IF cell.null THEN len[i] ELSE cell.len

RowBuffer(i, cell, r, truncated, failed) ==
  LET reached == truncated /\ Dynamic(call.cols[i]) /\ (failed = 0 \/ i <= failed)
      g == Fetched(i, cell, r)
      n == RowLength(i, cell)
  IN  CASE ~reached -> g
        [] reached /\ i = failed -> Grow(g, n)
        [] OTHER -> FetchTruncatedResults(g, n, r)

\* The row's buffers and stores are as they should be before the row, and a value that was
\* not stored as a whole counts as truncated.
FetchOK(i, cell, truncated) ==
  /\ CellOK(i, cell) /\ BufferOK(i) /\ LibOK(i)
  /\ truncated \in BOOLEAN /\ (~cell.null /\ Stored(i, cell) < cell.len => truncated)

\* Buffers only grow, only for variable-length columns, and then follow the length; until
\* the first time they grow they hold the value of the row, if no mysql_stmt_fetch_column fails.
RowBufferOK(i, cell, r, truncated, failed) ==
  LET f == RowBuffer(i, cell, r, truncated, failed)
      n == RowLength(i, cell)
  IN  /\ n \in Nat
      /\ f \in Seq(Byte) /\ Len(f) >= Len(buf[i])
      /\ Len(f) > Len(buf[i]) => Len(f) = n
      /\ ~Dynamic(call.cols[i]) => Len(f) = Len(buf[i])
      /\ ~cell.null /\ failed = 0 => n <= Len(f)
      /\ ~cell.null /\ failed = 0 /\ grown[i] = 0 =>
           \A j \in 1 .. cell.len : f[j] = <<r, j>>

\* FetchTruncatedResults leaves a buffer as described.
LEMMA RowBufferFacts ==
  ASSUME NEW i, i # 0, NEW cell, NEW r \in Nat \ {0}, NEW truncated, NEW failed,
         FetchOK(i, cell, truncated)
  PROVE  RowBufferOK(i, cell, r, truncated, failed)
<1> DEFINE g == Fetched(i, cell, r)
           m == Stored(i, cell)
           n == RowLength(i, cell)
           f == RowBuffer(i, cell, r, truncated, failed)
           w == IF i = failed THEN Grow(g, n) ELSE FetchTruncatedResults(g, n, r)
           reached == truncated /\ Dynamic(call.cols[i]) /\ (failed = 0 \/ i <= failed)
<1>1. /\ g \in Seq(Byte) /\ Len(g) = Len(buf[i])
      /\ m \in Nat /\ m <= Len(buf[i]) /\ m <= cell.len
      /\ ~Dynamic(call.cols[i]) => m = cell.len
      /\ m < cell.len /\ lib[i].live /\ grown[i] = 0 => m = Len(buf[i])
      /\ ~cell.null /\ lib[i].live => \A j \in 1 .. m : g[j] = <<r, j>>
  BY FetchedFacts DEF FetchOK
<1>2. n \in Nat /\ (~cell.null => n = cell.len) /\ cell.len \in Nat /\ Len(buf[i]) \in Nat
  BY DEF RowLength, BufferOK, CellOK, FetchOK
<1>3. f = IF reached THEN w ELSE g
  BY DEF RowBuffer
<1>4. grown[i] = 0 => lib[i].live
  BY DEF LibOK, FetchOK
<1>5. ~cell.null /\ m < cell.len => truncated
  BY DEF FetchOK
<1> HIDE DEF g, m, n, f
<1>6. /\ w \in Seq(Byte)
      /\ n <= Len(g) => w = g
      /\ n > Len(g) => Len(w) = n
      /\ n > Len(g) /\ failed = 0 =>
           \A j \in 1 .. n : w[j] = IF j <= Len(g) THEN g[j] ELSE <<r, j>>
  <2> DEFINE x == FetchTruncatedResults(g, n, r)
             y == Grow(g, n)
  <2>1. g \in Seq(Byte) /\ n \in Nat
    BY <1>1, <1>2
  <2>2. /\ x \in Seq(Byte) /\ y \in Seq(Byte)
        /\ n <= Len(g) => x = g /\ y = g
        /\ n > Len(g) => Len(x) = n /\ Len(y) = n
        /\ n > Len(g) => \A j \in 1 .. n : x[j] = IF j <= Len(g) THEN g[j] ELSE <<r, j>>
    BY <2>1, FetchTruncatedFacts
  <2>3. failed = 0 => w = x
    OBVIOUS
  <2>4. w = x \/ w = y
    OBVIOUS
  <2> HIDE DEF w, x, y
  <2> QED
    BY <2>2, <2>3, <2>4
<1> HIDE DEF w, reached
<1> DEFINE Goal == /\ n \in Nat
                   /\ f \in Seq(Byte) /\ Len(f) >= Len(buf[i])
                   /\ Len(f) > Len(buf[i]) => Len(f) = n
                   /\ ~Dynamic(call.cols[i]) => Len(f) = Len(buf[i])
                   /\ ~cell.null /\ failed = 0 => n <= Len(f)
                   /\ ~cell.null /\ failed = 0 /\ grown[i] = 0 =>
                        \A j \in 1 .. cell.len : f[j] = <<r, j>>
<1>7. ASSUME reached, n > Len(g) PROVE Goal
  <2>1. f = w /\ Len(f) = n /\ Dynamic(call.cols[i])
    BY <1>3, <1>6, <1>7 DEF reached
  <2>2. ASSUME ~cell.null, failed = 0, grown[i] = 0, NEW j \in 1 .. cell.len PROVE f[j] = <<r, j>>
    <3>1. CASE j <= Len(g)
      <4>1. j \in 1 .. m
        BY <1>1, <1>2, <1>4, <1>7, <2>2, <3>1
      <4> QED
        BY <1>1, <1>2, <1>4, <1>6, <1>7, <2>1, <2>2, <3>1, <4>1
    <3>2. CASE ~(j <= Len(g))
      BY <1>2, <1>6, <1>7, <2>1, <2>2, <3>2
    <3> QED
      BY <3>1, <3>2
  <2> QED
    BY <1>1, <1>2, <1>6, <1>7, <2>1, <2>2
<1>8. ASSUME ~(reached /\ n > Len(g)) PROVE Goal
  <2>1. f = g
    BY <1>1, <1>2, <1>3, <1>6, <1>8
  <2>2. ~cell.null /\ failed = 0 => n <= Len(g)
    BY <1>1, <1>2, <1>5, <1>8 DEF reached
  <2>3. ~cell.null /\ failed = 0 /\ grown[i] = 0 => m = cell.len
    BY <1>1, <1>2, <1>4, <2>2
  <2> QED
    BY <1>1, <1>2, <1>4, <2>1, <2>2, <2>3
<1>9. Goal
  BY <1>7, <1>8
<1> QED
  BY <1>9 DEF f, n, RowBufferOK

\* The value the caller gets.
RowValue(i, cell, r, truncated, failed, k) ==
  StepTupleSet(call.cols[i], RowBuffer(i, cell, r, truncated, failed), k, RowLength(i, cell),
               cell.null)

\* Bytes a caller can get.
Read == Byte \cup {Outside}

\* A sequence of bytes is one of bytes a caller can get.
LEMMA ReadSeq == \A v \in Seq(Byte) : v \in Seq(Read)
BY DEF Read

\* If no mysql_stmt_fetch_column fails, a value is made of bytes of its buffer, and is the
\* server's until the buffer grew.
RowValueOK(i, cell, r, truncated, failed, k) ==
  LET v == RowValue(i, cell, r, truncated, failed, k)
  IN  /\ v \in Seq(Read)
      /\ failed = 0 /\ k = 0 => v \in Seq(Byte)
      /\ failed = 0 /\ k = 0 /\ grown[i] = 0 =>
           /\ ~cell.null => SubSeq(v, 1, cell.len) = Bytes(r, cell.len)
           /\ Dynamic(call.cols[i]) => Len(v) = cell.len

\* StepTupleSet reads a value as described.
LEMMA RowValueFacts ==
  ASSUME NEW i, i # 0, NEW cell, NEW r \in Nat \ {0}, NEW truncated, NEW failed, NEW k \in Nat,
         FetchOK(i, cell, truncated)
  PROVE  RowValueOK(i, cell, r, truncated, failed, k)
<1> DEFINE f == RowBuffer(i, cell, r, truncated, failed)
           n == RowLength(i, cell)
           v == RowValue(i, cell, r, truncated, failed, k)
           b == Bytes(r, cell.len)
<1>1. /\ n \in Nat
      /\ f \in Seq(Byte) /\ Len(f) >= Len(buf[i])
      /\ ~Dynamic(call.cols[i]) => Len(f) = Len(buf[i])
      /\ ~cell.null /\ failed = 0 => n <= Len(f)
      /\ ~cell.null /\ failed = 0 /\ grown[i] = 0 => \A j \in 1 .. cell.len : f[j] = <<r, j>>
  <2>1. RowBufferOK(i, cell, r, truncated, failed)
    BY RowBufferFacts
  <2> QED
    BY <2>1 DEF RowBufferOK
<1>2. /\ cell.len \in Nat /\ Len(buf[i]) \in Nat /\ (~cell.null => n = cell.len)
      /\ cell.null \in BOOLEAN /\ (cell.null => cell.len = 0)
      /\ ~Dynamic(call.cols[i]) => cell.len <= Len(buf[i])
  BY DEF RowLength, BufferOK, CellOK, FetchOK
<1>3. v = StepTupleSet(call.cols[i], f, k, n, cell.null)
  BY DEF RowValue
<1>4. b \in Seq(Byte) /\ Len(b) = cell.len /\ \A j \in 1 .. cell.len : b[j] = <<r, j>>
  BY <1>2, BytesFacts
<1> HIDE DEF f, n, v, b
<1> DEFINE Goal == /\ v \in Seq(Read)
                   /\ failed = 0 /\ k = 0 => v \in Seq(Byte)
                   /\ failed = 0 /\ k = 0 /\ grown[i] = 0 =>
                        /\ ~cell.null => SubSeq(v, 1, cell.len) = b
                        /\ Dynamic(call.cols[i]) => Len(v) = cell.len
<1>5. ASSUME v \in Seq(Byte), cell.len <= Len(v), \A j \in 1 .. cell.len : v[j] = b[j]
      PROVE  SubSeq(v, 1, cell.len) = b
  <2> DEFINE w == SubSeq(v, 1, cell.len)
  <2>1. Len(v) \in Nat
    BY <1>5
  <2>2. w \in Seq(Byte) /\ Len(w) = cell.len /\ \A j \in 1 .. cell.len : w[j] = v[j]
    BY <1>2, <1>5, <2>1
  <2> HIDE DEF w
  <2>3. w = b
    BY <1>2, <1>4, <1>5, <2>2, SeqEqual
  <2> QED
    BY <2>3 DEF w
<1>6. ASSUME ~Dynamic(call.cols[i]) PROVE Goal
  <2>1. v = f
    BY <1>3, <1>6 DEF StepTupleSet
  <2>2. cell.len <= Len(f)
    BY <1>1, <1>2, <1>6
  <2>3. v \in Seq(Read)
    BY <1>1, <2>1, ReadSeq
  <2> QED
    BY <1>1, <1>2, <1>4, <1>5, <1>6, <2>1, <2>2, <2>3
<1>7. ASSUME Dynamic(call.cols[i]), cell.null PROVE Goal
  <2>1. v = <<>>
    BY <1>3, <1>7 DEF StepTupleSet
  <2> QED
    BY <1>2, <1>7, <2>1
<1>8. ASSUME Dynamic(call.cols[i]), ~cell.null PROVE Goal
  <2>1. v = [j \in 1 .. n |-> IF k + j <= Len(f) THEN f[k + j] ELSE Outside]
    BY <1>3, <1>8 DEF StepTupleSet
  <2>2. Len(f) \in Nat /\ \A j \in 1 .. Len(f) : f[j] \in Byte
    BY <1>1
  <2>3. \A j \in 1 .. n : (IF k + j <= Len(f) THEN f[k + j] ELSE Outside) \in Read
    BY <1>1, <2>2 DEF Read
  <2>4. v \in Seq(Read) /\ Len(v) = n
    <3> DEFINE h == [j \in 1 .. n |-> IF k + j <= Len(f) THEN f[k + j] ELSE Outside]
    <3>1. h \in [1 .. n -> Read]
      BY <2>3
    <3> HIDE DEF h
    <3>2. h \in Seq(Read) /\ Len(h) = n
      BY <1>1, <3>1
    <3> QED
      BY <2>1, <3>2 DEF h
  <2>5. ASSUME failed = 0, k = 0
        PROVE  /\ v \in Seq(Byte)
               /\ grown[i] = 0 => SubSeq(v, 1, cell.len) = b
    <3>1. \A j \in 1 .. n : (IF k + j <= Len(f) THEN f[k + j] ELSE Outside) = f[j] /\ f[j] \in Byte
      BY <1>1, <1>8, <2>2, <2>5
    <3>2. v \in Seq(Byte) /\ \A j \in 1 .. n : v[j] = f[j]
      BY <1>1, <2>1, <3>1
    <3>3. ASSUME grown[i] = 0 PROVE SubSeq(v, 1, cell.len) = b
      <4>1. n = cell.len /\ cell.len <= Len(v)
        BY <1>1, <1>2, <1>8, <2>4
      <4>2. \A j \in 1 .. cell.len : v[j] = b[j]
        BY <1>1, <1>4, <1>8, <2>5, <3>2, <3>3, <4>1
      <4> QED
        BY <1>5, <3>2, <4>1, <4>2
    <3> QED
      BY <3>2, <3>3
  <2> QED
    BY <1>2, <1>8, <2>4, <2>5
<1>9. Goal
  BY <1>2, <1>6, <1>7, <1>8
<1> QED
  BY <1>9 DEF v, b, RowValueOK

----------------------------------------------------------------------------
(* The buffers, the rows and what the caller gets, step by step.           *)

OutRow == [vals : [Columns -> Seq(Read)], nulls : [Columns -> BOOLEAN]]

Buffers ==
  /\ call.kind = "bind" /\ pc \in {"execute", "store", "fetch"} =>
       DOMAIN buf = Columns /\ \A i \in Columns : BufferOK(i)
  /\ pc \in {"store", "fetch"} => DOMAIN lib = Columns /\ \A i \in Columns : LibOK(i)
  /\ \A i \in DOMAIN buf : Len(buf[i]) > 0
  /\ pc \notin {"fetch", "done"} =>
       rows = <<>> /\ out = <<>> /\ \A i \in Columns : grown[i] = 0
  /\ \A i \in Columns : skip[i] \in Nat /\ (~FetchColumnFails => skip[i] = 0)

\* No value was read past the end of its buffer.
Inside == \A r \in DOMAIN out, i \in Columns : out[r].vals[i] \in Seq(Byte)

Output ==
  /\ rows \in Seq(Rows) /\ out \in Seq(OutRow) /\ Len(rows) = Len(out)
  /\ \A i \in Columns :
       grown[i] \in Nat /\ grown[i] <= Len(rows) /\ spilt[i] = grown[i]
  /\ ~FetchColumnFails => FaithfulUntilGrown /\ Inside

\* BindOutputs gives every buffer at least one byte.
LEMMA BoundBuffers ==
  ASSUME call \in Calls, call' = call, BindOutputs
  PROVE  DOMAIN buf' = Columns /\ \A i \in Columns : BufferOK(i)'
<1>1. /\ buf' = [i \in Columns |->
                   Fill(<<>>, StepOutputBind(call.cols[i], HandleSize(call.cols[i])))]
      /\ len' = [i \in Columns |-> 0]
  BY DEF BindOutputs
<1>2. ASSUME NEW i \in Columns
      PROVE  /\ buf'[i] \in Seq(Byte) /\ Len(buf'[i]) > 0 /\ len'[i] \in Nat
             /\ ~Dynamic(call.cols[i]) => Len(buf'[i]) = SizeOf[call.cols[i]]
  <2> DEFINE t == call.cols[i]
             n == StepOutputBind(t, HandleSize(t))
  <2>1. t \in DOMAIN OutputTypes /\ call.size \in Nat /\ MinBuffer \in Nat \ {0}
    BY ColumnAssumption, SizeAssumption DEF Columns
  <2>2. ~Dynamic(t) => SizeOf[t] \in Nat /\ SizeOf[t] > 0
    BY <2>1, WidthFits
  <2>3. n \in Nat /\ n > 0 /\ (~Dynamic(t) => n = SizeOf[t])
    BY <2>1, <2>2 DEF StepOutputBind, HandleSize
  <2>4. buf'[i] = Fill(<<>>, n) /\ len'[i] = 0
    BY <1>1
  <2> HIDE DEF n
  <2>5. <<>> \in Seq(Byte)
    OBVIOUS
  <2>6. Fill(<<>>, n) \in Seq(Byte) /\ Len(Fill(<<>>, n)) = n
    BY <2>3, <2>5, FillFacts
  <2> QED
    BY <2>3, <2>4, <2>6
<1>3. \A i \in Columns : BufferOK(i)'
  BY <1>2 DEF BufferOK
<1> QED
  BY <1>1, <1>3

\* The buffer of column i grows for the row.
Moved(i, cell, r, truncated, failed) ==
  Len(RowBuffer(i, cell, r, truncated, failed)) > Len(Fetched(i, cell, r))

\* Where output_binds points after the row.
RowSkip(i, cell, r, truncated, failed) ==
  CASE ~Moved(i, cell, r, truncated, failed) -> skip[i]
    [] Moved(i, cell, r, truncated, failed) /\ i = failed -> Len(Fetched(i, cell, r))
    [] OTHER -> 0

\* The library stores outside the buffer of column i, or is told it may.
StoresOutside(i, cell, r, truncated, failed) ==
  \/ ~cell.null /\ (~lib[i].live \/ Stored(i, cell) > Len(buf[i]))
  \/ /\ Moved(i, cell, r, truncated, failed)
     /\ Len(Fetched(i, cell, r)) + RowLength(i, cell) >
          Len(RowBuffer(i, cell, r, truncated, failed))

\* One round of the fetch loop, column by column.
RowFetched(row, truncated, failed) ==
  LET r == Len(rows) + 1
  IN  /\ row \in Rows /\ truncated \in BOOLEAN
      /\ failed \in {0} \cup Columns /\ (~FetchColumnFails => failed = 0)
      /\ \A i \in Columns : ~row[i].null /\ Stored(i, row[i]) < row[i].len => truncated
      /\ buf' = [i \in Columns |-> RowBuffer(i, row[i], r, truncated, failed)]
      /\ len' = [i \in Columns |-> RowLength(i, row[i])]
      /\ lib' = [i \in Columns |->
                   [lib[i] EXCEPT !.live = @ /\ ~Moved(i, row[i], r, truncated, failed)]]
      /\ skip' = [i \in Columns |-> RowSkip(i, row[i], r, truncated, failed)]
      /\ grown' = [i \in Columns |->
                     IF grown[i] = 0 /\ Moved(i, row[i], r, truncated, failed)
                     THEN r ELSE grown[i]]
      /\ spilt' = [i \in Columns |->
                     IF spilt[i] = 0 /\ StoresOutside(i, row[i], r, truncated, failed)
                     THEN r ELSE spilt[i]]
      /\ rows' = Append(rows, row)
      /\ out' = Append(out, [vals  |-> [i \in Columns |->
                                        RowValue(i, row[i], r, truncated, failed, skip'[i])],
                             nulls |-> [i \in Columns |-> row[i].null]])

\* FetchRow, with its local definitions as operators of a column.
LEMMA FetchRowShape ==
  FetchRow => \E row, truncated, failed : RowFetched(row, truncated, failed)
<1> SUFFICES ASSUME FetchRow PROVE \E row, truncated, failed : RowFetched(row, truncated, failed)
  OBVIOUS
<1> DEFINE r == Len(rows) + 1
           L(row) == [i \in Columns |-> IF row[i].null THEN len[i] ELSE row[i].len]
           G(row) == [i \in Columns |-> Fetched(i, row[i], r)]
           T(row, clipped) == clipped \/ \E i \in Columns :
                                           ~row[i].null /\ Stored(i, row[i]) < row[i].len
           D(row, clipped, failed, i) == /\ T(row, clipped) /\ Dynamic(call.cols[i])
                                         /\ failed = 0 \/ i <= failed
           F(row, clipped, failed) ==
             [i \in Columns |->
                CASE ~D(row, clipped, failed, i) -> G(row)[i]
                   [] D(row, clipped, failed, i) /\ i = failed -> Grow(G(row)[i], L(row)[i])
                   [] OTHER -> FetchTruncatedResults(G(row)[i], L(row)[i], r)]
           M(row, clipped, failed, i) == Len(F(row, clipped, failed)[i]) > Len(G(row)[i])
           O(row, clipped, failed, i) ==
             \/ ~row[i].null /\ (~lib[i].live \/ Stored(i, row[i]) > Len(buf[i]))
             \/ /\ M(row, clipped, failed, i)
                /\ Len(G(row)[i]) + L(row)[i] > Len(F(row, clipped, failed)[i])
           P(row, clipped, failed) ==
             /\ failed # 0 => M(row, clipped, failed, failed)
             /\ buf' = F(row, clipped, failed)
             /\ len' = L(row)
             /\ null' = [i \in Columns |-> row[i].null]
             /\ lib' = [i \in Columns |->
                  [lib[i] EXCEPT !.live = @ /\ ~M(row, clipped, failed, i)]]
             /\ skip' = [i \in Columns |->
                  CASE ~M(row, clipped, failed, i) -> skip[i]
                    [] M(row, clipped, failed, i) /\ i = failed -> Len(G(row)[i])
                    [] OTHER -> 0]
             /\ grown' = [i \in Columns |->
                  IF grown[i] = 0 /\ M(row, clipped, failed, i) THEN r ELSE grown[i]]
             /\ spilt' = [i \in Columns |->
                  IF spilt[i] = 0 /\ O(row, clipped, failed, i) THEN r ELSE spilt[i]]
             /\ rows' = Append(rows, row)
             /\ out' = Append(out, [vals  |-> SetResultTuple(F(row, clipped, failed), skip',
                                                             L(row), null'),
                                    nulls |-> null'])
           C(row) == IF \E i \in Columns : ~Dynamic(call.cols[i]) /\ ~row[i].null
                     THEN BOOLEAN ELSE {FALSE}
           E == {0} \cup (IF FetchColumnFails THEN Columns ELSE {})
<1>1. \E row \in Rows : \E clipped \in C(row), failed \in E : P(row, clipped, failed)
  BY Zenon DEF FetchRow
<1>2. PICK row \in Rows, clipped \in BOOLEAN, failed \in E : P(row, clipped, failed)
  <2>1. \A row : C(row) \subseteq BOOLEAN
    OBVIOUS
  <2> HIDE DEF P, C, E
  <2> QED
    BY <1>1, <2>1
<1>3. P(row, clipped, failed)
  BY <1>2
<1> DEFINE t == T(row, clipped)
<1>4. /\ t \in BOOLEAN /\ \A i \in Columns : ~row[i].null /\ Stored(i, row[i]) < row[i].len => t
      /\ failed \in {0} \cup Columns /\ (~FetchColumnFails => failed = 0)
  OBVIOUS
<1>5. /\ \A i \in Columns : L(row)[i] = RowLength(i, row[i]) /\ G(row)[i] = Fetched(i, row[i], r)
      /\ L(row) = [i \in Columns |-> RowLength(i, row[i])]
  BY DEF RowLength
<1>6. /\ \A i \in Columns : F(row, clipped, failed)[i] = RowBuffer(i, row[i], r, t, failed)
      /\ F(row, clipped, failed) = [i \in Columns |-> RowBuffer(i, row[i], r, t, failed)]
  <2>1. ASSUME NEW i \in Columns
        PROVE  F(row, clipped, failed)[i] = RowBuffer(i, row[i], r, t, failed)
    BY <1>5 DEF RowBuffer
  <2> QED
    BY <2>1
<1> HIDE DEF L, G, T, F, D, t, r, E
<1>7. \A i \in Columns :
        /\ M(row, clipped, failed, i) <=> Moved(i, row[i], r, t, failed)
        /\ O(row, clipped, failed, i) <=> StoresOutside(i, row[i], r, t, failed)
  BY <1>5, <1>6 DEF Moved, StoresOutside
<1> HIDE DEF M, O
<1>8. skip' = [i \in Columns |-> RowSkip(i, row[i], r, t, failed)]
  BY <1>3, <1>5, <1>7 DEF RowSkip
<1>9. SetResultTuple(F(row, clipped, failed), skip', L(row), null') =
        [i \in Columns |-> RowValue(i, row[i], r, t, failed, skip'[i])]
  BY <1>3, <1>5, <1>6 DEF SetResultTuple, RowValue
<1>10. lib' = [i \in Columns |->
                 [lib[i] EXCEPT !.live = @ /\ ~Moved(i, row[i], r, t, failed)]]
  BY <1>3, <1>7
<1>11. /\ grown' = [i \in Columns |->
                      IF grown[i] = 0 /\ Moved(i, row[i], r, t, failed) THEN r ELSE grown[i]]
       /\ spilt' = [i \in Columns |->
                      IF spilt[i] = 0 /\ StoresOutside(i, row[i], r, t, failed)
                      THEN r ELSE spilt[i]]
  BY <1>3, <1>7
<1>12. RowFetched(row, t, failed)
  BY <1>3, <1>4, <1>5, <1>6, <1>8, <1>9, <1>10, <1>11 DEF RowFetched, r
<1> QED
  BY <1>12

\* What Append adds and what it leaves.
LEMMA AppendFacts ==
  ASSUME NEW S, NEW s \in Seq(S), NEW x \in S
  PROVE  /\ Append(s, x) \in Seq(S) /\ Len(Append(s, x)) = Len(s) + 1
         /\ Append(s, x)[Len(s) + 1] = x
         /\ \A j \in 1 .. Len(s) : Append(s, x)[j] = s[j]
OBVIOUS

\* A fetched row keeps the buffers, the library's copies and the rows as described, and the
\* row itself is faithful in every column that has not grown before.
LEMMA FetchRowStep ==
  ASSUME Control, Buffers, Output, FetchRow
  PROVE  Buffers' /\ Output'
<1>1. PICK row, truncated, failed : RowFetched(row, truncated, failed)
  BY FetchRowShape
<1> DEFINE r == Len(rows) + 1
           B(i) == RowBuffer(i, row[i], r, truncated, failed)
           V(i) == RowValue(i, row[i], r, truncated, failed, skip'[i])
           M(i) == Moved(i, row[i], r, truncated, failed)
           O(i) == StoresOutside(i, row[i], r, truncated, failed)
           o == [vals |-> [i \in Columns |-> V(i)], nulls |-> [i \in Columns |-> row[i].null]]
<1>2. /\ row \in Rows /\ truncated \in BOOLEAN
      /\ failed \in {0} \cup Columns /\ (~FetchColumnFails => failed = 0)
      /\ \A i \in Columns : ~row[i].null /\ Stored(i, row[i]) < row[i].len => truncated
      /\ buf' = [i \in Columns |-> B(i)]
      /\ len' = [i \in Columns |-> RowLength(i, row[i])]
      /\ lib' = [i \in Columns |-> [lib[i] EXCEPT !.live = @ /\ ~M(i)]]
      /\ skip' = [i \in Columns |-> RowSkip(i, row[i], r, truncated, failed)]
      /\ grown' = [i \in Columns |-> IF grown[i] = 0 /\ M(i) THEN r ELSE grown[i]]
      /\ spilt' = [i \in Columns |-> IF spilt[i] = 0 /\ O(i) THEN r ELSE spilt[i]]
      /\ rows' = Append(rows, row)
      /\ out' = Append(out, o)
  BY <1>1 DEF RowFetched
<1>3. /\ pc = "fetch" /\ pc' = "fetch" /\ call' = call /\ call.kind = "bind" /\ call \in Calls
      /\ CheckFieldsOutputArgs(call.cols, call.fields)
  BY DEF FetchRow, Control
<1>4. r \in Nat \ {0} /\ Len(rows) \in Nat
  BY DEF Output
<1>5. \A i \in Columns : BufferOK(i) /\ LibOK(i)
  BY <1>3 DEF Buffers
<1>6. \A i \in Columns : CellOK(i, row[i])
  <2>1. \A i \in Columns : row[i] \in Cells(i)
    BY <1>2 DEF Rows
  <2> QED
    BY <1>3, <2>1, CellFacts
<1>7. /\ Columns' = Columns /\ Rows' = Rows /\ OutRow' = OutRow
      /\ Columns \subseteq Nat \ {0} /\ failed \in Nat
  <2>1. Columns = 1 .. Len(call.cols) /\ Len(call.cols) \in Nat
    BY <1>3, ColumnAssumption DEF Columns
  <2> QED
    BY <1>2, <1>3, <2>1 DEF Columns, Rows, Cells, OutRow
<1> HIDE DEF r, o
<1>8. ASSUME NEW i \in Columns
      PROVE  /\ Len(Fetched(i, row[i], r)) = Len(buf[i])
             /\ Stored(i, row[i]) <= Len(buf[i]) /\ Stored(i, row[i]) \in Nat
             /\ Len(buf[i]) \in Nat /\ Len(buf[i]) > 0
  <2>1. Len(buf[i]) \in Nat /\ Len(buf[i]) > 0
    BY <1>5 DEF BufferOK
  <2> QED
    BY <1>4, <1>5, <1>6, <2>1, FetchedFacts
<1>9. ASSUME NEW i \in Columns PROVE i # 0 /\ FetchOK(i, row[i], truncated)
  BY <1>2, <1>5, <1>6, <1>7 DEF FetchOK
<1>10. ASSUME NEW i \in Columns
      PROVE  /\ RowLength(i, row[i]) \in Nat
             /\ B(i) \in Seq(Byte) /\ Len(B(i)) >= Len(buf[i])
             /\ Len(B(i)) > Len(buf[i]) => Len(B(i)) = RowLength(i, row[i])
             /\ ~Dynamic(call.cols[i]) => Len(B(i)) = Len(buf[i])
  <2>1. RowBufferOK(i, row[i], r, truncated, failed)
    BY <1>4, <1>9, RowBufferFacts
  <2> QED
    BY <2>1 DEF RowBufferOK
<1>11. ASSUME NEW i \in Columns
       PROVE  skip'[i] \in Nat /\ (~FetchColumnFails => skip'[i] = 0)
  <2>1. skip'[i] = RowSkip(i, row[i], r, truncated, failed)
    BY <1>2
  <2>2. skip[i] \in Nat /\ (~FetchColumnFails => skip[i] = 0) /\ i # 0
    BY <1>7 DEF Buffers
  <2> QED
    BY <1>2, <1>8, <2>1, <2>2 DEF RowSkip
<1>12. ASSUME NEW i \in Columns
       PROVE  /\ V(i) \in Seq(Read)
              /\ ~FetchColumnFails => V(i) \in Seq(Byte)
              /\ ~FetchColumnFails /\ grown[i] = 0 =>
                   /\ ~row[i].null => SubSeq(V(i), 1, row[i].len) = Bytes(r, row[i].len)
                   /\ Dynamic(call.cols[i]) => Len(V(i)) = row[i].len
  <2>1. RowValueOK(i, row[i], r, truncated, failed, skip'[i])
    BY <1>4, <1>11, <1>9, RowValueFacts
  <2>2. ~FetchColumnFails => failed = 0 /\ skip'[i] = 0
    BY <1>2, <1>11
  <2> QED
    BY <2>1, <2>2 DEF RowValueOK
<1>13. ASSUME NEW i \in Columns
       PROVE  /\ M(i) <=> Len(B(i)) > Len(buf[i])
              /\ grown[i] = 0 => (O(i) <=> M(i))
  <2>1. M(i) <=> Len(B(i)) > Len(buf[i])
    BY <1>8 DEF Moved
  <2>2. grown[i] = 0 => lib[i].live
    BY <1>5 DEF LibOK
  <2>3. M(i) => Len(Fetched(i, row[i], r)) + RowLength(i, row[i]) > Len(B(i))
    BY <1>8, <1>10, <2>1
  <2>4. ~(Stored(i, row[i]) > Len(buf[i]))
    BY <1>8
  <2> QED
    BY <2>1, <2>2, <2>3, <2>4 DEF StoresOutside
<1> HIDE DEF B, V, M, O
<1>14. Buffers'
  <2>1. DOMAIN buf' = Columns /\ \A i \in Columns : BufferOK(i)'
    <3>1. \A i \in Columns : buf'[i] = B(i) /\ len'[i] = RowLength(i, row[i])
      BY <1>2
    <3>2. \A i \in Columns : BufferOK(i)'
      BY <1>3, <1>5, <1>8, <1>10, <3>1 DEF BufferOK
    <3> QED
      BY <1>2, <3>2
  <2>2. DOMAIN lib' = Columns /\ \A i \in Columns : LibOK(i)'
    <3>1. ASSUME NEW i \in Columns
          PROVE  LibOK(i)'
      <4>1. /\ buf'[i] = B(i) /\ lib'[i] = [lib[i] EXCEPT !.live = @ /\ ~M(i)]
            /\ grown'[i] = IF grown[i] = 0 /\ M(i) THEN r ELSE grown[i]
        BY <1>2
      <4>2. /\ lib[i] \in [cap : Nat, live : BOOLEAN] /\ lib[i].cap <= Len(buf[i])
            /\ grown[i] = 0 => lib[i].live /\ lib[i].cap = Len(buf[i])
        BY <1>5 DEF LibOK
      <4>3. lib'[i] \in [cap : Nat, live : BOOLEAN] /\ lib'[i].cap = lib[i].cap
            /\ lib'[i].live = (lib[i].live /\ ~M(i))
        BY <4>1, <4>2
      <4>4. Len(B(i)) \in Nat /\ Len(B(i)) >= Len(buf[i]) /\ (M(i) <=> Len(B(i)) > Len(buf[i]))
        BY <1>8, <1>10, <1>13
      <4>5. grown'[i] = 0 => grown[i] = 0 /\ ~M(i)
        BY <1>4, <4>1
      <4>6. grown'[i] = 0 => lib'[i].live /\ lib'[i].cap = Len(B(i))
        BY <1>8, <4>2, <4>3, <4>4, <4>5
      <4>7. lib'[i].cap <= Len(B(i))
        BY <1>8, <4>2, <4>3, <4>4
      <4> QED
        BY <4>1, <4>3, <4>6, <4>7 DEF LibOK
    <3> QED
      BY <1>2, <3>1
  <2>3. \A i \in DOMAIN buf' : Len(buf'[i]) > 0
    BY <2>1 DEF BufferOK
  <2> QED
    BY <1>3, <1>7, <1>11, <2>1, <2>2, <2>3 DEF Buffers
<1>15. Output'
  <2>1. o \in OutRow /\ o.vals = [i \in Columns |-> V(i)] /\ o.nulls = [i \in Columns |-> row[i].null]
    BY <1>6, <1>12 DEF o, OutRow, CellOK
  <2>2. /\ rows' \in Seq(Rows) /\ out' \in Seq(OutRow) /\ Len(rows') = r /\ Len(out') = r
        /\ rows'[r] = row /\ out'[r] = o
        /\ \A n \in 1 .. Len(rows) : rows'[n] = rows[n] /\ out'[n] = out[n]
    <3>1. rows \in Seq(Rows) /\ out \in Seq(OutRow) /\ Len(rows) = Len(out)
      BY DEF Output
    <3>2. /\ rows' \in Seq(Rows) /\ Len(rows') = Len(rows) + 1 /\ rows'[Len(rows) + 1] = row
          /\ \A n \in 1 .. Len(rows) : rows'[n] = rows[n]
      BY <1>2, <3>1, AppendFacts
    <3>3. /\ out' \in Seq(OutRow) /\ Len(out') = Len(out) + 1 /\ out'[Len(out) + 1] = o
          /\ \A n \in 1 .. Len(out) : out'[n] = out[n]
      BY <1>2, <2>1, <3>1, AppendFacts
    <3> QED
      BY <3>1, <3>2, <3>3 DEF r
  <2>4. ASSUME NEW i \in Columns
        PROVE  /\ grown'[i] = grown[i] \/ (grown[i] = 0 /\ grown'[i] = r)
               /\ grown[i] \in Nat /\ grown[i] <= Len(rows) /\ spilt[i] = grown[i]
    BY <1>2 DEF Output
  <2>3. ASSUME NEW i \in Columns PROVE spilt'[i] = grown'[i]
    BY <1>2, <1>13, <2>4
  <2>5. \A i \in Columns :
          grown'[i] \in Nat /\ grown'[i] <= r /\ spilt'[i] = grown'[i]
    BY <1>4, <2>3, <2>4 DEF r
  <2>6. ASSUME ~FetchColumnFails, NEW n \in DOMAIN out', NEW i \in Columns,
               grown'[i] = 0 \/ n <= grown'[i]
        PROVE  CellFaithful(n, i)'
    <3>1. n \in 1 .. r
      BY <2>2, <2>6
    <3>2. CASE n = r
      <4>1. grown[i] = 0
        BY <1>4, <2>4, <2>6, <3>2 DEF r
      <4>2. out'[n].nulls[i] = row[i].null /\ out'[n].vals[i] = V(i) /\ rows'[n][i] = row[i]
        BY <2>1, <2>2, <3>2
      <4> QED
        BY <1>3, <1>12, <2>6, <3>2, <4>1, <4>2 DEF CellFaithful
    <3>3. CASE n # r
      <4>1. n \in 1 .. Len(rows) /\ n \in DOMAIN out
        BY <1>4, <3>1, <3>3 DEF r, Output
      <4>2. grown[i] = 0 \/ n <= grown[i]
        BY <2>4, <2>6
      <4>3. CellFaithful(n, i)
        BY <2>6, <4>1, <4>2 DEF Output, FaithfulUntilGrown
      <4>4. rows'[n] = rows[n] /\ out'[n] = out[n]
        BY <2>2, <4>1
      <4> QED
        BY <1>3, <4>3, <4>4 DEF CellFaithful
    <3> QED
      BY <3>2, <3>3
  <2>7. ~FetchColumnFails => FaithfulUntilGrown'
    BY <1>7, <2>6 DEF FaithfulUntilGrown
  <2>8. ASSUME ~FetchColumnFails, NEW n \in DOMAIN out', NEW i \in Columns
        PROVE  out'[n].vals[i] \in Seq(Byte)
    <3>1. n \in 1 .. r
      BY <2>2
    <3>2. CASE n = r
      BY <1>12, <2>1, <2>2, <2>8, <3>2
    <3>3. CASE n # r
      <4>1. n \in 1 .. Len(rows) /\ n \in DOMAIN out
        BY <1>4, <3>1, <3>3 DEF r, Output
      <4>2. out[n].vals[i] \in Seq(Byte)
        BY <2>8, <4>1 DEF Output, Inside
      <4> QED
        BY <2>2, <4>1, <4>2
    <3> QED
      BY <3>2, <3>3
  <2>9. ~FetchColumnFails => Inside'
    BY <1>7, <2>8 DEF Inside
  <2> QED
    BY <1>7, <2>2, <2>5, <2>7, <2>9 DEF Output
<1> QED
  BY <1>14, <1>15

\* A step that leaves the buffers alone keeps what is said of them.
LEMMA BuffersFrame ==
  ASSUME Buffers, Output, call' = call, UNCHANGED bufVars,
         pc' = "fetch" => pc \in {"store", "fetch"},
         pc' = "store" => pc = "store",
         pc' = "execute" => pc = "execute" \/ call.kind # "bind",
         pc' \notin {"fetch", "done"} => pc \notin {"fetch", "done"}
  PROVE  Buffers' /\ Output'
<1>1. /\ buf' = buf /\ len' = len /\ null' = null /\ lib' = lib /\ rows' = rows /\ out' = out
      /\ grown' = grown /\ spilt' = spilt /\ skip' = skip
  BY DEF bufVars
<1>2. Columns' = Columns /\ Rows' = Rows /\ OutRow' = OutRow
  BY DEF Columns, Rows, Cells, OutRow
<1>3. \A i : BufferOK(i)' = BufferOK(i) /\ LibOK(i)' = LibOK(i)
  BY <1>1 DEF BufferOK, LibOK
<1>4. FaithfulUntilGrown' = FaithfulUntilGrown /\ Inside' = Inside
  BY <1>1, <1>2 DEF FaithfulUntilGrown, CellFaithful, Inside
<1>5. Output'
  BY <1>1, <1>2, <1>4 DEF Output
<1>6. Buffers'
  BY <1>1, <1>2, <1>3 DEF Buffers
<1> QED
  BY <1>5, <1>6

\* What is said of the result set does not depend on the buffers.
LEMMA OutputFrame ==
  ASSUME Output, call' = call, UNCHANGED <<rows, out, grown, spilt>>
  PROVE  Output'
<1>1. rows' = rows /\ out' = out /\ grown' = grown /\ spilt' = spilt
  OBVIOUS
<1>2. Columns' = Columns /\ Rows' = Rows /\ OutRow' = OutRow
  BY DEF Columns, Rows, Cells, OutRow
<1>3. FaithfulUntilGrown' = FaithfulUntilGrown /\ Inside' = Inside
  BY <1>1, <1>2 DEF FaithfulUntilGrown, CellFaithful, Inside
<1> QED
  BY <1>1, <1>2, <1>3 DEF Output

\* The call starts without buffers and rows.
LEMMA BuffersInit == Init => Buffers /\ Output
<1> SUFFICES ASSUME Init PROVE Buffers /\ Output
  OBVIOUS
<1>1. /\ pc \in {"format", "init"} /\ buf = <<>> /\ rows = <<>> /\ out = <<>>
      /\ \A i \in Columns : grown[i] = 0 /\ spilt[i] = 0 /\ skip[i] = 0
  BY DEF Init, Columns
<1>2. Buffers
  BY <1>1 DEF Buffers
<1>3. FaithfulUntilGrown /\ Inside
  BY <1>1 DEF FaithfulUntilGrown, Inside
<1>4. Output
  BY <1>1, <1>3 DEF Output
<1> QED
  BY <1>2, <1>4

\* BindParams: in a query the buffers get their sizes.
LEMMA BindParamsStep ==
  ASSUME Control, Buffers, Output, BindParams
  PROVE  Buffers' /\ Output'
<1>1. /\ pc = "params" /\ call' = call /\ call \in Calls
      /\ lib' = lib /\ rows' = rows /\ out' = out /\ grown' = grown /\ spilt' = spilt
      /\ skip' = skip
  BY DEF BindParams, Control
<1>2. Output'
  BY <1>1, OutputFrame
<1>3. Columns' = Columns
  BY <1>1 DEF Columns
<1>4. rows = <<>> /\ out = <<>> /\ \A i \in Columns : grown[i] = 0
  BY <1>1 DEF Buffers
<1>5. \/ pc' = "done" /\ buf' = buf
      \/ pc' = "execute" /\ call.kind = "bind" /\ BindOutputs
      \/ pc' = "execute" /\ call.kind # "bind" /\ buf' = buf
  BY DEF BindParams, Return, Continue
<1>6. CASE pc' = "execute" /\ call.kind = "bind" /\ BindOutputs
  <2>1. DOMAIN buf' = Columns /\ \A i \in Columns : BufferOK(i)'
    BY <1>1, <1>6, BoundBuffers
  <2>2. \A i \in DOMAIN buf' : Len(buf'[i]) > 0
    BY <2>1 DEF BufferOK
  <2> QED
    BY <1>1, <1>2, <1>3, <1>4, <1>6, <2>1, <2>2 DEF Buffers
<1>7. CASE buf' = buf /\ (pc' = "done" \/ (pc' = "execute" /\ call.kind # "bind"))
  BY <1>1, <1>2, <1>3, <1>4, <1>7 DEF Buffers
<1> QED
  BY <1>5, <1>6, <1>7

\* ExecuteStatement: the library's copies are of the buffers as they are.
LEMMA ExecuteStatementStep ==
  ASSUME Control, Buffers, Output, ExecuteStatement
  PROVE  Buffers' /\ Output'
<1>1. /\ pc = "execute" /\ call' = call /\ call.kind \in {"bind", "exec"}
      /\ buf' = buf /\ len' = len /\ rows' = rows /\ out' = out /\ grown' = grown
      /\ spilt' = spilt /\ skip' = skip
  BY DEF ExecuteStatement, Control
<1>2. Output'
  BY <1>1, OutputFrame
<1>3. Columns' = Columns
  BY <1>1 DEF Columns
<1>4. /\ rows = <<>> /\ out = <<>> /\ \A i \in Columns : grown[i] = 0
      /\ \A i \in DOMAIN buf : Len(buf[i]) > 0
  BY <1>1 DEF Buffers
<1>5. \/ pc' = "done"
      \/ /\ pc' = "store" /\ call.kind = "bind"
         /\ lib' = [i \in Columns |-> [cap |-> Len(buf[i]), live |-> TRUE]]
  BY <1>1 DEF ExecuteStatement, Return, Continue
<1>6. CASE pc' = "done"
  BY <1>1, <1>2, <1>3, <1>4, <1>6 DEF Buffers
<1>7. CASE /\ pc' = "store" /\ call.kind = "bind"
           /\ lib' = [i \in Columns |-> [cap |-> Len(buf[i]), live |-> TRUE]]
  <2>1. DOMAIN buf = Columns /\ \A i \in Columns : BufferOK(i)
    BY <1>1, <1>7 DEF Buffers
  <2>2. \A i \in Columns : BufferOK(i)'
    BY <1>1, <2>1 DEF BufferOK
  <2>3. ASSUME NEW i \in Columns PROVE LibOK(i)'
    <3>1. Len(buf[i]) \in Nat /\ lib'[i] = [cap |-> Len(buf[i]), live |-> TRUE]
      BY <1>7, <2>1 DEF BufferOK
    <3> QED
      BY <1>1, <3>1 DEF LibOK
  <2>4. DOMAIN lib' = Columns
    BY <1>7
  <2> QED
    BY <1>1, <1>2, <1>3, <1>4, <1>7, <2>1, <2>2, <2>3, <2>4 DEF Buffers
<1> QED
  BY <1>5, <1>6, <1>7

\* Every step keeps the buffers and the result set as described.
LEMMA BuffersStep == Control /\ Buffers /\ Output /\ [Next]_vars => Buffers' /\ Output'
<1> SUFFICES ASSUME Control, Buffers, Output, [Next]_vars PROVE Buffers' /\ Output'
  OBVIOUS
<1>1. CASE UNCHANGED <<call, pc, bufVars>>
  BY <1>1, BuffersFrame
<1>2. CASE QueryText
  BY <1>2, BuffersFrame DEF QueryText
<1>4. CASE StmtInit
  BY <1>4, BuffersFrame DEF StmtInit, Return, Continue
<1>5. CASE CheckFields
  BY <1>5, BuffersFrame DEF CheckFields, Return, Continue
<1>6. CASE ExecuteLost
  BY <1>6, BuffersFrame DEF ExecuteLost, Return
<1>7. CASE StoreResult
  BY <1>7, BuffersFrame DEF StoreResult, Return, Continue
<1>8. CASE FetchEnd
  BY <1>8, BuffersFrame DEF FetchEnd, Return
<1> QED
  BY <1>1, <1>2, <1>4, <1>5, <1>6, <1>7, <1>8, BindParamsStep, ExecuteStatementStep,
     FetchRowStep DEF Next, vars

\* The state of a call is well-typed, and every buffer handed to the library has room.
THEOREM QueryTypeCorrect == Spec => []TypeOK
<1>1. Control /\ Meta /\ Buffers /\ Output => TypeOK
  BY DEF Control, Meta, Buffers, Output, TypeOK, PCs
<1> QED
  BY <1>1, ControlInit, ControlStep, BuffersInit, BuffersStep, PTL DEF Spec

\* When mysql_stmt_fetch_column succeeds: whatever the lengths, the order of the rows and the
\* truncations, the library stores nothing outside a buffer before the row that buffer first
\* grows for, and StepTupleSet reads nothing outside one in any row.
THEOREM FetchStaysInBounds ==
  ASSUME ~FetchColumnFails
  PROVE  Spec => []BuffersInBounds
<1>1. Output => BuffersInBounds
  <2> SUFFICES ASSUME Output PROVE BuffersInBounds
    OBVIOUS
  <2>1. \A i \in Columns : spilt[i] \in {0, grown[i]}
    BY DEF Output
  <2>2. ASSUME NEW r \in DOMAIN out, NEW i \in Columns, NEW j \in DOMAIN out[r].vals[i]
        PROVE  out[r].vals[i][j] # Outside
    <3>1. out[r].vals[i] \in Seq(Byte)
      BY DEF Output, Inside
    <3>2. out[r].vals[i][j] \in Byte
      BY <3>1
    <3> QED
      BY <3>2, OutsideNoByte
  <2> QED
    BY <2>1, <2>2 DEF BuffersInBounds
<1> QED
  BY <1>1, ControlInit, ControlStep, BuffersInit, BuffersStep, PTL DEF Spec

\* When mysql_stmt_fetch_column succeeds, the caller gets the server's rows, with their NULL
\* flags, up to and including the row for which FetchTruncatedResults first made the column's
\* buffer grow.
THEOREM RowsAreFaithful ==
  ASSUME ~FetchColumnFails
  PROVE  Spec => []FaithfulUntilGrown
<1>1. Output => FaithfulUntilGrown
  BY DEF Output
<1> QED
  BY <1>1, ControlInit, ControlStep, BuffersInit, BuffersStep, PTL DEF Spec

----------------------------------------------------------------------------
(* The arguments of a prepared statement.                                  *)

\* Once the statement was executed the server has the bound arguments.
Arrived ==
  call.kind # "text" /\ (ok = "ok" \/ pc \in {"store", "fetch"}) => sent = BindInputArgs

\* The arguments of a call do not change.
LEMMA ArgumentsFrame ==
  ASSUME call' = call
  PROVE  BindInputArgs' = BindInputArgs
BY DEF BindInputArgs

\* Only ExecuteStatement sends arguments, and nothing changes them afterwards.
LEMMA ArrivedStep == Control /\ Arrived /\ [Next]_vars => Arrived'
<1> SUFFICES ASSUME Control, Arrived, [Next]_vars, call'.kind # "text",
                    ok' = "ok" \/ pc' \in {"store", "fetch"}
             PROVE  sent' = BindInputArgs'
  BY DEF Arrived
<1> USE DEF Control, PCs
<1>1. CASE UNCHANGED <<call, pc, sent, ok>>
  BY <1>1, ArgumentsFrame DEF Arrived
<1>2. CASE ExecuteStatement
  BY <1>2, ArgumentsFrame DEF ExecuteStatement, Return
<1>3. CASE StoreResult
  BY <1>3, ArgumentsFrame DEF StoreResult, Arrived
<1>4. CASE FetchEnd
  BY <1>4, ArgumentsFrame DEF FetchEnd, Arrived
<1>5. ~QueryText /\ ~StmtInit /\ ~CheckFields /\ ~BindParams /\ ~ExecuteLost
  BY DEF QueryText, StmtInit, CheckFields, BindParams, ExecuteLost, Return, Continue
<1>6. CASE FetchRow \/ UNCHANGED vars
  BY <1>1, <1>6 DEF FetchRow, vars
<1> QED
  BY <1>2, <1>3, <1>4, <1>5, <1>6 DEF Next

\* InputType gives every bound type, strings of all kinds taken as one, a type of its own, from
\* which the server gets it back.
LEMMA InputTypeRead ==
  \A t \in BoundTypes : \A v :
    ReadParam([t |-> InputType(t), v |-> v]) = AsBound([t |-> t, v |-> v])
BY DEF BoundTypes, NumberTypes, InputType, ReadParam, AsBound

----------------------------------------------------------------------------
(* The arguments in a text.  Formatter counts the format fields before a   *)
(* hole, the server the literals: both give the argument's place.          *)

\* A set of natural numbers has a least member.
LEMMA Least ==
  ASSUME NEW T \in SUBSET Nat, T # {}
  PROVE  \E x \in T : \A y \in T : x <= y
<1> DEFINE R == {p \in Nat \X Nat : p[1] < p[2]}
<1>1. OpToRel(<, Nat) = R
  BY Zenon DEF OpToRel
<1>2. IsWellFoundedOn(R, Nat)
  BY NatLessThanWellFounded, <1>1, Zenon
<1>3. PICK x \in T : \A y \in T : ~(<<y, x>> \in R)
  BY <1>2, WFMin
<1>4. \A y \in T : x <= y
  <2> SUFFICES ASSUME NEW y \in T PROVE ~(y < x)
    OBVIOUS
  <2>1. <<y, x>> \in Nat \X Nat
    OBVIOUS
  <2> QED
    BY <1>3, <2>1
<1> QED
  BY <1>4

\* The members of S up to i.
UpTo(S, i) == {j \in S : j <= i}

\* Among n numbers there is one with k of them up to it, for every k from 1 to n.
LEMMA RankExists ==
  ASSUME NEW n \in Nat, NEW S, S \subseteq 1 .. n,
         NEW k \in Nat, 0 < k, k <= Cardinality(S)
  PROVE  \E i \in S : Cardinality(UpTo(S, i)) = k
<1> DEFINE U(i) == {j \in S : j <= i}
           T == {i \in Nat : i <= n /\ Cardinality(U(i)) >= k}
<1>1. \A s \in S : s \in Nat /\ 1 <= s /\ s <= n
  OBVIOUS
<1>2. IsFiniteSet(S) /\ Cardinality(S) \in Nat
  BY <1>1, FS_BoundedSetOfNaturals, FS_CardinalityType
<1>3. \A i : IsFiniteSet(U(i)) /\ Cardinality(U(i)) \in Nat
  <2> SUFFICES ASSUME NEW i PROVE IsFiniteSet(U(i)) /\ Cardinality(U(i)) \in Nat
    OBVIOUS
  <2>1. U(i) \in SUBSET S
    OBVIOUS
  <2> QED
    BY <1>2, <2>1, FS_Subset, FS_CardinalityType
<1>4. U(n) = S
  BY <1>1
<1>5. T \subseteq Nat /\ n \in T
  BY <1>2, <1>4
<1>6. PICK i \in T : \A y \in T : i <= y
  <2> HIDE DEF T
  <2> QED
    BY <1>5, Least
<1>7. i \in Nat /\ i <= n /\ Cardinality(U(i)) >= k
  OBVIOUS
<1> HIDE DEF T
<1>8. i # 0
  <2>1. U(0) = {}
    <3>1. \A j \in S : ~(j <= 0)
      BY <1>1
    <3> QED
      BY <3>1, Zenon
  <2>2. Cardinality(U(0)) = 0
    BY <2>1, FS_EmptySet
  <2> HIDE DEF U
  <2> QED
    BY <1>7, <2>2
<1>9. i - 1 \in Nat /\ i - 1 <= n /\ i - 1 < i
  BY <1>7, <1>8
<1>10. Cardinality(U(i - 1)) < k
  <2>1. i - 1 \notin T
    BY <1>6, <1>7, <1>9
  <2> HIDE DEF U
  <2>2. ~(Cardinality(U(i - 1)) >= k)
    BY <1>9, <2>1 DEF T
  <2> QED
    BY <1>3, <2>2
<1>11. U(i) = IF i \in S THEN U(i - 1) \cup {i} ELSE U(i - 1)
  <2>1. \A j \in S : j <= i <=> (j <= i - 1 \/ j = i)
    BY <1>1, <1>7
  <2>2. \A j : j \in U(i) <=> (j \in U(i - 1) \/ (j = i /\ i \in S))
    BY <2>1, Zenon
  <2> HIDE DEF U
  <2> QED
    BY <2>2
<1>12. i \notin U(i - 1)
  BY <1>7, <1>9
<1> HIDE DEF U
<1>13. i \in S
  BY <1>3, <1>7, <1>10, <1>11
<1>14. Cardinality(U(i)) = Cardinality(U(i - 1)) + 1
  BY <1>3, <1>11, <1>12, <1>13, FS_AddElement
<1>15. Cardinality(U(i)) = k
  BY <1>3, <1>7, <1>10, <1>14
<1> QED
  BY <1>13, <1>15 DEF U, UpTo

Rank(items, i) == Cardinality(UpTo(Holes(items), i))

\* The items and what they are spelled as.
LEMMA SpelledFacts ==
  ASSUME NEW items \in Seq(Items), NEW h
  PROVE  /\ DOMAIN Spelled(items, h) = 1 .. Len(items)
         /\ \A i \in 1 .. Len(items) :
              /\ items[i] \in Items
              /\ items[i] = "hole" => Spelled(items, h)[i] = Token(h)
              /\ items[i] # "hole" =>
                   Spelled(items, h)[i] = Token(IF items[i] = "mark" THEN "?" ELSE items[i])
<1>1. DOMAIN items = 1 .. Len(items) /\ \A i \in 1 .. Len(items) : items[i] \in Items
  OBVIOUS
<1> QED
  BY <1>1 DEF Spelled

\* ConvertPlaceHolder turns exactly the holes into format fields.
LEMMA HolesConverted ==
  ASSUME NEW items \in Seq(Items), Escaped(items)
  PROVE  ConvertPlaceHolder(Written(items)) = Spelled(items, "{}")
<1> DEFINE sql == Spelled(items, "?")
           n == Len(items)
<1>1. n \in Nat /\ DOMAIN items = 1 .. n
  OBVIOUS
<1>2. \A x : Token(x).k = x
  BY DEF Token
<1>3. ASSUME NEW i \in 1 .. n
      PROVE  /\ sql[i].k = "?" <=> items[i] \in {"hole", "mark"}
             /\ sql[i].k = "esc" <=> items[i] = "esc"
  BY <1>2, SpelledFacts DEF Items
<1>4. ASSUME NEW i \in 1 .. n
      PROVE  (IF sql[i].k = "?" /\ (i = 1 \/ sql[i-1].k # "esc") THEN Token("{}") ELSE sql[i])
               = Spelled(items, "{}")[i]
  <2>1. i # 1 => i - 1 \in 1 .. n
    BY <1>1
  <2>2. /\ items[i] = "mark" => i > 1 /\ items[i-1] = "esc"
        /\ items[i] = "hole" => i = 1 \/ items[i-1] # "esc"
    BY <1>1 DEF Escaped
  <2>3. sql[i].k = "?" /\ (i = 1 \/ sql[i-1].k # "esc") <=> items[i] = "hole"
    BY <1>1, <1>3, <2>1, <2>2
  <2>4. items[i] = "hole" => Spelled(items, "{}")[i] = Token("{}")
    BY SpelledFacts
  <2>5. items[i] # "hole" => Spelled(items, "{}")[i] = sql[i]
    <3>1. items[i] # "hole" => sql[i] = Token(IF items[i] = "mark" THEN "?" ELSE items[i])
      BY SpelledFacts
    <3>2. items[i] # "hole" =>
            Spelled(items, "{}")[i] = Token(IF items[i] = "mark" THEN "?" ELSE items[i])
      BY SpelledFacts
    <3> QED
      BY <3>1, <3>2
  <2> HIDE DEF sql, n
  <2> QED
    BY <2>3, <2>4, <2>5
<1>5. DOMAIN sql = 1 .. n /\ DOMAIN Spelled(items, "{}") = 1 .. n
  BY SpelledFacts
<1>6. ConvertPlaceHolder(sql) =
        [i \in 1 .. n |-> IF sql[i].k = "?" /\ (i = 1 \/ sql[i-1].k # "esc")
                          THEN Token("{}") ELSE sql[i]]
  BY <1>5 DEF ConvertPlaceHolder
<1>7. Spelled(items, "{}") = [i \in 1 .. n |-> Spelled(items, "{}")[i]]
  BY <1>1, <1>5 DEF Spelled
<1> HIDE DEF sql, n
<1> QED
  BY <1>4, <1>6, <1>7 DEF Written, sql

\* Between the holes the text is as written; the k-th hole shows the k-th argument.
LEMMA FormatFacts ==
  ASSUME NEW items \in Seq(Items), Escaped(items), NEW args,
         DOMAIN args = 1 .. Cardinality(Holes(items))
  PROVE  LET s == FormatQuery(Written(items), args)
         IN  /\ DOMAIN s = 1 .. Len(items)
             /\ \A i \in 1 .. Len(items) :
                  /\ items[i] = "hole" =>
                       /\ Rank(items, i) \in DOMAIN args
                       /\ s[i] = [k |-> "lit", v |-> SpecialConvert(args[Rank(items, i)])]
                  /\ items[i] # "hole" => s[i] = Spelled(items, "lit")[i]
<1> DEFINE s == FormatQuery(Written(items), args)
           fmt == Spelled(items, "{}")
           n == Len(items)
           H == Holes(items)
           texts == [i \in DOMAIN args |-> SpecialConvert(args[i])]
<1> HIDE DEF s, texts
<1>1. n \in Nat /\ DOMAIN items = 1 .. n /\ DOMAIN fmt = 1 .. n
  <2>1. DOMAIN fmt = 1 .. Len(items)
    BY SpelledFacts
  <2>2. Len(items) \in Nat /\ DOMAIN items = 1 .. Len(items)
    OBVIOUS
  <2> QED
    BY <2>1, <2>2
<1>2. \A i \in 1 .. n : fmt[i].k = "{}" <=> i \in H
  <2>1. \A x : Token(x).k = x
    BY DEF Token
  <2>2. ASSUME NEW i \in 1 .. n PROVE fmt[i].k = "{}" <=> items[i] = "hole"
    <3>1. /\ items[i] \in Items
          /\ items[i] = "hole" => fmt[i] = Token("{}")
          /\ items[i] # "hole" => fmt[i] = Token(IF items[i] = "mark" THEN "?" ELSE items[i])
      BY SpelledFacts
    <3> HIDE DEF fmt
    <3> QED
      BY <2>1, <3>1 DEF Items
  <2> QED
    BY <1>1, <2>2 DEF Holes
<1>3. H \subseteq 1 .. n
  BY <1>1 DEF Holes
<1>4. IsFiniteSet(H)
  <2> HIDE DEF H, n, fmt
  <2>1. n \in Nat /\ H \in SUBSET Nat /\ \A x \in H : x <= n
    BY <1>1, <1>3
  <2> QED
    BY <2>1, FS_BoundedSetOfNaturals
<1>5. s = FormatString(fmt, texts)
  BY HolesConverted, Zenon DEF FormatQuery, s, texts
<1>6. ASSUME NEW i \in 1 .. n
      PROVE  {j \in 1 .. i : fmt[j].k = "{}"} = {j \in H : j <= i}
  <2> HIDE DEF fmt, n, H
  <2>1. \A j : j \in 1 .. i <=> j \in 1 .. n /\ j <= i
    BY <1>1
  <2> QED
    BY <1>2, <1>3, <2>1
<1>7. ASSUME NEW i \in H
      PROVE  Rank(items, i) \in 1 .. Cardinality(H)
  <2> DEFINE U == {j \in H : j <= i}
  <2>1. U \in SUBSET H /\ i \in U
    BY <1>3
  <2>2. IsFiniteSet(U) /\ Cardinality(U) <= Cardinality(H)
    BY <1>4, <2>1, FS_Subset
  <2>3. Cardinality(U) \in Nat /\ Cardinality(H) \in Nat /\ Cardinality(U) # 0
    BY <1>4, <2>1, <2>2, FS_CardinalityType, FS_EmptySet
  <2>4. Rank(items, i) = Cardinality(U)
    BY DEF Rank, UpTo
  <2> QED
    BY <2>2, <2>3, <2>4
<1>8. ASSUME NEW i \in 1 .. n
      PROVE  s[i] = IF i \in H THEN [k |-> "lit", v |-> texts[Rank(items, i)]] ELSE fmt[i]
  <2>1. s[i] = IF fmt[i].k = "{}"
               THEN [k |-> "lit", v |-> texts[Cardinality({j \in 1 .. i : fmt[j].k = "{}"})]]
               ELSE fmt[i]
    BY <1>1, <1>5 DEF FormatString
  <2>2. Cardinality({j \in 1 .. i : fmt[j].k = "{}"}) = Rank(items, i)
    BY <1>6 DEF Rank, UpTo
  <2> HIDE DEF fmt, H, n
  <2> QED
    BY <1>2, <2>1, <2>2
<1>9. DOMAIN s = 1 .. n
  BY <1>1, <1>5 DEF FormatString
<1>10. ASSUME NEW i \in 1 .. n
       PROVE  /\ items[i] = "hole" =>
                   /\ Rank(items, i) \in DOMAIN args
                   /\ s[i] = [k |-> "lit", v |-> SpecialConvert(args[Rank(items, i)])]
              /\ items[i] # "hole" => s[i] = Spelled(items, "lit")[i]
  <2>1. items[i] = "hole" <=> i \in H
    BY <1>1 DEF Holes
  <2>2. items[i] # "hole" => fmt[i] = Spelled(items, "lit")[i]
    <3>1. items[i] # "hole" => fmt[i] = Token(IF items[i] = "mark" THEN "?" ELSE items[i])
      BY SpelledFacts
    <3>2. items[i] # "hole" =>
            Spelled(items, "lit")[i] = Token(IF items[i] = "mark" THEN "?" ELSE items[i])
      BY SpelledFacts
    <3> QED
      BY <3>1, <3>2
  <2>3. i \in H => Rank(items, i) \in DOMAIN args
    BY <1>7
  <2>4. \A k \in DOMAIN args : texts[k] = SpecialConvert(args[k])
    BY DEF texts
  <2> HIDE DEF fmt, H, n
  <2> QED
    BY <1>8, <2>1, <2>2, <2>3, <2>4
<1>11. /\ DOMAIN s = 1 .. Len(items)
       /\ \A i \in 1 .. Len(items) :
            /\ items[i] = "hole" =>
                 /\ Rank(items, i) \in DOMAIN args
                 /\ s[i] = [k |-> "lit", v |-> SpecialConvert(args[Rank(items, i)])]
            /\ items[i] # "hole" => s[i] = Spelled(items, "lit")[i]
  BY <1>9, <1>10
<1> QED
  BY <1>11 DEF s

\* The server reads a literal as the argument meant, when a text can carry it.
LEMMA LiteralRead ==
  ASSUME NEW t \in TextTypes, t # "view", NEW n
  PROVE  LET a == [t |-> t, v |-> [n |-> n, extra |-> "none"]]
         IN  ReadLiteral(SpecialConvert(a)) = Meant(a)
<1> DEFINE v == [n |-> n, extra |-> "none"]
           a == [t |-> t, v |-> v]
           c == SpecialConvert(a)
<1>1. a.t = t /\ a.v = v /\ v.n = n /\ v.extra = "none" /\ ToString(v) = v
  BY DEF ToString
<1> HIDE DEF a, v
<1>2. c.quoted = (t \in {"str", "time"}) /\ c.sort = Sort(t) /\ c.text = v
  BY <1>1 DEF SpecialConvert
<1> HIDE DEF c
<1>3. Sort(t) = "string" <=> t \in {"str", "time"}
  BY DEF Sort, TextTypes, NumberTypes
<1>4. ReadLiteral(c) = [t |-> Sort(t), v |-> v]
  BY <1>1, <1>2, <1>3 DEF ReadLiteral
<1>5. Meant(a) = [t |-> Sort(t), v |-> v]
  BY <1>1 DEF Meant
<1> QED
  BY <1>4, <1>5 DEF a, c, v

\* The arguments of a call are a sequence of typed values.
LEMMA ArgsFacts ==
  ASSUME call \in Calls
  PROVE  /\ DOMAIN call.args = 1 .. Len(call.args)
         /\ \A i \in DOMAIN call.args :
              /\ call.args[i] = [t |-> call.args[i].t,
                                 v |-> [n |-> call.args[i].v.n, extra |-> call.args[i].v.extra]]
              /\ call.args[i].t \in IF call.kind = "text" THEN TextTypes ELSE BoundTypes
<1> DEFINE n == Len(call.args)
           a == call.args
<1>1. /\ a = [i \in 1 .. n |-> [t |-> a[i].t, v |-> [n |-> a[i].v.n, extra |-> a[i].v.extra]]]
      /\ \A i \in DOMAIN a : a[i].t \in IF call.kind = "text" THEN TextTypes ELSE BoundTypes
  BY CallAssumption
<1> HIDE DEF n, a
<1>2. DOMAIN a = 1 .. n
  BY <1>1
<1>3. \A i \in 1 .. n : a[i] = [t |-> a[i].t, v |-> [n |-> a[i].v.n, extra |-> a[i].v.extra]]
  BY <1>1
<1> QED
  BY <1>1, <1>2, <1>3 DEF n, a

\* A text arrives with the caller's words and arguments, if it can carry them.
LEMMA TextRead ==
  ASSUME call \in Calls, call.kind = "text", Carried(call.args),
         sent = FormatQuery(Written(call.items), call.args)
  PROVE  TextMeant
<1> DEFINE items == call.items
           n == Len(items)
           H == Holes(items)
           lits == {i \in DOMAIN sent : sent[i].k = "lit"}
           args == call.args
           nth(k) == CHOOSE i \in lits : Cardinality({j \in lits : j <= i}) = k
<1>1. items \in Seq(Items) /\ Escaped(items) /\ Cardinality(H) = Len(call.args)
  BY CallAssumption
<1>2. DOMAIN args = 1 .. Cardinality(H)
  BY <1>1, ArgsFacts
<1>3. n \in Nat /\ DOMAIN items = 1 .. n
  BY <1>1
<1> HIDE DEF lits, nth, H, args
<1>4. DOMAIN sent = 1 .. n
  BY <1>1, <1>2, FormatFacts DEF H, args
<1>5. ASSUME NEW i \in 1 .. n
      PROVE  /\ items[i] = "hole" =>
                  /\ Rank(items, i) \in DOMAIN args
                  /\ sent[i] = [k |-> "lit", v |-> SpecialConvert(args[Rank(items, i)])]
             /\ items[i] # "hole" => sent[i] = Spelled(items, "lit")[i]
  BY <1>1, <1>2, FormatFacts DEF H, args
<1> HIDE DEF items, n
<1>6. ASSUME NEW i \in 1 .. n
      PROVE  /\ sent[i].k = Spelled(items, "lit")[i].k
             /\ sent[i].k = "lit" <=> items[i] = "hole"
  <2>1. \A x : Token(x).k = x
    BY DEF Token
  <2>2. /\ items[i] \in Items
        /\ items[i] = "hole" => Spelled(items, "lit")[i] = Token("lit")
        /\ items[i] # "hole" =>
             Spelled(items, "lit")[i] = Token(IF items[i] = "mark" THEN "?" ELSE items[i])
    BY <1>1, SpelledFacts DEF n
  <2>3. CASE items[i] = "hole"
    <3>1. sent[i] = [k |-> "lit", v |-> SpecialConvert(args[Rank(items, i)])]
      BY <1>5, <2>3
    <3>2. sent[i].k = "lit"
      BY <3>1
    <3> QED
      BY <2>1, <2>2, <2>3, <3>2
  <2>4. CASE items[i] # "hole"
    <3> DEFINE x == IF items[i] = "mark" THEN "?" ELSE items[i]
    <3>1. x # "lit"
      BY <2>2, <2>4 DEF Items
    <3>2. sent[i] = Spelled(items, "lit")[i] /\ Spelled(items, "lit")[i] = Token(x)
      BY <1>5, <2>2, <2>4
    <3> HIDE DEF x
    <3> QED
      BY <2>1, <2>4, <3>1, <3>2
  <2> QED
    BY <2>3, <2>4
<1>7. SameShape(sent, items)
  <2>1. DOMAIN Spelled(items, "lit") = 1 .. n
    BY <1>1, SpelledFacts DEF n
  <2> QED
    BY <1>4, <1>6, <2>1 DEF SameShape
<1>8. lits = H
  BY <1>3, <1>4, <1>6 DEF Holes, lits, H
<1>9. ASSUME NEW k \in DOMAIN args
      PROVE  ReadLiteral(sent[nth(k)].v) = Meant(args[k])
  <2>1. k \in Nat /\ 0 < k /\ k <= Cardinality(H) /\ H \subseteq 1 .. n
    <3>1. H \subseteq 1 .. n
      BY <1>3 DEF Holes, H
    <3>2. H \in SUBSET Nat /\ \A x \in H : x <= n
      BY <1>3, <3>1
    <3>3. IsFiniteSet(H)
      BY <1>3, <3>2, FS_BoundedSetOfNaturals
    <3>4. Cardinality(H) \in Nat
      BY <3>3, FS_CardinalityType
    <3> QED
      BY <1>2, <3>1, <3>4
  <2>2. \E i \in H : Cardinality(UpTo(H, i)) = k
    BY <1>3, <2>1, RankExists
  <2>3. nth(k) \in H /\ Cardinality(UpTo(H, nth(k))) = k
    BY <1>8, <2>2 DEF nth, UpTo
  <2> DEFINE i == nth(k)
  <2> HIDE DEF i
  <2>4. i \in 1 .. n /\ items[i] = "hole" /\ Rank(items, i) = k
    BY <1>3, <2>3 DEF Holes, Rank, i, H
  <2>5. sent[i].v = SpecialConvert(args[k])
    <3>1. sent[i] = [k |-> "lit", v |-> SpecialConvert(args[k])]
      BY <1>5, <2>4
    <3> QED
      BY <3>1
  <2>6. /\ args[k] = [t |-> args[k].t, v |-> [n |-> args[k].v.n, extra |-> args[k].v.extra]]
        /\ args[k].t \in TextTypes
    BY ArgsFacts DEF args
  <2>7. args[k].t # "view" /\ args[k].v.extra = "none"
    BY DEF Carried, args
  <2>8. args[k] = [t |-> args[k].t, v |-> [n |-> args[k].v.n, extra |-> "none"]]
    BY <2>6, <2>7, Zenon
  <2>9. \A t \in TextTypes : \A m : t # "view" =>
          LET a == [t |-> t, v |-> [n |-> m, extra |-> "none"]]
          IN  ReadLiteral(SpecialConvert(a)) = Meant(a)
    BY LiteralRead
  <2>10. ReadLiteral(SpecialConvert(args[k])) = Meant(args[k])
    BY <2>6, <2>7, <2>8, <2>9, Zenon
  <2> QED
    BY <2>5, <2>10 DEF i
<1>10. ArgumentsOf(sent) = [k \in 1 .. Cardinality(lits) |-> ReadLiteral(sent[nth(k)].v)]
  BY Zenon DEF ArgumentsOf, lits, nth
<1>11. ArgumentsOf(sent) = [k \in DOMAIN args |-> Meant(args[k])]
  BY <1>2, <1>8, <1>9, <1>10
<1> QED
  BY <1>7, <1>11 DEF TextMeant, items, args

\* A text is sent once, with the arguments as they are then.
TextSent ==
  call.kind = "text" /\ pc = "done" => sent = FormatQuery(Written(call.items), call.args)

\* Only the step that formats the statement ends a call of the text path.
LEMMA TextSentStep == Control /\ TextSent /\ [Next]_vars => TextSent'
<1> SUFFICES ASSUME Control, TextSent, [Next]_vars, call'.kind = "text", pc' = "done"
             PROVE  sent' = FormatQuery(Written(call'.items), call'.args)
  BY DEF TextSent
<1> USE DEF Control, PCs
<1>1. CASE QueryText
  BY <1>1 DEF QueryText
<1>2. CASE UNCHANGED vars
  BY <1>2 DEF vars, TextSent
<1>3. /\ ~StmtInit /\ ~CheckFields /\ ~BindParams /\ ~ExecuteLost
      /\ ~ExecuteStatement /\ ~StoreResult /\ ~FetchRow /\ ~FetchEnd
  BY DEF StmtInit, CheckFields, BindParams, ExecuteLost, ExecuteStatement,
         StoreResult, FetchRow, FetchEnd
<1> QED
  BY <1>1, <1>2, <1>3 DEF Next

\* The server reads the arguments the caller passed, in their order: as bound parameters,
\* whatever they hold, or as the literals of a text whose other words are the caller's, when
\* none of them is a string_view, char*, a string with a quote or backslash, or a time with a
\* fraction of a second.
THEOREM ArgumentsReachTheServer == Spec => []ArgumentsArrive
<1>1. Init => Arrived /\ TextSent
  BY DEF Init, Arrived, TextSent
<1>2. Control /\ Arrived /\ TextSent => ArgumentsArrive
  <2> SUFFICES ASSUME Control, Arrived, TextSent PROVE ArgumentsArrive
    OBVIOUS
  <2>1. call \in Calls
    BY DEF Control
  <2>2. ASSUME call.kind = "text", pc = "done", Carried(call.args) PROVE TextMeant
    BY <2>1, <2>2, TextRead DEF TextSent
  <2>3. ASSUME call.kind # "text", ok = "ok" \/ pc \in {"store", "fetch"}
        PROVE  [i \in DOMAIN sent |-> ReadParam(sent[i])] =
               [i \in DOMAIN call.args |-> AsBound(call.args[i])]
    <3> DEFINE a == call.args
    <3>1. sent = BindInputArgs /\ DOMAIN sent = DOMAIN a
      BY <2>3 DEF Arrived, BindInputArgs
    <3>2. ASSUME NEW i \in DOMAIN a PROVE ReadParam(sent[i]) = AsBound(a[i])
      <4> DEFINE t == a[i].t
                 w == a[i].v
      <4>1. a[i] = [t |-> t, v |-> w] /\ t \in BoundTypes
        <5>1. /\ a[i] = [t |-> t, v |-> [n |-> w.n, extra |-> w.extra]]
              /\ t \in BoundTypes
          BY <2>1, <2>3, ArgsFacts
        <5> HIDE DEF a
        <5> QED
          BY <5>1
      <4>2. sent[i] = [t |-> InputType(t), v |-> w]
        BY <3>1 DEF BindInputArgs
      <4> HIDE DEF t, w, a
      <4> QED
        BY <4>1, <4>2, InputTypeRead
    <3> QED
      BY <3>1, <3>2
  <2> QED
    BY <2>2, <2>3 DEF ArgumentsArrive
<1> QED
  BY <1>1, <1>2, ArrivedStep, TextSentStep, ControlInit, ControlStep, PTL DEF Spec
=============================================================================
