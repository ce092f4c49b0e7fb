------------------------- MODULE MysqlResultsProofs -------------------------
(***************************************************************************)
(* Proofs about MysqlResults objects and the MYSQL_RES they own, for every *)
(* number of objects, calls and rows.                                      *)
(***************************************************************************)
EXTENDS MysqlResults, SequenceTheorems, TLAPS

----------------------------------------------------------------------------
(* What the operations do to the members of an object.                     *)

Row == [call : 1 .. MaxCalls, buf : Res \cup {None}]

\* A constructed object is empty.
LEMMA FreshFacts ==
  /\ Fresh \in Results
  /\ Fresh.num = 0 /\ Fresh.has_value = FALSE
  /\ Fresh.rows = <<>> /\ Fresh.nulls = <<>> /\ Fresh.fields = <<>> /\ Fresh.raw = None
BY DEF Fresh, Results

\* Clear() keeps the error number and nothing else.
LEMMA ClearFacts ==
  ASSUME NEW x \in Results
  PROVE  /\ Clear(x) \in Results
         /\ Clear(x).num = x.num /\ Clear(x).has_value = FALSE
         /\ Clear(x).rows = <<>> /\ Clear(x).nulls = <<>> /\ Clear(x).fields = <<>>
         /\ Clear(x).raw = None
BY FreshFacts DEF Clear, Results

\* An error changes the number and the message only.
LEMMA FailedFacts ==
  ASSUME NEW x \in Results, NEW n \in {0, 1}
  PROVE  /\ Failed(x, n) \in Results /\ Failed(x, n).num = n
         /\ Failed(x, n).has_value = x.has_value /\ Failed(x, n).rows = x.rows
         /\ Failed(x, n).raw = x.raw
BY DEF Failed, Results

\* k rows of one call, and their flags, are sequences of length k.
Repeat(v, k) == [i \in 1 .. k |-> v]

\* A sequence of k equal rows.
LEMMA RowsFacts ==
  ASSUME NEW S, NEW v \in S, NEW k \in Nat
  PROVE  /\ [i \in 1 .. k |-> v] \in Seq(S) /\ Len([i \in 1 .. k |-> v]) = k
         /\ <<>> \o [i \in 1 .. k |-> v] = [i \in 1 .. k |-> v]
OBVIOUS

\* Fetching k rows into a cleared object leaves exactly these.
LEMMA FetchedFacts ==
  ASSUME NEW x \in Results, NEW q \in 1 .. MaxCalls, NEW k \in 0 .. MaxRows,
         NEW b \in Res \cup {None}
  PROVE  LET w == Fetched(Clear(x), q, k, b)
         IN  /\ w \in Results
             /\ w.rows = Repeat([call |-> q, buf |-> b], k)
             /\ w.nulls = Repeat(q, k)
             /\ w.fields = <<>> /\ w.raw = None /\ w.has_value = FALSE
<1> DEFINE r == [i \in 1 .. k |-> [call |-> q, buf |-> b]]
           n == [i \in 1 .. k |-> q]
           y == Clear(x)
           w == Fetched(y, q, k, b)
<1>1. k \in Nat /\ [call |-> q, buf |-> b] \in Row
  BY RowsAssumption DEF Row
<1>2. r \in Seq(Row) /\ <<>> \o r = r
  BY <1>1, RowsFacts
<1>3. n \in Seq(1 .. MaxCalls) /\ <<>> \o n = n
  BY <1>1, RowsFacts
<1>4. w = [y EXCEPT !.rows = y.rows \o r, !.nulls = y.nulls \o n]
  BY DEF Fetched
<1>5. /\ y \in Results /\ y.rows = <<>> /\ y.nulls = <<>> /\ y.fields = <<>>
      /\ y.raw = None /\ y.has_value = FALSE
  BY ClearFacts
<1>6. y.rows \o r = r /\ y.nulls \o n = n
  BY <1>2, <1>3, <1>5
<1>7. w = [y EXCEPT !.rows = r, !.nulls = n]
  BY <1>4, <1>6
<1> HIDE DEF r, n, y, w
<1>8. /\ w \in Results /\ w.rows = r /\ w.nulls = n
      /\ w.fields = <<>> /\ w.raw = None /\ w.has_value = FALSE
  BY <1>2, <1>3, <1>5, <1>7 DEF Results, Row
<1> QED
  BY <1>8 DEF r, n, y, w, Repeat

\* The end of a query that succeeded: its MYSQL_RES, if any, its field names and
\* has_value_ are set, the rows stay.
LEMMA ValuedFacts ==
  ASSUME NEW x \in Results, x.fields = <<>>, NEW q \in 1 .. MaxCalls
  PROVE  /\ Valued(Named(x, q)) \in Results
         /\ Valued(Named(x, q)).has_value = TRUE /\ Valued(Named(x, q)).fields = <<q>>
         /\ Valued(Named(x, q)).rows = x.rows /\ Valued(Named(x, q)).nulls = x.nulls
         /\ Valued(Named(x, q)).num = x.num /\ Valued(Named(x, q)).raw = x.raw
<1>1. Append(x.fields, q) = <<q>> /\ <<q>> \in Seq(1 .. MaxCalls)
  OBVIOUS
<1>2. /\ Named(x, q) \in Results /\ Named(x, q).fields = <<q>>
      /\ Named(x, q).rows = x.rows /\ Named(x, q).nulls = x.nulls
      /\ Named(x, q).num = x.num /\ Named(x, q).raw = x.raw
  BY <1>1 DEF Named, Results
<1> HIDE DEF Named
<1> QED
  BY <1>2 DEF Valued, Results

\* SetRawMysqlRes changes nothing else.
LEMMA StoredFacts ==
  ASSUME NEW x \in Results, NEW r \in Res
  PROVE  /\ Stored(x, r) \in Results /\ Stored(x, r).raw = r
         /\ Stored(x, r).rows = x.rows /\ Stored(x, r).nulls = x.nulls
         /\ Stored(x, r).fields = x.fields /\ Stored(x, r).num = x.num
         /\ Stored(x, r).has_value = x.has_value
BY DEF Stored, Results

\* A moved-from object owns nothing.
LEMMA MovedFacts ==
  ASSUME NEW x \in Results
  PROVE  /\ MovedFrom(x) \in Results
         /\ MovedFrom(x).rows = <<>> /\ MovedFrom(x).raw = None
         /\ MovedFrom(x).num = x.num /\ MovedFrom(x).has_value = x.has_value
<1> DEFINE A == Seq(Row)
           B == Seq(1 .. MaxCalls)
<1>1. <<>> \in A /\ <<>> \in B
  OBVIOUS
<1>2. Results = [num : {0, 1}, msg : BOOLEAN, has_value : BOOLEAN, rows : A, nulls : B,
                 fields : B, raw : Res \cup {None}]
  BY DEF Results, Row
<1> HIDE DEF A, B
<1> QED
  BY <1>1, <1>2 DEF MovedFrom

\* GetResultSet moves the rows out and leaves the rest.
LEMMA DrainedFacts ==
  ASSUME NEW x \in Results
  PROVE  LET y == [x EXCEPT !.rows = <<>>, !.has_value = FALSE]
         IN  /\ y \in Results /\ y.has_value = FALSE
             /\ y.num = x.num /\ y.raw = x.raw
<1> DEFINE A == Seq(Row)
           B == Seq(1 .. MaxCalls)
<1>1. <<>> \in A
  OBVIOUS
<1>2. Results = [num : {0, 1}, msg : BOOLEAN, has_value : BOOLEAN, rows : A, nulls : B,
                 fields : B, raw : Res \cup {None}]
  BY DEF Results, Row
<1> HIDE DEF A, B
<1> QED
  BY <1>1, <1>2

\* The object a move fills has every member of the source but the number.
LEMMA MoveTargetFacts ==
  ASSUME NEW x \in Results, NEW n \in {0, 1}
  PROVE  /\ [x EXCEPT !.num = n] \in Results /\ [x EXCEPT !.num = n].num = n
         /\ [x EXCEPT !.num = n].has_value = x.has_value
         /\ [x EXCEPT !.num = n].rows = x.rows /\ [x EXCEPT !.num = n].nulls = x.nulls
         /\ [x EXCEPT !.num = n].fields = x.fields /\ [x EXCEPT !.num = n].raw = x.raw
BY DEF Results

----------------------------------------------------------------------------
(* The inductive invariant.  Objects that are not constructed are covered   *)
(* too: they own nothing.                                                   *)

CallRecord == [call : 0 .. MaxCalls, result : {"none", "ok", "failed"}, rows : 0 .. MaxRows]

\* What has_value_ promises: the rows, flags and names of the call l, all of it.
Complete(x, l) ==
  /\ l.result = "ok"
  /\ Len(x.rows) = l.rows
  /\ \A i \in 1 .. Len(x.rows) : x.rows[i].call = l.call
  /\ x.nulls = [i \in 1 .. l.rows |-> l.call]
  /\ x.fields = <<l.call>>

\* An object x of mode m whose last call was l.
Good(m, x, l) ==
  /\ x \in Results /\ l \in CallRecord
  /\ x.raw # None => m = "NativeString"
  /\ m = "NativeString" => \A i \in 1 .. Len(x.rows) : x.rows[i].buf = x.raw
  /\ m = "OnlyExec" => x.has_value = FALSE
  /\ x.has_value /\ l.call # 0 => Complete(x, l)
  /\ ~MoveFailed /\ ~OutOfMemory /\ l.result = "failed" => x.num # 0

Globals ==
  /\ mode \in Modes /\ live \subseteq Object /\ calls \in 0 .. MaxCalls
  /\ allocated \subseteq Res /\ freed \subseteq allocated /\ lost \subseteq allocated
  /\ metas \in Nat
  /\ DOMAIN obj = Object /\ DOMAIN last = Object

Objects ==
  /\ obj = [o \in Object |-> obj[o]] /\ last = [o \in Object |-> last[o]]
  /\ \A o \in Object : Good(mode, obj[o], last[o])

\* A MYSQL_RES has one owner, a constructed object, and is not freed while owned.
Owned ==
  \A o \in Object : obj[o].raw # None =>
    /\ o \in live /\ obj[o].raw \in allocated \ freed
    /\ \A p \in Object : obj[p].raw = obj[o].raw => p = o

Inv == Globals /\ Objects /\ Owned /\ StoredResultsFreed

----------------------------------------------------------------------------
(* What each call leaves in an object is good.                              *)

\* An object nobody called with has a record of its own.
LEMMA NoCallType == NoCall \in CallRecord /\ NoCall.call = 0 /\ NoCall.result = "none"
BY RowsAssumption DEF NoCall, CallRecord

\* A constructed object is consistent with not having been used.
LEMMA FreshGood == ASSUME NEW m \in Modes PROVE Good(m, Fresh, NoCall)
BY FreshFacts, NoCallType DEF Good

\* A cleared object, whatever the call that cleared it answered.
LEMMA ClearGood ==
  ASSUME NEW m \in Modes, NEW x \in Results, NEW l \in CallRecord, l.result # "failed"
  PROVE  Good(m, Clear(x), l) /\ Clear(x).raw = None
<1> DEFINE y == Clear(x)
<1>1. y \in Results /\ y.has_value = FALSE /\ y.rows = <<>> /\ y.raw = None
  BY ClearFacts
<1> HIDE DEF y
<1>2. Good(m, y, l)
  BY <1>1 DEF Good
<1> QED
  BY <1>1, <1>2 DEF y

\* A call that failed, or had no result set, before the first row.
LEMMA RefusedGood ==
  ASSUME NEW m \in Modes, NEW x \in Results, NEW l \in CallRecord, NEW n \in {0, 1},
         OutOfMemory \/ l.result # "failed" \/ n = 1
  PROVE  Good(m, Failed(Clear(x), n), l) /\ Failed(Clear(x), n).raw = None
<1> DEFINE y == Clear(x)
           z == Failed(y, n)
<1>1. y \in Results /\ y.has_value = FALSE /\ y.rows = <<>> /\ y.raw = None
  BY ClearFacts
<1> HIDE DEF y
<1>2. z \in Results /\ z.num = n /\ z.has_value = FALSE /\ z.rows = <<>> /\ z.raw = None
  BY <1>1, FailedFacts
<1> HIDE DEF z
<1>3. Good(m, z, l)
  BY <1>2 DEF Good
<1> QED
  BY <1>2, <1>3 DEF y, z

\* A prepared statement that failed after k rows: the rows stay, has_value_ is not set.
LEMMA FetchFailedGood ==
  ASSUME NEW x \in Results, NEW l \in CallRecord, NEW q \in 1 .. MaxCalls,
         NEW k \in 0 .. MaxRows
  PROVE  LET z == Failed(Fetched(Clear(x), q, k, None), 1)
         IN  Good("BindType", z, l) /\ z.raw = None
<1> DEFINE w == Fetched(Clear(x), q, k, None)
           z == Failed(w, 1)
<1>1. None \in Res \cup {None}
  OBVIOUS
<1>2. w \in Results /\ w.has_value = FALSE /\ w.raw = None
  BY <1>1, FetchedFacts
<1> HIDE DEF w
<1>3. z \in Results /\ z.num = 1 /\ z.has_value = FALSE /\ z.raw = None
  BY <1>2, FailedFacts
<1> HIDE DEF z
<1>4. Good("BindType", z, l)
  BY <1>3 DEF Good
<1> QED
  BY <1>3, <1>4 DEF w, z

\* k rows of one call with their buffer, in a sequence.
LEMMA RowsOf ==
  ASSUME NEW q, NEW b, NEW k \in Nat
  PROVE  LET s == [i \in 1 .. k |-> [call |-> q, buf |-> b]]
         IN  /\ Len(s) = k
             /\ \A i \in 1 .. Len(s) : s[i].call = q /\ s[i].buf = b
OBVIOUS

\* A query that succeeded: complete, and its views point into the MYSQL_RES b.
LEMMA QueryGood ==
  ASSUME NEW m \in Modes, m # "OnlyExec", NEW z \in Results, NEW q \in 1 .. MaxCalls,
         NEW k \in 0 .. MaxRows, NEW b \in Res \cup {None},
         b # None => m = "NativeString",
         z.rows = Repeat([call |-> q, buf |-> b], k),
         z.nulls = Repeat(q, k), z.fields = <<q>>, z.raw = b
  PROVE  Good(m, z, [call |-> q, result |-> "ok", rows |-> k])
<1> DEFINE l == [call |-> q, result |-> "ok", rows |-> k]
<1>1. l \in CallRecord /\ l.call = q /\ l.result = "ok" /\ l.rows = k
  BY RowsAssumption DEF CallRecord
<1>2. k \in Nat
  BY RowsAssumption
<1>3. Len(z.rows) = k /\ \A i \in 1 .. Len(z.rows) : z.rows[i].call = q /\ z.rows[i].buf = b
  BY <1>2, RowsOf DEF Repeat
<1> HIDE DEF l
<1>4. Complete(z, l)
  BY <1>1, <1>3 DEF Complete, Repeat
<1>5. Good(m, z, l)
  BY <1>1, <1>3, <1>4 DEF Good
<1> QED
  BY <1>5 DEF l

\* What a successful QueryAll with BindType leaves is one complete result.
LEMMA BindQueryGood ==
  ASSUME NEW x \in Results, NEW q \in 1 .. MaxCalls, NEW k \in 0 .. MaxRows
  PROVE  LET z == Valued(Named(Fetched(Clear(x), q, k, None), q))
         IN  /\ Good("BindType", z, [call |-> q, result |-> "ok", rows |-> k])
             /\ z.raw = None
<1> DEFINE w == Fetched(Clear(x), q, k, None)
           z == Valued(Named(w, q))
<1>1. None \in Res \cup {None}
  OBVIOUS
<1>2. /\ w \in Results /\ w.fields = <<>> /\ w.raw = None
      /\ w.rows = Repeat([call |-> q, buf |-> None], k)
      /\ w.nulls = Repeat(q, k)
  BY <1>1, FetchedFacts
<1> HIDE DEF w
<1>3. /\ z \in Results /\ z.fields = <<q>> /\ z.raw = None
      /\ z.rows = w.rows /\ z.nulls = w.nulls
  BY <1>2, ValuedFacts
<1> HIDE DEF z
<1>4. Good("BindType", z, [call |-> q, result |-> "ok", rows |-> k])
  BY <1>2, <1>3, QueryGood DEF Modes
<1> QED
  BY <1>3, <1>4 DEF w, z

\* So is what one with NativeString leaves, and it owns its MYSQL_RES.
LEMMA NativeQueryGood ==
  ASSUME NEW x \in Results, NEW q \in 1 .. MaxCalls, NEW k \in 0 .. MaxRows, NEW r \in Res
  PROVE  LET z == Valued(Named(Stored(Fetched(Clear(x), q, k, r), r), q))
         IN  /\ Good("NativeString", z, [call |-> q, result |-> "ok", rows |-> k])
             /\ z.raw = r
<1> DEFINE w == Fetched(Clear(x), q, k, r)
           v == Stored(w, r)
           z == Valued(Named(v, q))
<1>1. r \in Res \cup {None}
  OBVIOUS
<1>2. /\ w \in Results /\ w.fields = <<>>
      /\ w.rows = Repeat([call |-> q, buf |-> r], k)
      /\ w.nulls = Repeat(q, k)
  BY <1>1, FetchedFacts
<1> HIDE DEF w
<1>3. /\ v \in Results /\ v.fields = <<>> /\ v.raw = r
      /\ v.rows = w.rows /\ v.nulls = w.nulls
  BY <1>2, StoredFacts
<1> HIDE DEF v
<1>4. /\ z \in Results /\ z.fields = <<q>> /\ z.raw = r
      /\ z.rows = v.rows /\ z.nulls = v.nulls
  BY <1>3, ValuedFacts
<1> HIDE DEF z
<1>5. Good("NativeString", z, [call |-> q, result |-> "ok", rows |-> k])
  BY <1>2, <1>3, <1>4, QueryGood DEF Modes
<1> QED
  BY <1>4, <1>5 DEF w, v, z

\* Execute without arguments does not clear the object.
LEMMA ExecuteTextGood ==
  ASSUME NEW x, NEW l, Good("OnlyExec", x, l), NEW e \in CallRecord
  PROVE  /\ e.result # "failed" => Good("OnlyExec", x, e) /\ x.raw = None
         /\ Good("OnlyExec", Failed(x, 1), e) /\ Failed(x, 1).raw = None
<1>1. x \in Results /\ x.raw = None /\ x.has_value = FALSE
  BY DEF Good
<1> DEFINE z == Failed(x, 1)
<1>2. z \in Results /\ z.num = 1 /\ z.raw = None /\ z.has_value = FALSE
  BY <1>1, FailedFacts
<1> HIDE DEF z
<1>3. Good("OnlyExec", z, e)
  BY <1>2 DEF Good
<1>4. e.result # "failed" => Good("OnlyExec", x, e)
  BY <1>1 DEF Good
<1> QED
  BY <1>1, <1>2, <1>3, <1>4 DEF z

----------------------------------------------------------------------------
(* The shapes of a step.                                                    *)

\* A step replaces object o by x, frees what o owned, and x owns nothing or a
\* MYSQL_RES the library has just handed out.
Replace(o, x, l) ==
  /\ mode' = mode /\ calls' \in 0 .. MaxCalls
  /\ obj' = [obj EXCEPT ![o] = x] /\ last' = [last EXCEPT ![o] = l]
  /\ live' \subseteq Object /\ live' \cup {o} = live \cup {o}
  /\ x.raw # None => o \in live' /\ x.raw \in Res \ allocated
  /\ allocated' = allocated \cup ({x.raw} \ {None})
  /\ freed' = freed \cup ({obj[o].raw} \ {None})
  /\ lost' = lost /\ metas' \in Nat

\* A step that rewrites one object and accounts for its MYSQL_RES keeps Inv.
LEMMA ReplaceStep ==
  ASSUME Inv, NEW o \in Object, NEW x, NEW l, Good(mode, x, l), Replace(o, x, l)
  PROVE  Inv'
<1>1. /\ obj'[o] = x /\ last'[o] = l
      /\ \A p \in Object \ {o} : obj'[p] = obj[p] /\ last'[p] = last[p]
      /\ DOMAIN obj' = Object /\ DOMAIN last' = Object
      /\ obj' = [p \in Object |-> obj'[p]] /\ last' = [p \in Object |-> last'[p]]
  BY DEF Inv, Globals, Objects, Replace
<1>2. obj[o].raw # None => obj[o].raw \in allocated \ freed
  BY DEF Inv, Owned
<1>3. Globals'
  <2>1. /\ allocated' \subseteq Res /\ freed' \subseteq allocated'
        /\ lost' \subseteq allocated' /\ metas' \in Nat
    BY <1>2 DEF Inv, Globals, Replace
  <2> QED
    BY <1>1, <2>1 DEF Inv, Globals, Replace
<1>4. Objects'
  <2>1. mode' = mode
    BY DEF Replace
  <2>2. ASSUME NEW p \in Object PROVE Good(mode', obj'[p], last'[p])
    BY <1>1, <2>1 DEF Inv, Objects
  <2> QED
    BY <1>1, <2>2 DEF Objects
<1>5. Owned'
  <2>1. ASSUME NEW p \in Object, p # o, obj'[p].raw # None
        PROVE  /\ p \in live' /\ obj'[p].raw \in allocated' \ freed'
               /\ obj'[p].raw # x.raw
               /\ \A q \in Object : obj'[q].raw = obj'[p].raw => q = p
    <3>1. /\ p \in live /\ obj[p].raw \in allocated \ freed
          /\ \A q \in Object : obj[q].raw = obj[p].raw => q = p
      BY <1>1, <2>1 DEF Inv, Owned
    <3>2. obj[p].raw # x.raw /\ obj[p].raw # obj[o].raw /\ p \in live'
      BY <1>1, <2>1, <3>1 DEF Replace
    <3> QED
      BY <1>1, <2>1, <3>1, <3>2 DEF Replace
  <2>2. ASSUME x.raw # None
        PROVE  o \in live' /\ x.raw \in allocated' \ freed'
    BY <1>2, <2>2 DEF Replace, Inv, Globals
  <2> QED
    BY <1>1, <2>1, <2>2 DEF Owned
<1>6. StoredResultsFreed'
  <2>1. ASSUME NEW r \in allocated' \ (freed' \cup lost')
        PROVE  \E p \in live' : obj'[p].raw = r
    <3>1. CASE r = x.raw
      BY <1>1, <2>1, <3>1, NoResAssumption DEF Replace, Inv, Globals
    <3>2. CASE r # x.raw
      <4>1. r \in allocated \ (freed \cup lost) /\ r # None /\ r # obj[o].raw
        BY <2>1, <3>2, NoResAssumption DEF Replace, Inv, Globals
      <4>2. PICK p \in live : obj[p].raw = r
        BY <4>1 DEF Inv, StoredResultsFreed
      <4>3. p # o /\ p \in Object /\ p \in live'
        BY <4>1, <4>2 DEF Replace, Inv, Globals
      <4> QED
        BY <1>1, <4>2, <4>3
    <3> QED
      BY <3>1, <3>2
  <2> QED
    BY <2>1 DEF StoredResultsFreed
<1> QED
  BY <1>3, <1>4, <1>5, <1>6 DEF Inv

\* A move: what o owned belongs to p, and what p owned is lost.
Move(o, p, y, x, l) ==
  /\ mode' = mode /\ calls' = calls /\ allocated' = allocated /\ freed' = freed
  /\ lost' = lost \cup ({obj[p].raw} \ {None}) /\ metas' = metas
  /\ obj' = [obj EXCEPT ![p] = y, ![o] = x]
  /\ last' = [last EXCEPT ![p] = l, ![o] = NoCall]
  /\ live' = live \cup {p}
  /\ y.raw = obj[o].raw /\ x.raw = None

\* A move hands the MYSQL_RES over and keeps Inv.
LEMMA MoveStep ==
  ASSUME Inv, NEW o \in Object, NEW p \in Object, p # o, NEW x, NEW y, NEW l,
         Good(mode, y, l), Good(mode, x, NoCall), Move(o, p, y, x, l)
  PROVE  Inv'
<1>1. /\ obj'[o] = x /\ last'[o] = NoCall /\ obj'[p] = y /\ last'[p] = l
      /\ \A q \in Object \ {o, p} : obj'[q] = obj[q] /\ last'[q] = last[q]
      /\ DOMAIN obj' = Object /\ DOMAIN last' = Object
      /\ obj' = [q \in Object |-> obj'[q]] /\ last' = [q \in Object |-> last'[q]]
  BY DEF Inv, Globals, Objects, Move
<1>2. Globals'
  <2>1. obj[p].raw # None => obj[p].raw \in allocated
    BY DEF Inv, Owned
  <2>2. lost' \subseteq allocated'
    BY <2>1 DEF Inv, Globals, Move
  <2> QED
    BY <1>1, <2>2 DEF Inv, Globals, Move
<1>3. Objects'
  <2>1. mode' = mode
    BY DEF Move
  <2>2. ASSUME NEW q \in Object PROVE Good(mode', obj'[q], last'[q])
    BY <1>1, <2>1 DEF Inv, Objects
  <2> QED
    BY <1>1, <2>2 DEF Objects
<1>4. Owned'
  <2>1. ASSUME NEW q \in Object, obj'[q].raw # None
        PROVE  q # o /\ \E s \in Object : /\ obj[s].raw = obj'[q].raw
                                          /\ s = IF q = p THEN o ELSE q
    BY <1>1, <2>1 DEF Move
  <2>2. ASSUME NEW q \in Object, obj'[q].raw # None
        PROVE  /\ q \in live' /\ obj'[q].raw \in allocated' \ freed'
               /\ \A s \in Object : obj'[s].raw = obj'[q].raw => s = q
    <3>1. PICK u \in Object : obj[u].raw = obj'[q].raw /\ u = IF q = p THEN o ELSE q
      BY <2>1, <2>2
    <3>2. /\ u \in live /\ obj[u].raw \in allocated \ freed
          /\ \A s \in Object : obj[s].raw = obj[u].raw => s = u
      BY <2>2, <3>1 DEF Inv, Owned
    <3>3. ASSUME NEW s \in Object, obj'[s].raw = obj'[q].raw PROVE s = q
      <4>1. PICK v \in Object : obj[v].raw = obj'[s].raw /\ v = IF s = p THEN o ELSE s
        BY <2>1, <2>2, <3>3
      <4>2. v = u /\ s # o /\ q # o
        BY <2>1, <2>2, <3>1, <3>2, <3>3, <4>1
      <4> QED
        BY <3>1, <4>1, <4>2
    <3>4. q \in live'
      BY <3>1, <3>2 DEF Move
    <3> QED
      BY <3>1, <3>2, <3>3, <3>4 DEF Move
  <2> QED
    BY <2>2 DEF Owned
<1>5. StoredResultsFreed'
  <2>1. ASSUME NEW r \in allocated' \ (freed' \cup lost')
        PROVE  \E q \in live' : obj'[q].raw = r
    <3>1. r \in allocated \ (freed \cup lost) /\ r # None /\ r # obj[p].raw
      BY <2>1, NoResAssumption DEF Move, Inv, Globals
    <3>2. PICK q \in live : obj[q].raw = r
      BY <3>1 DEF Inv, StoredResultsFreed
    <3>3. q # p /\ q \in Object /\ q \in live' /\ p \in live'
      BY <3>1, <3>2 DEF Move, Inv, Globals
    <3>4. CASE q = o
      BY <1>1, <3>2, <3>3, <3>4 DEF Move
    <3>5. CASE q # o
      BY <1>1, <3>2, <3>3, <3>5
    <3> QED
      BY <3>4, <3>5
  <2> QED
    BY <2>1 DEF StoredResultsFreed
<1> QED
  BY <1>2, <1>3, <1>4, <1>5 DEF Inv

----------------------------------------------------------------------------
(* The actions.                                                             *)

\* What Inv says of one object.
LEMMA ObjectFacts ==
  ASSUME Inv, NEW o \in Object
  PROVE  /\ mode \in Modes /\ obj[o] \in Results /\ last[o] \in CallRecord
         /\ Good(mode, obj[o], last[o])
         /\ o \notin live => obj[o].raw = None
         /\ mode # "NativeString" => obj[o].raw = None
BY DEF Inv, Globals, Objects, Owned, Good

\* The record of a call that a step may make, and its number.
LEMMA CallFacts ==
  ASSUME Inv, NEW o \in Object, MayCall(o)
  PROVE  /\ calls + 1 \in 1 .. MaxCalls /\ calls + 1 \in 0 .. MaxCalls
         /\ \A result \in {"ok", "failed"}, k \in 0 .. MaxRows :
              LET l == [call |-> calls + 1, result |-> result, rows |-> k]
              IN  l \in CallRecord /\ l.result = result
         /\ 0 \in 0 .. MaxRows /\ o \in live
<1>1. calls + 1 \in 1 .. MaxCalls /\ calls + 1 \in 0 .. MaxCalls /\ 0 \in 0 .. MaxRows
  BY RowsAssumption DEF MayCall, Inv, Globals
<1> QED
  BY <1>1 DEF MayCall, CallRecord

\* The metadata results handed out are a natural number.
LEMMA MetasType == Inv => metas \in Nat
BY DEF Inv, Globals

\* A call that returns x, which owns nothing, replaces the object.
LEMMA ReturnStep ==
  ASSUME Inv, NEW o \in Object, MayCall(o), NEW x, NEW result, NEW k,
         Return(o, x, result, k), x.raw = None,
         Good(mode, x, [call |-> calls + 1, result |-> result, rows |-> k]),
         allocated' = allocated, freed' = freed \cup Released(obj[o]),
         lost' = lost, metas' \in Nat
  PROVE  Inv'
<1> DEFINE l == [call |-> calls + 1, result |-> result, rows |-> k]
<1>1. calls + 1 \in 0 .. MaxCalls /\ o \in live
  BY CallFacts
<1>2. Good(mode, x, l)
  OBVIOUS
<1>3. /\ obj' = [obj EXCEPT ![o] = x] /\ last' = [last EXCEPT ![o] = l]
      /\ calls' = calls + 1 /\ mode' = mode /\ live' = live
  BY DEF Return
<1> HIDE DEF l
<1>4. Replace(o, x, l)
  BY <1>1, <1>3 DEF Replace, Released, Inv, Globals
<1> QED
  BY <1>2, <1>4, ReplaceStep

\* Every outcome of QueryAll keeps Inv.
LEMMA QueryAllStep ==
  ASSUME Inv, NEW o \in Object, QueryAll(o)
  PROVE  Inv'
<1>1. mode \in Modes /\ obj[o] \in Results
  BY ObjectFacts
<1>2. CASE BindTypeRefused(o)
  <2>1. /\ MayCall(o) /\ allocated' = allocated /\ freed' = freed \cup Released(obj[o])
        /\ lost' = lost /\ metas' \in Nat
    BY <1>2, MetasType DEF BindTypeRefused
  <2>2. PICK n \in StatementErrors : Return(o, Failed(Clear(obj[o]), n), "failed", 0)
    BY <1>2 DEF BindTypeRefused
  <2>3. n \in {0, 1} /\ (OutOfMemory \/ n = 1)
    BY DEF StatementErrors
  <2>4. [call |-> calls + 1, result |-> "failed", rows |-> 0] \in CallRecord
    BY <2>1, CallFacts
  <2>5. /\ Good(mode, Failed(Clear(obj[o]), n),
                [call |-> calls + 1, result |-> "failed", rows |-> 0])
        /\ Failed(Clear(obj[o]), n).raw = None
    BY <1>1, <2>3, <2>4, RefusedGood
  <2> QED
    BY <2>1, <2>2, <2>5, ReturnStep
<1>3. CASE NativeFails(o)
  <2>1. /\ MayCall(o) /\ allocated' = allocated /\ freed' = freed \cup Released(obj[o])
        /\ lost' = lost /\ metas' \in Nat
        /\ Return(o, Failed(Clear(obj[o]), 1), "failed", 0)
    BY <1>3, MetasType DEF NativeFails
  <2>2. [call |-> calls + 1, result |-> "failed", rows |-> 0] \in CallRecord
    BY <2>1, CallFacts
  <2>3. /\ Good(mode, Failed(Clear(obj[o]), 1),
                [call |-> calls + 1, result |-> "failed", rows |-> 0])
        /\ Failed(Clear(obj[o]), 1).raw = None
    BY <1>1, <2>2, RefusedGood
  <2> QED
    BY <2>1, <2>3, ReturnStep
<1>4. CASE NativeNoResult(o)
  <2>1. /\ MayCall(o) /\ allocated' = allocated /\ freed' = freed \cup Released(obj[o])
        /\ lost' = lost /\ metas' \in Nat
        /\ Return(o, Failed(Clear(obj[o]), 0), "ok", 0)
    BY <1>4, MetasType DEF NativeNoResult
  <2> DEFINE l == [call |-> calls + 1, result |-> "ok", rows |-> 0]
  <2>2. l \in CallRecord /\ l.result # "failed"
    BY <2>1, CallFacts
  <2>3. /\ Good(mode, Failed(Clear(obj[o]), 0), l)
        /\ Failed(Clear(obj[o]), 0).raw = None
    <3> HIDE DEF l
    <3> QED
      BY <1>1, <2>2, RefusedGood
  <2> QED
    BY <2>1, <2>3, ReturnStep
<1>5. ASSUME NEW k \in 0 .. MaxRows, BindTypeFetchFails(o, k) PROVE Inv'
  <2>1. /\ MayCall(o) /\ allocated' = allocated /\ freed' = freed \cup Released(obj[o])
        /\ lost' = lost /\ metas' \in Nat
        /\ Return(o, Failed(Fetched(Clear(obj[o]), calls + 1, k, None), 1), "failed", k)
        /\ mode = "BindType"
    BY <1>5, MetasType DEF BindTypeFetchFails
  <2> DEFINE l == [call |-> calls + 1, result |-> "failed", rows |-> k]
             z == Failed(Fetched(Clear(obj[o]), calls + 1, k, None), 1)
  <2>2. l \in CallRecord /\ calls + 1 \in 1 .. MaxCalls
    BY <2>1, CallFacts
  <2>3. Good(mode, z, l) /\ z.raw = None
    BY <1>1, <2>1, <2>2, FetchFailedGood
  <2> QED
    BY <2>1, <2>3, ReturnStep
<1>6. ASSUME NEW k \in 0 .. MaxRows, BindTypeQuery(o, k) PROVE Inv'
  <2> DEFINE z == Valued(Named(Fetched(Clear(obj[o]), calls + 1, k, None), calls + 1))
  <2>1. /\ MayCall(o) /\ allocated' = allocated /\ freed' = freed \cup Released(obj[o])
        /\ lost' = lost /\ metas' \in Nat
        /\ Return(o, z, "ok", k)
        /\ mode = "BindType"
    BY <1>6, MetasType DEF BindTypeQuery
  <2>2. calls + 1 \in 1 .. MaxCalls
    BY <2>1, CallFacts
  <2>3. /\ Good(mode, z, [call |-> calls + 1, result |-> "ok", rows |-> k])
        /\ z.raw = None
    BY <1>1, <2>1, <2>2, BindQueryGood
  <2> QED
    BY <2>1, <2>3, ReturnStep
<1>7. ASSUME NEW k \in 0 .. MaxRows, NEW r \in Res, NativeQuery(o, k, r) PROVE Inv'
  <2> DEFINE z == Valued(Named(Stored(Fetched(Clear(obj[o]), calls + 1, k, r), r), calls + 1))
             l == [call |-> calls + 1, result |-> "ok", rows |-> k]
  <2>1. /\ MayCall(o) /\ r \in Res \ allocated /\ allocated' = allocated \cup {r}
        /\ freed' = freed \cup Released(obj[o]) /\ lost' = lost /\ metas' = metas
        /\ obj' = [obj EXCEPT ![o] = z] /\ last' = [last EXCEPT ![o] = l]
        /\ calls' = calls + 1 /\ mode' = mode /\ live' = live
        /\ mode = "NativeString"
    BY <1>7 DEF NativeQuery, Return
  <2>2. calls + 1 \in 1 .. MaxCalls /\ calls + 1 \in 0 .. MaxCalls /\ o \in live
    BY <2>1, CallFacts
  <2>3. Good(mode, z, l) /\ z.raw = r
    BY <1>1, <2>1, <2>2, NativeQueryGood
  <2> HIDE DEF z, l
  <2>4. Replace(o, z, l)
    BY <2>1, <2>2, <2>3, NoResAssumption DEF Replace, Released, Inv, Globals
  <2> QED
    BY <2>3, <2>4, ReplaceStep
<1> QED
  BY <1>2, <1>3, <1>4, <1>5, <1>6, <1>7 DEF QueryAll

\* Every outcome of Execute keeps Inv.
LEMMA ExecuteStep ==
  ASSUME Inv, NEW o \in Object, Execute(o)
  PROVE  Inv'
<1>1. mode \in Modes /\ obj[o] \in Results
  BY ObjectFacts
<1> DEFINE fine == [call |-> calls + 1, result |-> "ok", rows |-> 0]
           bad == [call |-> calls + 1, result |-> "failed", rows |-> 0]
<1>2. ASSUME ExecuteArgs(o) PROVE Inv'
  <2>1. /\ MayCall(o) /\ allocated' = allocated /\ freed' = freed \cup Released(obj[o])
        /\ lost' = lost /\ metas' \in Nat
        /\ \/ Return(o, Clear(obj[o]), "ok", 0)
           \/ \E n \in StatementErrors : Return(o, Failed(Clear(obj[o]), n), "failed", 0)
    BY <1>2, MetasType DEF ExecuteArgs
  <2>2. fine \in CallRecord /\ bad \in CallRecord /\ fine.result = "ok"
    BY <2>1, CallFacts
  <2>3. CASE Return(o, Clear(obj[o]), "ok", 0)
    <3>1. Good(mode, Clear(obj[o]), fine) /\ Clear(obj[o]).raw = None
      <4> HIDE DEF fine
      <4> QED
        BY <1>1, <2>2, ClearGood
    <3> QED
      BY <2>1, <2>3, <3>1, ReturnStep
  <2>4. ASSUME NEW n \in StatementErrors, Return(o, Failed(Clear(obj[o]), n), "failed", 0)
        PROVE  Inv'
    <3>1. n \in {0, 1} /\ (OutOfMemory \/ n = 1)
      BY DEF StatementErrors
    <3>2. Good(mode, Failed(Clear(obj[o]), n), bad) /\ Failed(Clear(obj[o]), n).raw = None
      BY <1>1, <2>2, <3>1, RefusedGood
    <3> QED
      BY <2>1, <2>4, <3>2, ReturnStep
  <2> QED
    BY <2>1, <2>3, <2>4
<1>3. ASSUME ExecuteText(o) PROVE Inv'
  <2>1. /\ mode = "OnlyExec" /\ MayCall(o) /\ allocated' = allocated /\ freed' = freed
        /\ lost' = lost /\ metas' \in Nat
        /\ Return(o, obj[o], "ok", 0) \/ Return(o, Failed(obj[o], 1), "failed", 0)
    BY <1>3, MetasType DEF ExecuteText
  <2>2. fine \in CallRecord /\ bad \in CallRecord /\ fine.result = "ok"
    BY <2>1, CallFacts
  <2>3. obj[o].raw = None /\ Good("OnlyExec", obj[o], last[o])
    BY <2>1, ObjectFacts
  <2>4. freed' = freed \cup Released(obj[o])
    BY <2>1, <2>3 DEF Released
  <2>5. Good(mode, obj[o], fine)
    <3> HIDE DEF fine
    <3> QED
      BY <2>1, <2>2, <2>3, ExecuteTextGood
  <2>6. Good(mode, Failed(obj[o], 1), bad) /\ Failed(obj[o], 1).raw = None
    <3> HIDE DEF bad
    <3> QED
      BY <2>1, <2>2, <2>3, ExecuteTextGood
  <2>7. CASE Return(o, obj[o], "ok", 0)
    BY <2>1, <2>3, <2>4, <2>5, <2>7, ReturnStep
  <2>8. CASE Return(o, Failed(obj[o], 1), "failed", 0)
    BY <2>1, <2>4, <2>6, <2>8, ReturnStep
  <2> QED
    BY <2>1, <2>7, <2>8
<1> QED
  BY <1>2, <1>3 DEF Execute

\* Construction, GetResultSet, Clear and destruction keep Inv.
LEMMA CallerStep ==
  ASSUME Inv, NEW o \in Object, Construct(o) \/ GetResultSet(o) \/ ClearObject(o) \/ Destroy(o)
  PROVE  Inv'
<1>1. /\ mode \in Modes /\ obj[o] \in Results /\ last[o] \in CallRecord
      /\ Good(mode, obj[o], last[o])
      /\ o \notin live => obj[o].raw = None
      /\ mode # "NativeString" => obj[o].raw = None
  BY ObjectFacts
<1>2. Good(mode, Fresh, NoCall) /\ Fresh.raw = None
  BY <1>1, FreshGood, FreshFacts
<1>3. CASE Construct(o)
  <2>1. Replace(o, Fresh, NoCall)
    BY <1>1, <1>2, <1>3 DEF Construct, Replace, Inv, Globals
  <2> QED
    BY <1>2, <2>1, ReplaceStep
<1>4. CASE GetResultSet(o)
  <2> DEFINE x == [obj[o] EXCEPT !.rows = <<>>, !.has_value = FALSE]
  <2>1. /\ obj' = [obj EXCEPT ![o] = IF mode = "NativeString" THEN obj[o] ELSE x]
        /\ mode' = mode /\ live' = live /\ allocated' = allocated /\ freed' = freed
        /\ last' = last /\ calls' = calls /\ lost' = lost /\ metas' = metas
    BY <1>4 DEF GetResultSet
  <2>2. last = [last EXCEPT ![o] = last[o]] /\ obj = [obj EXCEPT ![o] = obj[o]]
    BY DEF Inv, Objects, Globals
  <2>3. CASE mode = "NativeString"
    <3>1. obj' = obj
      BY <2>1, <2>2, <2>3
    <3> QED
      BY <2>1, <3>1 DEF Inv, Globals, Objects, Owned, StoredResultsFreed
  <2>4. CASE mode # "NativeString"
    <3>1. x \in Results /\ x.raw = None /\ x.has_value = FALSE /\ x.num = obj[o].num
      BY <1>1, <2>4, DrainedFacts
    <3>2. obj' = [obj EXCEPT ![o] = x]
      BY <2>1, <2>4
    <3> HIDE DEF x
    <3>3. Good(mode, x, last[o])
      BY <1>1, <2>4, <3>1 DEF Good
    <3>4. Replace(o, x, last[o])
      BY <1>1, <2>1, <2>2, <2>4, <3>1, <3>2 DEF Replace, Inv, Globals
    <3> QED
      BY <3>3, <3>4, ReplaceStep
  <2> QED
    BY <2>3, <2>4
<1>5. CASE ClearObject(o)
  <2>1. NoCall \in CallRecord /\ NoCall.result # "failed"
    BY NoCallType
  <2>2. Good(mode, Clear(obj[o]), NoCall) /\ Clear(obj[o]).raw = None
    BY <1>1, <2>1, ClearGood
  <2>3. Replace(o, Clear(obj[o]), NoCall)
    BY <1>1, <1>5, <2>2 DEF ClearObject, Replace, Released, Inv, Globals
  <2> QED
    BY <2>2, <2>3, ReplaceStep
<1>6. CASE Destroy(o)
  <2>1. Replace(o, Fresh, NoCall)
    BY <1>1, <1>2, <1>6 DEF Destroy, Replace, Released, Inv, Globals
  <2> QED
    BY <1>2, <2>1, ReplaceStep
<1> QED
  BY <1>3, <1>4, <1>5, <1>6

\* A move leaves a good source and, when only objects without an error are moved, a
\* good target, whatever error number the target has.
LEMMA MovedGood ==
  ASSUME NEW m \in Modes, NEW x, NEW l, Good(m, x, l), MoveFailed \/ x.num = 0,
         NEW n \in {0, 1}
  PROVE  /\ Good(m, MovedFrom(x), NoCall) /\ MovedFrom(x).raw = None
         /\ Good(m, [x EXCEPT !.num = n], l) /\ [x EXCEPT !.num = n].raw = x.raw
<1>1. x \in Results
  BY DEF Good
<1> DEFINE y == MovedFrom(x)
           z == [x EXCEPT !.num = n]
<1>2. y \in Results /\ y.rows = <<>> /\ y.raw = None /\ y.has_value = x.has_value
  BY <1>1, MovedFacts
<1>3. /\ z \in Results /\ z.has_value = x.has_value /\ z.rows = x.rows
      /\ z.nulls = x.nulls /\ z.fields = x.fields /\ z.raw = x.raw
  BY <1>1, MoveTargetFacts
<1> HIDE DEF y, z
<1>4. Good(m, y, NoCall)
  BY <1>2, NoCallType DEF Good
<1>5. Good(m, z, l)
  BY <1>3 DEF Good, Complete
<1> QED
  BY <1>2, <1>3, <1>4, <1>5 DEF y, z

\* Move construction and move assignment keep Inv.
LEMMA MovesStep ==
  ASSUME Inv, NEW o \in Object, NEW p \in Object, MoveConstruct(o, p) \/ MoveAssign(o, p)
  PROVE  Inv'
<1>1. /\ mode \in Modes /\ Good(mode, obj[o], last[o]) /\ obj[p].num \in {0, 1}
      /\ 0 \in {0, 1} /\ p \notin live => obj[p].raw = None
  <2>1. obj[p] \in Results /\ mode \in Modes /\ Good(mode, obj[o], last[o])
        /\ (p \notin live => obj[p].raw = None)
    BY ObjectFacts
  <2> QED
    BY <2>1 DEF Results
<1>2. p # o /\ (MoveFailed \/ obj[o].num = 0)
  BY DEF MoveConstruct, MoveAssign, MayMove
<1>3. CASE MoveConstruct(o, p)
  <2> DEFINE y == [obj[o] EXCEPT !.num = 0]
             x == MovedFrom(obj[o])
  <2>1. Good(mode, y, last[o]) /\ Good(mode, x, NoCall) /\ y.raw = obj[o].raw /\ x.raw = None
    BY <1>1, <1>2, MovedGood
  <2>2. /\ obj' = [obj EXCEPT ![p] = y, ![o] = x] /\ p \notin live
        /\ last' = [last EXCEPT ![p] = last[o], ![o] = NoCall]
        /\ live' = live \cup {p}
        /\ mode' = mode /\ calls' = calls /\ allocated' = allocated /\ freed' = freed
        /\ lost' = lost /\ metas' = metas
    BY <1>2, <1>3 DEF MoveConstruct, Inv, Globals
  <2> HIDE DEF x, y
  <2>3. Move(o, p, y, x, last[o])
    BY <1>1, <2>1, <2>2 DEF Move
  <2> QED
    BY <1>2, <2>1, <2>3, MoveStep
<1>4. CASE MoveAssign(o, p)
  <2> DEFINE y == [obj[o] EXCEPT !.num = obj[p].num]
             x == MovedFrom(obj[o])
  <2>1. Good(mode, y, last[o]) /\ Good(mode, x, NoCall) /\ y.raw = obj[o].raw /\ x.raw = None
    BY <1>1, <1>2, MovedGood
  <2>2. /\ obj' = [obj EXCEPT ![p] = y, ![o] = x] /\ p \in live
        /\ last' = [last EXCEPT ![p] = last[o], ![o] = NoCall]
        /\ live' = live \cup {p}
        /\ lost' = lost \cup ({obj[p].raw} \ {None}) /\ metas' = metas
        /\ mode' = mode /\ calls' = calls /\ allocated' = allocated /\ freed' = freed
    BY <1>2, <1>4 DEF MoveAssign, Released, Inv, Globals
  <2> HIDE DEF x, y
  <2>3. Move(o, p, y, x, last[o])
    BY <2>1, <2>2 DEF Move
  <2> QED
    BY <1>2, <2>1, <2>3, MoveStep
<1> QED
  BY <1>3, <1>4

----------------------------------------------------------------------------
(* The theorems.                                                            *)

\* Inv holds before the first object exists.
LEMMA InitInv == Init => Inv
<1> SUFFICES ASSUME Init PROVE Inv
  OBVIOUS
<1>1. \A o \in Object : obj[o] = Fresh /\ last[o] = NoCall
  BY DEF Init
<1>2. Globals
  BY RowsAssumption DEF Init, Globals
<1>3. Objects
  BY <1>1, FreshGood DEF Init, Objects
<1>4. Owned
  BY <1>1, FreshFacts DEF Owned
<1>5. StoredResultsFreed
  BY DEF Init, StoredResultsFreed
<1> QED
  BY <1>2, <1>3, <1>4, <1>5 DEF Inv

\* Every step keeps Inv.
LEMMA NextInv == Inv /\ [Next]_vars => Inv'
<1> SUFFICES ASSUME Inv, [Next]_vars PROVE Inv'
  OBVIOUS
<1>1. CASE UNCHANGED vars
  BY <1>1 DEF vars, Inv, Globals, Objects, Owned, StoredResultsFreed
<1>2. CASE Next
  <2>1. PICK o \in Object :
          \/ Construct(o) \/ QueryAll(o) \/ Execute(o)
          \/ GetResultSet(o) \/ ClearObject(o) \/ Destroy(o)
          \/ \E p \in Object : MoveConstruct(o, p) \/ MoveAssign(o, p)
    BY <1>2 DEF Next
  <2> QED
    BY <2>1, QueryAllStep, ExecuteStep, CallerStep, MovesStep
<1> QED
  BY <1>1, <1>2

\* Inv is an invariant of the results objects.
LEMMA Invariance == Spec => []Inv
BY InitInv, NextInv, PTL DEF Spec

\* The members of every object keep their types, a MYSQL_RES is freed only after
\* the library handed it out, and only NativeString objects own one, for every number
\* of objects, calls and rows.
THEOREM ResultsTypeCorrect == Spec => []TypeOK
<1>1. Inv => TypeOK
  <2> SUFFICES ASSUME Inv PROVE TypeOK
    OBVIOUS
  <2>1. \A o \in Object : obj[o] \in Results /\ last[o] \in CallRecord
    BY ObjectFacts
  <2>2. obj \in [Object -> Results] /\ last \in [Object -> CallRecord]
    BY <2>1 DEF Inv, Objects
  <2>3. \A o \in Object : obj[o].raw # None => mode = "NativeString" /\ obj[o].raw \in allocated
    BY ObjectFacts DEF Inv, Owned
  <2> QED
    BY <2>2, <2>3 DEF TypeOK, Inv, Globals, CallRecord
<1> QED
  BY <1>1, Invariance, PTL

\* However objects are reused, cleared, moved and destroyed, a MYSQL_RES has one owner
\* and the owner's is not freed: mysql_free_result is never called twice for one.
THEOREM ResultsAreFreedOnce == Spec => []RawOwnedOnce
<1>1. Inv => RawOwnedOnce
  BY DEF Inv, Globals, Owned, RawOwnedOnce
<1> QED
  BY <1>1, Invariance, PTL

\* The string_views of a NativeString object point into the MYSQL_RES that object owns.
THEOREM ViewsStayValid == Spec => []ViewsValid
<1>1. Inv => ViewsValid
  BY DEF Inv, Globals, Objects, Good, ViewsValid
<1> QED
  BY <1>1, Invariance, PTL

\* What has_value_ announces is the whole result of the last call and of no other.
THEOREM ResultsAreComplete == Spec => []ResultConsistent
<1>1. Inv => ResultConsistent
  BY DEF Inv, Globals, Objects, Good, Complete, ResultConsistent
<1> QED
  BY <1>1, Invariance, PTL

\* While mysql_stmt_init succeeds and no object that holds an error is moved, a failed call
\* leaves an error number, also in an object that is reused.
THEOREM FailuresAreReported ==
  ASSUME ~MoveFailed, ~OutOfMemory
  PROVE  Spec => []FailureReported
<1>1. Inv => FailureReported
  BY DEF Inv, Globals, Objects, Good, FailureReported
<1> QED
  BY <1>1, Invariance, PTL

\* Every MYSQL_RES of mysql_store_result is freed, or owned by an object whose
\* destructor frees it, or was overwritten by a move assignment: no other operation of
\* the objects loses one, for any number of objects and calls.
THEOREM StoredResultsAreFreed == Spec => []StoredResultsFreed
<1>1. Inv => StoredResultsFreed
  BY DEF Inv
<1> QED
  BY <1>1, Invariance, PTL
=============================================================================
