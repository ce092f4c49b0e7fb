------------------------------ MODULE MCQuery ------------------------------
(***************************************************************************)
(* MysqlQuery for every output type with every field type, for pairs of    *)
(* columns that meet in FetchTruncatedResults, for every argument type and *)
(* for all short texts.                                                    *)
(***************************************************************************)
EXTENDS MysqlQuery

Types == DOMAIN OutputTypes
Fields == UNION {OutputTypes[t] : t \in Types}

Value(t, extra) == [t |-> t, v |-> [n |-> IF t = "str" THEN 7 ELSE 3, extra |-> extra]]
Arg(t) == Value(t, "none")

\* Strings with a quote in them, and a time with a fraction of a second.
Awkward == {Value("str", "quote"), Value("view", "quote"), Value("time", "fraction")}

Query(cols, fields, size) ==
  [kind |-> "bind", cols |-> cols, fields |-> fields, args |-> <<>>, items |-> <<>>,
   size |-> size]

\* One column.
Singles ==
  {Query(<<t>>, <<f>>, n) : t \in Types \ {"string", "MysqlBlob"}, f \in Fields, n \in {0}}
  \cup {Query(<<t>>, <<f>>, n) : t \in {"string", "MysqlBlob"}, f \in Fields, n \in {0, 2}}

\* A wrong number of columns, and two columns: both variable, one fixed.
Pairs ==
  {Query(<<"string", "int8">>, <<"STRING">>, 1)}
  \cup {Query(<<"string", "MysqlBlob">>, <<"VAR_STRING", "BLOB">>, n) : n \in {1, 2}}
  \cup {Query(<<"MysqlBlob", "int8">>, <<"BLOB", "TINY">>, 2)}

\* The statements without a result set, with up to two arguments.
Executes ==
  {[kind |-> "exec", cols |-> <<>>, fields |-> <<>>, args |-> a, items |-> <<>>, size |-> 0] :
     a \in {<<Arg(t)>> : t \in BoundTypes} \cup {<<x>> : x \in Awkward}
             \cup {<<Arg("str"), Arg(t)>> : t \in {"int64", "blob"}}}

\* The texts of at most three items, and an escaped question mark between two
\* holes, with the arguments for the holes.
Statements ==
  {items \in UNION {[1..n -> Items] : n \in 1..3} : Escaped(items)}
  \cup {<<"hole", "esc", "mark", "hole">>}
Values == {Arg(t) : t \in {"int32", "str", "view", "null", "time"}} \cup Awkward
Arguments == UNION {[1..n -> Values] : n \in 0..2}
Texts ==
  {[kind |-> "text", cols |-> <<>>, fields |-> <<>>, args |-> p[2], items |-> p[1],
    size |-> 0] : p \in {q \in Statements \X Arguments : Cardinality(Holes(q[1])) = Len(q[2])}}

MCCalls == Singles \cup Pairs \cup Executes \cup Texts
=============================================================================
