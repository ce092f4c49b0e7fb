--------------------------- MODULE MysqlFormatter ---------------------------
(***************************************************************************)
(* How the text path turns a statement and its arguments into one string   *)
(* (class Formatter).                                                      *)
(*                                                                         *)
(* A statement is a sequence of tokens [k, v]: k is "?" for a question     *)
(* mark, "esc" for a backslash, "{}" for a format field, "x" for any other *)
(* text and "lit" for a substituted argument; v is NoText unless k is      *)
(* "lit".                                                                  *)
(*                                                                         *)
(* An argument is [t, v]: its C++ type and its value.  t is a number type, *)
(* "str" for std::string, const char pointers and literals, "view" for     *)
(* std::string_view and char pointers, "null" for a null const pointer,    *)
(* "time" or "blob".  The value is [n, extra]: which one it is, and what   *)
(* it has that a conversion can spoil: "quote" for a string with a quote   *)
(* or a backslash in it, "fraction" for a MysqlTime with a second_part,    *)
(* "none" for all others.                                                  *)
(***************************************************************************)
EXTENDS Naturals, Sequences, FiniteSets

NumberTypes == {"int8", "int16", "int32", "int64", "float", "double"}

\* The arguments util::FormatString can print.
TextTypes == NumberTypes \cup {"str", "view", "null", "time"}

\* What an argument of a type is in SQL.
Sort(t) ==
  CASE t \in NumberTypes -> "number" [] t = "null" -> "NULL" [] OTHER -> "string"

NoText == [quoted |-> FALSE, sort |-> "none", text |-> [n |-> 0, extra |-> "none"]]

Token(k) == [k |-> k, v |-> NoText]

-----------------------------------------------------------------------------
(***************************************************************************)
(* Formatter                                                               *)
(***************************************************************************)

\* MysqlTime::ToString(): the text ends with the seconds.
ToString(v) == [n |-> v.n, extra |-> "none"]

\* Mutant: the text is scanned from its second character on.
ConvertPlaceHolder_SkipFirst(sql) ==
  [i \in DOMAIN sql |->
     IF sql[i].k = "?" /\ i > 1 /\ sql[i-1].k # "esc" THEN Token("{}") ELSE sql[i]]

\* Every question mark that no backslash precedes becomes a format field.
ConvertPlaceHolder(sql) ==
  [i \in DOMAIN sql |->
     IF sql[i].k = "?" /\ (i = 1 \/ sql[i-1].k # "esc") THEN Token("{}") ELSE sql[i]]

\* SpecialConvert: std::string, const char* and times are put between quotes,
\* and nothing in them is escaped.  Everything else takes the overload that
\* changes nothing: numbers, but string_view and char* as well.  A null const
\* char* becomes the keyword NULL.
SpecialConvert(arg) ==
  [quoted |-> arg.t \in {"str", "time"},
   sort   |-> Sort(arg.t),
   text   |-> IF arg.t = "time" THEN ToString(arg.v) ELSE arg.v]

\* util::FormatString: the k-th format field shows the k-th argument; further
\* arguments are ignored.  Defined when there are enough arguments.
FormatString(fmt, texts) ==
  [i \in DOMAIN fmt |->
     IF fmt[i].k = "{}"
     THEN [k |-> "lit", v |-> texts[Cardinality({j \in 1..i : fmt[j].k = "{}"})]]
     ELSE fmt[i]]

FormatQuery(sql, args) ==
  FormatString(ConvertPlaceHolder(sql), [i \in DOMAIN args |-> SpecialConvert(args[i])])

-----------------------------------------------------------------------------
(***************************************************************************)
(* The reference for the text path.  The caller means a statement as a     *)
(* sequence of items: "x" some text, "esc" a backslash, "mark" a question  *)
(* mark of the text, "hole" a place for an argument.                       *)
(***************************************************************************)
Items == {"x", "esc", "mark", "hole"}

\* A backslash stands before every question mark of the text and before no hole.
Escaped(items) ==
  \A i \in DOMAIN items :
    /\ items[i] = "mark" => i > 1 /\ items[i-1] = "esc"
    /\ items[i] = "hole" => i = 1 \/ items[i-1] # "esc"

\* The tokens of a statement whose holes are spelled h.
Spelled(items, h) ==
  [i \in DOMAIN items |->
     CASE items[i] = "hole" -> Token(h)
       [] items[i] = "mark" -> Token("?")
       [] OTHER -> Token(items[i])]

\* What the caller writes down.
Written(items) == Spelled(items, "?")

Holes(items) == {i \in DOMAIN items : items[i] = "hole"}

\* The server's reading of a literal.  A quoted text with a quote or backslash
\* in it ends early or loses the backslash, and text without quotes is a name.
ReadLiteral(l) ==
  CASE l.quoted /\ l.text.extra # "quote" -> [t |-> "string", v |-> l.text]
    [] ~l.quoted /\ l.sort # "string" -> [t |-> l.sort, v |-> l.text]
    [] OTHER -> [t |-> "broken", v |-> l.text]

\* The literal the caller means with an argument.
Meant(arg) == [t |-> Sort(arg.t), v |-> arg.v]

\* The arguments a text can carry: no string_view or char*, no quote or
\* backslash in a string, no fraction of a second in a time.
Carried(args) == \A i \in DOMAIN args : args[i].t # "view" /\ args[i].v.extra = "none"

\* stmt is the statement the caller meant, up to what its literals say.
SameShape(stmt, items) ==
  [i \in DOMAIN stmt |-> stmt[i].k] =
  [i \in DOMAIN Spelled(items, "lit") |-> Spelled(items, "lit")[i].k]

\* The arguments the server reads in a statement, in their order.
ArgumentsOf(stmt) ==
  LET lits == {i \in DOMAIN stmt : stmt[i].k = "lit"}
      nth(k) == CHOOSE i \in lits : Cardinality({j \in lits : j <= i}) = k
  IN  [k \in 1..Cardinality(lits) |-> ReadLiteral(stmt[nth(k)].v)]
=============================================================================
