-------------------------------- MODULE MCExpr --------------------------------
(***************************************************************************)
(* Eet over queries that are written from expression trees: what the       *)
(* parser and the evaluator make of the text is compared with the tree.    *)
(***************************************************************************)
EXTENDS Eet, FiniteSets

Tree(op, args)  == [op |-> op, args |-> args]
Leaf(text, n)   == [op |-> "LEAF", text |-> text, node |-> n]
Name(a)         == Node("IDENT", a)
Dot             == Node("IDENTCONJ", ".")
Parens(text)    == <<Node("LPAREN", "(")>> \o text \o <<Node("RPAREN", ")")>>

A == Leaf(<<Name("a")>>, Node("ATTR", <<"a">>))
B == Leaf(<<Name("t"), Dot, Name("b")>>, Node("ATTR", <<"t", "b">>))
S == Leaf(<<Name("s")>>, Node("ATTR", <<"s">>))
Const(i) == Leaf(<<Number(i)>>, Number(i))
Word(w)  == Leaf(<<Str(w)>>, Str(w))

-----------------------------------------------------------------------------
\* How a tree is written.  An operator of a lower level binds more tightly,
\* and those of one level go from left to right.
Level(op) ==
  CASE op \in {"MULT", "DIV", "MOD"}          -> 1
    [] op \in {"ADD", "SUB"}                  -> 2
    [] op \in {"EQ", "LT", "LTE", "GT", "GTE"} -> 3
    [] op = "AND"                             -> 4
    [] op = "OR"                              -> 5

\* A sign, a NOT and a != stand in parentheses, and so do their operands,
\* except that a sign may follow a sign.  Before a minus, too, there is a
\* parenthesis.
Apart(op) == op \in {"UNARYNEG", "NOT", "NEQ"}

InParens(op, t, right) ==
  CASE t.op \in {"LEAF", "LENGTH"} -> op = "SUB" /\ ~right
    [] Apart(op) \/ Apart(t.op)    -> ~(op = t.op /\ op # "NEQ")
    [] OTHER -> \/ Level(t.op) > Level(op)
                \/ right /\ Level(t.op) = Level(op)
                \/ op = "SUB" /\ ~right

RECURSIVE Text(_)
Text(t) ==
  LET side(n) == IF InParens(t.op, t.args[n], n = 2)
                 THEN Parens(Text(t.args[n])) ELSE Text(t.args[n])
  IN CASE t.op = "LEAF"     -> t.text
       [] t.op = "LENGTH"   -> <<Node("FUNC", t.op)>> \o Parens(Text(t.args[1]))
       [] t.op = "UNARYNEG" -> <<Operator("SUB")>> \o side(1)
       [] t.op = "NOT"      -> <<Operator(t.op)>> \o side(1)
       [] OTHER             -> side(1) \o <<Operator(t.op)>> \o side(2)

RECURSIVE Postfix(_)
Postfix(t) ==
  CASE t.op = "LEAF"   -> <<t.node>>
    [] t.op = "LENGTH" -> Append(Postfix(t.args[1]), Node("FUNC", t.op))
    [] Len(t.args) = 1 -> Append(Postfix(t.args[1]), Operator(t.op))
    [] OTHER -> Append(Postfix(t.args[1]) \o Postfix(t.args[2]), Operator(t.op))

\* The type of a tree; "ERROR" when an operand is not of the type required.
RECURSIVE TypeOf(_)
TypeOf(t) ==
  LET types == {TypeOf(t.args[n]) : n \in DOMAIN t.args}
  IN CASE t.op = "LEAF" -> IF t.node.type = "ATTR" THEN AttrType[Last(t.node.val)]
                                                   ELSE t.node.type
       [] t.op = "LENGTH" -> IF types = {"STRING"} THEN "INT" ELSE "ERROR"
       [] t.op \in {"EQ", "NEQ", "LT", "LTE", "GT", "GTE"} ->
            IF types \in {{"INT"}, {"STRING"}} THEN "INT" ELSE "ERROR"
       [] OTHER -> IF types = {"INT"} THEN "INT" ELSE "ERROR"

\* What a tree is worth on a tuple, in the three-valued logic of SQL.
RECURSIVE Worth(_, _)
Worth(t, r) ==
  LET v == [n \in DOMAIN t.args |-> Worth(t.args[n], r)]
      x == v[1].val
      y == v[2].val
      true(w)  == w.type = "INT" /\ w.val # 0
      false(w) == w.type = "INT" /\ w.val = 0
      less(p, q) == IF v[1].type = "INT" THEN p < q ELSE Before(p, q)
  IN CASE t.op = "LEAF" -> IF t.node.type = "ATTR" THEN r[Last(t.node.val)]
                                                   ELSE t.node
       [] t.op = "AND" /\ (false(v[1]) \/ false(v[2])) -> Number(0)
       [] t.op = "OR"  /\ (true(v[1]) \/ true(v[2]))   -> Number(1)
       [] t.op # "LEAF" /\ (\E n \in DOMAIN v : v[n].type = "NULL")
            /\ ~(t.op = "AND" /\ (false(v[1]) \/ false(v[2])))
            /\ ~(t.op = "OR"  /\ (true(v[1]) \/ true(v[2]))) -> Null
       [] OTHER ->
            CASE t.op = "LENGTH"   -> Number(Len(x))
              [] t.op = "UNARYNEG" -> Number(-x)
              [] t.op = "NOT"      -> Truth(false(v[1]))
              [] t.op = "AND"      -> Number(1)
              [] t.op = "OR"       -> Number(0)
              [] t.op = "ADD"      -> Number(x + y)
              [] t.op = "SUB"      -> Number(x - y)
              [] t.op = "MULT"     -> Number(x * y)
              [] t.op = "DIV"      -> IF y = 0 THEN Null ELSE Number(x \div y)
              [] t.op = "EQ"       -> Truth(x = y)
              [] t.op = "NEQ"      -> Truth(x # y)
              [] t.op = "LT"       -> Truth(less(x, y))
              [] t.op = "LTE"      -> Truth(~less(y, x))
              [] t.op = "GT"       -> Truth(less(y, x))
              [] t.op = "GTE"      -> Truth(~less(x, y))

-----------------------------------------------------------------------------
\* The trees.
Binaries(ops, X, Y) == {Tree(op, <<x, y>>) : op \in ops, x \in X, y \in Y}
Unaries(ops, X)     == {Tree(op, <<x>>) : op \in ops, x \in X}

Leaves   == {A, Const(2)}
Simple   == Binaries({"ADD", "SUB", "MULT"}, Leaves, Leaves)
              \cup Unaries({"UNARYNEG"}, Leaves) \cup Unaries({"LENGTH"}, {S})
Terms    == Leaves \cup Simple
              \cup Binaries({"SUB", "MULT"}, Simple, {A})
              \cup Binaries({"SUB", "MULT"}, {A}, Simple)
              \cup Unaries({"UNARYNEG"}, Simple)
Tests    == Binaries({"EQ", "GT"}, {A}, {Const(1)})
              \cup {Tree("LT", <<A, B>>), Tree("NEQ", <<B, Const(2)>>),
                    Tree("EQ", <<S, Word(<<1>>)>>)}
Compared == Binaries({"LTE"}, Terms, {B}) \cup Binaries({"GTE"}, {B}, Terms)
              \cup Binaries({"LT", "GT", "NEQ"}, {S, Word(<<1, 2>>)}, {Word(<<1>>), S})
              \cup {Tree("EQ", <<Tree("DIV", <<Const(2), A>>), B>>)}
Nots     == Unaries({"NOT"}, Tests)
Logic    == Binaries({"AND", "OR"}, Tests \cup Nots, Tests)
Deep     == Binaries({"AND", "OR"}, Binaries({"AND", "OR"}, Tests, {Tree("LT", <<A, B>>)}), Tests)
              \cup Binaries({"AND", "OR"}, Tests, Binaries({"AND", "OR"}, Tests, {Tree("LT", <<A, B>>)}))
              \cup Unaries({"NOT"}, Logic \cup Nots)
Clashing == {Tree("EQ", <<A, Word(<<1>>)>>), Tree("ADD", <<S, Const(1)>>),
             Tree("LENGTH", <<A>>), Tree("AND", <<Word(<<1>>), S>>),
             Tree("UNARYNEG", <<S>>),
             \* its sample is divided by 0
             Tree("OR", <<Tree("EQ", <<Tree("DIV", <<A, Tree("SUB", <<B, Const(1)>>)>>),
                                       Word(<<1>>)>>), Const(1)>>)}

Written(kind_, t)  == [kind |-> kind_, toks |-> Text(t), trees |-> {t}]
Verbatim(kind_, text) == [kind |-> kind_, toks |-> text, trees |-> {}]

\* Texts that no tree is written as.
Odd == {
  <<Node("LPAREN", "("), Number(1)>>, <<Number(1), Node("RPAREN", ")")>>,
  <<Number(1), Number(2)>>, <<Operator("ADD"), Number(1)>>,
  <<Node("FUNC", "LENGTH"), Number(1)>>, <<Name("a"), Dot, Number(1)>>,
  <<Operator("BCOMP"), Number(1)>>,
  <<Name("d"), Dot, Name("t"), Dot, Name("a"), Operator("EQ"), Number(1)>>,
  <<Name("x"), Dot, Name("d"), Dot, Name("t"), Dot, Name("a")>>,
  <<Name("a"), Operator("EQ"), Node("PLACEHOLDER", 1)>>,
  <<Node("AGGRFUNC", "MAX")>> \o Parens(<<Number(2), Operator("MULT"), Name("a")>>),
  <<Node("FUNC", "LENGTH")>>
     \o Parens(<<Str(<<1>>), Node("COMMA", ","), Name("a"), Operator("MULT"), Number(2)>>),
  <<Number(1), Node("OTHER", "AS")>>}

Wheres == {<<Written("WHERE", t)>> :
             t \in Terms \cup Compared \cup Tests \cup Nots \cup Logic \cup Deep
                     \cup Clashing \cup {S, Word(<<1, 2>>)}}
Joins  == {<<Written("ON", s), Written("WHERE", t)>> : s, t \in Tests \cup {A}}
Odds   == {<<Verbatim("WHERE", text)>> : text \in Odd}
            \cup {<<Verbatim("ON", text), Written("WHERE", A)>> : text \in Odd}
            \cup {<<Written("ON", A)>>, <<Verbatim("ON", <<Number(1), Node("RPAREN", ")")>>)>>}

QuerySet == Wheres \cup Joins \cup Odds
TokenSet == UNION {UNION {ToSet(q[n].toks) : n \in DOMAIN q} : q \in QuerySet}

Types   == [a |-> "INT", b |-> "INT", s |-> "STRING"]
RowSet  == {[a |-> x, b |-> y, s |-> IF y = Null THEN Null ELSE Str(<<1>>)] :
              x, y \in {Number(0), Number(1), Null}}
StraySet == {<<>>, <<1>>}

-----------------------------------------------------------------------------
\* The query was parsed in full, and every clause of it was written from a tree.
Whole == /\ pc \in {"parsed", "eval"} /\ ~dropped
         /\ \A n \in DOMAIN query : query[n].trees # {}

TreeOf(clause) == CHOOSE t \in clause.trees : TRUE

Condition == IF Len(query) = 1 THEN TreeOf(query[1])
             ELSE Tree("AND", <<TreeOf(query[1]), TreeOf(query[2])>>)

WellTyped == TypeOf(Condition) # "ERROR"

IsStr(n) == n.type \in {"STRING", "OFFSET", "STRAY"}

\* The code parseexpression writes for the clauses of a query is the postfix
\* form of the trees they were written from, the conditions joined by an AND.
Grouping ==
  Whole => [n \in DOMAIN code |->
              IF IsStr(code[n]) THEN Str(code[n].val) ELSE code[n]]
             = Postfix(Condition)

\* What evaluate_eet returns for a tuple is what the condition is worth on it,
\* with NULL neither true nor false.  (A string that was not built may be
\* anything.)
AsMeant ==
  (/\ Whole /\ WellTyped
   /\ \A n \in DOMAIN code : code[n].type # "STRAY"
   /\ row # <<>> /\ result.type # "NONE")
    => LET w == Worth(Condition, row)
       IN result.type = w.type /\ result.val = w.val

\* evaluate_eet leaves something on the back stack only when it returns an
\* error, and never for a condition whose operands agree in type, whichever
\* attributes of the tuple are NULL.
BackRestored ==
  held # 0 => /\ kind = "ERROR" \/ result.type = "ERROR"
              /\ Whole => ~WellTyped
=============================================================================
