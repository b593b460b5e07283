------------------------------ MODULE MCExecTree ------------------------------
(***************************************************************************)
(* Up to three relations, one perhaps twice and one perhaps empty, with    *)
(* attributes of the same name and NULLs; conditions and items that name   *)
(* attributes with and without their table.                                *)
(***************************************************************************)
EXTENDS ExecTree, TLC

CONSTANT Null
MCAttrs == "t" :> <<"a", "b">> @@ "u" :> <<"c", "a">> @@ "e" :> <<"d">>
MCRows == "t" :> <<<<1, 2>>, <<2, Null>>, <<2, 1>>>>
          @@ "u" :> <<<<2, 1>>, <<1, 2>>>> @@ "e" :> <<>>

As(r, x) == [relation |-> r, alias |-> x]
Froms == {<<As("t", "t")>>, <<As("u", "x")>>, <<As("e", "e")>>,
          <<As("t", "t"), As("u", "x")>>, <<As("u", "u"), As("t", "t")>>,
          <<As("t", "x"), As("e", "e")>>, <<As("e", "e"), As("t", "t")>>,
          <<As("t", "t"), As("u", "u"), As("t", "x")>>,
          <<As("u", "x"), As("t", "t"), As("u", "u")>>,
          <<As("t", "t"), As("e", "e"), As("u", "u")>>,
          <<As("u", "u"), As("u", "v"), As("t", "x"), As("t", "t")>>}

Attr(t, n) == [kind |-> "attr", table |-> t, name |-> n]
Const(v)   == [kind |-> "const", value |-> v]
Eq(l, r)   == [l |-> l, r |-> r]
Wheres == {<<>>, <<Eq(Attr("", "b"), Const(2))>>, <<Eq(Attr("", "c"), Const(2))>>,
           <<Eq(Attr("t", "a"), Attr("x", "a"))>>,
           <<Eq(Attr("t", "b"), Attr("u", "c"))>>,
           <<Eq(Attr("t", "b"), Attr("u", "c")), Eq(Attr("x", "a"), Const(2))>>,
           <<Eq(Attr("x", "c"), Const(1))>>, <<Eq(Const(1), Const(2))>>}

Star     == [kind |-> "*"]
All(t)   == [kind |-> "T.*", table |-> t]
Expr(os) == [kind |-> "sum", operands |-> os]
Lists == {<<Star>>, <<All("t"), Star>>, <<Star, All("x")>>,
          <<Expr(<<Attr("t", "b"), Attr("x", "a")>>), Expr(<<Attr("", "a")>>)>>,
          <<Expr(<<Attr("u", "c")>>), Expr(<<Const(1), Attr("t", "b")>>)>>,
          <<All("x"), Expr(<<Attr("t", "b")>>), All("t")>>,
          <<Expr(<<Attr("", "b")>>), Expr(<<Attr("", "d")>>)>>,
          <<Expr(<<Attr("", "c")>>), Expr(<<Attr("t", "d")>>)>>}

\* "T.*" is of a table of FROM: ParseSelect refuses any other.
MCQueries ==
  {q \in [from : Froms, where : Wheres, items : Lists] :
     \A i \in DOMAIN q.items : q.items[i].kind = "T.*" =>
        \E s \in DOMAIN q.from : q.from[s].alias = q.items[i].table}
=============================================================================
