------------------------------- MODULE MCParse -------------------------------
(***************************************************************************)
(* Queries over three relations.  The sentences combine ways to write each *)
(* clause, in two orders, with and without a ";"; the other texts have any *)
(* few tokens in place of one of the clauses, or clauses missing.          *)
(***************************************************************************)
EXTENDS ParseSelect

MCRelations == {"t", "u", "v"}
MCIdents == MCRelations \cup {"a", "b", "c", "p", "q"}
MCAttrs == [r \in MCRelations |-> CASE r = "t" -> <<"a", "b">>
                                   [] r = "u" -> <<"c">> [] OTHER -> <<"q">>]

Lists ==
  {<<"*">>, <<"a">>, <<"a", "+", "1">>, <<"a", "p", ",", "b", "AS", "q">>,
   <<"t", ".", "*", ",", "a", "AS", "p">>, <<"*", ",", "t", ".", "a", ",", "1", "p">>,
   <<"(", "a", ")", ",", "b", "p">>}
Froms ==
  {<<"t">>, <<"t", ",", "u", "p">>, <<"t", "JOIN", "u", "AS", "p">>,
   <<"t", "CROSS", "JOIN", "u">>,
   <<"t", "INNER", "JOIN", "u", "p", "ON", "a", "=", "c">>,
   <<"t", "JOIN", "u", "ON", "a", "=", "c", "JOIN", "v", "ON", "c", "=", "q">>,
   <<"t", "JOIN", "u", "ON", "c", "=", "1", ",", "v">>}
Wheres == {<<>>, <<"WHERE", "b">>}
Tails == {<<>>, <<";">>, <<";b">>}

SelectsFroms == {<<"SELECT">> \o l \o <<"FROM">> \o g : l \in Lists, g \in Froms}
MCSentences ==
  {q \o w \o e : q \in SelectsFroms, w \in Wheres, e \in Tails}
  \cup {<<"SELECT">> \o l \o w \o <<"FROM">> \o g \o e :
          l \in Lists, g \in Froms, w \in Wheres, e \in Tails}
  \cup {q \o <<"ORDER", "a">> : q \in SelectsFroms}

Upto(n, S) == UNION {[1 .. k -> S] : k \in 0 .. n}
\* For the lexer an identifier or a "*" follows a "." at once.
Read(n, S) == {l \in Upto(n, S) : \A i \in DOMAIN l : l[i] = "." =>
                 i < Len(l) /\ l[i + 1] \in MCIdents \cup {"*"}}
MCTexts ==
  MCSentences
  \cup {<<"SELECT", "*", "FROM">> \o g \o w :
          g \in Upto(4, {"t", "u", ",", "JOIN", "ON", "AS"}), w \in {<<>>, <<";b">>}}
  \cup {<<"SELECT", "*", "FROM">> \o g \o <<"WHERE", "a">> :
          g \in Upto(3, {"t", "INNER", "LEFT", "CROSS", "u"})}
  \cup {<<"SELECT">> \o l \o <<"FROM", "t">> :
          l \in Read(3, {"*", "a", "t", ".", ",", "AS", "(", ")"})}
  \cup {<<"FROM", "t", "SELECT">> \o l :
          l \in Upto(2, {"*", "a", ",", "AS", ";", ";b"})}
  \cup {<<"SELECT", "*", "FROM", "t", "FROM">> \o g : g \in Froms \cup {<<"u">>}}
  \cup {<<"FROM", "t">> \o w : w \in Upto(2, {"WHERE", "GROUP", "SELECT", "a"})}

\* Four clauses, or SELECT not in front.
MCJumbled ==
  {<<"SELECT", "*", "FROM", "t", "WHERE", "a", "ORDER", "b">>,
   <<"SELECT", "*", "FROM", "t", "WHERE", "a", "GROUP", "b">>,
   <<"FROM", "t", "WHERE", "a", "SELECT", "*", ";">>,
   <<"WHERE", "a", "FROM", "t", "SELECT", "a">>}
MCNone == {}
=============================================================================
