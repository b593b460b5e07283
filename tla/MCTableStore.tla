----------------------------- MODULE MCTableStore -----------------------------
(***************************************************************************)
(* TableStore with statements written from the tables and rows they are to *)
(* make, and with some that are written wrongly.                           *)
(***************************************************************************)
EXTENDS TableStore, FiniteSets

Ident(name)     == TokOf("IDENT", name)

a == <<97>>
b == <<98, 49>>
c == <<99>>

\* A list in parentheses, its elements separated by commas.
Listed(s) ==
  <<Tok("LPAREN")>>
    \o FlattenSeq([k \in DOMAIN s |-> IF k = 1 THEN s[k] ELSE <<Tok("COMMA")>> \o s[k]])
    \o <<Tok("RPAREN")>>

Column_(name, type, size) == [name |-> name, type |-> type, size |-> size]
IntCol(name)       == Column_(name, "INT", IntSize)
StrCol(name, size) == Column_(name, "STRING", size)

Create(t, cols) ==
  [command |-> "CREATE", table |-> t, cols |-> cols, names |-> <<>>, vals |-> <<>>,
   whole |-> TRUE,
   toks |-> Listed([k \in DOMAIN cols |-> <<Ident(cols[k].name)>> \o TypeText(cols[k])])]

Number(n) == [type |-> "INT", val |-> n]
Str(s)    == [type |-> "STRING", val |-> s]

ValueText(v) ==
  IF v.type = "INT" /\ v.val < 0 THEN <<Tok("SUB"), Number(-v.val)>> ELSE <<v>>

\* names is empty when the statement names no columns.
Insert(t, names, vals) ==
  [command |-> "INSERT", table |-> t, cols |-> <<>>, names |-> names, vals |-> vals,
   whole |-> TRUE,
   toks |-> (IF names = <<>> THEN <<>>
             ELSE Listed([k \in DOMAIN names |-> <<Ident(names[k])>>]))
            \o <<Tok("VALUES")>>
            \o Listed([k \in DOMAIN vals |-> ValueText(vals[k])])]

\* The same without its last n tokens, or without its n-th.
Cut(s, n)   == [s EXCEPT !.toks = SubSeq(@, 1, Len(@) - n), !.whole = FALSE]
Less(s, n)  == [s EXCEPT !.toks = SubSeq(@, 1, n - 1) \o SubSeq(@, n + 1, Len(@)),
                         !.whole = FALSE]

Pair == <<IntCol(a), StrCol(b, 3)>>
Nine == [k \in 1..9 |-> IF k = 9 THEN IntCol(<<k>>) ELSE StrCol(<<k>>, 1)]

CreatePair == Create("t", Pair)
CreateNine == Create("t", Nine)
InsertPair == Insert("t", <<>>, <<Number(-2), Str(<<65, 66>>)>>)

Creates == {CreatePair, CreateNine, Create("u", <<StrCol(c, 2)>>),
            Create("t", <<StrCol(b, 2), IntCol(a)>>)}
BadCreates ==
  {Create("t", <<IntCol(a), IntCol(a)>>), Create("t", <<StrCol(b, MaxString + 1)>>)}
    \cup {Cut(CreatePair, n) : n \in {1, 2, 6, Len(CreatePair.toks)}}
    \cup {Less(CreatePair, n) : n \in {1, 3, 4}}
Inserts ==
  {InsertPair,
   Insert("t", <<b, a>>, <<Str(<<67>>), Number(300)>>),
   Insert("t", <<b>>, <<Str(<<>>)>>), Insert("t", <<a>>, <<Number(7)>>),
   Insert("t", <<<<9>>, <<1>>>>, <<Number(5), Str(<<>>)>>),
   Insert("t", <<<<2>>>>, <<Str(<<>>)>>),
   Insert("u", <<>>, <<Str(<<67>>)>>)}
BadInserts ==
  {Insert("t", <<>>, <<Number(1), Str(<<65, 66, 67>>)>>),
   Insert("t", <<>>, <<Str(<<65>>), Number(1)>>),
   Insert("t", <<>>, <<Number(1), Str(<<65>>), Number(1)>>),
   Insert("t", <<c>>, <<Number(1)>>)}
    \cup {Cut(InsertPair, n) : n \in {1, 2, 3}}
    \cup {Less(InsertPair, n) : n \in {1, 2, 5}}
    \cup {Less(Insert("t", <<b, a>>, <<Str(<<67>>), Number(300)>>), n) : n \in {1, 3, 5}}
\* Too few values, or one too many, or a column twice: these may be taken.
Unsure ==
  {[s EXCEPT !.whole = FALSE] :
     s \in {Insert("t", <<>>, <<Number(1)>>), Insert("t", <<a>>, <<Number(1), Number(2)>>),
            Insert("t", <<b, a>>, <<Str(<<67>>)>>),
            Insert("t", <<a, a>>, <<Number(1), Number(2)>>)}}

StatementSet == Creates \cup BadCreates \cup Inserts \cup BadInserts \cup Unsure

StrayIntSet == {-1}
StrayStringSet == {<<88>>, <<88, 88, 88, 88>>}

-----------------------------------------------------------------------------
Schema(t)  == done[t][1].cols
RowsIn(t)  == Tail(done[t])

\* The row an INSERT means, in a table of these columns.
Row(cols, s) ==
  [k \in DOMAIN cols |->
     IF s.names = <<>> THEN s.vals[k]
     ELSE IF \E n \in DOMAIN s.names : s.names[n] = cols[k].name
     THEN s.vals[CHOOSE n \in DOMAIN s.names : s.names[n] = cols[k].name]
     ELSE [type |-> "NULL", val |-> 0]]

\* A row that was inserted in full is read back by every scan, in its place
\* and with each value in its column, also after a crash, a full storage or a
\* row whose values were not all given.
RowsSurvive ==
  \A t \in DOMAIN done : done[t] # <<>> =>
    /\ HasHeader(files[t])
    /\ LET tuples == Tuples(files[t])
       IN \A n \in DOMAIN RowsIn(t) :
            /\ n <= Len(tuples)
            /\ RowsIn(t)[n].whole => tuples[n] = Row(Schema(t), RowsIn(t)[n])
=============================================================================
