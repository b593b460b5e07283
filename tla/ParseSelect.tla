----------------------------- MODULE ParseSelect -----------------------------
(***************************************************************************)
(* parseSelect of dbparser/dbparser.c, and the parser as a whole.  The     *)
(* list of SELECT is read item by item: "*" and "T.*" take attributes as   *)
(* they are, any other item is an expression with perhaps an alias.  A     *)
(* second reading gives the columns of the projection their aliases.       *)
(***************************************************************************)
EXTENDS ParsePlan

CONSTANTS
  Attrs,      \* for every relation the sequence of its attributes
  Sentences   \* the texts that are queries, with names that all differ

ASSUME AttrsAssumption == Attrs \in [Relations -> Seq(Idents)]
ASSUME SentencesAssumption == Sentences \subseteq Texts

SE == INSTANCE SequencesExt
Concat(ss) == SE!FlattenSeq(ss)

\* The header of a scan and of the joins.
AttrsOf(id) == Attrs[text[id]]
Header(ids) == Concat([k \in DOMAIN ids |-> AttrsOf(ids[k])])

\* An operator at the very end of the text is not recognised by the lexer.
Op(i, op) == text[i] = op /\ i < Len(text)
Operator(i) == \E op \in {"*", "=", "+"} : Op(i, op)

-----------------------------------------------------------------------------
\* The first reading counts the commas, for the array of expressions.
Select ==
  /\ Taken("SELECT")
  /\ \/ /\ at' = "item"
        /\ offset' = Clause.start
        /\ list' = [items |-> <<>>, thisstart |-> Clause.start, brackets |-> 0,
                    expr |-> 1, attr |-> 0]
        /\ UNCHANGED <<text, token, jointype, stack, sort, done, tables, open,
                       expr, builtselect, root, names, refused, result>>
     \/ ReturnNull /\ refused' = TRUE /\ UNCHANGED offset

SelectFails(f) == ReturnNull /\ refused' = f /\ UNCHANGED offset

\* The tokens of the item that starts at thisstart: up to a comma, or the end.
Rest  == Readable(list.thisstart, ClauseEnd)
Comma == {i \in Rest : text[i] = ","}
Item  == IF Comma = {} THEN Rest ELSE {i \in Rest : i < Min(Comma)}
ItemEnd ==   \* thisend
  IF Comma # {} THEN End(Min(Comma))
  ELSE IF Rest # {} THEN End(Max(Rest)) ELSE list.thisstart
First == TokenAt(list.thisstart)
Last  == IF Item = {} THEN 0 ELSE Max(Item)
SecondLast == IF Cardinality(Item) < 2 THEN 0 ELSE Last - 1

Dangling ==    \* lasttoken, after a comma
  /\ Comma # {}
  /\ LET i == Min(Comma) IN
     \/ ClauseEnd <= End(i)
     \/ CanRead(End(i), ClauseEnd) /\ ClauseEnd <= Start(i + 1)

Brackets ==
  list.brackets + Cardinality({i \in Item : text[i] = "("})
                - Cardinality({i \in Item : text[i] = ")"})

WhichScan(i) == {k \in DOMAIN tables : text[tables[k].alias] = text[i]}

\* The form of the item, with the token that must be its last.
Within(i) == CanRead(End(i - 1), ClauseEnd)
IsStar == Op(First, "*")
Dot    == Ident(First) /\ Within(First + 1) /\ text[First + 1] = "."
IsTableStar == Dot /\ Within(First + 2) /\ Op(First + 2, "*")

Refuses ==
  \/ Dangling
  \/ Brackets # 0
  \/ IsStar /\ Last # First
  \/ IsTableStar /\ (Last # First + 2 \/ WhichScan(First) = {})
  \/ Dot /\ ~IsTableStar /\ ~(Within(First + 2) /\ Ident(First + 2))
  \/ ~IsStar /\ ~IsTableStar /\ Last # 0 /\ text[Last] = "AS"

\* An identifier at the end, that no operator or dot goes before, is an alias.
AliasAt(last, secondlast) ==
  /\ last # 0 /\ Ident(last)
  /\ secondlast # 0 /\ ~Operator(secondlast) /\ text[secondlast] # "."

ExprEnd ==
  IF AliasAt(Last, SecondLast)
  THEN Start(IF text[SecondLast] = "AS" THEN SecondLast ELSE Last)
  ELSE ItemEnd

Took(item) ==
  list' = [list EXCEPT !.items = Append(@, item), !.thisstart = ItemEnd]

\* The item is over; so is the list when its end is reached.
GoOn ==
  /\ at' = IF ClauseEnd <= ItemEnd THEN "project" ELSE "item"
  /\ offset' = ItemEnd
  /\ UNCHANGED <<text, token, jointype, stack, sort, done, tables, open, expr,
                 builtselect, root, names, result>>

ItemRefused ==
  /\ at = "item" /\ Refuses
  /\ SelectFails(refused)

Star ==
  /\ at = "item" /\ ~Refuses /\ IsStar
  /\ Took([kind |-> "*", tokens |-> Item, first |-> 0, last |-> Last])
  /\ GoOn /\ UNCHANGED refused

TableStar ==
  /\ at = "item" /\ ~Refuses /\ IsTableStar
  /\ Took([kind |-> "T.*", tokens |-> Item, first |-> Min(WhichScan(First)),
           last |-> Last])
  /\ GoOn /\ UNCHANGED refused

\* The tokens that end up in an expression.  One that has an attribute is set
\* up at the plan so far, which may not exist.
Meant(i) == text[i] \notin {",", "AS"} \cup Terminators
            /\ (text[i] \in {"*", "=", "+"} => Operator(i))

Expression ==
  /\ at = "item" /\ ~Refuses /\ ~IsStar /\ ~IsTableStar
  /\ \E end \in {ExprEnd} : \E r \in ClauseExpression(list.thisstart, end) :
       IF r.ret # 1
       THEN SelectFails(TRUE)
       ELSE IF root = NoRoot /\ \E i \in r.tokens : Ident(i)
       THEN Undefined /\ UNCHANGED offset
       ELSE /\ Took([kind |-> "expr", first |-> 0, last |-> Last,
                     tokens |-> {i \in r.tokens : Meant(i)}])
            /\ GoOn /\ UNCHANGED refused

NameUnknown ==
  /\ at = "item" /\ ~Refuses /\ ~IsStar /\ ~IsTableStar
  /\ SelectFails(TRUE)

-----------------------------------------------------------------------------
(* The projection, unless all that is wanted is "*", and its header.       *)
OnlyStar == Len(list.items) = 1 /\ list.items[1].kind = "*"

\* The name of an attribute on its own; other expressions have none.
NameOf(tokens) ==
  LET nodes == {i \in tokens : /\ text[i] \notin {"(", ")", "."}
                               /\ i + 1 \in tokens => text[i + 1] # "."} IN
  IF Cardinality(nodes) = 1 /\ \A i \in nodes : Ident(i)
  THEN text[Max(nodes)] ELSE "none"

Columns(item) ==
  CASE item.kind = "*"   -> Header(root.scans)
    [] item.kind = "T.*" -> AttrsOf(root.scans[item.first])
    [] OTHER             -> <<NameOf(item.tokens)>>

\* An expression without a value, as between two commas, is given the type of
\* what memory holds, and often refused for it.
Project ==
  /\ at = "project" /\ ~OnlyStar
  /\ IF root = NoRoot
     THEN Undefined /\ UNCHANGED offset
     ELSE \/ SelectFails(TRUE)
          \/ /\ root' = [root EXCEPT !.ops = Append(@, [op |-> "PROJECT",
                                                       tokens |-> {}])]
             /\ names' = Concat([k \in DOMAIN list.items |->
                                   Columns(list.items[k])])
             /\ at' = "name"
             /\ UNCHANGED <<text, offset, token, jointype, stack, sort, done,
                            tables, open, expr, builtselect, list, refused,
                            result>>

NoProject ==
  /\ at = "project" /\ OnlyStar
  /\ at' = "after"
  /\ UNCHANGED <<text, offset, token, jointype, stack, sort, done, tables, open,
                 expr, builtselect, root, list, names, refused, result>>

\* The second reading of the list.  The token before the last one is the one
\* before it in the clause, also when that is the comma of the item before.
\* whichattr moves on only past items that end in an identifier, or a "*".
Named == list.items[list.expr]
Before(i) == IF i - 1 < TokenAt(Clause.start) THEN 0 ELSE i - 1
Aliasing  == Named.kind = "expr" /\ AliasAt(Named.last, Before(Named.last))

\* Mutant: only the items with an alias are counted.
NextColumn_Aliased ==
  IF Named.kind # "expr" THEN list.attr + Len(Columns(Named))
  ELSE IF Aliasing THEN list.attr + 1 ELSE list.attr

NextColumn ==
  IF Named.kind # "expr" THEN list.attr + Len(Columns(Named))
  ELSE IF Named.last # 0 /\ Ident(Named.last) THEN list.attr + 1
  ELSE list.attr

DuplicateAlias ==
  /\ at = "name" /\ Aliasing
  /\ \E c \in 1 .. list.attr : names[c] = text[Named.last]
  /\ SelectFails(refused)

Alias ==
  /\ at = "name"
  /\ IF Aliasing
     THEN /\ \A c \in 1 .. list.attr : names[c] # text[Named.last]
          /\ names' = [names EXCEPT ![list.attr + 1] = text[Named.last]]
     ELSE UNCHANGED names
  /\ list' = [list EXCEPT !.expr = @ + 1, !.attr = NextColumn]
  /\ at' = IF list.expr = Len(list.items) THEN "after" ELSE "name"
  /\ UNCHANGED <<text, offset, token, jointype, stack, sort, done, tables, open,
                 expr, builtselect, root, refused, result>>

SelectStep ==
  \/ Select \/ ItemRefused \/ Star \/ TableStar \/ Expression \/ NameUnknown
  \/ Project \/ NoProject \/ DuplicateAlias \/ Alias

Next == ParseStep \/ SelectStep

\* parse runs to its end without waiting for anything.
Spec == Init /\ [][Next]_vars /\ WF_vars(Next)

-----------------------------------------------------------------------------
\* What a text says, read off the words around each token.
ClauseOf(i) == text[Max({k \in 1 .. i : text[k] \in Clauses})]
InClause(c) == {i \in DOMAIN text : /\ text[i] \notin Clauses \cup Terminators
                                   /\ ClauseOf(i) = c}
Told == {i \in InClause("FROM") : /\ Ident(i)
                                 /\ text[i - 1] \in {"FROM", ",", "JOIN"}}
InOn(i) == \E h \in 1 .. i - 1 :
              /\ text[h] = "ON"
              /\ \A k \in h .. i : text[k] \notin {","} \cup NormalJoins
Conditions == InClause("WHERE") \cup {i \in InClause("FROM") : InOn(i)}

\* The items of SELECT, each by its last token.
Ends == {i \in InClause("SELECT") :
           text[i] # "," /\ (i + 1 \in InClause("SELECT") => text[i + 1] = ",")}
Opens(i) == i - 1 \notin InClause("SELECT") \/ text[i - 1] = ","
ItemTold(e) ==
  LET b == Max({i \in 1 .. e : Opens(i)}) IN
  CASE text[e] = "*" /\ b = e -> Header(root.scans)
    [] text[e] = "*" /\ b # e -> AttrsOf(tables[CHOOSE k \in DOMAIN tables :
                                         text[tables[k].alias] = text[b]].name)
    [] Ident(e) /\ b < e /\ text[e - 1] \notin {".", "=", "+"} -> <<text[e]>>
    [] OTHER -> <<NameOf(b .. e)>>

Over(r) == result = r /\ ~refused /\ text \in Sentences

\* Every query of the grammar is accepted unless memory runs out or a name
\* is not found, whatever the order of SELECT, FROM and WHERE after the SELECT,
\* the way its joins are written and wherever its ";" stands; in particular
\* the sort, the array of scans and the offsets handed from one reading of a
\* clause to the next never leave it undefined (dbparser.c:1212).
SentencesParsed == ~Over("null") /\ ~Over("undefined")

\* The plan has every relation of FROM once, in that order, and all the
\* conditions, of ON and of WHERE, in one operator above all of them
\* (dbparser.c:318, 736 and 1366).
PlanAsTold ==
  Over("plan") =>
    /\ root.scans = SE!SetToSortSeq(Told, <)
    /\ SE!SelectSeq(root.ops, LAMBDA o : o.tokens # {}) \in
         IF Conditions = {} THEN {<<>>}
         ELSE {<<[op |-> o, tokens |-> Conditions]>> :
                 o \in IF Cardinality(Told) = 2 THEN {"NTJOIN", "OSIJOIN"}
                       ELSE {"SELECT"}}

\* The columns of the answer have the names the query gives them, as far as
\* all items of SELECT but the last end in an identifier or a "*"
\* (dbparser.c:1158; after another item the names go to columns too far left).
ColumnsAsTold ==
  /\ Over("plan")
  /\ \A e \in Ends : e = Max(Ends) \/ Ident(e) \/ text[e] = "*"
  => LET told == SE!SetToSortSeq(Ends, <)
         cols == Concat([k \in DOMAIN told |-> ItemTold(told[k])])
     IN IF root.ops # <<>> /\ root.ops[Len(root.ops)].op = "PROJECT"
        THEN names = cols ELSE cols = Header(root.scans)

OneFrom == \A i, j \in DOMAIN text : text[i] = "FROM" /\ text[j] = "FROM" => i = j

\* Whatever is wrong with a query and whenever it is found, the files that
\* are left open are those of the plan returned, and none if there is no
\* plan; the exceptions are an AS without a name, and a second FROM, whose
\* plan replaces that of the first (dbparser.c:498, 1311).
NothingLeftOpen ==
  OneFrom =>
    /\ result = "plan" => open = Leaves
    /\ result = "null" /\ open # {} =>
         Clause.clause = "FROM" /\ Aliased(token) = 0

\* Parsing ends, though parseSelect reads in loops that only a break leaves.
ParseEnds == <>(result # "")

\* The clauses are processed in the order of their clause_i: "Sort clauses"
\* (dbparser.c:1267).
ClausesSorted ==
  at = "clause" => \A k \in 1 .. Len(stack) - 1 :
                      Rank(stack[k].clause) <= Rank(stack[k + 1].clause)
=============================================================================
