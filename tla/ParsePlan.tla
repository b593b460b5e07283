------------------------------ MODULE ParsePlan ------------------------------
(***************************************************************************)
(* From the text of a query to its plan: parse, parseFrom and              *)
(* parseClauseExpression of dbparser/dbparser.c.  ParseSelect adds         *)
(* parseSelect and the specification.                                      *)
(*                                                                         *)
(* A text is a sequence of tokens, with a blank between any two but before *)
(* ";" (";b" is a ";" after a blank).  Offsets are in half tokens: token i *)
(* ends at 2i, and starts at 2i - 1, after the blank.  What a condition    *)
(* means is in ParseExpr and Eet: here it is the set of its tokens.  A     *)
(* refused allocation, or an expression given up halfway, may happen       *)
(* wherever the code looks for it.                                         *)
(***************************************************************************)
EXTENDS Integers, Sequences, FiniteSetsExt

CONSTANTS
  Texts,      \* the queries
  Idents,     \* the tokens that are identifiers
  Relations   \* those of them that name a relation on the storage

ASSUME TextsAssumption == Texts \subseteq Seq(STRING)
ASSUME RelationsAssumption == Relations \subseteq Idents

VARIABLES
  text,
  at,          \* where parse is
  offset,      \* lexer.offset
  token,       \* FROM: the identifier being looked at
  jointype,    \* FROM: "NORMAL" if an ON may follow, or "0"
  stack,       \* the clause nodes from the top of the stack down
  sort,        \* j and i of the sort
  done,        \* how many nodes have been taken off the stack
  tables,      \* the scans of FROM: the tokens of name and alias
  open,        \* the scans with an open file, by the token of their name
  expr,        \* *exprp: NULL or not, and the tokens it was built from
  builtselect,
  root,        \* the plan: its scans, joined from the left, and the operators above
  list,        \* parseSelect: its items, thisstart, brackets, whichexpr, whichattr
  names,       \* the names in the header of the projection
  refused,     \* history: memory was refused, or an expression or a name given up
  result       \* "", "plan", "null" (NULL), or "undefined"

vars == <<text, at, offset, token, jointype, stack, sort, done, tables, open,
          expr, builtselect, root, list, names, refused, result>>

-----------------------------------------------------------------------------
(* Tokens.                                                                 *)
Clauses     == {"FROM", "WHERE", "GROUP", "HAVING", "ORDER", "SELECT"}
NormalJoins == {"JOIN", "INNER", "CROSS"}
SpecialJoins == {"LEFT", "RIGHT", "FULL", "OUTER", "NATURAL"}
Terminators == {";", ";b"}

\* clause_i, and in the same order bcode.
Rank(c) == CASE c = "FROM" -> 5 [] c = "WHERE" -> 6 [] c = "GROUP" -> 7
             [] c = "HAVING" -> 8 [] c = "ORDER" -> 9 [] OTHER -> 10

Start(i)   == IF text[i] = ";" THEN 2 * (i - 1) ELSE 2 * i - 1
End(i)     == 2 * i
TokenAt(o) == o \div 2 + 1               \* the token lexer_next finds at o
CanRead(o, end) == o < end /\ TokenAt(o) <= Len(text)
Ident(i)   == text[i] \in Idents

\* The tokens a loop of lexer_next reads from start on while before end.
Readable(start, end) ==
  {i \in TokenAt(start) .. Len(text) : End(i - 1) < end}

Clause    == stack[done + 1]
ClauseEnd == Clause.end
Scans     == {tables[k].name : k \in DOMAIN tables}
Leaves    == {root.scans[k] : k \in DOMAIN root.scans}
NoRoot    == [scans |-> <<>>, ops |-> <<>>]

\* Where the expression of a clause ends: before the next clause or join.
ExpressionEnd(start, end) ==
  LET joins == {i \in Readable(start, end) :
                  text[i] \in Clauses \cup NormalJoins \cup SpecialJoins}
  IN IF joins = {} THEN end ELSE Start(Min(joins))

\* What parseexpression may come back with: 1 or -1, the offset it leaves, and
\* the tokens that are in the expression; unless not even its first, empty,
\* chunk could be allocated.
ParseExpression(start, end) ==
  LET upto(o) == {i \in Readable(start, o) :
                    Start(i) < end /\ text[i] \notin Terminators}
      left(ret, o) == [ret |-> ret, offset |-> o, tokens |-> upto(o),
                       alloc |-> TRUE]
  IN {left(1, end), [left(-1, start) EXCEPT !.alloc = FALSE]}
     \cup {left(-1, o) : o \in {start} \cup {End(i) : i \in upto(end)}}

\* The same of parseClauseExpression; end is that of the clause, exprend that
\* of its expression, which must not be empty.
ClauseExpression(start, end) ==
  UNION {
    IF CanRead(start, end) /\ Start(TokenAt(start)) # exprend
    THEN ParseExpression(start, exprend)
    ELSE {[ret |-> -1, tokens |-> {}, alloc |-> FALSE,
           offset |-> IF CanRead(start, end) THEN End(TokenAt(start)) ELSE start]}
    : exprend \in {ExpressionEnd(start, end)}}

-----------------------------------------------------------------------------
Init ==
  /\ text \in Texts
  /\ at = "lex" /\ offset = 0 /\ token = 0 /\ jointype = "0"
  /\ stack = <<>> /\ sort = [j |-> 1, i |-> 1] /\ done = 0
  /\ tables = <<>> /\ open = {}
  /\ expr = [null |-> TRUE, tokens |-> {}]
  /\ builtselect = FALSE
  /\ root = NoRoot
  /\ list = [items |-> <<>>, thisstart |-> 0, brackets |-> 0, expr |-> 1,
             attr |-> 0]
  /\ names = <<>>
  /\ refused = FALSE
  /\ result = ""

Answer(r) == at' = "done" /\ result' = r

\* closeexecutiontree(rootp), and return NULL.
ReturnNull ==
  /\ Answer("null")
  /\ open' = open \ Leaves
  /\ UNCHANGED <<text, token, jointype, stack, sort, done, tables, expr,
                 builtselect, root, list, names>>

Undefined ==
  /\ Answer("undefined")
  /\ UNCHANGED <<text, token, jointype, stack, sort, done, tables, open, expr,
                 builtselect, root, list, names, refused>>

-----------------------------------------------------------------------------
(* The first pass pushes a node for every clause; the other tokens make    *)
(* the node on top longer, a terminator only up to where it starts.        *)
Collect ==
  /\ at = "lex"
  /\ LET i == TokenAt(offset) IN
     IF i > Len(text)
     THEN at' = "sort" /\ UNCHANGED <<offset, stack>>
     ELSE /\ offset' = End(i)
          /\ stack' =
               IF text[i] \in Clauses
               THEN <<[clause |-> text[i], start |-> End(i), end |-> End(i)]>>
                      \o stack
               ELSE IF stack = <<>> THEN stack
               ELSE [stack EXCEPT ![1].end =
                       IF text[i] \in Terminators THEN Start(i) ELSE End(i)]
          /\ UNCHANGED at
  /\ UNCHANGED <<text, token, jointype, sort, done, tables, open, expr,
                 builtselect, root, list, names, refused, result>>

\* symswapbytes: neighbours are compared, and the later one changes places
\* with the first.
Swap(s, i) == [s EXCEPT ![1] = s[i + 1], ![i + 1] = s[1]]

\* Mutant: the outer counter of the sort does not move.
SortStep_SameJ ==
  /\ at = "sort"
  /\ LET i == sort.i IN
     IF sort.j >= Len(stack)
     THEN at' = "clause" /\ UNCHANGED <<stack, sort>>
     ELSE IF i >= Len(stack)
     THEN sort' = [sort EXCEPT !.i = sort.j] /\ UNCHANGED <<at, stack>>
     ELSE /\ stack' = IF Rank(stack[i].clause) > Rank(stack[i + 1].clause)
                      THEN Swap(stack, i) ELSE stack
          /\ sort' = [sort EXCEPT !.i = i + 1]
          /\ UNCHANGED at
  /\ UNCHANGED <<text, offset, token, jointype, done, tables, open, expr,
                 builtselect, root, list, names, refused, result>>

SortStep ==
  /\ at = "sort"
  /\ LET j == sort.j
         i == sort.i IN
     IF j >= Len(stack)
     THEN at' = "clause" /\ UNCHANGED <<stack, sort>>
     ELSE IF i >= Len(stack)
     THEN sort' = [j |-> j + 1, i |-> j + 1] /\ UNCHANGED <<at, stack>>
     ELSE /\ stack' = IF Rank(stack[i].clause) > Rank(stack[i + 1].clause)
                      THEN Swap(stack, i) ELSE stack
          /\ sort' = [sort EXCEPT !.i = i + 1]
          /\ UNCHANGED at
  /\ UNCHANGED <<text, offset, token, jointype, done, tables, open, expr,
                 builtselect, root, list, names, refused, result>>

-----------------------------------------------------------------------------
(* The clauses, in the order of the stack.                                 *)
Returned ==
  /\ at = "clause" /\ done = Len(stack)
  /\ Answer(IF root = NoRoot THEN "null" ELSE "plan")
  /\ UNCHANGED <<text, offset, token, jointype, stack, sort, done, tables, open,
                 expr, builtselect, root, list, names, refused>>

EmptyClause ==
  /\ at = "clause" /\ done < Len(stack)
  /\ Clause.start = Clause.end
  /\ ReturnNull /\ UNCHANGED <<offset, refused>>

Taken(c) ==
  /\ at = "clause" /\ done < Len(stack)
  /\ Clause.start # Clause.end
  /\ Clause.clause = c

\* GROUP, HAVING and ORDER leave retval as it was: 1, or not yet set.
OtherClause ==
  /\ \E c \in {"GROUP", "HAVING", "ORDER"} : Taken(c)
  /\ \/ /\ at' = "after"
        /\ UNCHANGED <<text, offset, token, jointype, stack, sort, done, tables,
                       open, expr, builtselect, root, list, names, refused,
                       result>>
     \/ done = 0 /\ ReturnNull /\ UNCHANGED <<offset, refused>>

Where ==
  /\ Taken("WHERE")
  /\ \E r \in ClauseExpression(Clause.start, ClauseEnd) :
       /\ offset' = r.offset
       /\ refused' = (refused \/ r.ret = -1)
       /\ IF r.ret = 1
          THEN /\ expr' = [null |-> FALSE, tokens |-> expr.tokens \cup r.tokens]
               /\ at' = "after"
               /\ UNCHANGED <<text, token, jointype, stack, sort, done, tables,
                              open, builtselect, root, list, names, result>>
          ELSE ReturnNull

From ==
  /\ Taken("FROM")
  /\ at' = "from"
  /\ offset' = Clause.start
  /\ tables' = <<>>
  /\ UNCHANGED <<text, token, jointype, stack, sort, done, open, expr,
                 builtselect, root, list, names, refused, result>>

\* Mutant: only the commas are counted.
Slots_Commas == 1 + Cardinality({i \in Readable(Clause.start, ClauseEnd) :
                                   text[i] = ","})

\* The length of the array of scans.
Slots == 1 + Cardinality({i \in Readable(Clause.start, ClauseEnd) :
                            text[i] \in {",", "JOIN"}})

\* Mutant: the scans are not closed.
FromFails_KeepsOpen(f) ==
  /\ Answer("null")
  /\ tables' = <<>>
  /\ refused' = f
  /\ UNCHANGED <<text, offset, token, jointype, stack, sort, done, open, expr,
                 builtselect, root, list, names>>

\* parseFrom closes the scans it has opened and returns -1; parse then
\* closes the tree.
FromFails(f) ==
  /\ Answer("null")
  /\ open' = (open \ Scans) \ Leaves
  /\ tables' = <<>>
  /\ refused' = f
  /\ UNCHANGED <<text, offset, token, jointype, stack, sort, done, expr,
                 builtselect, root, list, names>>

FromStep == at = "from" /\ CanRead(offset, ClauseEnd)

\* On to the identifier that is token i.
ToTable(i, j) ==
  /\ at' = "table" /\ token' = i /\ offset' = End(i) /\ jointype' = j
  /\ UNCHANGED <<text, stack, sort, done, tables, open, expr, builtselect, root,
                 list, names, refused, result>>

\* The token after i is read, and must be an identifier.
IdentAfter(i) == CanRead(End(i), ClauseEnd) /\ Ident(i + 1)

FromComma ==
  /\ FromStep
  /\ LET i == TokenAt(offset) IN
     /\ text[i] = ","
     /\ IF IdentAfter(i) /\ tables # <<>> THEN ToTable(i + 1, "0")
                                          ELSE FromFails(refused)

\* JOIN, or INNER or CROSS and then JOIN.
FromJoin ==
  /\ FromStep
  /\ LET i == TokenAt(offset)
         j == IF text[i] = "JOIN" THEN i ELSE i + 1
         type == IF text[i] = "CROSS" THEN "0" ELSE "NORMAL" IN
     /\ text[i] \in NormalJoins
     /\ IF /\ tables # <<>>
           /\ j > i => CanRead(End(i), ClauseEnd) /\ text[j] = "JOIN"
           /\ IdentAfter(j)
        THEN ToTable(j + 1, type) ELSE FromFails(refused)

FromSpecial ==
  /\ FromStep
  /\ text[TokenAt(offset)] \in SpecialJoins
  /\ FromFails(refused)

FromTable ==
  /\ FromStep
  /\ LET i == TokenAt(offset) IN
     IF Ident(i) THEN ToTable(i, "0")
     ELSE /\ text[i] \notin {","} \cup NormalJoins \cup SpecialJoins
          /\ text[i] \in Terminators => tables # <<>>
          /\ FromFails(refused)

\* The identifier, its alias (itself if there is none) and the scan.
Aliased(i) ==
  LET j == i + 1 IN
  IF ~CanRead(End(i), ClauseEnd) THEN i
  ELSE IF Ident(j) THEN j
  ELSE IF text[j] # "AS" THEN i
  ELSE IF IdentAfter(j) THEN j + 1 ELSE 0

\* AS without a name: the scans stay open.
AliasMissing ==
  /\ at = "table" /\ Aliased(token) = 0
  /\ ReturnNull /\ UNCHANGED <<offset, refused>>

Table ==
  /\ at = "table" /\ Aliased(token) # 0
  /\ LET alias == Aliased(token) IN
     IF \E k \in DOMAIN tables : text[tables[k].alias] = text[alias]
     THEN FromFails(refused)
     ELSE IF text[token] \notin Relations \/ Len(tables) = Slots
     THEN Undefined /\ UNCHANGED offset
     ELSE /\ tables' = Append(tables, [name |-> token, alias |-> alias])
          /\ open' = open \cup {token}
          /\ offset' = End(alias)
          /\ at' = "on"
          /\ UNCHANGED <<text, token, jointype, stack, sort, done, expr,
                         builtselect, root, list, names, refused, result>>

\* Mutant: the condition does not end before a comma.
OnEnd_PastComma(i) ==
  LET rest == Readable(End(i), ClauseEnd) IN
  IF rest # {} THEN End(Max(rest)) ELSE End(i)

\* The condition of an ON ends before the next comma.  Whether it could be
\* parsed is not looked at.
OnEnd(i) ==
  LET rest   == Readable(End(i), ClauseEnd)
      commas == {k \in rest : text[k] = ","} IN
  IF commas # {} THEN End(Min(commas) - 1)
  ELSE IF rest # {} THEN End(Max(rest)) ELSE End(i)

On ==
  /\ at = "on"
  /\ CanRead(offset, ClauseEnd) /\ text[TokenAt(offset)] = "ON"
  /\ LET i == TokenAt(offset) IN
     IF jointype # "NORMAL" THEN FromFails(refused)
     ELSE \E end \in {OnEnd(i)} : \E r \in ClauseExpression(End(i), end) :
            /\ at' = "from"
            /\ offset' = r.offset
            /\ expr' = [null |-> expr.null /\ ~r.alloc,
                        tokens |-> expr.tokens \cup r.tokens]
            /\ refused' = (refused \/ r.ret = -1)
            /\ UNCHANGED <<text, token, jointype, stack, sort, done, tables,
                           open, builtselect, root, list, names, result>>

NoOn ==
  /\ at = "on"
  /\ LET i == TokenAt(offset) IN
     IF CanRead(offset, ClauseEnd)
     THEN text[i] # "ON" /\ offset' = Start(i)
     ELSE UNCHANGED offset
  /\ at' = "from"
  /\ UNCHANGED <<text, token, jointype, stack, sort, done, tables, open, expr,
                 builtselect, root, list, names, refused, result>>

\* The end of parseFrom: one scan, or joins from the left, without conditions.
Joins ==
  /\ at = "from"
  /\ \/ ~CanRead(offset, ClauseEnd)
     \/ tables = <<>> /\ text[TokenAt(offset)] \in Terminators
  /\ \/ tables = <<>> /\ FromFails(refused)
     \/ Len(tables) > 1 /\ FromFails(TRUE)
     \/ /\ tables # <<>>
        /\ root' = [scans |-> [k \in DOMAIN tables |-> tables[k].name],
                    ops |-> IF Len(tables) = 1 THEN <<>>
                            ELSE <<[op |-> "NTJOIN", tokens |-> {}]>>]
        /\ at' = "after"
        /\ UNCHANGED <<text, offset, token, jointype, stack, sort, done, tables,
                       open, expr, builtselect, list, names, refused, result>>

-----------------------------------------------------------------------------
(* After a clause: its node is taken off, and once WHERE is past, the      *)
(* selection is built from the conditions, or put into the join of two     *)
(* tables, which may become an indexed one.  Above the last node of the    *)
(* stack the code reads what is there.                                     *)
PastWhere == IF done + 1 = Len(stack) THEN BOOLEAN
             ELSE {Rank(stack[done + 2].clause) > Rank("WHERE")}

\* The last operator of the plan is the join of two scans.
OneJoin == Len(tables) = 2 /\ root.ops # <<>>
           /\ root.ops[Len(root.ops)].op = "NTJOIN"

WithCondition ==
  LET c == [op |-> "SELECT", tokens |-> expr.tokens] IN
  IF OneJoin
  THEN {[root EXCEPT !.ops[Len(root.ops)] = [c EXCEPT !.op = j]] :
          j \in {"NTJOIN", "OSIJOIN"}}
  ELSE {[root EXCEPT !.ops = Append(@, c)]}

NoSelection ==
  /\ at = "after"
  /\ \E past \in PastWhere :
       /\ builtselect \/ ~past \/ expr.null
       /\ builtselect' = (builtselect \/ past)
  /\ at' = "clause"
  /\ done' = done + 1
  /\ UNCHANGED <<text, offset, token, jointype, stack, sort, tables, open, expr,
                 root, list, names, refused, result>>

\* Out of memory, or a name that setupattribute does not find.
SelectionFails ==
  /\ at = "after" /\ ~builtselect /\ ~expr.null /\ TRUE \in PastWhere
  /\ refused' = TRUE
  /\ ReturnNull /\ UNCHANGED offset

BuildSelection ==
  /\ at = "after" /\ ~builtselect /\ ~expr.null /\ TRUE \in PastWhere
  /\ IF root = NoRoot
     THEN Undefined /\ UNCHANGED offset
     ELSE /\ root' \in WithCondition
          /\ builtselect' = TRUE
          /\ at' = "clause"
          /\ done' = done + 1
          /\ UNCHANGED <<text, offset, token, jointype, stack, sort, tables,
                         open, expr, list, names, refused, result>>

ParseStep ==
  \/ Collect \/ SortStep \/ Returned \/ EmptyClause \/ OtherClause \/ Where
  \/ From \/ FromComma \/ FromJoin \/ FromSpecial \/ FromTable
  \/ AliasMissing \/ Table \/ On \/ NoOn \/ Joins
  \/ NoSelection \/ SelectionFails \/ BuildSelection
=============================================================================
