------------------------------ MODULE ParseExpr ------------------------------
(***************************************************************************)
(* parseexpression, dbparser/dbparseexpr.c: one pass over the tokens of a  *)
(* clause that writes the expression in postfix form, the operands going   *)
(* straight to the end of the front stack and the operators through a      *)
(* stack that is the top chunk of the back stack.  Its caller is modelled  *)
(* with it: the condition of each ON, and then that of WHERE, is parsed    *)
(* onto the same expression.                                               *)
(*                                                                         *)
(* A token, and a node of the expression or of the operator stack, is a    *)
(* record of a type and a value.  The memory manager may refuse any        *)
(* allocation, whatever its size.  An aggregate function is always given   *)
(* its closing parenthesis: without it the parser would take the node      *)
(* apart into its bytes.                                                   *)
(***************************************************************************)
EXTENDS Integers, SequencesExt

CONSTANTS
  Tokens,  \* the tokens the lexer returns
  Queries  \* each the sequence of its clauses: a kind and the tokens

VARIABLES
  query,     \* the query being prepared
  c,         \* the clause parseexpression is called for
  at,        \* lexerp->offset: the next token of that clause
  expr,      \* whether *exprp has been allocated
  join,      \* jointolast
  code,      \* the nodes at *exprp
  stack,     \* the operator stack
  lasttype,  \* the type of the last token that sets it
  dropped,   \* history: the condition of an ON was not parsed
  pc

exprVars == <<code, stack, lasttype>>
clauseVars == <<query, c, at, expr, join, dropped>>
parseVars == <<clauseVars, exprVars, pc>>

ASSUME QueriesAssumption ==
  \A q \in Queries :
    /\ Len(q) \in Nat \ {0} /\ DOMAIN q = 1..Len(q)
    /\ \A n \in DOMAIN q : /\ q[n].kind \in {"ON", "WHERE"}
                         /\ q[n].toks \in Seq(Tokens)

-----------------------------------------------------------------------------
Node(type, val) == [type |-> type, val |-> val]
Operator(op)    == Node("OP", op)

\* 0 for an operator that "is not implemented", a parenthesis, a function
Precedence(op) ==
  CASE op = "BCOMP"                             -> 1
    [] op \in {"MULT", "DIV", "MOD"}            -> 2
    [] op \in {"ADD", "SUB", "UNARYNEG"}        -> 3
    [] op \in {"EQ", "LT", "LTE", "GT", "GTE"}  -> 4
    [] op = "NOT"                               -> 5
    [] op = "AND"                               -> 6
    [] op = "OR"                                -> 7
    [] OTHER                                    -> 0

NodePrecedence(n) == IF n.type = "OP" THEN Precedence(n.val) ELSE 0

Unary(op) == op \in {"BCOMP", "NOT", "UNARYNEG"}

\* compareopprecedence(op, n) >= 0: n binds at least as tightly as op.
Over_Strict(op, n) ==                                         \* mutant
  /\ Precedence(op) # 0 /\ NodePrecedence(n) # 0
  /\ Precedence(op) > NodePrecedence(n)
Over(op, n) ==
  /\ Precedence(op) # 0 /\ NodePrecedence(n) # 0
  /\ Precedence(op) >= NodePrecedence(n)

\* parseexpr_pop takes n off the stack, when op is about to be pushed.
Yields(op, n) ==
  /\ Over(op, n)
  /\ ~Unary(op)
  /\ n.type = "OP" => ~Unary(n.val)

\* How much of the stack is left by parseexpr_pop for op, ...
LeftBelow(op, k) ==
  /\ k \in 0..Len(stack)
  /\ \A i \in (k + 1)..Len(stack) : Yields(op, stack[i])
  /\ k > 0 => ~Yields(op, stack[k])

\* ... and when everything down to a left parenthesis is to go.
LeftAtParen(k) ==
  /\ k \in 0..Len(stack)
  /\ \A i \in (k + 1)..Len(stack) : stack[i].type # "LPAREN"
  /\ k > 0 => stack[k].type = "LPAREN"

\* The code once the stack is popped down to its first k nodes.
Popped(k) == code \o Reverse(SubSeq(stack, k + 1, Len(stack)))

\* Minus is a sign at the start, and after "(", "," or an operator.
Meant(op) ==
  IF op = "SUB" /\ lasttype \in {"COUNT", "LPAREN", "COMMA", "OP"}
  THEN "UNARYNEG" ELSE op

\* The pass at the end makes a string of the offset each string node holds;
\* when a node holds a string already, its address is taken for an offset.
Strung_Kept(n) == n                                           \* mutant
Strung(n) ==
  CASE n.type = "OFFSET" -> Node("STRING", n.val)
    [] n.type = "STRING" -> Node("STRAY", n.val)
    [] OTHER             -> n

-----------------------------------------------------------------------------
ParseInit ==
  /\ query \in Queries
  /\ c = 1 /\ at = 1
  /\ expr = FALSE /\ join = FALSE
  /\ code = <<>> /\ stack = <<>>
  /\ lasttype = "COUNT"
  /\ dropped = FALSE
  /\ pc = "clause"

toks == query[c].toks
tok  == toks[at]

NextIs(i, type) == i \in DOMAIN toks /\ toks[i].type = type

Proceed == UNCHANGED <<c, dropped, pc>>

ClauseDone ==
  /\ c' = c + 1
  /\ pc' = IF c = Len(query) THEN "parsed" ELSE "clause"
  /\ stack' = <<>>

\* Nothing looks at what came of the condition of an ON.
Fail ==
  IF query[c].kind = "ON"
  THEN ClauseDone /\ dropped' = TRUE
  ELSE /\ pc' = "rejected"
       /\ stack' = <<>>
       /\ UNCHANGED <<c, dropped>>

Begin ==
  /\ pc = "clause"
  /\ expr' = TRUE
  /\ join' = expr
  /\ at' = 1
  /\ lasttype' = "COUNT"
  /\ pc' = "tokens"
  /\ UNCHANGED <<query, c, dropped, code, stack>>

BeginRefused ==
  /\ pc = "clause"
  /\ expr' \in {expr, TRUE}
  /\ Fail
  /\ UNCHANGED <<query, at, join, code, lasttype>>

Operand ==
  /\ tok.type \in {"INT", "STRING", "PLACEHOLDER"}
  /\ code' = Append(code, IF tok.type = "STRING"
                          THEN Node("OFFSET", tok.val) ELSE tok)
  /\ lasttype' = tok.type
  /\ at' = at + 1
  /\ Proceed /\ UNCHANGED stack

\* A name, and those joined to it by dots, of which the last three count.
Dotted(k) == \A j \in 1..k : /\ NextIs(at + 2*j - 1, "IDENTCONJ")
                             /\ NextIs(at + 2*j, "IDENT")

Identifier ==
  /\ tok.type = "IDENT"
  /\ UNCHANGED lasttype
  /\ \E k \in 0..Len(toks) :
       /\ Dotted(k) /\ ~Dotted(k + 1)
       /\ at' = at + 2*k + 1
       /\ IF NextIs(at + 2*k + 1, "IDENTCONJ")
          THEN Fail /\ UNCHANGED code
          ELSE LET names == [j \in 1..(k + 1) |-> toks[at + 2*(j - 1)].val]
                   from  == IF k > 2 THEN k - 1 ELSE 1
               IN /\ code' = Append(code,
                                    Node("ATTR", SubSeq(names, from, k + 1)))
                  /\ Proceed /\ UNCHANGED stack

OperatorToken ==
  /\ tok.type = "OP"
  /\ LET op == Meant(tok.val)
     IN \E k \in 0..Len(stack) :
          /\ LeftBelow(op, k)
          /\ code' = Popped(k)
          /\ stack' = Append(SubSeq(stack, 1, k), Operator(op))
  /\ lasttype' = "OP"
  /\ at' = at + 1
  /\ Proceed

Comma ==
  /\ tok.type = "COMMA"
  /\ \E k \in 0..Len(stack) :
       /\ LeftAtParen(k)
       /\ code' = Popped(k)
       /\ stack' = SubSeq(stack, 1, k)
  /\ lasttype' = "COMMA"
  /\ at' = at + 1
  /\ Proceed

Function ==
  /\ tok.type \in {"FUNC", "AGGRFUNC"}
  /\ at' = at + 1
  /\ IF NextIs(at + 1, "LPAREN")
     THEN stack' = Append(stack, tok) /\ Proceed
     ELSE Fail
  /\ UNCHANGED <<code, lasttype>>

LeftParen ==
  /\ tok.type = "LPAREN"
  /\ stack' = Append(stack, Node("LPAREN", "("))
  /\ lasttype' = "LPAREN"
  /\ at' = at + 1
  /\ Proceed /\ UNCHANGED code

\* A function that is under the parenthesis goes with it.
RightParen_KeepsCall ==                                       \* mutant
  /\ tok.type = "RPAREN"
  /\ at' = at + 1
  /\ lasttype' = "RPAREN"
  /\ \E k \in 0..Len(stack) :
       /\ LeftAtParen(k)
       /\ code' = Popped(k)
       /\ IF k = 0 THEN Fail
          ELSE stack' = SubSeq(stack, 1, k - 1) /\ Proceed
RightParen ==
  /\ tok.type = "RPAREN"
  /\ at' = at + 1
  /\ lasttype' = "RPAREN"
  /\ \E k \in 0..Len(stack) :
       /\ LeftAtParen(k)
       /\ CASE k = 0 ->
                 code' = Popped(k) /\ Fail
            [] k > 1 /\ stack[k - 1].type \in {"FUNC", "AGGRFUNC"} ->
                 /\ code' = Append(Popped(k), stack[k - 1])
                 /\ stack' = SubSeq(stack, 1, k - 2)
                 /\ Proceed
            [] OTHER ->
                 /\ code' = Popped(k)
                 /\ stack' = SubSeq(stack, 1, k - 1)
                 /\ Proceed

\* Any other token is passed over.
OtherToken ==
  /\ tok.type = "OTHER"
  /\ at' = at + 1
  /\ Proceed /\ UNCHANGED exprVars

\* An allocation is refused before anything is written.
TokenRefused ==
  /\ tok.type # "OTHER"
  /\ tok.type \in {"COMMA", "RPAREN"} => stack # <<>>
  /\ Fail
  /\ UNCHANGED <<at, code, lasttype>>

Token ==
  /\ pc = "tokens" /\ at <= Len(toks)
  /\ \/ Operand \/ Identifier \/ OperatorToken \/ Comma \/ Function
     \/ LeftParen \/ RightParen \/ OtherToken \/ TokenRefused
  /\ UNCHANGED <<query, expr, join>>

\* An open parenthesis that is left goes into the code with the operators.
Joined(new) == IF join THEN Append(new, Operator("AND")) ELSE new

EndOfClause ==
  /\ pc = "tokens" /\ at > Len(toks)
  /\ LET all == Joined(Popped(0))
     IN code' = [n \in DOMAIN all |-> Strung(all[n])]
  /\ ClauseDone
  /\ UNCHANGED <<query, at, expr, join, dropped, lasttype>>

\* An operator or the AND is refused; the place for a string is not checked.
EndRefused ==
  /\ pc = "tokens" /\ at > Len(toks)
  /\ \/ stack # <<>> /\ Fail /\ UNCHANGED code
     \/ join /\ Fail /\ code' = Popped(0)
     \/ /\ code' = Joined(Popped(0))
        /\ \E n \in DOMAIN code' : code'[n].type \in {"OFFSET", "STRING"}
        /\ pc' = "crashed"
        /\ stack' = <<>>
        /\ UNCHANGED <<c, dropped>>
  /\ UNCHANGED <<query, at, expr, join, lasttype>>

ParseNext ==
  Begin \/ BeginRefused \/ Token \/ EndOfClause \/ EndRefused

-----------------------------------------------------------------------------
\* parseexpr_pop and the push that follows it keep the operator stack in
\* order: of two operators that stand on each other there, the upper one
\* binds more tightly, unless one is a sign or a NOT, or has no precedence.
Binary(n) == /\ n.type = "OP"
             /\ ~Unary(n.val)
             /\ Precedence(n.val) # 0

StackOrdered ==
  \A i \in 1..(Len(stack) - 1) :
    Binary(stack[i]) /\ Binary(stack[i + 1])
      => Precedence(stack[i + 1].val) < Precedence(stack[i].val)

\* No string is left as an offset, and none is built from an address, unless
\* the code that a clause is joined to has a string in it.
StringsBuilt ==
  (/\ pc \notin {"clause", "tokens", "rejected", "crashed"} /\ ~dropped
   /\ \A k \in 1..(Len(query) - 1) : \A n \in DOMAIN query[k].toks :
        query[k].toks[n].type # "STRING")
     => \A n \in DOMAIN code : code[n].type \notin {"OFFSET", "STRAY"}
=============================================================================
