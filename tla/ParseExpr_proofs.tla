--------------------------- MODULE ParseExpr_proofs ---------------------------
(***************************************************************************)
(* For every query, and whatever allocation is refused: the operator stack *)
(* of parseexpression is in order; the strings of the code are built once; *)
(* and the type evaluate_eet finds on samples is that of every result.     *)
(* The proofs are of the whole preparation and evaluation, Spec of Eet.    *)
(***************************************************************************)
EXTENDS Eet, SequenceTheorems, TLAPS

StackNode ==
  {t \in Tokens : t.type \in {"FUNC", "AGGRFUNC"}}
    \cup {Operator(op) : op \in Operators} \cup {Node("LPAREN", "(")}

ParserTyped ==
  /\ query \in Queries
  /\ c \in Nat \ {0}
  /\ pc \in {"clause", "tokens"} => c \in 1..Len(query)
  /\ at \in Nat \ {0}
  /\ stack \in Seq(StackNode)

IInv == ParserTyped /\ StackOrdered

-----------------------------------------------------------------------------
(* The first k nodes of a stack that is in order are in order. *)
InOrder(s) ==
  \A i \in 1..(Len(s) - 1) :
    Binary(s[i]) /\ Binary(s[i + 1])
      => Precedence(s[i + 1].val) < Precedence(s[i].val)

LEMMA BottomOrdered ==
  ASSUME NEW S, NEW s \in Seq(S), InOrder(s), NEW k \in 0..Len(s)
  PROVE  /\ SubSeq(s, 1, k) \in Seq(S)
         /\ Len(SubSeq(s, 1, k)) = k
         /\ \A i \in 1..k : SubSeq(s, 1, k)[i] = s[i]
         /\ InOrder(SubSeq(s, 1, k))
<1> DEFINE t == SubSeq(s, 1, k)
<1>1. t \in Seq(S) /\ Len(t) = k /\ \A i \in 1..k : t[i] = s[i]
  OBVIOUS
<1> HIDE DEF t
<1>2. InOrder(t)
  BY <1>1 DEF InOrder
<1> QED
  BY <1>1, <1>2 DEF t

(* A node may be put on a stack that is in order when it is not an operator *)
(* with two operands, or binds more tightly than the one it comes to stand on. *)
LEMMA PushOrdered ==
  ASSUME NEW S, NEW s \in Seq(S), InOrder(s), NEW n \in S,
         Len(s) > 0 /\ Binary(s[Len(s)]) /\ Binary(n)
           => Precedence(n.val) < Precedence(s[Len(s)].val)
  PROVE  Append(s, n) \in Seq(S) /\ InOrder(Append(s, n))
<1> DEFINE t == Append(s, n)
<1>1. /\ t \in Seq(S) /\ Len(t) = Len(s) + 1
      /\ t[Len(s) + 1] = n
      /\ \A i \in 1..Len(s) : t[i] = s[i]
  OBVIOUS
<1> HIDE DEF t
<1>2. InOrder(t)
  BY <1>1 DEF InOrder
<1> QED
  BY <1>1, <1>2 DEF t

(* A stack that has been given up is typed and in order. *)
LEMMA EmptyOrdered == <<>> \in Seq(StackNode) /\ InOrder(<<>>)
BY DEF InOrder

(* The token at hand is one of Tokens. *)
LEMMA TokenTyped ==
  ASSUME ParserTyped, pc = "tokens", at <= Len(toks)
  PROVE  toks \in Seq(Tokens) /\ tok \in Tokens
<1>1. c \in DOMAIN query /\ query \in Queries
  BY QueriesAssumption DEF ParserTyped
<1>2. toks \in Seq(Tokens)
  BY <1>1, QueriesAssumption DEF toks
<1>3. at \in 1..Len(toks)
  BY <1>2 DEF ParserTyped
<1> QED
  BY <1>2, <1>3 DEF tok

(* Failing, or finishing, a clause gives up the stack and moves on. *)
LEMMA LeaveClause ==
  ASSUME ParserTyped, pc \in {"clause", "tokens"}, Fail \/ ClauseDone
  PROVE  /\ stack' = <<>>
         /\ c' \in Nat \ {0}
         /\ pc' \in {"clause", "tokens"} => c' \in 1..Len(query)
<1>1. c \in 1..Len(query) /\ Len(query) \in Nat
  BY QueriesAssumption DEF ParserTyped
<1>2. CASE ClauseDone
  BY <1>1, <1>2 DEF ClauseDone
<1>3. CASE Fail /\ ~ClauseDone
  BY <1>1, <1>3 DEF Fail
<1> QED
  BY <1>2, <1>3

(* What is left below keeps its order, and takes the operator that was *)
(* compared with it. *)
LEMMA OperatorOrdered ==
  ASSUME ParserTyped, InOrder(stack),
         NEW op \in Operators,
         NEW k \in 0..Len(stack), LeftBelow(op, k)
  PROVE  LET t == Append(SubSeq(stack, 1, k), Operator(op))
         IN t \in Seq(StackNode) /\ InOrder(t)
<1> DEFINE s == SubSeq(stack, 1, k)
           n == Operator(op)
<1>1. /\ s \in Seq(StackNode) /\ Len(s) = k /\ InOrder(s)
      /\ \A i \in 1..k : s[i] = stack[i]
  BY BottomOrdered DEF ParserTyped
<1>2. n \in StackNode
  BY DEF StackNode
<1>3. n.type = "OP" /\ n.val = op
  BY DEF Operator, Node
<1> HIDE DEF s, n
<1>4. ASSUME Len(s) > 0, Binary(s[Len(s)]), Binary(n)
      PROVE  Precedence(n.val) < Precedence(s[Len(s)].val)
  <2>1. s[Len(s)] = stack[k] /\ k \in 1..Len(stack)
    BY <1>1, <1>4 DEF ParserTyped
  <2>2. ~Yields(op, stack[k])
    BY <2>1 DEF LeftBelow
  <2>3. /\ stack[k].type = "OP" /\ ~Unary(stack[k].val) /\ ~Unary(op)
        /\ NodePrecedence(stack[k]) = Precedence(stack[k].val)
        /\ Precedence(op) # 0 /\ NodePrecedence(stack[k]) # 0
    BY <1>3, <1>4, <2>1 DEF Binary, NodePrecedence
  <2>4. ~(Precedence(op) >= Precedence(stack[k].val))
    BY <2>2, <2>3 DEF Yields, Over
  <2>5. Precedence(op) \in Nat /\ Precedence(stack[k].val) \in Nat
    BY DEF Precedence
  <2> QED
    BY <1>3, <2>1, <2>4, <2>5
<1>5. Append(s, n) \in Seq(StackNode) /\ InOrder(Append(s, n))
  BY <1>1, <1>2, <1>4, PushOrdered
<1> QED
  BY <1>5 DEF s, n

-----------------------------------------------------------------------------
LEMMA InitInv == Init => IInv
BY QueriesAssumption, EmptyOrdered
DEF Init, ParseInit, IInv, ParserTyped, StackOrdered, InOrder

(* A token takes the stack from order to order. *)
LEMMA TokenInv ==
  ASSUME IInv, Token
  PROVE  IInv'
<1>1. /\ ParserTyped /\ InOrder(stack)
      /\ pc = "tokens" /\ at <= Len(toks)
      /\ query' = query
      /\ c \in 1..Len(query)
  BY DEF IInv, StackOrdered, InOrder, ParserTyped, Token
<1>2. tok \in Tokens /\ at \in Nat \ {0}
  BY <1>1, TokenTyped DEF ParserTyped
<1>3. SUFFICES /\ c' \in Nat \ {0}
               /\ pc' \in {"clause", "tokens"} => c' \in 1..Len(query)
               /\ at' \in Nat \ {0}
               /\ stack' \in Seq(StackNode) /\ InOrder(stack')
  BY <1>1 DEF IInv, ParserTyped, StackOrdered, InOrder
<1>4. Proceed => /\ c' \in Nat \ {0}
                 /\ pc' \in {"clause", "tokens"} => c' \in 1..Len(query)
  BY <1>1 DEF Proceed, ParserTyped
<1>5. Fail => /\ c' \in Nat \ {0}
              /\ pc' \in {"clause", "tokens"} => c' \in 1..Len(query)
              /\ stack' \in Seq(StackNode) /\ InOrder(stack')
  BY <1>1, LeaveClause, EmptyOrdered
<1>6. ASSUME NEW k \in 0..Len(stack)
      PROVE  SubSeq(stack, 1, k) \in Seq(StackNode) /\ InOrder(SubSeq(stack, 1, k))
  BY <1>1, BottomOrdered DEF ParserTyped
<1>7. stack \in Seq(StackNode) /\ Len(stack) \in Nat
  BY <1>1 DEF ParserTyped
<1>10. CASE Operand
  BY <1>1, <1>2, <1>4, <1>7, <1>10 DEF Operand
<1>11. CASE Identifier
  <2>1. PICK k \in 0..Len(toks) :
          /\ at' = at + 2*k + 1
          /\ Fail \/ (Proceed /\ UNCHANGED stack)
    BY <1>11 DEF Identifier
  <2>2. k \in Nat
    BY <1>1, TokenTyped, <2>1
  <2>3. at' \in Nat \ {0}
    BY <1>2, <2>1, <2>2
  <2> QED
    BY <1>1, <1>4, <1>5, <1>7, <2>1, <2>3
<1>12. CASE OperatorToken
  <2>1. PICK k \in 0..Len(stack) :
          /\ LeftBelow(Meant(tok.val), k)
          /\ stack' = Append(SubSeq(stack, 1, k), Operator(Meant(tok.val)))
    BY <1>12 DEF OperatorToken
  <2>2. Meant(tok.val) \in Operators
    BY <1>2, <1>12, OperatorsAssumption DEF Meant, OperatorToken, Operators
  <2>3. stack' \in Seq(StackNode) /\ InOrder(stack')
    BY <1>1, <2>1, <2>2, OperatorOrdered
  <2> QED
    BY <1>2, <1>4, <1>12, <2>3 DEF OperatorToken
<1>13. CASE Comma
  <2>1. PICK k \in 0..Len(stack) : stack' = SubSeq(stack, 1, k)
    BY <1>13 DEF Comma
  <2> QED
    BY <1>2, <1>4, <1>6, <1>13, <2>1 DEF Comma
<1>14. CASE Function
  <2>1. CASE stack' = Append(stack, tok) /\ Proceed
    <3>1. ~Binary(tok)
      BY <1>14 DEF Function, Binary
    <3>2. tok \in StackNode
      BY <1>2, <1>14 DEF StackNode, Function
    <3>3. Append(stack, tok) \in Seq(StackNode) /\ InOrder(Append(stack, tok))
      BY <1>1, <1>7, <3>1, <3>2, PushOrdered
    <3> QED
      BY <1>2, <1>4, <1>14, <2>1, <3>3 DEF Function
  <2>2. CASE Fail
    BY <1>2, <1>5, <1>14, <2>2 DEF Function
  <2> QED
    BY <1>14, <2>1, <2>2 DEF Function, Proceed
<1>15. CASE LeftParen
  <2> DEFINE n == Node("LPAREN", "(")
  <2>1. n \in StackNode /\ ~Binary(n)
    BY DEF StackNode, Binary, Node
  <2>2. Append(stack, n) \in Seq(StackNode) /\ InOrder(Append(stack, n))
    BY <1>1, <1>7, <2>1, PushOrdered
  <2> QED
    BY <1>2, <1>4, <1>15, <2>2 DEF LeftParen
<1>16. CASE RightParen
  <2>1. PICK k \in 0..Len(stack) :
          \/ Fail
          \/ k > 1 /\ stack' = SubSeq(stack, 1, k - 2) /\ Proceed
          \/ k > 0 /\ stack' = SubSeq(stack, 1, k - 1) /\ Proceed
    BY <1>16 DEF RightParen
  <2>2. at' \in Nat \ {0}
    BY <1>2, <1>16 DEF RightParen
  <2>3. CASE Fail
    BY <1>5, <2>2, <2>3
  <2>4. CASE k > 1 /\ stack' = SubSeq(stack, 1, k - 2) /\ Proceed
    <3>1. k - 2 \in 0..Len(stack)
      BY <1>7, <2>4
    <3> QED
      BY <1>4, <1>6, <2>2, <2>4, <3>1
  <2>5. CASE k > 0 /\ stack' = SubSeq(stack, 1, k - 1) /\ Proceed
    <3>1. k - 1 \in 0..Len(stack)
      BY <1>7, <2>5
    <3> QED
      BY <1>4, <1>6, <2>2, <2>5, <3>1
  <2> QED
    BY <2>1, <2>3, <2>4, <2>5
<1>17. CASE OtherToken
  BY <1>1, <1>2, <1>4, <1>7, <1>17 DEF OtherToken, exprVars
<1>18. CASE TokenRefused
  BY <1>2, <1>5, <1>18 DEF TokenRefused
<1> QED
  BY <1>10, <1>11, <1>12, <1>13, <1>14, <1>15, <1>16, <1>17, <1>18 DEF Token

(* The evaluation of a node goes on, or ends the evaluation. *)
LEMMA EvalStays ==
  ASSUME EvalNode
  PROVE  pc' \in {"eval", "parsed"}
<1>1. pc = "eval" /\ (PushValue \/ ApplyNode)
  BY DEF EvalNode
<1>2. ASSUME NEW v, NEW n, Return(v, n)
      PROVE  pc' = "parsed"
  BY <1>2 DEF Return
<1>3. PushValue => pc' = pc
  BY DEF PushValue
<1>4. ApplyNode => pc' \in {pc, "parsed"}
  <2> DEFINE n    == Required(node)
             args == SubSeq(vals, Len(vals) - n + 1, Len(vals))
  <2> SUFFICES ASSUME ApplyNode PROVE pc' \in {pc, "parsed"}
    OBVIOUS
  <2>1. CASE n > Len(vals)
    BY <2>1, <1>2 DEF ApplyNode
  <2>2. CASE ~(n > Len(vals)) /\ Clash(args)
    BY <2>2, <1>2 DEF ApplyNode
  <2>3. CASE ~(n > Len(vals)) /\ ~Clash(args)
    BY <2>3, <1>2 DEF ApplyNode
  <2> QED
    BY <2>1, <2>2, <2>3
<1> QED
  BY <1>1, <1>3, <1>4

(* So does every other step, which empties the stack or leaves it alone. *)
LEMMA StepInv == IInv /\ [Next]_vars => IInv'
<1> SUFFICES ASSUME IInv, [Next]_vars
             PROVE  IInv'
  OBVIOUS
<1>1. ParserTyped /\ InOrder(stack)
  BY DEF IInv, StackOrdered, InOrder
<1>2. ASSUME c' \in Nat \ {0},
             pc' \in {"clause", "tokens"} => c' \in 1..Len(query),
             query' = query, at' \in Nat \ {0},
             stack' \in Seq(StackNode), InOrder(stack')
      PROVE  IInv'
  BY <1>1, <1>2 DEF IInv, ParserTyped, StackOrdered, InOrder
<1>3. pc \in {"clause", "tokens"} /\ (Fail \/ ClauseDone) =>
        /\ c' \in Nat \ {0}
        /\ pc' \in {"clause", "tokens"} => c' \in 1..Len(query)
        /\ stack' \in Seq(StackNode) /\ InOrder(stack')
  BY <1>1, LeaveClause, EmptyOrdered
<1>4. CASE Begin
  BY <1>1, <1>2, <1>4 DEF Begin, ParserTyped
<1>5. CASE BeginRefused
  BY <1>1, <1>2, <1>3, <1>5 DEF BeginRefused, ParserTyped
<1>6. CASE Token
  BY <1>6, TokenInv
<1>7. CASE EndOfClause
  BY <1>1, <1>2, <1>3, <1>7 DEF EndOfClause, ParserTyped
<1>8. CASE EndRefused
  <2>1. /\ pc = "tokens" /\ query' = query /\ at' = at
        /\ \/ Fail
           \/ pc' = "crashed" /\ stack' = <<>> /\ c' = c
    BY <1>8 DEF EndRefused
  <2> QED
    BY <1>1, <1>2, <1>3, <2>1, EmptyOrdered DEF ParserTyped
<1>9. ASSUME UNCHANGED <<clauseVars, exprVars>>,
             pc' \in {"clause", "tokens"} => pc' = pc
      PROVE  IInv'
  BY <1>1, <1>2, <1>9 DEF ParserTyped, clauseVars, exprVars
<1>10. CASE FindType \/ Evaluate
  BY <1>9, <1>10 DEF FindType, Evaluate
<1>11. CASE EvalNode
  BY <1>9, <1>11, EvalStays DEF EvalNode
<1>12. CASE Finish
  BY <1>9, <1>12 DEF Finish, Return
<1>13. CASE UNCHANGED vars
  BY <1>9, <1>13 DEF vars, parseVars
<1> QED
  BY <1>4, <1>5, <1>6, <1>7, <1>8, <1>10, <1>11, <1>12, <1>13 DEF Next, ParseNext

(***************************************************************************)
(* The parser keeps its place within the clauses of the query, and only    *)
(* operators, functions and left parentheses made from tokens on its       *)
(* stack.                                                                  *)
(***************************************************************************)
THEOREM ParserTypeCorrect == Spec => []ParserTyped
<1>1. IInv => ParserTyped
  BY DEF IInv
<1> QED
  BY InitInv, StepInv, <1>1, PTL DEF Spec

(***************************************************************************)
(* On the operator stack, an operator stands on one that binds less        *)
(* tightly, unless one of the two is unary or has no precedence: popping   *)
(* while the top binds at least as tightly, and stopping at a parenthesis, *)
(* is enough, for every text and whatever allocation is refused.           *)
(***************************************************************************)
THEOREM Ordered == Spec => []StackOrdered
<1>1. IInv => StackOrdered
  BY DEF IInv
<1> QED
  BY InitInv, StepInv, <1>1, PTL DEF Spec
-----------------------------------------------------------------------------
(* What the code consists of: nodes that are no strings, offsets of strings, *)
(* and strings. *)
Vals    == {t.val : t \in Tokens}
Plain   == StackNode \cup {t \in Tokens : t.type \in {"INT", "PLACEHOLDER"}}
                     \cup {Node("ATTR", s) : s \in Seq(Vals)}
Offsets == {Node("OFFSET", v) : v \in Vals}
Strings == {Node("STRING", v) : v \in Vals}
Strays  == {Node("STRAY", v) : v \in Vals}
CodeNode == Plain \cup Offsets \cup Strings \cup Strays

LEMMA NodeTypes ==
  /\ \A n \in StackNode : n.type \in {"FUNC", "AGGRFUNC", "OP", "LPAREN"}
  /\ \A n \in Plain : n.type \in {"FUNC", "AGGRFUNC", "OP", "LPAREN", "INT",
                                  "PLACEHOLDER", "ATTR"}
  /\ \A n \in Plain : n.type = "OP" => n.val \in Operators
  /\ \A n \in Offsets : n.type = "OFFSET"
  /\ \A n \in Strings : n.type = "STRING"
  /\ \A n \in Strays : n.type = "STRAY"
<1>1. \A n \in StackNode : /\ n.type \in {"FUNC", "AGGRFUNC", "OP", "LPAREN"}
                           /\ n.type = "OP" => n.val \in Operators
  BY DEF StackNode, Operator, Node
<1>2. \A n \in Plain : \/ n \in StackNode
                       \/ n.type \in {"INT", "PLACEHOLDER", "ATTR"}
  BY DEF Plain, Node
<1> QED
  BY <1>1, <1>2 DEF Offsets, Strings, Strays, Node

(* Popping the stack adds its nodes to the code. *)
LEMMA PoppedIn ==
  ASSUME ParserTyped, NEW C, StackNode \subseteq C, code \in Seq(C),
         NEW k \in 0..Len(stack)
  PROVE  Popped(k) \in Seq(C)
<1> DEFINE t == SubSeq(stack, k + 1, Len(stack))
<1>1. stack \in Seq(C)
  BY DEF ParserTyped
<1>2. t \in Seq(C)
  BY <1>1
<1> HIDE DEF t
<1>3. Reverse(t) \in Seq(C)
  BY <1>2 DEF Reverse
<1> QED
  BY <1>3 DEF Popped, t

(* A token adds nodes of these kinds only, an offset only if it is a string. *)
LEMMA TokenCode ==
  ASSUME ParserTyped, Token, NEW C, Plain \subseteq C, code \in Seq(C),
         tok.type = "STRING" => Offsets \subseteq C
  PROVE  code' \in Seq(C)
<1>1. /\ tok \in Tokens /\ toks \in Seq(Tokens) /\ at \in Nat \ {0}
      /\ StackNode \subseteq C
  BY TokenTyped DEF Token, ParserTyped, Plain
<1>2. CASE Operand
  <2>1. CASE tok.type = "STRING"
    <3>1. Node("OFFSET", tok.val) \in C
      BY <1>1, <2>1 DEF Offsets, Vals
    <3> QED
      BY <1>2, <2>1, <3>1 DEF Operand
  <2>2. CASE tok.type # "STRING"
    <3>1. tok \in C
      BY <1>1, <1>2, <2>2 DEF Operand, Plain
    <3> QED
      BY <1>2, <2>2, <3>1 DEF Operand
  <2> QED
    BY <2>1, <2>2
<1>3. CASE Identifier
  <2>1. PICK k \in 0..Len(toks) :
          /\ Dotted(k)
          /\ \/ UNCHANGED code
             \/ LET names == [j \in 1..(k + 1) |-> toks[at + 2*(j - 1)].val]
                    from  == IF k > 2 THEN k - 1 ELSE 1
                IN code' = Append(code, Node("ATTR", SubSeq(names, from, k + 1)))
    BY <1>3 DEF Identifier
  <2> DEFINE names == [j \in 1..(k + 1) |-> toks[at + 2*(j - 1)].val]
             from  == IF k > 2 THEN k - 1 ELSE 1
  <2>2. k \in Nat
    BY <1>1, <2>1
  <2>3. ASSUME NEW j \in 1..(k + 1)
        PROVE  toks[at + 2*(j - 1)].val \in Vals
    <3>1. at + 2*(j - 1) \in DOMAIN toks
      <4>1. CASE j = 1
        BY <1>1, <4>1 DEF Token
      <4>2. CASE j # 1
        <5>1. j - 1 \in 1..k
          BY <2>2, <2>3, <4>2
        <5> QED
          BY <2>1, <5>1 DEF Dotted, NextIs
      <4> QED
        BY <4>1, <4>2
    <3> QED
      BY <1>1, <3>1 DEF Vals
  <2>4. names \in Seq(Vals) /\ Len(names) = k + 1
    BY <2>2, <2>3
  <2>5. from \in 1..(k + 1)
    BY <2>2
  <2> HIDE DEF names, from
  <2>6. SubSeq(names, from, k + 1) \in Seq(Vals)
    BY <2>2, <2>4, <2>5
  <2>7. Node("ATTR", SubSeq(names, from, k + 1)) \in C
    BY <2>6 DEF Plain
  <2> QED
    BY <2>1, <2>7 DEF names, from
<1>4. CASE \E k \in 0..Len(stack) : code' = Popped(k)
  BY <1>1, <1>4, PoppedIn
<1>5. CASE OperatorToken \/ Comma
  BY <1>4, <1>5 DEF OperatorToken, Comma
<1>6. CASE RightParen
  <2>1. PICK k \in 0..Len(stack) :
          \/ code' = Popped(k)
          \/ /\ k > 1 /\ code' = Append(Popped(k), stack[k - 1])
    BY <1>6 DEF RightParen
  <2>2. Popped(k) \in Seq(C)
    BY <1>1, PoppedIn
  <2>3. k > 1 => stack[k - 1] \in C
    <3>1. stack \in Seq(StackNode) /\ StackNode \subseteq C
      BY <1>1 DEF ParserTyped
    <3>2. k > 1 => k - 1 \in 1..Len(stack)
      BY <3>1
    <3>3. k > 1 => stack[k - 1] \in StackNode
      BY <3>1, <3>2
    <3> QED
      BY <3>1, <3>3
  <2>4. CASE code' = Popped(k)
    BY <2>2, <2>4
  <2>5. CASE k > 1 /\ code' = Append(Popped(k), stack[k - 1])
    BY <2>2, <2>3, <2>5
  <2> QED
    BY <2>1, <2>4, <2>5
<1>7. CASE UNCHANGED code
  BY <1>7
<1>8. CASE Function \/ LeftParen \/ OtherToken \/ TokenRefused
  BY <1>7, <1>8 DEF Function, LeftParen, OtherToken, TokenRefused, exprVars
<1> QED
  BY <1>2, <1>3, <1>5, <1>6, <1>8 DEF Token

(* At the end of a clause the stack, and the AND, are added as well. *)
LEMMA JoinedIn ==
  ASSUME ParserTyped, NEW C, StackNode \subseteq C, code \in Seq(C)
  PROVE  Popped(0) \in Seq(C) /\ Joined(Popped(0)) \in Seq(C)
<1>1. 0 \in 0..Len(stack)
  BY DEF ParserTyped
<1>2. Popped(0) \in Seq(C)
  BY <1>1, PoppedIn
<1>3. Operator("AND") \in C
  BY DEF StackNode, Operators
<1> QED
  BY <1>2, <1>3 DEF Joined

-----------------------------------------------------------------------------
(* Strings.  No clause up to the m-th has one: *)
NoString(m) ==
  \A k \in 1..m : \A n \in DOMAIN query[k].toks : query[k].toks[n].type # "STRING"

(* During a clause a string is an offset, and there are built ones only from the *)
(* clauses before. *)
StringInv ==
  /\ code \in Seq(CodeNode)
  /\ ~dropped /\ pc = "clause" /\ NoString(c - 1) => code \in Seq(Plain)
  /\ ~dropped /\ pc = "tokens" /\ NoString(c - 1) => code \in Seq(Plain \cup Offsets)
  /\ ~dropped /\ pc = "tokens" /\ NoString(c) => code \in Seq(Plain)
  /\ StringsBuilt

LEMMA InitStrings == Init => StringInv
BY DEF Init, ParseInit, StringInv, StringsBuilt

(* Where the clause has no string, neither has its token. *)
LEMMA TokenString ==
  ASSUME ParserTyped, Token, NoString(c)
  PROVE  tok.type # "STRING"
<1>1. /\ toks \in Seq(Tokens) /\ at \in 1..Len(toks) /\ c \in 1..Len(query)
  BY TokenTyped DEF Token, ParserTyped
<1>2. c \in 1..c /\ toks = query[c].toks /\ tok = toks[at]
  BY <1>1, QueriesAssumption DEF toks, tok, ParserTyped
<1>3. at \in DOMAIN query[c].toks
  BY <1>1, <1>2
<1> QED
  BY <1>2, <1>3 DEF NoString

(* Where a clause ends for good or bad, nothing remains to be shown but that *)
(* the code is well formed, unless it was parsed. *)
LEMMA FailStrings ==
  ASSUME ParserTyped, pc \in {"clause", "tokens"}, Fail, code' \in Seq(CodeNode)
  PROVE  StringInv'
  BY DEF Fail, ClauseDone, StringInv, StringsBuilt

LEMMA TokenStrings ==
  ASSUME ParserTyped, StringInv, Token
  PROVE  StringInv'
<1>1. pc = "tokens" /\ query' = query
  BY DEF Token
<1>2. code' \in Seq(CodeNode)
  BY TokenCode DEF CodeNode, StringInv
<1>3. CASE Fail
  BY <1>1, <1>2, <1>3, FailStrings
<1>4. CASE Proceed
  <2>1. c' = c /\ dropped' = dropped /\ pc' = "tokens"
    BY <1>1, <1>4 DEF Proceed
  <2>2. NoString(c - 1)' = NoString(c - 1) /\ NoString(c)' = NoString(c)
    BY <1>1, <2>1 DEF NoString
  <2>3. code \in Seq(Plain \cup Offsets) => code' \in Seq(Plain \cup Offsets)
    BY TokenCode
  <2>4. code \in Seq(Plain) /\ NoString(c) => code' \in Seq(Plain)
    BY TokenCode, TokenString
  <2> QED
    BY <1>1, <1>2, <2>1, <2>2, <2>3, <2>4 DEF StringInv, StringsBuilt
<1>5. Fail \/ Proceed
  BY DEF Token, Operand, Identifier, OperatorToken, Comma, Function, LeftParen,
         RightParen, OtherToken, TokenRefused
<1> QED
  BY <1>3, <1>4, <1>5

(* The pass at the end builds the strings. *)
LEMMA EndStrings ==
  ASSUME ParserTyped, StringInv, EndOfClause
  PROVE  StringInv'
<1> DEFINE all == Joined(Popped(0))
<1>1. /\ pc = "tokens" /\ query' = query /\ dropped' = dropped /\ ClauseDone
      /\ code' = [n \in DOMAIN all |-> Strung(all[n])]
      /\ c \in 1..Len(query) /\ Len(query) \in Nat
  BY QueriesAssumption DEF EndOfClause, ParserTyped
<1>2. StackNode \subseteq Plain /\ StackNode \subseteq CodeNode
  BY DEF Plain, CodeNode
<1>3. all \in Seq(CodeNode)
  BY <1>2, JoinedIn DEF StringInv
<1>4. code \in Seq(Plain) => all \in Seq(Plain)
  BY <1>2, JoinedIn
<1>5. code \in Seq(Plain \cup Offsets) => all \in Seq(Plain \cup Offsets)
  BY <1>2, JoinedIn
<1> HIDE DEF all
<1>6. ASSUME NEW n \in CodeNode
      PROVE  Strung(n) \in CodeNode
  <2>1. CASE n \in Offsets
    BY <2>1 DEF Offsets, CodeNode, Strings, Strung, Node
  <2>2. CASE n \in Strings
    BY <2>2 DEF Strings, CodeNode, Strays, Strung, Node
  <2>3. CASE n \in Plain \cup Strays
    BY <2>3, NodeTypes DEF CodeNode, Strung
  <2> QED
    BY <2>1, <2>2, <2>3 DEF CodeNode
<1>7. ASSUME NEW n \in Plain
      PROVE  Strung(n) = n
  BY NodeTypes DEF Strung
<1>8. code' \in Seq(CodeNode)
  BY <1>1, <1>3, <1>6
<1>9. all \in Seq(Plain) => code' \in Seq(Plain)
  BY <1>1, <1>7
<1>10. CASE c = Len(query)
  <2>1. pc' = "parsed"
    BY <1>1, <1>10 DEF ClauseDone
  <2>2. SUFFICES ASSUME ~dropped, NoString(Len(query) - 1), NEW n \in DOMAIN code'
                 PROVE  code'[n].type \notin {"OFFSET", "STRAY"}
    BY <1>1, <1>8, <2>1 DEF StringInv, StringsBuilt, NoString
  <2>3. all \in Seq(Plain \cup Offsets)
    BY <1>1, <1>5, <1>10, <2>2 DEF StringInv
  <2>4. n \in DOMAIN all /\ code'[n] = Strung(all[n]) /\ all[n] \in Plain \cup Offsets
    BY <1>1, <2>2, <2>3
  <2> QED
    BY <2>4, NodeTypes DEF Strung, Node
<1>11. CASE c # Len(query)
  <2>1. pc' = "clause" /\ c' = c + 1 /\ c' - 1 = c
    BY <1>1, <1>11 DEF ClauseDone
  <2>2. NoString(c - 1)' => NoString(c)
    BY <1>1, <2>1 DEF NoString
  <2> QED
    BY <1>1, <1>4, <1>8, <1>9, <2>1, <2>2 DEF StringInv, StringsBuilt
<1> QED
  BY <1>10, <1>11

LEMMA StepStrings == IInv /\ StringInv /\ [Next]_vars => StringInv'
<1> SUFFICES ASSUME IInv, StringInv, [Next]_vars
             PROVE  StringInv'
  OBVIOUS
<1>1. ParserTyped
  BY DEF IInv
<1>2. CASE Begin
  <2>1. /\ pc = "clause" /\ pc' = "tokens" /\ query' = query /\ c' = c
        /\ dropped' = dropped /\ code' = code /\ c \in Nat \ {0}
    BY <1>1, <1>2 DEF Begin, ParserTyped
  <2>2. NoString(c)' => NoString(c - 1)
    BY <2>1 DEF NoString
  <2>3. NoString(c - 1)' => NoString(c - 1)
    BY <2>1 DEF NoString
  <2>4. code \in Seq(Plain) => code \in Seq(Plain \cup Offsets)
    OBVIOUS
  <2> QED
    BY <2>1, <2>2, <2>3, <2>4 DEF StringInv, StringsBuilt
<1>3. CASE BeginRefused
  BY <1>1, <1>3, FailStrings DEF BeginRefused, StringInv
<1>4. CASE Token
  BY <1>1, <1>4, TokenStrings
<1>5. CASE EndOfClause
  BY <1>1, <1>5, EndStrings
<1>6. CASE EndRefused
  <2>1. code' \in Seq(CodeNode)
    BY <1>1, <1>6, JoinedIn DEF EndRefused, StringInv, Plain, CodeNode
  <2>2. CASE Fail
    BY <1>1, <1>6, <2>1, <2>2, FailStrings DEF EndRefused
  <2>3. CASE pc' = "crashed"
    BY <2>1, <2>3 DEF StringInv, StringsBuilt
  <2> QED
    BY <1>6, <2>2, <2>3 DEF EndRefused
<1>7. ASSUME UNCHANGED <<clauseVars, exprVars>>, pc \in {"parsed", "eval"} \/ pc' = pc,
             pc' \in {"parsed", "eval"} \/ pc' = pc
      PROVE  StringInv'
  <2>1. /\ query' = query /\ c' = c /\ dropped' = dropped /\ code' = code
    BY <1>7 DEF clauseVars, exprVars
  <2>2. \A m : NoString(m)' = NoString(m)
    BY <2>1 DEF NoString
  <2> QED
    BY <1>7, <2>1, <2>2 DEF StringInv, StringsBuilt
<1>8. CASE FindType \/ Evaluate
  BY <1>7, <1>8 DEF FindType, Evaluate
<1>9. CASE EvalNode
  BY <1>7, <1>9, EvalStays DEF EvalNode
<1>10. CASE Finish
  BY <1>7, <1>10 DEF Finish, Return
<1>11. CASE UNCHANGED vars
  BY <1>7, <1>11 DEF vars, parseVars
<1> QED
  BY <1>2, <1>3, <1>4, <1>5, <1>6, <1>8, <1>9, <1>10, <1>11 DEF Next, ParseNext

(***************************************************************************)
(* Where no clause but the last has a string and none was given up, all    *)
(* strings of the code have been built, and none from an address.          *)
(***************************************************************************)
THEOREM Built == Spec => []StringsBuilt
<1>1. StringInv => StringsBuilt
  BY DEF StringInv
<1> QED
  BY InitInv, StepInv, InitStrings, StepStrings, <1>1, PTL DEF Spec

-----------------------------------------------------------------------------
(* What operators make of the types of their values. *)
LEMMA ArgsAre ==
  ASSUME NEW V, NEW v \in Seq(V), NEW k \in {1, 2}, k <= Len(v)
  PROVE  SubSeq(v, Len(v) - k + 1, Len(v))
           = IF k = 1 THEN <<v[Len(v)]>> ELSE <<v[Len(v) - 1], v[Len(v)]>>
<1> DEFINE u == SubSeq(v, Len(v) - k + 1, Len(v))
<1>1. /\ u \in Seq(V) /\ Len(u) = k
      /\ \A i \in 1..k : u[i] = v[Len(v) - k + i]
  <2> DEFINE m == Len(v) - k + 1
  <2>1. /\ Len(v) \in Nat /\ k \in Nat /\ m \in Nat /\ m \in 1..(Len(v) + 1)
        /\ Len(v) \in (m - 1)..Len(v) /\ Len(v) - m + 1 = k
        /\ \A i \in 1..k : m + i - 1 = Len(v) - k + i
    OBVIOUS
  <2> HIDE DEF m
  <2>4. m \in Int /\ Len(v) \in Int /\ m <= Len(v) /\ \A i \in m..Len(v) : v[i] \in V
    BY <2>1
  <2>2. /\ SubSeq(v, m, Len(v)) \in Seq(V)
        /\ Len(SubSeq(v, m, Len(v))) = Len(v) - m + 1
        /\ \A i \in 1..(Len(v) - m + 1) : SubSeq(v, m, Len(v))[i] = v[m + i - 1]
    BY <2>4, SubSeqProperties
  <2>3. /\ SubSeq(v, m, Len(v)) \in Seq(V) /\ Len(SubSeq(v, m, Len(v))) = k
        /\ \A i \in 1..k : SubSeq(v, m, Len(v))[i] = v[Len(v) - k + i]
    BY <2>1, <2>2
  <2> QED
    BY <2>3 DEF m
<1> HIDE DEF u
<1>2. CASE k = 1
  <2>1. u[1] = v[Len(v)]
    BY <1>1, <1>2
  <2>2. u = <<v[Len(v)]>>
    BY <1>1, <1>2, <2>1
  <2> QED
    BY <1>2, <2>2 DEF u
<1>3. CASE k = 2
  <2>1. u[1] = v[Len(v) - 1] /\ u[2] = v[Len(v)]
    BY <1>1, <1>3
  <2>2. u = <<v[Len(v) - 1], v[Len(v)]>>
    BY <1>1, <1>3, <2>1
  <2> QED
    BY <1>3, <2>2 DEF u
<1> QED
  BY <1>2, <1>3

LEMMA ApplyOne ==
  ASSUME NEW n, NEW x, x.type \in {"INT", "STRING", "NULL"}, Required(n) = 1
  PROVE  /\ ~Clash(<<x>>)
         /\ x.type = "NULL" => Apply(n, <<x>>).type = "NULL"
         /\ x.type = "INT" =>
              Apply(n, <<x>>).type = IF n.type = "OP" /\ n.val \in {"UNARYNEG", "NOT"}
                                     THEN "INT" ELSE "ERROR"
         /\ x.type = "STRING" =>
              Apply(n, <<x>>).type = IF n.type = "FUNC" THEN "INT" ELSE "ERROR"
<1> DEFINE v == <<x>>
<1>1. DOMAIN v = {1} /\ v[1] = x /\ Len(v) = 1
  OBVIOUS
<1>2. n.type = "OP" => n.val \in {"BCOMP", "NOT", "UNARYNEG"}
  BY DEF Required, Unary
<1> HIDE DEF v
<1>3. {v[i].type : i \in DOMAIN v} = {x.type}
  BY <1>1
<1>4. Promoted(v) = x.type
  BY <1>3 DEF Promoted
<1>5. {i \in DOMAIN v : v[i].type # "NULL"} = IF x.type = "NULL" THEN {} ELSE DOMAIN v
  BY <1>1
<1>6. ~Clash(v)
  BY <1>3 DEF Clash
<1>7. CASE x.type = "NULL"
  <2>1. Apply(n, v) = Null
    BY <1>1, <1>5, <1>7 DEF Apply
  <2> QED
    BY <1>6, <1>7, <2>1 DEF v, Null, Node
<1>8. CASE x.type = "INT"
  <2>1. Apply(n, v) = OnIntegers(n, v)
    BY <1>4, <1>5, <1>8 DEF Apply, Known
  <2>2. n.type # "OP" => OnIntegers(n, v) = Error
    BY <1>1 DEF OnIntegers
  <2>3. n.type = "OP" => OnIntegers(n, v) = IntUnary(n.val, x.val)
    BY <1>1 DEF OnIntegers
  <2>4. n.type = "OP" =>
          IntUnary(n.val, x.val).type = IF n.val \in {"UNARYNEG", "NOT"} THEN "INT" ELSE "ERROR"
    BY <1>2 DEF IntUnary, Number, Truth, Error, Node
  <2> QED
    BY <1>6, <1>8, <2>1, <2>2, <2>3, <2>4 DEF v, Error, Node
<1>9. CASE x.type = "STRING"
  <2>1. Apply(n, v) = OnStrings(n, v)
    BY <1>4, <1>5, <1>9 DEF Apply, Known
  <2>2. OnStrings(n, v) = IF n.type = "FUNC" THEN Number(Len(x.val)) ELSE Error
    BY <1>1 DEF OnStrings
  <2> QED
    BY <1>6, <1>9, <2>1, <2>2 DEF v, Number, Error, Node
<1> QED
  BY <1>7, <1>8, <1>9

OnTwo(n, x, y) ==
  /\ Clash(<<x, y>>) <=> x.type # y.type /\ x.type # "NULL" /\ y.type # "NULL"
  /\ x.type # "STRING" /\ y.type # "STRING" =>
       Apply(n, <<x, y>>).type \in {"INT", "NULL"}
  /\ x.type # "INT" /\ y.type # "INT" /\ n.val \in Comparisons =>
       Apply(n, <<x, y>>).type \in {"INT", "NULL"}
  /\ x.type = "INT" /\ y.type = "INT" /\ (n.val \in {"DIV", "MOD"} => y.val # 0) =>
       Apply(n, <<x, y>>).type = "INT"
  /\ x.type = "STRING" /\ y.type = "STRING" =>
       Apply(n, <<x, y>>).type = IF n.val \in Comparisons THEN "INT" ELSE "ERROR"

LEMMA ApplyTwo ==
  ASSUME NEW n, n.type = "OP", ~Unary(n.val), n.val \in Operators,
         NEW x, x.type \in {"INT", "STRING", "NULL"},
         NEW y, y.type \in {"INT", "STRING", "NULL"}
  PROVE  OnTwo(n, x, y)
<1> DEFINE v == <<x, y>>
<1>1. DOMAIN v = {1, 2} /\ v[1] = x /\ v[2] = y /\ Len(v) = 2
  OBVIOUS
<1>2. n.val \in {"ADD", "SUB", "MULT", "DIV", "MOD", "AND", "OR"} \cup Comparisons
  BY DEF Operators, Unary
<1> HIDE DEF v
<1>3. {v[i].type : i \in DOMAIN v} = {x.type, y.type}
  BY <1>1
<1>4. Clash(v) <=> x.type # y.type /\ x.type # "NULL" /\ y.type # "NULL"
  BY <1>3 DEF Clash
<1>5. Promoted(v) = IF x.type = "STRING" \/ y.type = "STRING" THEN "STRING"
                    ELSE IF x.type = "INT" \/ y.type = "INT" THEN "INT" ELSE "NULL"
  BY <1>3 DEF Promoted
<1> DEFINE known == {i \in DOMAIN v : v[i].type # "NULL"}
<1>6. known = DOMAIN v <=> x.type # "NULL" /\ y.type # "NULL"
  BY <1>1
<1> DEFINE w == v[CHOOSE i \in known : TRUE].val
<1>7. /\ known = DOMAIN v /\ Promoted(v) = "STRING" => Apply(n, v) = OnStrings(n, v)
      /\ known = DOMAIN v /\ Promoted(v) # "STRING" => Apply(n, v) = OnIntegers(n, v)
      /\ known # DOMAIN v => Apply(n, v) \in {Null, Error, WithNull(n.val, w)}
      /\ known # DOMAIN v /\ Promoted(v) # "STRING" => Apply(n, v) \in {Null, WithNull(n.val, w)}
      /\ known # DOMAIN v /\ n.val \notin {"AND", "OR"} => Apply(n, v) = Null
  BY DEF Apply, Known
<1> HIDE DEF known, w
<1>16. OnStrings(n, v) = StrBinary(n.val, x.val, y.val)
  BY <1>1 DEF OnStrings
<1>17. OnIntegers(n, v) = IntBinary(n.val, x.val, y.val)
  BY <1>1 DEF OnIntegers
<1>8. WithNull(n.val, w).type \in {"INT", "NULL"}
  BY DEF WithNull, Truth, Number, Null, Node
<1>9. StrBinary(n.val, x.val, y.val).type = IF n.val \in Comparisons THEN "INT" ELSE "ERROR"
  BY <1>2 DEF StrBinary, Comparisons, Truth, Number, Error, Node
<1>10. /\ IntBinary(n.val, x.val, y.val).type \in {"INT", "NULL"}
       /\ (n.val \in {"DIV", "MOD"} => y.val # 0) =>
             IntBinary(n.val, x.val, y.val).type = "INT"
  BY <1>2 DEF IntBinary, Comparisons, Truth, Number, Null, Node
<1>11. Null.type = "NULL"
  BY DEF Null, Node
<1>12. x.type # "STRING" /\ y.type # "STRING" => Apply(n, v).type \in {"INT", "NULL"}
  BY <1>5, <1>6, <1>7, <1>8, <1>10, <1>11, <1>17
<1>13. x.type # "INT" /\ y.type # "INT" /\ n.val \in Comparisons =>
              Apply(n, v).type \in {"INT", "NULL"}
  BY <1>5, <1>6, <1>7, <1>9, <1>11, <1>16 DEF Comparisons
<1>14. x.type = "INT" /\ y.type = "INT" /\ (n.val \in {"DIV", "MOD"} => y.val # 0) =>
              Apply(n, v).type = "INT"
  BY <1>5, <1>6, <1>7, <1>10, <1>17
<1>15. x.type = "STRING" /\ y.type = "STRING" =>
              Apply(n, v).type = IF n.val \in Comparisons THEN "INT" ELSE "ERROR"
  BY <1>5, <1>6, <1>7, <1>9, <1>16
<1> QED
  BY <1>4, <1>12, <1>13, <1>14, <1>15 DEF v, OnTwo

-----------------------------------------------------------------------------
(* The types of the values on the stack, node by node, when no value is NULL. *)
Kinds == {"INT", "STRING"}

Leaf(n) == n.type \in {"INT", "STRING", "STRAY", "ATTR"}

LeafKind(n) == CASE n.type = "INT"  -> "INT"
                 [] n.type = "ATTR" -> AttrType[Last(n.val)]
                 [] OTHER           -> "STRING"

Accepts(n, s) ==
  \/ n.type = "FUNC" /\ Len(s) >= 1 /\ s[Len(s)] = "STRING"
  \/ n.type = "OP" /\ n.val \in {"UNARYNEG", "NOT"} /\ Len(s) >= 1 /\ s[Len(s)] = "INT"
  \/ /\ n.type = "OP" /\ ~Unary(n.val) /\ Len(s) >= 2
     /\ s[Len(s)] = s[Len(s) - 1]
     /\ s[Len(s)] = "INT" \/ n.val \in Comparisons

Leads(n, s, t) ==
  IF Leaf(n) THEN t = Append(s, LeafKind(n))
             ELSE Accepts(n, s) /\ t = Append(SubSeq(s, 1, Len(s) - Required(n)), "INT")

(* T gives the types after each of the first m nodes of an expression. *)
Typing(nodes, T, m) ==
  /\ T[0] = <<>>
  /\ \A k \in 0..m : T[k] \in Seq(Kinds)
  /\ \A k \in 1..m : Leads(nodes[k], T[k - 1], T[k])

Below(v, s) == Len(v) = Len(s) /\ \A i \in 1..Len(s) : v[i].type \in {s[i], "NULL"}
Exact(v, s) == Len(v) = Len(s) /\ \A i \in 1..Len(s) : v[i].type = s[i]

(* A node that is accepted is applied without an error, NULL or not. *)
LEMMA ApplyBelow ==
  ASSUME NEW n, ~Leaf(n), n.type = "OP" => n.val \in Operators,
         NEW s \in Seq(Kinds), Accepts(n, s),
         NEW V, NEW v \in Seq(V), Below(v, s)
  PROVE  LET k    == Required(n)
             args == SubSeq(v, Len(v) - k + 1, Len(v))
         IN /\ k <= Len(v) /\ ~Clash(args)
            /\ Apply(n, args).type \in {"INT", "NULL"}
<1> DEFINE k    == Required(n)
           args == SubSeq(v, Len(v) - k + 1, Len(v))
           x    == v[Len(v) - 1]
           y    == v[Len(v)]
<1>1. Len(v) = Len(s) /\ Len(s) \in Nat
  BY DEF Below
<1>2. CASE n.type = "OP" /\ ~Unary(n.val)
  <2>1. k = 2
    BY <1>2 DEF Required
  <2>2. /\ Len(s) >= 2 /\ s[Len(s)] = s[Len(s) - 1] /\ s[Len(s)] \in Kinds
        /\ s[Len(s)] = "INT" \/ n.val \in Comparisons
    BY <1>1, <1>2 DEF Accepts, Unary
  <2>3. x.type \in {s[Len(s)], "NULL"} /\ y.type \in {s[Len(s)], "NULL"}
    BY <1>1, <2>2 DEF Below
  <2>4. args = <<x, y>>
    BY <1>1, <2>1, <2>2, ArgsAre
  <2> HIDE DEF k, args, x, y
  <2>5. ~Clash(<<x, y>>) /\ Apply(n, <<x, y>>).type \in {"INT", "NULL"}
    <3>1. n.val \in Operators
      BY <1>2
    <3>2. x.type \in {"INT", "STRING", "NULL"} /\ y.type \in {"INT", "STRING", "NULL"}
      BY <2>2, <2>3 DEF Kinds
    <3>3. OnTwo(n, x, y)
      BY <1>2, <3>1, <3>2, ApplyTwo
    <3> QED
      BY <2>2, <2>3, <3>3 DEF Kinds, OnTwo
  <2> QED
    BY <1>1, <2>1, <2>2, <2>4, <2>5 DEF k, args
<1>3. CASE ~(n.type = "OP" /\ ~Unary(n.val))
  <2>1. k = 1
    BY <1>3 DEF Required
  <2>2. /\ Len(s) >= 1 /\ s[Len(s)] \in Kinds
        /\ \/ n.type = "FUNC" /\ s[Len(s)] = "STRING"
           \/ n.type = "OP" /\ n.val \in {"UNARYNEG", "NOT"} /\ s[Len(s)] = "INT"
    BY <1>1, <1>3 DEF Accepts
  <2>3. y.type \in {s[Len(s)], "NULL"}
    BY <1>1, <2>2 DEF Below
  <2>4. args = <<y>>
    BY <1>1, <2>1, <2>2, ArgsAre
  <2> HIDE DEF args, y
  <2>5. ~Clash(<<y>>) /\ Apply(n, <<y>>).type \in {"INT", "NULL"}
    <3>1. y.type \in {"INT", "STRING", "NULL"} /\ Required(n) = 1
      BY <2>1, <2>2, <2>3 DEF Kinds
    <3> QED
      BY <2>2, <2>3, <3>1, ApplyOne
  <2> QED
    BY <1>1, <2>1, <2>2, <2>4, <2>5 DEF k, args
<1> QED
  BY <1>2, <1>3

(* And a node that is applied to values that are not NULL without an error has *)
(* accepted their types. *)
LEMMA ApplyExact ==
  ASSUME NEW n, ~Leaf(n), n.type = "OP" => n.val \in Operators,
         NEW s \in Seq(Kinds), NEW V, NEW v \in Seq(V), Exact(v, s),
         Required(n) <= Len(v),
         NEW args, args = SubSeq(v, Len(v) - Required(n) + 1, Len(v)),
         ~Clash(args), Apply(n, args).type # "ERROR",
         n.type = "OP" /\ n.val \in {"DIV", "MOD"} /\ v[Len(v)].type = "INT"
           => v[Len(v)].val # 0
  PROVE  Accepts(n, s) /\ Apply(n, args).type = "INT"
<1> DEFINE x == v[Len(v) - 1]
           y == v[Len(v)]
<1>1. Len(v) = Len(s) /\ Len(s) \in Nat
  BY DEF Exact
<1>2. CASE n.type = "OP" /\ ~Unary(n.val)
  <2>1. Required(n) = 2
    BY <1>2 DEF Required
  <2>2. args = <<x, y>>
    BY <1>1, <2>1, ArgsAre
  <2>3. /\ x.type = s[Len(s) - 1] /\ y.type = s[Len(s)]
        /\ x.type \in Kinds /\ y.type \in Kinds
    BY <1>1, <2>1 DEF Exact
  <2> HIDE DEF x, y
  <2>7. n.val \in Operators /\ x.type \in {"INT", "STRING", "NULL"}
        /\ y.type \in {"INT", "STRING", "NULL"}
    BY <1>2, <2>3 DEF Kinds
  <2>8. OnTwo(n, x, y)
    BY <1>2, <2>7, ApplyTwo
  <2>4. x.type = y.type
    BY <2>2, <2>3, <2>8 DEF Kinds, OnTwo
  <2>5. CASE x.type = "INT"
    <3>1. Apply(n, <<x, y>>).type = "INT"
      <4>1. n.val \in {"DIV", "MOD"} => y.val # 0
        BY <1>2, <2>4, <2>5 DEF y
      <4> QED
        BY <2>4, <2>5, <2>8, <4>1 DEF OnTwo
    <3> QED
      BY <1>1, <1>2, <2>1, <2>2, <2>3, <2>4, <2>5, <3>1 DEF Accepts
  <2>6. CASE x.type = "STRING"
    <3>1. Apply(n, <<x, y>>).type = IF n.val \in Comparisons THEN "INT" ELSE "ERROR"
      BY <2>4, <2>6, <2>8 DEF OnTwo
    <3> QED
      BY <1>1, <1>2, <2>1, <2>2, <2>3, <2>4, <2>6, <3>1 DEF Accepts
  <2> QED
    BY <2>3, <2>5, <2>6 DEF Kinds
<1>3. CASE ~(n.type = "OP" /\ ~Unary(n.val))
  <2>1. Required(n) = 1
    BY <1>3 DEF Required
  <2>2. args = <<y>>
    BY <1>1, <2>1, ArgsAre
  <2>3. y.type = s[Len(s)] /\ y.type \in Kinds
    BY <1>1, <2>1 DEF Exact
  <2> HIDE DEF x, y
  <2>4. CASE y.type = "INT"
    <3>1. Apply(n, <<y>>).type = IF n.type = "OP" /\ n.val \in {"UNARYNEG", "NOT"}
                                 THEN "INT" ELSE "ERROR"
      BY <2>1, <2>4, ApplyOne
    <3> QED
      BY <1>1, <2>1, <2>2, <2>3, <2>4, <3>1 DEF Accepts
  <2>5. CASE y.type = "STRING"
    <3>1. Apply(n, <<y>>).type = IF n.type = "FUNC" THEN "INT" ELSE "ERROR"
      BY <2>1, <2>5, ApplyOne
    <3> QED
      BY <1>1, <2>1, <2>2, <2>3, <2>5, <3>1 DEF Accepts
  <2> QED
    BY <2>3, <2>4, <2>5 DEF Kinds
<1> QED
  BY <1>2, <1>3

-----------------------------------------------------------------------------
(* Stacks that grow. *)
LEMMA Replaced ==
  ASSUME NEW V, NEW v \in Seq(V), NEW k \in 0..Len(v), NEW e, NEW w,
         w = Append(SubSeq(v, 1, Len(v) - k), e)
  PROVE  /\ w \in Seq(V \cup {e})
         /\ Len(w) = Len(v) - k + 1
         /\ \A i \in 1..(Len(v) - k) : w[i] = v[i]
         /\ w[Len(v) - k + 1] = e
<1> DEFINE u == SubSeq(v, 1, Len(v) - k)
<1>1. u \in Seq(V) /\ Len(u) = Len(v) - k /\ \A i \in 1..(Len(v) - k) : u[i] = v[i]
  OBVIOUS
<1> HIDE DEF u
<1>2. u \in Seq(V \cup {e})
  BY <1>1
<1> QED
  BY <1>1, <1>2 DEF u

Grown(v, s, e, y, w, t) ==
  /\ Below(v, s) /\ e.type \in {y, "NULL"} => Below(w, t)
  /\ Exact(v, s) /\ e.type = y => Exact(w, t)
  /\ Len(v) = Len(s) => t \in Seq(Kinds)

LEMMA StackGrows ==
  ASSUME NEW V, NEW v \in Seq(V), NEW s \in Seq(Kinds), NEW k \in 0..Len(v),
         NEW e, NEW y \in Kinds,
         NEW w, w = Append(SubSeq(v, 1, Len(v) - k), e),
         NEW t, t = Append(SubSeq(s, 1, Len(s) - k), y)
  PROVE  Grown(v, s, e, y, w, t)
<1> SUFFICES ASSUME Len(v) = Len(s)
             PROVE  /\ Below(v, s) /\ e.type \in {y, "NULL"} => Below(w, t)
                    /\ Exact(v, s) /\ e.type = y => Exact(w, t)
                    /\ t \in Seq(Kinds)
  BY DEF Below, Exact, Grown
<1>1. /\ Len(w) = Len(v) - k + 1
      /\ \A i \in 1..(Len(v) - k) : w[i] = v[i]
      /\ w[Len(v) - k + 1] = e
  BY Replaced
<1>2. /\ t \in Seq(Kinds \cup {y})
      /\ Len(t) = Len(v) - k + 1
      /\ \A i \in 1..(Len(v) - k) : t[i] = s[i]
      /\ t[Len(v) - k + 1] = y
  BY Replaced
<1>3. \A i \in 1..Len(t) : i \in 1..(Len(v) - k) \/ i = Len(v) - k + 1
  BY <1>2
<1>7. \A i \in 1..(Len(v) - k) : i \in 1..Len(s)
  OBVIOUS
<1>4. ASSUME Below(v, s), e.type \in {y, "NULL"}
      PROVE  Below(w, t)
  <2>1. \A i \in 1..Len(s) : v[i].type \in {s[i], "NULL"}
    BY <1>4 DEF Below
  <2>2. ASSUME NEW i \in 1..Len(t)
        PROVE  w[i].type \in {t[i], "NULL"}
    <3>1. CASE i \in 1..(Len(v) - k)
      <4>1. w[i] = v[i] /\ t[i] = s[i] /\ i \in 1..Len(s)
        BY <1>1, <1>2, <1>7, <3>1
      <4> QED
        BY <2>1, <4>1
    <3>2. CASE i = Len(v) - k + 1
      <4>1. w[i] = e /\ t[i] = y
        BY <1>1, <1>2, <3>2
      <4> QED
        BY <1>4, <4>1
    <3> QED
      BY <1>3, <3>1, <3>2
  <2> QED
    BY <1>1, <1>2, <2>2 DEF Below
<1>5. ASSUME Exact(v, s), e.type = y
      PROVE  Exact(w, t)
  <2>1. \A i \in 1..Len(s) : v[i].type = s[i]
    BY <1>5 DEF Exact
  <2>2. ASSUME NEW i \in 1..Len(t)
        PROVE  w[i].type = t[i]
    <3>1. CASE i \in 1..(Len(v) - k)
      <4>1. w[i] = v[i] /\ t[i] = s[i] /\ i \in 1..Len(s)
        BY <1>1, <1>2, <1>7, <3>1
      <4> QED
        BY <2>1, <4>1
    <3>2. CASE i = Len(v) - k + 1
      <4>1. w[i] = e /\ t[i] = y
        BY <1>1, <1>2, <3>2
      <4> QED
        BY <1>5, <4>1
    <3> QED
      BY <1>3, <3>1, <3>2
  <2> QED
    BY <1>1, <1>2, <2>2 DEF Exact
<1>6. t \in Seq(Kinds)
  BY <1>2
<1> QED
  BY <1>4, <1>5, <1>6

LEMMA Pushes ==
  ASSUME NEW V, NEW v \in Seq(V)
  PROVE  \A e : Append(SubSeq(v, 1, Len(v) - 0), e) = Append(v, e)
  OBVIOUS

LEMMA TypingGrows ==
  ASSUME NEW nodes, NEW T, NEW m \in Nat, Typing(nodes, T, m),
         NEW t \in Seq(Kinds), Leads(nodes[m + 1], T[m], t)
  PROVE  \E U : Typing(nodes, U, m + 1) /\ U[m + 1] = t
<1> DEFINE U == [k \in 0..(m + 1) |-> IF k = m + 1 THEN t ELSE T[k]]
<1>1. U[m + 1] = t /\ \A k \in 0..m : U[k] = T[k]
  OBVIOUS
<1> HIDE DEF U
<1>2. ASSUME NEW k \in 1..(m + 1)
      PROVE  Leads(nodes[k], U[k - 1], U[k])
  <2>1. CASE k = m + 1
    <3>1. k - 1 = m /\ m \in 0..m
      BY <2>1
    <3> QED
      BY <1>1, <2>1, <3>1
  <2>2. CASE k # m + 1
    <3>1. k \in 1..m /\ k \in 0..m /\ k - 1 \in 0..m
      BY <2>2
    <3>2. Leads(nodes[k], T[k - 1], T[k])
      BY <3>1 DEF Typing
    <3> QED
      BY <1>1, <3>1, <3>2
  <2> QED
    BY <2>1, <2>2
<1>3. \A k \in 0..(m + 1) : U[k] \in Seq(Kinds)
  <2>1. \A k \in 0..(m + 1) : k = m + 1 \/ k \in 0..m
    OBVIOUS
  <2> QED
    BY <1>1, <2>1 DEF Typing
<1>4. U[0] = <<>>
  <2>1. 0 \in 0..m
    OBVIOUS
  <2> QED
    BY <1>1, <2>1 DEF Typing
<1>5. Typing(nodes, U, m + 1)
  BY <1>2, <1>3, <1>4 DEF Typing
<1> QED
  BY <1>1, <1>5

LEMMA TypingBegins ==
  ASSUME NEW nodes, NEW T, NEW l \in Nat, Typing(nodes, T, l)
  PROVE  /\ \A m \in 0..l : Typing(nodes, T, m) /\ T[m] \in Seq(Kinds)
         /\ \A m \in 1..l : Leads(nodes[m], T[m - 1], T[m])
  BY DEF Typing

-----------------------------------------------------------------------------
(* The invariant of the evaluation.  No pass finds fewer or other values than *)
(* the types allow; that of the samples finds a typing, unless it fails. *)
EvalTyped ==
  /\ pc \notin {"parsed", "eval"} => kind = "NONE" /\ result.type = "NONE" /\ held = 0
  /\ row = <<>> \/ row \in Rows
  /\ held \in Nat
  /\ pc = "eval" =>
       /\ Evaluable /\ code # <<>>
       /\ cursor \in 1..(Len(code) + 1)
       /\ \E V : vals \in Seq(V)
       /\ cursor > 1 => Len(vals) >= 1

AsTyped ==
  \A T :
    /\ pc = "eval" /\ Typing(code, T, cursor - 1) => Below(vals, T[cursor - 1])
    /\ result.type # "NONE" /\ Typing(code, T, Len(code)) /\ Len(T[Len(code)]) = 1
         => result.type \in {T[Len(code)][1], "NULL"}
    /\ held # 0 => ~Typing(code, T, Len(code))

(* The value of the node before, if it is one a division may have on its right. *)
LastGiven ==
  cursor > 1 /\ vals[Len(vals)].type = "INT" =>
    /\ code[cursor - 1].type = "INT" => vals[Len(vals)].val = code[cursor - 1].val
    /\ code[cursor - 1].type = "ATTR" => vals[Len(vals)].val = 1

SampleTyped ==
  DivisorsGiven =>
    /\ pc = "eval" /\ row = <<>> =>
         /\ LastGiven
         /\ \E T : Typing(code, T, cursor - 1) /\ Exact(vals, T[cursor - 1])
    /\ kind \in Kinds =>
         \E T : Typing(code, T, Len(code)) /\ T[Len(code)] = <<kind>>

EvalInv == EvalTyped /\ AsTyped /\ SampleTyped

LEMMA InitEval == Init => EvalInv
<1> SUFFICES ASSUME Init PROVE EvalInv
  OBVIOUS
<1>1. /\ pc = "clause" /\ kind = "NONE" /\ result.type = "NONE" /\ held = 0 /\ row = <<>>
  BY DEF Init, ParseInit, EvalInit, None, Node
<1> QED
  BY <1>1 DEF EvalInv, EvalTyped, AsTyped, SampleTyped, Kinds

(* Neither pass has begun while the query is parsed. *)
LEMMA ParsingEval ==
  ASSUME EvalInv, ParseNext, UNCHANGED evalVars
  PROVE  EvalInv'
<1>1. pc \in {"clause", "tokens"}
  BY DEF ParseNext, Begin, BeginRefused, Token, EndOfClause, EndRefused
<1>2. /\ kind' = "NONE" /\ result'.type = "NONE" /\ held' = 0
      /\ row' = <<>> \/ row' \in Rows
  BY <1>1 DEF EvalInv, EvalTyped, evalVars
<1>3. pc' # "eval"
  <2>1. Fail \/ ClauseDone \/ Proceed => pc' # "eval"
    BY <1>1 DEF Fail, ClauseDone, Proceed
  <2>2. Token => Fail \/ Proceed
    BY DEF Token, Operand, Identifier, OperatorToken, Comma, Function, LeftParen,
           RightParen, OtherToken, TokenRefused
  <2> QED
    BY <2>1, <2>2 DEF ParseNext, Begin, BeginRefused, EndOfClause, EndRefused
<1> QED
  BY <1>2, <1>3 DEF EvalInv, EvalTyped, AsTyped, SampleTyped, Kinds

LEMMA EvalBegins ==
  ASSUME EvalInv, FindType \/ Evaluate
  PROVE  EvalInv'
<1>1. /\ pc = "parsed" /\ pc' = "eval" /\ code # <<>> /\ Evaluable
      /\ cursor' = 1 /\ vals' = <<>> /\ code' = code
      /\ UNCHANGED <<held, kind, result>>
      /\ row' = <<>> \/ row' \in Rows
  BY DEF FindType, Evaluate, exprVars
<1>2. Evaluable' /\ DivisorsGiven' = DivisorsGiven
  BY <1>1 DEF Evaluable, DivisorsGiven
<1>3. <<>> \in Seq({}) /\ Len(<<>>) = 0 /\ <<>> \in Seq(Kinds)
  OBVIOUS
<1>4. EvalTyped'
  <2>1. \E V : vals' \in Seq(V)
    BY <1>1, <1>3
  <2>2. cursor' \in 1..(Len(code') + 1) \/ Len(code) \notin Nat
    BY <1>1
  <2> QED
    BY <1>1, <1>2, <2>1, <2>2 DEF EvalInv, EvalTyped
<1>5. AsTyped'
  <2>1. \A T : Typing(code, T, 0) => Below(<<>>, T[0])
    BY <1>3 DEF Typing, Below
  <2> QED
    BY <1>1, <2>1 DEF EvalInv, AsTyped
<1>6. SampleTyped'
  <2> DEFINE T == [k \in {0} |-> <<>>]
  <2>1. Typing(code, T, 0) /\ Exact(<<>>, T[0])
    BY <1>3 DEF Typing, Exact
  <2> QED
    BY <1>1, <1>2, <2>1 DEF EvalInv, SampleTyped, LastGiven
<1> QED
  BY <1>4, <1>5, <1>6 DEF EvalInv

(* A step over a node that takes k values from the stack and puts e, of type y, *)
(* on it. *)
LEMMA EvalGrows ==
  ASSUME EvalInv, code \in Seq(CodeNode), pc = "eval", cursor \in 1..Len(code),
         NEW k \in 0..Len(vals), NEW e, NEW y \in Kinds,
         vals' = Append(SubSeq(vals, 1, Len(vals) - k), e),
         cursor' = cursor + 1, code' = code,
         UNCHANGED <<pc, row, held, kind, result>>,
         \A s \in Seq(Kinds) : \A t : Below(vals, s) /\ Leads(node, s, t) =>
            t = Append(SubSeq(s, 1, Len(s) - k), y) /\ e.type \in {y, "NULL"},
         row = <<>> /\ DivisorsGiven =>
            \A s \in Seq(Kinds) : Exact(vals, s) =>
               Leads(node, s, Append(SubSeq(s, 1, Len(s) - k), y)) /\ e.type = y,
         row = <<>> /\ e.type = "INT" =>
            /\ node.type = "INT" => e.val = node.val
            /\ node.type = "ATTR" => e.val = 1
  PROVE  EvalInv'
<1>1. PICK V : vals \in Seq(V)
  BY DEF EvalInv, EvalTyped
<1>2. /\ vals' \in Seq(V \cup {e})
      /\ Len(vals') = Len(vals) - k + 1
      /\ vals'[Len(vals) - k + 1] = e
  BY <1>1, Replaced
<1>3. /\ Len(vals) \in Nat /\ Len(code) \in Nat /\ cursor \in Nat
      /\ cursor' - 1 = cursor /\ cursor - 1 \in Nat /\ (cursor - 1) + 1 = cursor
      /\ cursor - 1 \in 0..cursor /\ cursor \in 1..cursor
  BY <1>1
<1>4. Evaluable' = Evaluable /\ DivisorsGiven' = DivisorsGiven
  BY DEF Evaluable, DivisorsGiven
<1>5. EvalTyped'
  <2>1. cursor' \in 1..(Len(code') + 1) /\ Len(vals') >= 1
    BY <1>2, <1>3
  <2> QED
    BY <1>2, <1>4, <2>1 DEF EvalInv, EvalTyped
<1>6. AsTyped'
  <2>1. ASSUME NEW T, Typing(code, T, cursor)
        PROVE  Below(vals', T[cursor])
    <3>1. /\ Typing(code, T, cursor - 1) /\ T[cursor - 1] \in Seq(Kinds)
          /\ Leads(code[cursor], T[cursor - 1], T[cursor])
      BY <1>3, <2>1, TypingBegins
    <3>2. Below(vals, T[cursor - 1])
      BY <3>1 DEF EvalInv, AsTyped
    <3>3. /\ T[cursor] = Append(SubSeq(T[cursor - 1], 1, Len(T[cursor - 1]) - k), y)
          /\ e.type \in {y, "NULL"}
      BY <3>1, <3>2 DEF node
    <3> QED
      <4>1. Grown(vals, T[cursor - 1], e, y, vals', T[cursor])
        BY <1>1, <3>1, <3>3, StackGrows
      <4> QED
        BY <3>2, <3>3, <4>1 DEF Grown
  <2> QED
    BY <1>3, <2>1 DEF EvalInv, AsTyped
<1>7. SampleTyped'
  <2> SUFFICES ASSUME DivisorsGiven
               PROVE  /\ row = <<>> =>
                           /\ LastGiven'
                           /\ \E T : Typing(code, T, cursor) /\ Exact(vals', T[cursor])
                      /\ kind \in Kinds =>
                           \E T : Typing(code, T, Len(code)) /\ T[Len(code)] = <<kind>>
    BY <1>3, <1>4 DEF SampleTyped
  <2>1. kind \in Kinds =>
          \E T : Typing(code, T, Len(code)) /\ T[Len(code)] = <<kind>>
    BY DEF EvalInv, SampleTyped
  <2>2. ASSUME row = <<>>
        PROVE  LastGiven'
    <3>1. vals'[Len(vals')] = e /\ code'[cursor' - 1] = node
      BY <1>2, <1>3 DEF node
    <3> QED
      BY <2>2, <3>1 DEF LastGiven
  <2>3. ASSUME row = <<>>
        PROVE  \E T : Typing(code, T, cursor) /\ Exact(vals', T[cursor])
    <3>1. PICK T : Typing(code, T, cursor - 1) /\ Exact(vals, T[cursor - 1])
      BY <2>3 DEF EvalInv, SampleTyped
    <3> DEFINE s == T[cursor - 1]
               t == Append(SubSeq(s, 1, Len(s) - k), y)
    <3>2. s \in Seq(Kinds)
      BY <1>3, <3>1 DEF Typing
    <3>3. Leads(code[cursor], s, t) /\ e.type = y
      BY <2>3, <3>1, <3>2 DEF node
    <3>4. Len(vals) = Len(s)
      BY <3>1 DEF Exact
    <3> HIDE DEF s
    <3>5. t \in Seq(Kinds) /\ Exact(vals', t)
      <4>1. Exact(vals, s)
        BY <3>1 DEF s
      <4> QED
        <5>1. Grown(vals, s, e, y, vals', t)
          BY <1>1, <3>2, StackGrows
        <5> QED
          BY <3>3, <3>4, <4>1, <5>1 DEF Grown
    <3> HIDE DEF t
    <3>6. Leads(code[(cursor - 1) + 1], T[cursor - 1], t)
      BY <1>3, <3>3 DEF s
    <3>7. PICK U : Typing(code, U, (cursor - 1) + 1) /\ U[(cursor - 1) + 1] = t
      BY <1>3, <3>1, <3>5, <3>6, TypingGrows
    <3> QED
      BY <1>3, <3>5, <3>7
  <2> QED
    BY <2>1, <2>2, <2>3
<1> QED
  BY <1>5, <1>6, <1>7 DEF EvalInv

(* What an attribute, or a constant, puts on the stack. *)
LEMMA ValuePushed ==
  ASSUME EvalTyped, code \in Seq(CodeNode), pc = "eval", cursor \in 1..Len(code),
         PushValue
  PROVE  /\ Leaf(node) /\ LeafKind(node) \in Kinds
         /\ \E e : /\ vals' = Append(vals, e)
                   /\ e.type \in {LeafKind(node), "NULL"}
                   /\ row = <<>> => e.type = LeafKind(node)
                   /\ row = <<>> /\ e.type = "INT" =>
                        /\ node.type = "INT" => e.val = node.val
                        /\ node.type = "ATTR" => e.val = 1
<1>1. node.type \in {"INT", "STRING", "STRAY", "ATTR"}
  BY DEF PushValue
<1>2. CASE node.type = "ATTR"
  <2> DEFINE a == Last(node.val)
  <2>1. a \in DOMAIN AttrType
    BY <1>2 DEF EvalTyped, Evaluable, node
  <2>2. AttrType[a] \in Kinds /\ LeafKind(node) = AttrType[a]
    BY <1>2, <2>1, RowsAssumption DEF Kinds, LeafKind
  <2>3. vals' = Append(vals, AttrValue(a))
    BY <1>2 DEF PushValue
  <2> HIDE DEF a
  <2>4. CASE row # <<>>
    <3>1. row[a].type \in {AttrType[a], "NULL"}
      BY <2>1, <2>4, RowsAssumption DEF EvalTyped
    <3> QED
      BY <1>2, <2>2, <2>3, <2>4, <3>1 DEF AttrValue, Leaf
  <2>5. CASE row = <<>>
    <3>1. AttrValue(a).type = AttrType[a] /\ (AttrType[a] = "INT" => AttrValue(a).val = 1)
      BY <2>2, <2>5 DEF AttrValue, Kinds, Number, Str, Node
    <3> QED
      BY <1>2, <2>2, <2>3, <2>5, <3>1 DEF Leaf
  <2> QED
    BY <2>4, <2>5
<1>3. CASE node.type = "STRAY"
  <2>1. PICK x \in Stray : vals' = Append(vals, Str(x))
    BY <1>3 DEF PushValue
  <2>2. Str(x).type = "STRING" /\ LeafKind(node) = "STRING"
    BY <1>3 DEF Str, Node, LeafKind
  <2> QED
    BY <1>3, <2>1, <2>2 DEF Leaf, Kinds
<1>4. CASE node.type \in {"INT", "STRING"}
  <2>1. vals' = Append(vals, node) /\ LeafKind(node) = node.type
    BY <1>4 DEF PushValue, LeafKind
  <2> QED
    BY <1>4, <2>1 DEF Leaf, Kinds
<1> QED
  BY <1>1, <1>2, <1>3, <1>4

LEMMA ValueEval ==
  ASSUME EvalInv, code \in Seq(CodeNode), EvalNode, PushValue
  PROVE  EvalInv'
<1>1. /\ pc = "eval" /\ cursor \in 1..Len(code) /\ code' = code
      /\ cursor' = cursor + 1 /\ UNCHANGED <<pc, row, held, kind, result>>
  BY DEF EvalNode, PushValue, EvalInv, EvalTyped, exprVars
<1>2. Leaf(node) /\ LeafKind(node) \in Kinds
  BY <1>1, ValuePushed DEF EvalInv
<1>3. PICK e : /\ vals' = Append(vals, e)
               /\ e.type \in {LeafKind(node), "NULL"}
               /\ row = <<>> => e.type = LeafKind(node)
               /\ row = <<>> /\ e.type = "INT" =>
                    /\ node.type = "INT" => e.val = node.val
                    /\ node.type = "ATTR" => e.val = 1
  BY <1>1, ValuePushed DEF EvalInv
<1>4. PICK V : vals \in Seq(V)
  BY <1>1 DEF EvalInv, EvalTyped
<1> DEFINE y == LeafKind(node)
<1> HIDE DEF y
<1>5. 0 \in 0..Len(vals) /\ vals' = Append(SubSeq(vals, 1, Len(vals) - 0), e)
  BY <1>3, <1>4, Pushes
<1>6. ASSUME NEW s \in Seq(Kinds)
      PROVE  /\ Append(SubSeq(s, 1, Len(s) - 0), y) = Append(s, y)
             /\ \A t : Leads(node, s, t) <=> t = Append(s, y)
  BY <1>2, Pushes DEF Leads, y
<1>7. y \in Kinds /\ e.type \in {y, "NULL"} /\ (row = <<>> => e.type = y)
  BY <1>2, <1>3 DEF y
<1>8. \A s \in Seq(Kinds) : \A t : Below(vals, s) /\ Leads(node, s, t) =>
         t = Append(SubSeq(s, 1, Len(s) - 0), y) /\ e.type \in {y, "NULL"}
  BY <1>6, <1>7
<1>9. row = <<>> /\ DivisorsGiven =>
         \A s \in Seq(Kinds) : Exact(vals, s) =>
            Leads(node, s, Append(SubSeq(s, 1, Len(s) - 0), y)) /\ e.type = y
  BY <1>6, <1>7
<1> QED
  BY <1>1, <1>3, <1>5, <1>7, <1>8, <1>9, EvalGrows

(* An error is returned only for code that has no typing. *)
LEMMA ErrorEval ==
  ASSUME EvalInv, pc = "eval", code' = code,
         \A T : ~Typing(code, T, Len(code)),
         NEW h \in {0, 2}, Return(Error, h)
  PROVE  EvalInv'
<1>1. /\ pc' = "parsed" /\ held' = held + h /\ row' = row
      /\ row = <<>> => kind' = "ERROR"
      /\ row # <<>> => kind' = kind
  BY DEF Return, Error, Node
<1>2. EvalTyped'
  BY <1>1 DEF EvalInv, EvalTyped
<1>3. AsTyped'
  BY <1>1 DEF AsTyped
<1>4. DivisorsGiven' = DivisorsGiven
  BY DEF DivisorsGiven
<1>5. kind' \in Kinds => kind' = kind
  BY <1>1 DEF Kinds
<1>6. SampleTyped'
  BY <1>1, <1>4, <1>5 DEF EvalInv, SampleTyped
<1> QED
  BY <1>2, <1>3, <1>6 DEF EvalInv

LEMMA AppliedEval ==
  ASSUME EvalInv, code \in Seq(CodeNode), EvalNode, ApplyNode
  PROVE  EvalInv'
<1> DEFINE k    == Required(node)
           args == SubSeq(vals, Len(vals) - k + 1, Len(vals))
           val  == Apply(node, args)
<1>1. /\ pc = "eval" /\ cursor \in 1..Len(code) /\ code' = code
      /\ ~Leaf(node) /\ k \in {1, 2}
  BY DEF EvalNode, ApplyNode, EvalInv, EvalTyped, exprVars, Leaf, Required
<1>2. node.type = "OP" => node.val \in Operators
  <2>1. node \in CodeNode
    BY <1>1 DEF node
  <2> QED
    BY <2>1, NodeTypes DEF CodeNode
<1>3. PICK V : vals \in Seq(V)
  BY <1>1 DEF EvalInv, EvalTyped
<1>4. /\ k > Len(vals) => Return(Error, 0)
      /\ k <= Len(vals) /\ Clash(args) => Return(Error, 2)
      /\ k <= Len(vals) /\ ~Clash(args) /\ val.type = "ERROR" => Return(Error, 0)
      /\ k <= Len(vals) /\ ~Clash(args) /\ val.type # "ERROR" =>
           /\ vals' = Append(SubSeq(vals, 1, Len(vals) - k), val)
           /\ cursor' = cursor + 1
           /\ UNCHANGED <<pc, row, held, kind, result>>
  BY <1>1, <1>3 DEF ApplyNode
<1>5. ASSUME NEW s \in Seq(Kinds), NEW t, Below(vals, s), Leads(node, s, t)
      PROVE  /\ k <= Len(vals) /\ ~Clash(args)
             /\ val.type \in {"INT", "NULL"}
             /\ t = Append(SubSeq(s, 1, Len(s) - k), "INT")
  <2>1. Accepts(node, s) /\ t = Append(SubSeq(s, 1, Len(s) - k), "INT")
    BY <1>1, <1>5 DEF Leads
  <2> QED
    BY <1>1, <1>2, <1>3, <1>5, <2>1, ApplyBelow
<1> HIDE DEF k, args, val
<1>6. CASE k > Len(vals) \/ Clash(args) \/ val.type = "ERROR"
  <2>1. ASSUME NEW T, Typing(code, T, Len(code))
        PROVE  FALSE
    <3>1. cursor - 1 \in 0..Len(code) /\ cursor \in 1..Len(code) /\ Len(code) \in Nat
      BY <1>1
    <3>2. /\ Typing(code, T, cursor - 1) /\ T[cursor - 1] \in Seq(Kinds)
          /\ Leads(code[cursor], T[cursor - 1], T[cursor])
      BY <2>1, <3>1, TypingBegins
    <3>3. Below(vals, T[cursor - 1])
      BY <1>1, <3>2 DEF EvalInv, AsTyped
    <3>4. k <= Len(vals) /\ ~Clash(args) /\ val.type \in {"INT", "NULL"}
      BY <1>5, <3>2, <3>3 DEF node
    <3> QED
      BY <1>1, <1>3, <1>6, <3>4
  <2>2. Return(Error, 0) \/ Return(Error, 2)
    BY <1>1, <1>3, <1>4, <1>6
  <2> QED
    BY <1>1, <2>1, <2>2, ErrorEval
<1>7. CASE ~(k > Len(vals) \/ Clash(args) \/ val.type = "ERROR")
  <2>1. k <= Len(vals) /\ k \in 0..Len(vals)
    BY <1>1, <1>3, <1>7
  <2>2. /\ vals' = Append(SubSeq(vals, 1, Len(vals) - k), val)
        /\ cursor' = cursor + 1
        /\ UNCHANGED <<pc, row, held, kind, result>>
    BY <1>4, <1>7, <2>1
  <2>3. \A s \in Seq(Kinds) : \A t : Below(vals, s) /\ Leads(node, s, t) =>
           t = Append(SubSeq(s, 1, Len(s) - k), "INT") /\ val.type \in {"INT", "NULL"}
    BY <1>5
  <2>4. ASSUME row = <<>>, DivisorsGiven, NEW s \in Seq(Kinds), Exact(vals, s)
        PROVE  Leads(node, s, Append(SubSeq(s, 1, Len(s) - k), "INT")) /\ val.type = "INT"
    <3>1. node.type = "OP" /\ node.val \in {"DIV", "MOD"} /\ vals[Len(vals)].type = "INT"
            => vals[Len(vals)].val # 0
      <4>1. LastGiven
        BY <1>1, <2>4 DEF EvalInv, SampleTyped
      <4>2. node.type = "OP" /\ node.val \in {"DIV", "MOD"} =>
              /\ cursor > 1 /\ code[cursor - 1].type \in {"INT", "ATTR"}
              /\ code[cursor - 1].type = "INT" => code[cursor - 1].val # 0
        BY <1>1, <2>4 DEF DivisorsGiven, node
      <4> QED
        BY <4>1, <4>2 DEF LastGiven
    <3>2. Accepts(node, s) /\ val.type = "INT"
      <4>1. Required(node) <= Len(vals) /\ ~Clash(args) /\ Apply(node, args).type # "ERROR"
        BY <1>7, <2>1 DEF k, val
      <4>2. args = SubSeq(vals, Len(vals) - Required(node) + 1, Len(vals))
        BY DEF args, k
      <4> QED
        BY <1>1, <1>2, <1>3, <2>4, <3>1, <4>1, <4>2, ApplyExact DEF val
    <3> QED
      BY <1>1, <3>2 DEF Leads, k
  <2>5. ~(node.type = "INT") /\ ~(node.type = "ATTR") /\ "INT" \in Kinds
    BY <1>1 DEF Leaf, Kinds
  <2> QED
    BY <1>1, <2>1, <2>2, <2>3, <2>4, <2>5, EvalGrows
<1> QED
  BY <1>6, <1>7

LEMMA FinishEval ==
  ASSUME EvalInv, code \in Seq(CodeNode), Finish
  PROVE  EvalInv'
<1> DEFINE v == IF Len(vals) > 1 THEN Error ELSE vals[1]
<1>1. /\ pc = "eval" /\ code' = code /\ Return(v, 0)
      /\ cursor > Len(code) /\ cursor \in 1..(Len(code) + 1) /\ code # <<>>
      /\ Len(code) \in Nat
  BY DEF Finish, EvalInv, EvalTyped, exprVars
<1>2. /\ cursor - 1 = Len(code) /\ cursor > 1
  BY <1>1
<1>3. Len(vals) >= 1 /\ Len(vals) \in Nat
  BY <1>1, <1>2 DEF EvalInv, EvalTyped
<1>4. /\ pc' = "parsed" /\ held' = held + 0 /\ row' = row
      /\ row = <<>> => kind' = v.type /\ result' = result
      /\ row # <<>> => kind' = kind /\ result' = v
  BY <1>1 DEF Return
<1>5. EvalTyped'
  BY <1>4 DEF EvalInv, EvalTyped
<1>6. held' = held
  BY <1>4 DEF EvalInv, EvalTyped
<1>7. AsTyped'
  <2>1. ASSUME NEW T, Typing(code, T, Len(code)), Len(T[Len(code)]) = 1
        PROVE  v.type \in {T[Len(code)][1], "NULL"}
    <3>1. Below(vals, T[Len(code)])
      BY <1>1, <1>2, <2>1 DEF EvalInv, AsTyped
    <3>2. Len(vals) = 1 /\ vals[1].type \in {T[Len(code)][1], "NULL"}
      BY <2>1, <3>1 DEF Below
    <3> QED
      BY <3>2
  <2> HIDE DEF v
  <2>2. ASSUME NEW T
        PROVE  /\ (result'.type # "NONE" /\ Typing(code, T, Len(code)) /\ Len(T[Len(code)]) = 1)
                    => result'.type \in {T[Len(code)][1], "NULL"}
               /\ held' # 0 => ~Typing(code, T, Len(code))
    BY <1>1, <1>4, <1>6, <2>1 DEF EvalInv, AsTyped
  <2> QED
    BY <1>1, <1>4, <2>2 DEF AsTyped
<1>8. DivisorsGiven' = DivisorsGiven
  BY <1>1 DEF DivisorsGiven
<1>9. SampleTyped'
  <2> SUFFICES ASSUME DivisorsGiven, kind' \in Kinds
               PROVE  \E T : Typing(code, T, Len(code)) /\ T[Len(code)] = <<kind'>>
    BY <1>1, <1>4, <1>8 DEF SampleTyped
  <2>1. CASE row # <<>>
    BY <1>4, <2>1 DEF EvalInv, SampleTyped
  <2>2. CASE row = <<>>
    <3>1. PICK T : Typing(code, T, Len(code)) /\ Exact(vals, T[Len(code)])
      BY <1>1, <1>2, <2>2 DEF EvalInv, SampleTyped
    <3>2. Len(vals) = 1 /\ kind' = vals[1].type
      <4>1. Error.type \notin Kinds
        BY DEF Error, Node, Kinds
      <4> QED
        <5>1. kind' = v.type /\ v.type \in Kinds
          BY <1>4, <2>2
        <5>2. Len(vals) > 1 => v = Error
          OBVIOUS
        <5>3. ~(Len(vals) > 1)
          BY <4>1, <5>1, <5>2
        <5>5. \A l \in Nat : l >= 1 /\ ~(l > 1) => l = 1
          OBVIOUS
        <5>4. Len(vals) = 1
          BY <1>3, <5>3, <5>5, Zenon
        <5> QED
          BY <5>1, <5>3, <5>4
    <3>3. T[Len(code)] \in Seq(Kinds)
      BY <1>1, <3>1 DEF Typing
    <3>4. Len(T[Len(code)]) = 1 /\ T[Len(code)][1] = kind'
      BY <3>1, <3>2 DEF Exact
    <3>5. T[Len(code)] = <<kind'>>
      BY <3>3, <3>4
    <3> QED
      BY <3>1, <3>5
  <2> QED
    BY <2>1, <2>2
<1> QED
  BY <1>5, <1>7, <1>9 DEF EvalInv

LEMMA StutterEval ==
  ASSUME EvalInv, UNCHANGED vars
  PROVE  EvalInv'
<1>1. UNCHANGED <<pc, code, row, cursor, vals, held, kind, result>>
  BY DEF vars, parseVars, exprVars, evalVars
<1>2. Evaluable' = Evaluable /\ DivisorsGiven' = DivisorsGiven /\ LastGiven' = LastGiven
  BY <1>1 DEF Evaluable, DivisorsGiven, LastGiven
<1> QED
  BY <1>1, <1>2 DEF EvalInv, EvalTyped, AsTyped, SampleTyped

LEMMA StepEval == StringInv /\ EvalInv /\ [Next]_vars => EvalInv'
<1> SUFFICES ASSUME StringInv, EvalInv, [Next]_vars
             PROVE  EvalInv'
  OBVIOUS
<1>1. code \in Seq(CodeNode)
  BY DEF StringInv
<1>2. CASE ParseNext /\ UNCHANGED evalVars
  BY <1>2, ParsingEval
<1>3. CASE FindType \/ Evaluate
  BY <1>3, EvalBegins
<1>4. CASE EvalNode
  BY <1>1, <1>4, ValueEval, AppliedEval DEF EvalNode
<1>5. CASE Finish
  BY <1>1, <1>5, FinishEval
<1>6. CASE UNCHANGED vars
  BY <1>6, StutterEval
<1> QED
  BY <1>2, <1>3, <1>4, <1>5, <1>6 DEF Next

(***************************************************************************)
(* The type found on the samples is that of every result, whatever the     *)
(* expression, unless a sample may be divided by 0.                        *)
(***************************************************************************)
THEOREM Predicts == Spec => []TypePredicts
<1>1. EvalInv => TypePredicts
  <2> SUFFICES ASSUME EvalInv, kind \in {"INT", "STRING"}, DivisorsGiven
               PROVE  result.type \in {kind, "NULL", "NONE"}
    BY DEF TypePredicts
  <2>1. PICK T : Typing(code, T, Len(code)) /\ T[Len(code)] = <<kind>>
    BY DEF EvalInv, SampleTyped, Kinds
  <2>2. Len(T[Len(code)]) = 1 /\ T[Len(code)][1] = kind
    BY <2>1
  <2> QED
    BY <2>1, <2>2 DEF EvalInv, AsTyped
<1> QED
  BY InitInv, StepInv, InitStrings, StepStrings, InitEval, StepEval, <1>1, PTL DEF Spec

(* An expression that has a type leaves nothing on the back stack. *)
TypedRestored == kind \in {"INT", "STRING"} /\ DivisorsGiven => held = 0

(***************************************************************************)
(* Once the samples have given a type, no pass over a tuple leaves         *)
(* anything on the back stack, whichever of its attributes are NULL.       *)
(***************************************************************************)
THEOREM TypedLeavesNothing == Spec => []TypedRestored
<1>1. EvalInv => TypedRestored
  BY DEF EvalInv, SampleTyped, AsTyped, Kinds, TypedRestored
<1> QED
  BY InitInv, StepInv, InitStrings, StepStrings, InitEval, StepEval, <1>1, PTL DEF Spec
=============================================================================
