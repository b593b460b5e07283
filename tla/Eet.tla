--------------------------------- MODULE Eet ---------------------------------
(***************************************************************************)
(* evaluate_eet, dblogic/eet.c, on the expression ParseExpr has built: a   *)
(* pass over the nodes with a stack of values, which is the top chunk of   *)
(* the back stack.  For an operator its values are copied, promoted, to a  *)
(* chunk above that one, which holds the result and is freed again.  The   *)
(* type of the expression is found by the same pass, over sample values,   *)
(* before it is evaluated on a tuple.                                      *)
(*                                                                         *)
(* Only the operators the lexer produces are here; aggregate functions are *)
(* evaluated by dbops/aggregate.c.  A value is a node: an integer, small   *)
(* enough not to overflow, a string, which is a sequence of characters, or *)
(* NULL.  There is memory for every value.                                 *)
(***************************************************************************)
EXTENDS ParseExpr

CONSTANTS
  AttrType,  \* the type, "INT" or "STRING", of each attribute
  Rows,      \* tuples: a value for each attribute
  Stray      \* what may be read at a string that was not built

VARIABLES
  row,     \* the tuple, or <<>> when the type is wanted (rp is NULL)
  cursor,  \* the next node
  vals,    \* the values on the stack, the last one at its top
  held,    \* chunks on the back stack that no one will free
  kind,    \* the type evaluate_eet found, "ERROR", or "NONE" before
  result   \* what evaluate_eet returned for the tuple, "NONE" before

evalVars == <<row, cursor, vals, held, kind, result>>
vars == <<parseVars, evalVars>>

Number(n) == Node("INT", n)
Str(s) == Node("STRING", s)
Null   == Node("NULL", 0)
Error  == Node("ERROR", 0)
None   == Node("NONE", 0)
Truth(b) == Number(IF b THEN 1 ELSE 0)

ASSUME RowsAssumption ==
  /\ \A a \in DOMAIN AttrType : AttrType[a] \in {"INT", "STRING"}
  /\ \A r \in Rows : /\ r # <<>>
                     /\ \A a \in DOMAIN AttrType : r[a].type \in {AttrType[a], "NULL"}

\* The operators of the lexer's table, and the sign.
Comparisons == {"LT", "LTE", "GT", "GTE", "EQ", "NEQ"}
Operators   == {"UNARYNEG", "NOT", "BCOMP", "ADD", "SUB", "MULT", "DIV", "MOD",
                "AND", "OR"} \cup Comparisons

ASSUME OperatorsAssumption ==
  \A t \in Tokens : t.type = "OP" => t.val \in Operators

-----------------------------------------------------------------------------
\* Division in C.
Quotient(a, b) ==
  LET size == (IF a < 0 THEN -a ELSE a) \div (IF b < 0 THEN -b ELSE b)
  IN IF (a < 0) = (b < 0) THEN size ELSE -size

\* strcmp(s, t) < 0
Before(s, t) ==
  \E i \in 0..Len(s) :
    /\ i < Len(t)
    /\ SubSeq(s, 1, i) = SubSeq(t, 1, i)
    /\ i = Len(s) \/ s[i + 1] < t[i + 1]

\* eet_numrequiredvals
Required(n) == IF n.type = "OP" /\ ~Unary(n.val) THEN 2 ELSE 1

\* eet_promote: the type the values v are brought to; no integer can be
\* brought to a string.
Promoted(v) ==
  LET types == {v[i].type : i \in DOMAIN v}
  IN IF "STRING" \in types THEN "STRING"
     ELSE IF "INT" \in types THEN "INT" ELSE "NULL"

Clash_OfNull(v) ==                                            \* mutant
  {"NULL", "STRING"} \subseteq {v[i].type : i \in DOMAIN v}
Clash(v) == {"INT", "STRING"} \subseteq {v[i].type : i \in DOMAIN v}

\* eet_evaloporfunc, on integers, ...
IntUnary(op, x) ==
  CASE op = "UNARYNEG" -> Number(-x)
    [] op = "NOT"      -> Truth(x = 0)
    [] OTHER           -> Error

IntBinary(op, x, y) ==
  CASE op = "ADD"  -> Number(x + y)
    [] op = "SUB"  -> Number(x - y)
    [] op = "MULT" -> Number(x * y)
    [] op = "DIV"  -> IF y = 0 THEN Null ELSE Number(Quotient(x, y))
    [] op = "MOD"  -> IF y = 0 THEN Null ELSE Number(x - y * Quotient(x, y))
    [] op = "LT"   -> Truth(x < y)
    [] op = "LTE"  -> Truth(x <= y)
    [] op = "GT"   -> Truth(x > y)
    [] op = "GTE"  -> Truth(x >= y)
    [] op = "EQ"   -> Truth(x = y)
    [] op = "NEQ"  -> Truth(x # y)
    [] op = "AND"  -> Truth(x # 0 /\ y # 0)
    [] op = "OR"   -> Truth(x # 0 \/ y # 0)

\* ... on strings, ...
StrBinary(op, s, t) ==
  CASE op = "LT"  -> Truth(Before(s, t))
    [] op = "LTE" -> Truth(~Before(t, s))
    [] op = "GT"  -> Truth(Before(t, s))
    [] op = "GTE" -> Truth(~Before(s, t))
    [] op = "EQ"  -> Truth(s = t)
    [] op = "NEQ" -> Truth(s # t)
    [] OTHER      -> Error

\* ... and when an integer and a NULL meet in AND or OR.
WithNull(op, x) ==
  CASE op = "AND" /\ x = 0 -> Truth(FALSE)
    [] op = "OR" /\ x = 1  -> Truth(TRUE)
    [] OTHER               -> Null

\* An operator, a function or a parenthesis on values that are not NULL, strings
\* or integers.
OnStrings(n, v) ==
  CASE n.type = "FUNC"               -> Number(Len(v[1].val))
    [] n.type = "OP" /\ Len(v) = 2   -> StrBinary(n.val, v[1].val, v[2].val)
    [] OTHER                         -> Error

OnIntegers(n, v) ==
  CASE n.type # "OP"                 -> Error
    [] n.type = "OP" /\ Len(v) = 1   -> IntUnary(n.val, v[1].val)
    [] n.type = "OP" /\ Len(v) = 2   -> IntBinary(n.val, v[1].val, v[2].val)

Known(n, v) ==
  IF Promoted(v) = "STRING" THEN OnStrings(n, v) ELSE OnIntegers(n, v)

Apply_NullAbsorbs(n, v) ==                                    \* mutant
  IF \E i \in DOMAIN v : v[i].type = "NULL" THEN Null ELSE Known(n, v)
Apply(n, v) ==
  LET known == {i \in DOMAIN v : v[i].type # "NULL"}
      logic == n.type = "OP" /\ n.val \in {"AND", "OR"}
  IN IF known = DOMAIN v THEN Known(n, v)
     ELSE IF known = {} \/ ~logic THEN Null
     ELSE IF Promoted(v) = "STRING" THEN Error
     ELSE WithNull(n.val, v[CHOOSE i \in known : TRUE].val)

-----------------------------------------------------------------------------
EvalInit ==
  /\ row = <<>> /\ cursor = 1 /\ vals = <<>>
  /\ held = 0
  /\ kind = "NONE" /\ result = None

Init == ParseInit /\ EvalInit

\* Aggregates are taken out, placeholders filled in, and names looked up, before
\* evaluation.
Evaluable ==
  \A n \in DOMAIN code :
    /\ code[n].type \notin {"AGGRFUNC", "PLACEHOLDER"}
    /\ code[n].type = "ATTR" => Last(code[n].val) \in DOMAIN AttrType

FindType ==
  /\ pc = "parsed" /\ code # <<>> /\ Evaluable
  /\ kind = "NONE"
  /\ pc' = "eval"
  /\ row' = <<>>
  /\ cursor' = 1 /\ vals' = <<>>
  /\ UNCHANGED <<clauseVars, exprVars>>
  /\ UNCHANGED <<held, kind, result>>

Evaluate ==
  /\ pc = "parsed" /\ code # <<>> /\ Evaluable
  /\ result.type = "NONE"
  /\ pc' = "eval"
  /\ row' \in Rows
  /\ cursor' = 1 /\ vals' = <<>>
  /\ UNCHANGED <<clauseVars, exprVars>>
  /\ UNCHANGED <<held, kind, result>>

\* evaluate_eet returns v, and leaves n chunks behind on the back stack.
Return(v, n) ==
  /\ pc' = "parsed"
  /\ vals' = <<>>
  /\ held' = held + n
  /\ IF row = <<>> THEN kind' = v.type /\ UNCHANGED result
                   ELSE result' = v /\ UNCHANGED kind
  /\ UNCHANGED <<row, cursor>>

node == code[cursor]

\* What an attribute is worth: for its type, what its sample is.
AttrValue_OneSample(a) == IF row # <<>> THEN row[a] ELSE Number(1)  \* mutant
AttrValue(a) ==
  IF row # <<>> THEN row[a]
  ELSE IF AttrType[a] = "INT" THEN Number(1) ELSE Str(<<>>)

PushValue ==
  /\ node.type \in {"INT", "STRING", "STRAY", "ATTR"}
  /\ CASE node.type = "ATTR"  -> vals' = Append(vals, AttrValue(Last(node.val)))
       [] node.type = "STRAY" -> \E s \in Stray : vals' = Append(vals, Str(s))
       [] OTHER               -> vals' = Append(vals, node)
  /\ cursor' = cursor + 1
  /\ UNCHANGED <<pc, row, held, kind, result>>

\* An operator, or a parenthesis that was never closed.  When its values
\* cannot be promoted, neither their copy nor the stack below it goes.
ApplyNode ==
  /\ node.type \notin {"INT", "STRING", "STRAY", "ATTR"}
  /\ LET n    == Required(node)
         args == SubSeq(vals, Len(vals) - n + 1, Len(vals))
         val  == Apply(node, args)
     IN IF n > Len(vals) THEN Return(Error, 0)
        ELSE IF Clash(args) THEN Return(Error, 2)
        ELSE IF val.type = "ERROR" THEN Return(Error, 0)
        ELSE /\ vals' = Append(SubSeq(vals, 1, Len(vals) - n), val)
             /\ cursor' = cursor + 1
             /\ UNCHANGED <<pc, row, held, kind, result>>

Finish ==
  /\ pc = "eval" /\ cursor > Len(code)
  /\ Return(IF Len(vals) > 1 THEN Error ELSE vals[1], 0)
  /\ UNCHANGED <<clauseVars, exprVars>>

EvalNode ==
  /\ pc = "eval" /\ cursor <= Len(code)
  /\ PushValue \/ ApplyNode
  /\ UNCHANGED <<clauseVars, exprVars>>

Next ==
  \/ ParseNext /\ UNCHANGED evalVars
  \/ FindType \/ Evaluate \/ EvalNode \/ Finish

Spec == Init /\ [][Next]_vars

-----------------------------------------------------------------------------
\* No divisor is computed, or written as 0: the sample values divide by none
\* that is 0.
DivisorsGiven ==
  \A n \in DOMAIN code :
    code[n].type = "OP" /\ code[n].val \in {"DIV", "MOD"} =>
      /\ n > 1 /\ code[n - 1].type \in {"INT", "ATTR"}
      /\ code[n - 1].type = "INT" => code[n - 1].val # 0

\* When evaluate_eet says that an expression is an integer, or a string, then
\* that is what it returns for a tuple, or NULL: setup_header and cmp_tuple
\* make room for, and read, the result by that type.  (When a sample is divided
\* by 0, the NULL it gives hides what it is compared with.)
TypePredicts ==
  kind \in {"INT", "STRING"} /\ DivisorsGiven
    => result.type \in {kind, "NULL", "NONE"}
=============================================================================
