-------------------------- MODULE ParseSelect_proofs --------------------------
(***************************************************************************)
(* Whatever the text, and wherever parse gives up, the files left open are *)
(* those of the plan it returns.                                           *)
(***************************************************************************)
EXTENDS ParseSelect, TLAPS

IsSeq(s) == \E S : s \in Seq(S)
Node(n) == n = [clause |-> n.clause, start |-> n.start, end |-> n.end]

\* The nodes of FROM, and those of them that are still to be taken.
Froms(s) == {k \in DOMAIN s : s[k].clause = "FROM"}
Ahead == {k \in Froms(stack) :
            k > IF at \in {"lex", "sort", "clause"} THEN done ELSE done + 1}
InFrom == at \in {"from", "table", "on"}

Shape ==
  /\ IsSeq(stack) /\ \A k \in DOMAIN stack : Node(stack[k])
  /\ IsSeq(tables)
  /\ done \in Nat
  /\ sort \in [j : Nat \ {0}, i : Nat \ {0}]
  /\ root = [scans |-> root.scans, ops |-> root.ops]

Begun == at \in {"lex", "sort"} => done = 0 /\ root = NoRoot /\ open = {}

\* A node of FROM stands for a FROM that has been read.
Lexed ==
  at = "lex" =>
    /\ offset \in Nat
    /\ Froms(stack) # {} =>
         \E m \in DOMAIN text : text[m] = "FROM" /\ End(m) <= offset

\* With one FROM there is no plan before its node is taken; while it is
\* processed its scans are open, and at any other time those of the plan.
Tidy ==
  /\ \A k, m \in Froms(stack) : k = m
  /\ Ahead # {} => root = NoRoot
  /\ InFrom => done + 1 \in Froms(stack) /\ root = NoRoot /\ open = Scans
  /\ ~InFrom => open = Leaves

Busy == Shape /\ Begun /\ Lexed /\ (OneFrom => Tidy) /\ result = ""

IInv ==
  /\ text \in Seq(STRING)
  /\ NothingLeftOpen
  /\ at # "done" => Busy

-----------------------------------------------------------------------------
(* Sequences of anything.                                                  *)
LEMMA SeqFacts ==
  ASSUME NEW s, IsSeq(s)
  PROVE  Len(s) \in Nat /\ DOMAIN s = 1 .. Len(s)
  BY DEF IsSeq

LEMMA Nodes ==
  ASSUME Shape
  PROVE  /\ done \in Nat
         /\ Len(stack) \in Nat /\ DOMAIN stack = 1 .. Len(stack)
         /\ Froms(stack) \subseteq Nat
<1>1. IsSeq(stack) /\ done \in Nat
  BY DEF Shape
<1>2. Len(stack) \in Nat /\ DOMAIN stack = 1 .. Len(stack)
  BY <1>1, SeqFacts
<1>3. QED
  BY <1>1, <1>2 DEF Froms

LEMMA AppendSeq ==
  ASSUME NEW s, NEW e, IsSeq(s)
  PROVE  /\ IsSeq(Append(s, e))
         /\ DOMAIN Append(s, e) = 1 .. Len(s) + 1
         /\ \A k \in 1 .. Len(s) : Append(s, e)[k] = s[k]
         /\ Append(s, e)[Len(s) + 1] = e
<1>1. PICK S : s \in Seq(S)
  BY DEF IsSeq
<1>2. s \in Seq(S \cup {e}) /\ e \in S \cup {e}
  BY <1>1
<1>3. Append(s, e) \in Seq(S \cup {e})
  BY <1>2
<1>4. QED
  BY <1>2, <1>3 DEF IsSeq

LEMMA PushSeq ==
  ASSUME NEW s, NEW e, IsSeq(s)
  PROVE  /\ IsSeq(<<e>> \o s)
         /\ DOMAIN (<<e>> \o s) = 1 .. Len(s) + 1
         /\ (<<e>> \o s)[1] = e
         /\ \A k \in 1 .. Len(s) : (<<e>> \o s)[k + 1] = s[k]
<1>1. PICK S : s \in Seq(S)
  BY DEF IsSeq
<1>2. s \in Seq(S \cup {e}) /\ <<e>> \in Seq(S \cup {e})
  BY <1>1
<1>3. <<e>> \o s \in Seq(S \cup {e})
  BY <1>2
<1>4. QED
  BY <1>2, <1>3 DEF IsSeq

\* Neither the pass over the tokens nor the sort makes a node of FROM.
LEMMA SwapSeq ==
  ASSUME NEW s, NEW i \in Nat \ {0}, IsSeq(s), i + 1 \in DOMAIN s,
         \A k \in DOMAIN s : Node(s[k])
  PROVE  /\ IsSeq(Swap(s, i))
         /\ \A k \in DOMAIN Swap(s, i) : Node(Swap(s, i)[k])
         /\ (\A k, m \in Froms(s) : k = m)
              => \A k, m \in Froms(Swap(s, i)) : k = m
<1>1. PICK S : s \in Seq(S)
  BY DEF IsSeq
<1>2. 1 \in DOMAIN s /\ Swap(s, i) \in Seq(S)
  BY <1>1 DEF Swap
<1>3. /\ DOMAIN Swap(s, i) = DOMAIN s
      /\ \A k \in DOMAIN s : Swap(s, i)[k] =
           IF k = i + 1 THEN s[1] ELSE IF k = 1 THEN s[i + 1] ELSE s[k]
  BY <1>1, <1>2 DEF Swap
<1>4. QED
  BY <1>2, <1>3 DEF IsSeq, Froms

-----------------------------------------------------------------------------
LEMMA InitInv == Init => IInv
<1> SUFFICES ASSUME Init PROVE IInv
  OBVIOUS
<1>1. text \in Seq(STRING)
  BY TextsAssumption DEF Init
<1>2. IsSeq(stack) /\ IsSeq(tables) /\ Len(stack) = 0 /\ Len(tables) = 0
  <2>1. <<>> \in Seq(STRING) /\ Len(<<>>) = 0
    OBVIOUS
  <2>2. QED
    BY <2>1 DEF Init, IsSeq
<1>3. DOMAIN stack = {} /\ DOMAIN tables = {}
  BY <1>2, SeqFacts
<1>4. Shape /\ Begun /\ result = ""
  <2>1. sort = [j |-> 1, i |-> 1] /\ done = 0
    BY DEF Init
  <2>2. root = [scans |-> root.scans, ops |-> root.ops]
    BY Zenon DEF Init, NoRoot
  <2>3. Shape
    BY <1>2, <1>3, <2>1, <2>2, 1 \in Nat \ {0}, 0 \in Nat DEF Shape
  <2>4. QED
    BY <2>3 DEF Init, Begun
<1>5. Froms(stack) = {} /\ Scans = {} /\ Leaves = {}
  BY <1>3 DEF Init, Froms, Scans, Leaves, NoRoot
<1>6. Lexed /\ Tidy
  BY <1>5 DEF Init, Lexed, Tidy, Ahead, InFrom
<1>7. NothingLeftOpen
  BY DEF Init, NothingLeftOpen
<1>8. QED
  BY <1>1, <1>4, <1>6, <1>7 DEF IInv, Busy

-----------------------------------------------------------------------------
(* What the steps have in common.                                          *)
Afterwards == {"after", "item", "project", "name"}

\* A step within a phase that leaves the nodes, the scans and the plan alone.
LEMMA Steady ==
  ASSUME IInv, UNCHANGED <<text, stack, sort, done, tables, open, root, result>>,
         \/ at \in {"clause"} \cup Afterwards /\ at' \in Afterwards
         \/ at \in {"from", "table", "on"} /\ at' \in {"from", "table", "on"}
  PROVE  IInv'
<1>1. Busy /\ at \notin {"lex", "sort", "done"} /\ at' \notin {"lex", "sort", "done"}
  BY DEF IInv, Afterwards
<1>2. Shape' /\ Begun' /\ Lexed'
  BY <1>1 DEF Busy, Shape, Begun, Lexed, Node, IsSeq
<1>3. ASSUME OneFrom, Tidy PROVE Tidy'
  <2>1. Froms(stack)' = Froms(stack) /\ Scans' = Scans /\ Leaves' = Leaves
    BY DEF Froms, Scans, Leaves
  <2>2. Ahead' \subseteq Ahead
    <3>1. done \in Nat /\ done' = done /\ Froms(stack) \subseteq Nat
      BY <1>1, Nodes DEF Busy
    <3>2. \A k \in Froms(stack) : k > done + 1 => k > done
      BY <3>1
    <3>3. \A k \in Ahead' : k \in Froms(stack) /\ k > done + 1
      BY <1>1, <2>1, <3>1 DEF Ahead, Afterwards
    <3>4. QED
      BY <3>2, <3>3 DEF Ahead
  <2>3. InFrom' = InFrom
    BY DEF InFrom, Afterwards
  <2>4. QED
    BY <1>3, <2>1, <2>2, <2>3 DEF Tidy
<1>4. OneFrom' = OneFrom
  BY DEF OneFrom
<1>5. QED
  BY <1>1, <1>2, <1>3, <1>4 DEF IInv, Busy, NothingLeftOpen

\* Giving up outside FROM.
LEMMA GivenUp ==
  ASSUME IInv, at \notin {"done", "from", "table", "on"}, ReturnNull
  PROVE  IInv'
<1>1. OneFrom => open = Leaves
  BY DEF IInv, Busy, Tidy, InFrom
<1>2. at' = "done" /\ result' = "null" /\ text' = text
  BY DEF ReturnNull, Answer
<1>3. OneFrom' = OneFrom /\ (OneFrom => open' = {})
  BY <1>1, <1>2 DEF ReturnNull, OneFrom
<1>4. QED
  BY <1>2, <1>3 DEF IInv, NothingLeftOpen

LEMMA NoWayOut ==
  ASSUME IInv, Undefined
  PROVE  IInv'
  BY DEF IInv, Undefined, Answer, NothingLeftOpen

\* Giving up inside FROM.
LEMMA FromGivenUp ==
  ASSUME IInv, InFrom, NEW f, FromFails(f)
  PROVE  IInv'
<1>1. OneFrom => open = Scans
  BY DEF IInv, Busy, Tidy, InFrom
<1>2. at' = "done" /\ result' = "null" /\ text' = text
  BY DEF FromFails, Answer
<1>3. OneFrom' = OneFrom /\ (OneFrom => open' = {})
  BY <1>1, <1>2 DEF FromFails, OneFrom
<1>4. QED
  BY <1>2, <1>3 DEF IInv, NothingLeftOpen

LEMMA NextTable ==
  ASSUME IInv, FromStep, NEW i, NEW j, ToTable(i, j)
  PROVE  IInv'
  BY Steady DEF FromStep, ToTable

-----------------------------------------------------------------------------
(* The pass over the tokens, and the sort.                                 *)
LEMMA Early ==
  ASSUME IInv, at \in {"lex", "sort"}, at' \in {"lex", "sort", "clause"},
         UNCHANGED <<text, done, tables, open, root, result>>,
         IsSeq(stack'), \A k \in DOMAIN stack' : Node(stack'[k]),
         sort' \in [j : Nat \ {0}, i : Nat \ {0}], Lexed',
         OneFrom => \A k, m \in Froms(stack') : k = m
  PROVE  IInv'
<1>1. Busy /\ done = 0 /\ root = NoRoot /\ open = {}
  BY DEF IInv, Busy, Begun
<1>2. Shape' /\ Begun'
  BY <1>1 DEF Busy, Shape, Begun, Node, IsSeq, Froms
<1>3. Leaves' = {}
  <2>1. DOMAIN <<>> = {}
    OBVIOUS
  <2>2. QED
    BY <1>1, <2>1 DEF Leaves, NoRoot
<1>4. OneFrom => Tidy'
  BY <1>1, <1>3 DEF Tidy, InFrom, Froms
<1>5. OneFrom' = OneFrom
  BY DEF OneFrom
<1>6. QED
  BY <1>1, <1>2, <1>4, <1>5 DEF IInv, Busy, NothingLeftOpen

LEMMA CollectInv ==
  ASSUME IInv, Collect
  PROVE  IInv'
<1> DEFINE i == TokenAt(offset)
           node == [clause |-> text[i], start |-> End(i), end |-> End(i)]
<1>1. at = "lex" /\ Busy /\ offset \in Nat /\ Len(text) \in Nat
  <2>1. at = "lex"
    BY DEF Collect
  <2>2. Busy /\ text \in Seq(STRING)
    BY <2>1 DEF IInv
  <2>3. Lexed
    BY <2>2 DEF Busy
  <2>4. offset \in Nat
    BY <2>1, <2>3 DEF Lexed
  <2>5. QED
    BY <2>1, <2>2, <2>4
<1>2. /\ i \in Nat \ {0} /\ offset <= 2 * i
      /\ \A m \in Nat : 2 * m <= offset => m < i
  BY <1>1 DEF TokenAt
<1>3. /\ IsSeq(stack) /\ (\A k \in DOMAIN stack : Node(stack[k]))
      /\ sort' = sort /\ sort \in [j : Nat \ {0}, i : Nat \ {0}]
  BY <1>1 DEF Busy, Shape, Collect
<1>4. UNCHANGED <<text, done, tables, open, root, result>>
  BY DEF Collect
<1>5. Len(stack) \in Nat /\ DOMAIN stack = 1 .. Len(stack)
  BY <1>3, SeqFacts
<1>6. OneFrom => \A k, m \in Froms(stack) : k = m
  BY <1>1 DEF Busy, Tidy
<1>7. Froms(stack) # {} =>
        \E m \in DOMAIN text : text[m] = "FROM" /\ End(m) <= offset
  BY <1>1 DEF Busy, Lexed
<1>8. CASE i > Len(text)
  <2>1. at' = "sort" /\ stack' = stack
    BY <1>1, <1>8 DEF Collect
  <2>2. QED
    BY <1>1, <1>3, <1>4, <1>6, <2>1, Early DEF Lexed
<1>9. CASE i <= Len(text) /\ text[i] \in Clauses
  <2>1. at' = "lex" /\ offset' = 2 * i /\ stack' = <<node>> \o stack
    BY <1>1, <1>2, <1>9 DEF Collect, End
  <2>2. /\ IsSeq(stack') /\ DOMAIN stack' = 1 .. Len(stack) + 1
        /\ stack'[1] = node /\ \A k \in 1 .. Len(stack) : stack'[k + 1] = stack[k]
    <3> HIDE DEF node
    <3>1. QED
      BY <1>3, <2>1, PushSeq
  <2>3. Node(node) /\ node.clause = text[i]
    BY DEF Node
  <2>4. \A k \in DOMAIN stack' : k = 1 \/ (k - 1 \in DOMAIN stack
                                            /\ stack'[k] = stack[k - 1])
    BY <1>5, <2>2
  <2>5. \A k \in DOMAIN stack' : Node(stack'[k])
    BY <1>3, <2>2, <2>3, <2>4
  <2>6. \A k \in Froms(stack') :
          (k = 1 /\ text[i] = "FROM") \/ k - 1 \in Froms(stack)
    BY <2>2, <2>3, <2>4 DEF Froms
  <2>7. i \in DOMAIN text
    BY <1>1, <1>2, <1>9 DEF IInv
  <2>8. Lexed'
    <3>1. ASSUME Froms(stack') # {}
          PROVE  \E m \in DOMAIN text : text[m] = "FROM" /\ End(m) <= 2 * i
      <4>1. CASE text[i] = "FROM"
        BY <1>2, <2>7, <4>1 DEF End
      <4>2. CASE text[i] # "FROM"
        <5>1. PICK m \in DOMAIN text : text[m] = "FROM" /\ End(m) <= offset
          BY <1>7, <2>6, <3>1, <4>2
        <5>2. End(m) \in Nat
          BY <1>1, <5>1 DEF IInv, End
        <5>3. QED
          BY <1>1, <1>2, <5>1, <5>2
      <4>3. QED
        BY <4>1, <4>2
    <3>2. QED
      BY <1>2, <1>4, <2>1, <3>1 DEF Lexed, Froms, End
  <2>9. ASSUME OneFrom PROVE \A k, m \in Froms(stack') : k = m
    <3>1. CASE text[i] = "FROM"
      <4>1. Froms(stack) = {}
        <5>1. SUFFICES ASSUME Froms(stack) # {} PROVE FALSE
          OBVIOUS
        <5>2. PICK m \in DOMAIN text : text[m] = "FROM" /\ End(m) <= offset
          BY <1>7, <5>1
        <5>3. m \in Nat /\ m = i
          BY <1>1, <2>7, <2>9, <3>1, <5>2 DEF OneFrom, IInv
        <5>4. QED
          BY <1>2, <5>2, <5>3 DEF End
      <4>2. QED
        BY <2>6, <4>1
    <3>2. CASE text[i] # "FROM"
      <4>1. \A k \in Froms(stack') : k \in Int /\ k - 1 \in Froms(stack)
        BY <1>5, <2>2, <2>6, <3>2 DEF Froms
      <4>2. \A k, m \in Froms(stack') : k - 1 = m - 1
        BY <1>6, <2>9, <4>1
      <4>3. QED
        BY <4>1, <4>2
    <3>3. QED
      BY <3>1, <3>2
  <2>10. QED
    BY <1>1, <1>3, <1>4, <2>1, <2>2, <2>5, <2>8, <2>9, Early
<1>10. CASE i <= Len(text) /\ text[i] \notin Clauses
  <2>1. at' = "lex" /\ offset' = 2 * i
    BY <1>1, <1>2, <1>10 DEF Collect, End
  <2>2. /\ IsSeq(stack') /\ DOMAIN stack' = DOMAIN stack
        /\ \A k \in DOMAIN stack : Node(stack'[k])
                                   /\ stack'[k].clause = stack[k].clause
    <3>1. CASE stack' = stack
      BY <1>3, <3>1
    <3>2. CASE stack # <<>> /\ \E e : stack' = [stack EXCEPT ![1].end = e]
      <4>1. PICK e : stack' = [stack EXCEPT ![1].end = e]
        BY <3>2
      <4>2. PICK S : stack \in Seq(S)
        BY <1>3 DEF IsSeq
      <4>3. 1 \in DOMAIN stack
        BY <3>2, <4>2
      <4>4. Node([stack[1] EXCEPT !.end = e])
            /\ [stack[1] EXCEPT !.end = e].clause = stack[1].clause
        BY <1>3, <4>3 DEF Node
      <4>5. /\ DOMAIN stack' = DOMAIN stack
            /\ stack'[1] = [stack[1] EXCEPT !.end = e]
            /\ \A k \in DOMAIN stack \ {1} : stack'[k] = stack[k]
        BY <4>1, <4>2, <4>3
      <4>6. stack' \in Seq(S \cup {[stack[1] EXCEPT !.end = e]})
        BY <4>1, <4>2, <4>3
      <4>7. QED
        BY <1>3, <4>4, <4>5, <4>6 DEF IsSeq
    <3>3. QED
      BY <1>1, <1>10, <3>1, <3>2 DEF Collect
  <2>3. Froms(stack') = Froms(stack)
    BY <2>2 DEF Froms
  <2>4. Lexed'
    <3>1. ASSUME Froms(stack) # {}
          PROVE  \E m \in DOMAIN text : text[m] = "FROM" /\ End(m) <= 2 * i
      <4>1. PICK m \in DOMAIN text : text[m] = "FROM" /\ End(m) <= offset
        BY <1>7, <3>1
      <4>2. End(m) \in Nat
        BY <1>1, <4>1 DEF IInv, End
      <4>3. QED
        BY <1>1, <1>2, <4>1, <4>2
    <3>2. QED
      BY <1>2, <1>4, <2>1, <2>3, <3>1 DEF Lexed, Froms, End
  <2>5. QED
    BY <1>1, <1>3, <1>4, <1>6, <2>1, <2>2, <2>3, <2>4, Early
<1>11. QED
  BY <1>1, <1>2, <1>8, <1>9, <1>10

LEMMA SortInv ==
  ASSUME IInv, SortStep
  PROVE  IInv'
<1>1. at = "sort" /\ Busy
  BY DEF SortStep, IInv
<1>2. /\ IsSeq(stack) /\ (\A k \in DOMAIN stack : Node(stack[k]))
      /\ sort \in [j : Nat \ {0}, i : Nat \ {0}] /\ Len(stack) \in Nat
  BY <1>1, SeqFacts DEF Busy, Shape
<1>3. UNCHANGED <<text, done, tables, open, root, result>>
      /\ at' \in {"sort", "clause"}
  BY <1>1 DEF SortStep
<1>4. OneFrom => \A k, m \in Froms(stack) : k = m
  BY <1>1 DEF Busy, Tidy
<1>5. sort' \in [j : Nat \ {0}, i : Nat \ {0}]
  BY <1>2 DEF SortStep
<1>6. stack' = stack \/ (sort.i < Len(stack) /\ stack' = Swap(stack, sort.i))
  BY <1>2 DEF SortStep
<1>7. /\ IsSeq(stack') /\ (\A k \in DOMAIN stack' : Node(stack'[k]))
      /\ OneFrom => \A k, m \in Froms(stack') : k = m
  <2>1. CASE stack' = stack
    BY <1>2, <1>4, <2>1
  <2>2. CASE sort.i < Len(stack) /\ stack' = Swap(stack, sort.i)
    <3>1. sort.i + 1 \in DOMAIN stack
      BY <1>2, <2>2, SeqFacts
    <3>2. QED
      BY <1>2, <1>4, <2>2, <3>1, SwapSeq
  <2>3. QED
    BY <1>6, <2>1, <2>2
<1>8. Lexed'
  BY <1>3 DEF Lexed
<1>9. QED
  BY <1>1, <1>3, <1>5, <1>7, <1>8, Early

-----------------------------------------------------------------------------
(* The clauses other than FROM.                                            *)

\* A step after a clause, or on to the next; the plan may get an operator.
LEMMA Onward ==
  ASSUME IInv, UNCHANGED <<text, stack, sort, tables, open, result>>,
         \/ at \in Afterwards /\ at' \in Afterwards /\ done' = done
         \/ at = "after" /\ at' = "clause" /\ done' = done + 1,
         root' = [scans |-> root.scans, ops |-> root'.ops],
         root' = root \/ root # NoRoot
  PROVE  IInv'
<1>1. Busy /\ at \in Afterwards /\ done \in Nat
  BY DEF IInv, Busy, Shape, Afterwards
<1>2. at' \notin {"lex", "sort", "done", "from", "table", "on"}
  BY DEF Afterwards
<1>3. root'.scans = root.scans
  <2> DEFINE ops == root'.ops
  <2> HIDE DEF ops
  <2>1. root' = [scans |-> root.scans, ops |-> ops]
    BY DEF ops
  <2>2. QED
    BY <2>1
<1>4. Shape' /\ Begun' /\ Lexed'
  <2>1. Shape
    BY <1>1 DEF Busy
  <2>2. done' \in Nat
    BY <1>1
  <2>3. root' = [scans |-> root'.scans, ops |-> root'.ops]
    BY <1>3, Zenon
  <2>4. Shape'
    BY <2>1, <2>2, <2>3, Zenon DEF Shape, Node, IsSeq
  <2>5. QED
    BY <1>2, <2>4 DEF Begun, Lexed
<1>5. Froms(stack)' = Froms(stack) /\ Leaves' = Leaves /\ Ahead' = Ahead
  <2>1. Froms(stack)' = Froms(stack)
    BY DEF Froms
  <2>2. Leaves' = Leaves
    BY <1>3 DEF Leaves
  <2>3. Ahead = {k \in Froms(stack) : k > done + 1}
    BY <1>1 DEF Ahead, Afterwards
  <2>4. Ahead' = {k \in Froms(stack) : k > done + 1}
    BY <1>2, <2>1 DEF Ahead, Afterwards
  <2>5. QED
    BY <2>1, <2>2, <2>3, <2>4
<1>6. ASSUME OneFrom, Tidy PROVE Tidy'
  <2>1. ~InFrom /\ ~InFrom'
    BY <1>1, <1>2 DEF InFrom, Afterwards
  <2>2. QED
    BY <1>5, <1>6, <2>1 DEF Tidy
<1>7. OneFrom' = OneFrom
  BY DEF OneFrom
<1>8. QED
  BY <1>1, <1>2, <1>4, <1>6, <1>7 DEF IInv, Busy, NothingLeftOpen

LEMMA ReturnedInv ==
  ASSUME IInv, Returned
  PROVE  IInv'
<1>1. at' = "done" /\ UNCHANGED <<text, root, open>>
      /\ result' = IF root = NoRoot THEN "null" ELSE "plan"
  BY DEF Returned, Answer
<1>2. OneFrom => open = Leaves
  BY DEF Returned, IInv, Busy, Tidy, InFrom
<1>3. Leaves' = Leaves /\ (root = NoRoot => Leaves = {}) /\ OneFrom' = OneFrom
  <2>1. DOMAIN <<>> = {}
    OBVIOUS
  <2>2. QED
    BY <1>1, <2>1 DEF Leaves, NoRoot, OneFrom
<1>4. QED
  BY <1>1, <1>2, <1>3 DEF IInv, NothingLeftOpen

LEMMA ClauseInv ==
  ASSUME IInv, EmptyClause \/ OtherClause \/ Where
  PROVE  IInv'
<1>1. at = "clause"
  BY DEF EmptyClause, OtherClause, Where, Taken
<1>2. CASE ReturnNull
  BY <1>1, <1>2, GivenUp
<1>3. CASE at' = "after" /\ UNCHANGED <<text, stack, sort, done, tables, open,
                                        root, result>>
  BY <1>1, <1>3, Steady DEF Afterwards
<1>4. QED
  BY <1>2, <1>3 DEF EmptyClause, OtherClause, Where

LEMMA SelectionInv ==
  ASSUME IInv, NoSelection \/ SelectionFails \/ BuildSelection
  PROVE  IInv'
<1>1. at = "after"
  BY DEF NoSelection, SelectionFails, BuildSelection
<1>2. Shape
  BY <1>1 DEF IInv, Busy
<1>3. root = [scans |-> root.scans, ops |-> root.ops]
  BY <1>2 DEF Shape
<1>4. CASE NoSelection
  <2>1. root' = [scans |-> root.scans, ops |-> root'.ops]
    BY <1>3, <1>4, Zenon DEF NoSelection
  <2>2. QED
    BY <1>1, <1>4, <2>1, Onward DEF NoSelection
<1>5. CASE SelectionFails
  BY <1>1, <1>5, GivenUp DEF SelectionFails
<1>6. CASE BuildSelection /\ root # NoRoot
  <2>1. root' \in WithCondition
    BY <1>6 DEF BuildSelection
  <2>2. PICK ops : root' = [root EXCEPT !.ops = ops]
    BY <2>1 DEF WithCondition
  <2>3. root' = [scans |-> root.scans, ops |-> ops]
    BY <1>3, <2>2
  <2>4. root' = [scans |-> root.scans, ops |-> root'.ops]
    BY <2>3
  <2>5. QED
    BY <1>1, <1>6, <2>4, Onward DEF BuildSelection
<1>7. CASE BuildSelection /\ root = NoRoot
  BY <1>7, NoWayOut DEF BuildSelection
<1>8. QED
  BY <1>4, <1>5, <1>6, <1>7

-----------------------------------------------------------------------------
(* FROM.                                                                   *)
LEMMA FromInv ==
  ASSUME IInv, From
  PROVE  IInv'
<1>1. /\ at = "clause" /\ at' = "from" /\ done < Len(stack)
      /\ Clause.clause = "FROM" /\ tables' = <<>>
      /\ UNCHANGED <<text, stack, sort, done, open, root, result>>
  BY DEF From, Taken
<1>2. Busy /\ Shape /\ done \in Nat /\ Len(stack) \in Nat
      /\ DOMAIN stack = 1 .. Len(stack)
  BY <1>1, Nodes DEF IInv, Busy
<1>3. DOMAIN tables' = {} /\ IsSeq(tables')
  <2>1. <<>> \in Seq(STRING) /\ DOMAIN <<>> = {}
    OBVIOUS
  <2>2. QED
    BY <1>1, <2>1 DEF IsSeq
<1>4. Shape' /\ Begun' /\ Lexed'
  <2>1. Shape'
    BY <1>1, <1>2, <1>3, Zenon DEF Shape, Node, IsSeq
  <2>2. QED
    BY <1>1, <2>1 DEF Begun, Lexed
<1>5. ASSUME OneFrom, Tidy PROVE Tidy'
  <2>1. done + 1 \in Froms(stack)
    BY <1>1, <1>2 DEF Froms, Clause
  <2>2. done + 1 \in Ahead
    BY <1>1, <1>2, <2>1 DEF Ahead
  <2>3. root = NoRoot /\ open = Leaves
    BY <1>1, <1>5, <2>2 DEF Tidy, InFrom
  <2>4. Leaves = {} /\ Scans' = {}
    <3>1. DOMAIN <<>> = {}
      OBVIOUS
    <3>2. QED
      BY <1>3, <2>3, <3>1 DEF Leaves, NoRoot, Scans
  <2>5. Froms(stack)' = Froms(stack)
    BY <1>1 DEF Froms
  <2>6. InFrom'
    BY <1>1 DEF InFrom
  <2>7. QED
    BY <1>1, <1>5, <2>1, <2>3, <2>4, <2>5, <2>6 DEF Tidy
<1>6. OneFrom' = OneFrom
  BY <1>1 DEF OneFrom
<1>7. QED
  BY <1>1, <1>2, <1>4, <1>5, <1>6 DEF IInv, Busy, NothingLeftOpen

LEMMA FromStepInv ==
  ASSUME IInv, FromComma \/ FromJoin \/ FromSpecial \/ FromTable
  PROVE  IInv'
<1>1. FromStep /\ InFrom
  BY DEF FromComma, FromJoin, FromSpecial, FromTable, FromStep, InFrom
<1>2. CASE FromFails(refused)
  BY <1>1, <1>2, FromGivenUp
<1>3. CASE \E i, j : ToTable(i, j)
  BY <1>1, <1>3, NextTable
<1>4. QED
  BY <1>2, <1>3 DEF FromComma, FromJoin, FromSpecial, FromTable

LEMMA AliasMissingInv ==
  ASSUME IInv, AliasMissing
  PROVE  IInv'
<1>1. /\ at = "table" /\ Aliased(token) = 0 /\ at' = "done" /\ result' = "null"
      /\ UNCHANGED <<text, token, stack, done>>
  BY DEF AliasMissing, ReturnNull, Answer
<1>2. OneFrom => Clause.clause = "FROM"
  BY <1>1 DEF IInv, Busy, Tidy, InFrom, Froms, Clause
<1>3. Clause' = Clause /\ Aliased(token)' = Aliased(token)
  BY <1>1 DEF Clause, ClauseEnd, Aliased, CanRead, Ident, IdentAfter, End,
              TokenAt
<1>4. OneFrom' = OneFrom
  BY <1>1 DEF OneFrom
<1>5. QED
  BY <1>1, <1>2, <1>3, <1>4 DEF IInv, NothingLeftOpen

\* A scan that is opened is entered into the array at once.
LEMMA TableInv ==
  ASSUME IInv, Table
  PROVE  IInv'
<1> DEFINE t == [name |-> token, alias |-> Aliased(token)]
<1>1. at = "table" /\ InFrom /\ Busy
  BY DEF Table, InFrom, IInv
<1>2. CASE FromFails(refused)
  BY <1>1, <1>2, FromGivenUp
<1>3. CASE Undefined
  BY <1>3, NoWayOut
<1>4. CASE /\ tables' = Append(tables, t) /\ open' = open \cup {token}
           /\ at' = "on"
           /\ UNCHANGED <<text, stack, sort, done, root, result>>
  <2>1. IsSeq(tables) /\ Len(tables) \in Nat /\ DOMAIN tables = 1 .. Len(tables)
    BY <1>1, SeqFacts DEF Busy, Shape
  <2>2. /\ IsSeq(tables') /\ DOMAIN tables' = 1 .. Len(tables) + 1
        /\ \A k \in 1 .. Len(tables) : tables'[k] = tables[k]
        /\ tables'[Len(tables) + 1] = t
    <3> HIDE DEF t
    <3>1. QED
      BY <1>4, <2>1, AppendSeq
  <2>3. t.name = token
    OBVIOUS
  <2>4. Scans' = Scans \cup {token}
    <3>1. DOMAIN tables' = DOMAIN tables \cup {Len(tables) + 1}
      BY <2>1, <2>2
    <3>2. Scans' = {tables'[k].name : k \in DOMAIN tables'}
      BY DEF Scans
    <3>3. \A k \in DOMAIN tables : tables'[k].name = tables[k].name
      BY <2>1, <2>2
    <3>4. tables'[Len(tables) + 1].name = token
      BY <2>2, <2>3
    <3> HIDE DEF t
    <3>5. QED
      BY <3>1, <3>2, <3>3, <3>4 DEF Scans
  <2>5. Shape' /\ Begun' /\ Lexed'
    <3>1. Shape
      BY <1>1 DEF Busy
    <3>2. Shape'
      BY <1>4, <2>2, <3>1, Zenon DEF Shape, Node, IsSeq
    <3>3. QED
      BY <1>4, <3>2 DEF Begun, Lexed
  <2>6. ASSUME OneFrom, Tidy PROVE Tidy'
    <3>1. /\ Froms(stack)' = Froms(stack) /\ InFrom' /\ Ahead' = Ahead
          /\ done' = done /\ root' = root
      BY <1>1, <1>4 DEF Froms, InFrom, Ahead
    <3>2. open' = Scans'
      BY <1>1, <1>4, <2>4, <2>6 DEF Tidy
    <3>3. QED
      BY <1>1, <2>6, <3>1, <3>2 DEF Tidy
  <2>7. OneFrom' = OneFrom
    BY <1>4 DEF OneFrom
  <2>8. QED
    BY <1>1, <1>4, <2>5, <2>6, <2>7 DEF IInv, Busy, NothingLeftOpen
<1>5. QED
  BY <1>2, <1>3, <1>4 DEF Table

LEMMA OnInv ==
  ASSUME IInv, On \/ NoOn
  PROVE  IInv'
<1>1. at = "on" /\ InFrom
  BY DEF On, NoOn, InFrom
<1>2. CASE FromFails(refused)
  BY <1>1, <1>2, FromGivenUp
<1>3. CASE at' = "from" /\ UNCHANGED <<text, stack, sort, done, tables, open,
                                       root, result>>
  BY <1>1, <1>3, Steady
<1>4. QED
  BY <1>2, <1>3 DEF On, NoOn

\* The array becomes the plan.
LEMMA JoinsInv ==
  ASSUME IInv, Joins
  PROVE  IInv'
<1> DEFINE ids == [k \in DOMAIN tables |-> tables[k].name]
<1>1. at = "from" /\ InFrom /\ Busy /\ Shape
  BY DEF Joins, InFrom, IInv, Busy
<1>2. CASE \E f : FromFails(f)
  BY <1>1, <1>2, FromGivenUp
<1>3. CASE /\ \E ops : root' = [scans |-> ids, ops |-> ops]
           /\ at' = "after"
           /\ UNCHANGED <<text, stack, sort, done, tables, open, result>>
  <2>1. root'.scans = ids /\ root' = [scans |-> root'.scans, ops |-> root'.ops]
    BY <1>3
  <2>2. Shape' /\ Begun' /\ Lexed'
    <3>1. Shape'
      BY <1>1, <1>3, <2>1, Zenon DEF Shape, Node, IsSeq
    <3>2. QED
      BY <1>3, <3>1 DEF Begun, Lexed
  <2>3. ASSUME OneFrom, Tidy PROVE Tidy'
    <3>1. Leaves' = Scans
      BY <2>1 DEF Leaves, Scans
    <3>2. open = Scans /\ done + 1 \in Froms(stack)
      BY <1>1, <2>3 DEF Tidy
    <3>3. Froms(stack)' = Froms(stack) /\ ~InFrom'
      BY <1>3 DEF Froms, InFrom
    <3>4. Ahead' = {}
      <4>1. done \in Nat
        BY <1>1 DEF Shape
      <4>2. \A k \in Froms(stack) : ~(k > done + 1)
        BY <2>3, <3>2, <4>1 DEF Tidy
      <4>3. QED
        BY <1>3, <3>3, <4>2 DEF Ahead
    <3>5. QED
      BY <1>3, <2>3, <3>1, <3>2, <3>3, <3>4 DEF Tidy
  <2>4. OneFrom' = OneFrom
    BY <1>3 DEF OneFrom
  <2>5. QED
    BY <1>1, <1>3, <2>2, <2>3, <2>4 DEF IInv, Busy, NothingLeftOpen
<1>4. QED
  BY <1>2, <1>3 DEF Joins

-----------------------------------------------------------------------------
(* SELECT.                                                                 *)
LEMMA SelectInv ==
  ASSUME IInv, Select
  PROVE  IInv'
<1>1. at = "clause"
  BY DEF Select, Taken
<1>2. CASE ReturnNull
  BY <1>1, <1>2, GivenUp
<1>3. CASE at' = "item" /\ UNCHANGED <<text, stack, sort, done, tables, open,
                                       root, result>>
  BY <1>1, <1>3, Steady DEF Afterwards
<1>4. QED
  BY <1>2, <1>3 DEF Select

LEMMA ItemInv ==
  ASSUME IInv, ItemRefused \/ Star \/ TableStar \/ Expression \/ NameUnknown
  PROVE  IInv'
<1>1. at = "item"
  BY DEF ItemRefused, Star, TableStar, Expression, NameUnknown
<1>2. CASE ReturnNull
  BY <1>1, <1>2, GivenUp
<1>3. CASE Undefined
  BY <1>3, NoWayOut
<1>4. CASE GoOn
  BY <1>1, <1>4, Steady DEF GoOn, Afterwards
<1>5. QED
  BY <1>2, <1>3, <1>4
     DEF ItemRefused, Star, TableStar, Expression, NameUnknown, SelectFails

LEMMA ProjectInv ==
  ASSUME IInv, Project
  PROVE  IInv'
<1>1. at = "project"
  BY DEF Project
<1>2. CASE ReturnNull
  BY <1>1, <1>2, GivenUp
<1>3. CASE Undefined
  BY <1>3, NoWayOut
<1>4. CASE /\ root # NoRoot /\ at' = "name"
           /\ root' = [root EXCEPT !.ops = Append(@, [op |-> "PROJECT",
                                                      tokens |-> {}])]
           /\ UNCHANGED <<text, stack, sort, done, tables, open, result>>
  <2>1. root = [scans |-> root.scans, ops |-> root.ops]
    BY <1>1 DEF IInv, Busy, Shape
  <2>2. PICK ops : root' = [root EXCEPT !.ops = ops]
    BY <1>4
  <2>3. root' = [scans |-> root.scans, ops |-> ops]
    BY <2>1, <2>2
  <2>4. root' = [scans |-> root.scans, ops |-> root'.ops]
    BY <2>3
  <2>5. QED
    BY <1>1, <1>4, <2>4, Onward DEF Afterwards
<1>5. QED
  BY <1>2, <1>3, <1>4 DEF Project, SelectFails

LEMMA NamesInv ==
  ASSUME IInv, NoProject \/ DuplicateAlias \/ Alias
  PROVE  IInv'
<1>1. at \in {"project", "name"}
  BY DEF NoProject, DuplicateAlias, Alias
<1>2. CASE ReturnNull
  BY <1>1, <1>2, GivenUp
<1>3. CASE /\ at' \in {"after", "name"}
           /\ UNCHANGED <<text, stack, sort, done, tables, open, root, result>>
  BY <1>1, <1>3, Steady DEF Afterwards
<1>4. QED
  BY <1>2, <1>3 DEF NoProject, DuplicateAlias, Alias, SelectFails

-----------------------------------------------------------------------------
LEMMA Inductive == IInv /\ [Next]_vars => IInv'
<1> SUFFICES ASSUME IInv, [Next]_vars PROVE IInv'
  OBVIOUS
<1>1. CASE UNCHANGED vars
  <2>1. Froms(stack)' = Froms(stack) /\ Leaves' = Leaves /\ Scans' = Scans
    BY <1>1 DEF vars, Froms, Leaves, Scans
  <2>2. Ahead' = Ahead /\ InFrom' = InFrom /\ OneFrom' = OneFrom
    BY <1>1, <2>1 DEF vars, Ahead, InFrom, OneFrom
  <2>3. (Shape => Shape') /\ (Begun => Begun') /\ (Lexed => Lexed')
    <3>1. Shape => Shape'
      BY <1>1, Zenon DEF vars, Shape, Node, IsSeq
    <3>2. (Begun => Begun') /\ (Lexed => Lexed')
      BY <1>1, <2>1 DEF vars, Begun, Lexed, End
    <3>3. QED
      BY <3>1, <3>2
  <2>4. Tidy => Tidy'
    BY <1>1, <2>1, <2>2 DEF vars, Tidy
  <2>5. Busy => Busy'
    BY <1>1, <2>2, <2>3, <2>4 DEF vars, Busy
  <2>6. NothingLeftOpen => NothingLeftOpen'
    <3>1. Clause' = Clause /\ Aliased(token)' = Aliased(token)
      BY <1>1 DEF vars, Clause, ClauseEnd, Aliased, CanRead, Ident, IdentAfter,
                  End, TokenAt
    <3>2. QED
      BY <1>1, <2>1, <2>2, <3>1 DEF vars, NothingLeftOpen
  <2>7. QED
    BY <1>1, <2>5, <2>6 DEF vars, IInv
<1>2. CASE ParseStep
  BY <1>2, CollectInv, SortInv, ReturnedInv, ClauseInv, FromInv, FromStepInv,
     AliasMissingInv, TableInv, OnInv, JoinsInv, SelectionInv DEF ParseStep
<1>3. CASE SelectStep
  BY <1>3, SelectInv, ItemInv, ProjectInv, NamesInv DEF SelectStep
<1>4. QED
  BY <1>1, <1>2, <1>3 DEF Next

\* Whatever the text and wherever parse gives up, the files that are left
\* open are those of the plan returned, and none if it returns NULL, but for
\* an AS without a name and a second FROM: parseFrom hands all its scans to
\* the tree, or closes them (dbparser.c:498 and 1311 are the exceptions).
THEOREM FilesClosed == Spec => []NothingLeftOpen
<1>1. IInv => NothingLeftOpen
  BY DEF IInv
<1>2. QED
  BY <1>1, InitInv, Inductive, PTL DEF Spec
=============================================================================
