--------------------------- MODULE ExecTree_proofs ---------------------------
(***************************************************************************)
(* For every query: setupattribute finds each name that has one attribute  *)
(* among the relations of FROM, and refuses every other, but for one       *)
(* exception; and next returns what the query means, one tuple after the   *)
(* other, also after a rewind.                                             *)
(*                                                                         *)
(* What setupattribute finds is computed by recursion along the chain of   *)
(* operators, Concat and the combinations by recursion along a sequence;   *)
(* SetInduction is what the proofs about them rest on.  The operators are  *)
(* then tied to the combinations: p[k], a number that nothing in the code  *)
(* holds, is how many combinations of the first k relations operator k has *)
(* gone past, and filepos, lt, lvalid, got and out follow from it.         *)
(***************************************************************************)
EXTENDS ExecTree, FiniteSetTheorems, WellFoundedInduction, TLAPS

(* Every set of naturals has a least one. *)
LEMMA Least ==
  ASSUME NEW T, T \subseteq Nat, T # {}
  PROVE  \E x \in T : \A y \in T : ~(y < x)
<1> DEFINE R == {p \in Nat \X Nat : p[1] < p[2]}
<1>1. IsWellFoundedOn(R, Nat)
  BY NatLessThanWellFounded DEF OpToRel
<1>2. PICK x \in T : \A y \in T : ~(<<y, x>> \in R)
  BY <1>1, WFMin
<1>3. \A y \in T : <<y, x>> \in R <=> y < x
  OBVIOUS
<1> QED
  BY <1>2, <1>3

LEMMA SetInduction ==
  ASSUME NEW S, 0 \in S, \A n \in Nat : n \in S => n + 1 \in S
  PROVE  Nat \subseteq S
<1> DEFINE T == Nat \ S
<1> SUFFICES ASSUME T # {} PROVE FALSE
  OBVIOUS
<1>1. PICK x \in T : \A y \in T : ~(y < x)
  BY Least
<1>2. x # 0 /\ x \in Nat
  OBVIOUS
<1>3. x - 1 \in Nat /\ x - 1 \notin T /\ (x - 1) + 1 = x
  BY <1>1, <1>2
<1> QED
  BY <1>3

-----------------------------------------------------------------------------
(* A FROM has relations, and no two of them have the same name. *)
LEMMA From ==
  ASSUME query \in Queries
  PROVE  /\ N \in Nat \ {0} /\ 1 \in Scans /\ Op(1) = "SCAN"
         /\ \A s, t \in Scans : Alias(s) = Alias(t) => s = t
         /\ IsFiniteSet(Scans)
<1>1. N \in Nat \ {0} /\ DOMAIN query.from = Scans
  BY QueriesAssumption DEF N, Scans
<1>2. \A s, t \in Scans : Alias(s) = Alias(t) => s = t
  BY <1>1, QueriesAssumption DEF Alias
<1>3. IsFiniteSet(Scans)
  BY <1>1, FS_Interval DEF Scans
<1> QED
  BY <1>1, <1>2, <1>3 DEF Scans, Op

(* What setupattribute returns at operator k, where x is what it has returned *)
(* at the child. *)
Body(ref, e, d, x, k) ==
  CASE Op(k) = "SCAN"   -> Leaf(ref, k)
    [] Op(k) = "NTJOIN" -> IF x.ret # 0 THEN x ELSE OnRight(Leaf(ref, k), k, d + e - k)
    [] OTHER            -> [x EXCEPT !.tuple = 0]

(* A function as SetupAttribute asks for; there is one. *)
Found(ref, e, d, at) == at = [k \in 1 .. e |-> Body(ref, e, d, at[k - 1], k)]

LEMMA LookupExists ==
  ASSUME query \in Queries, NEW ref, NEW e \in Nat, NEW d
  PROVE  \E at : Found(ref, e, d, at)
<1> DEFINE S == {n \in Nat : \E g : g = [k \in 1 .. n |-> Body(ref, e, d, g[k - 1], k)]}
<1>1. 0 \in S
  <2> DEFINE g == [k \in 1 .. 0 |-> 0]
  <2>1. g = [k \in 1 .. 0 |-> Body(ref, e, d, g[k - 1], k)]
    OBVIOUS
  <2> QED
    BY <2>1
<1>2. ASSUME NEW n \in Nat, n \in S
      PROVE  n + 1 \in S
  <2>1. PICK g : g = [k \in 1 .. n |-> Body(ref, e, d, g[k - 1], k)]
    BY <1>2
  <2> DEFINE h == [k \in 1 .. (n + 1) |->
                     IF k = n + 1 THEN Body(ref, e, d, g[n], k) ELSE g[k]]
  <2>2. ASSUME NEW k \in 1 .. (n + 1)
        PROVE  h[k] = Body(ref, e, d, h[k - 1], k)
    <3>1. \A x, y : Body(ref, e, d, x, 1) = Body(ref, e, d, y, 1)
      BY From DEF Body
    <3>2. CASE k = 1
      <4>1. h[k] = Body(ref, e, d, IF n = 0 THEN g[n] ELSE g[0], 1)
        BY <2>1, <3>2
      <4> QED
        BY <3>1, <3>2, <4>1
    <3>3. CASE k # 1
      <4>1. k - 1 \in 1 .. (n + 1) /\ k - 1 # n + 1 /\ h[k - 1] = g[k - 1]
        BY <3>3
      <4>2. CASE k = n + 1
        <5>1. h[k] = Body(ref, e, d, g[n], k) /\ k - 1 = n
          BY <4>2
        <5> QED
          BY <4>1, <5>1
      <4>3. CASE k # n + 1
        <5>1. h[k] = g[k] /\ k \in 1 .. n
          BY <4>3
        <5>2. g[k] = Body(ref, e, d, g[k - 1], k)
          BY <2>1, <5>1
        <5> QED
          BY <4>1, <5>1, <5>2
      <4> QED
        BY <4>2, <4>3
    <3> QED
      BY <3>2, <3>3
  <2>3. h = [k \in 1 .. (n + 1) |-> h[k]]
    OBVIOUS
  <2> HIDE DEF h
  <2>4. h = [k \in 1 .. (n + 1) |-> Body(ref, e, d, h[k - 1], k)]
    BY <2>2, <2>3
  <2> QED
    BY <2>4
<1> HIDE DEF S
<1>3. Nat \subseteq S
  BY <1>1, <1>2, SetInduction
<1>4. e \in S
  BY <1>3
<1> QED
  BY <1>4 DEF S, Found

LEMMA LookupIs ==
  ASSUME query \in Queries, NEW ref, NEW e \in Nat, NEW d
  PROVE  \E at : /\ SetupAttribute(ref, e, d) = at[e]
                 /\ \A k \in 1 .. e : at[k] = Body(ref, e, d, at[k - 1], k)
<1> DEFINE at == CHOOSE at : Found(ref, e, d, at)
<1>1. Found(ref, e, d, at)
  <2>1. \E g : Found(ref, e, d, g)
    BY LookupExists
  <2> QED
    BY <2>1
<1>2. SetupAttribute(ref, e, d) = at[e]
  BY DEF SetupAttribute, Found, Body
<1> HIDE DEF at
<1>3. \A k \in 1 .. e : at[k] = Body(ref, e, d, at[k - 1], k)
  BY <1>1 DEF Found
<1> QED
  BY <1>2, <1>3

-----------------------------------------------------------------------------
(* Whether it is found, operator by operator. *)
Outcome(x) == \E r \in {-1, 0, 1} : \E t, p : x = [ret |-> r, tuple |-> t, pos |-> p]

LEMMA IsOutcome ==
  ASSUME NEW r \in {-1, 0, 1}, NEW t, NEW p
  PROVE  Outcome([ret |-> r, tuple |-> t, pos |-> p])
BY Zenon DEF Outcome

Answers(ref, s) == ref.table \in {"", Alias(s)}

LEMMA LeafRet ==
  ASSUME NEW ref, NEW s
  PROVE  /\ Outcome(Leaf(ref, s))
         /\ Leaf(ref, s).ret = 1 <=> ~Ambiguous(ref) /\ Answers(ref, s) /\ Has(s, ref.name)
         /\ Leaf(ref, s).ret = 0 <=> ~Ambiguous(ref) /\ ~Answers(ref, s)
<1>1. CASE Ambiguous(ref)
  <2>1. Leaf(ref, s) = [ret |-> -1, tuple |-> 0, pos |-> 0]
    BY <1>1 DEF Leaf, Missing
  <2>2. Leaf(ref, s).ret = -1
    BY <2>1
  <2>3. Outcome(Leaf(ref, s))
    BY <2>1, IsOutcome
  <2> QED
    BY <1>1, <2>2, <2>3
<1>2. CASE ~Ambiguous(ref) /\ ~Answers(ref, s)
  <2>1. Leaf(ref, s) = [ret |-> 0, tuple |-> 0, pos |-> 0]
    BY <1>2 DEF Leaf, Missing, Answers
  <2>2. Leaf(ref, s).ret = 0
    BY <2>1
  <2>3. Outcome(Leaf(ref, s))
    BY <2>1, IsOutcome
  <2> QED
    BY <1>2, <2>2, <2>3
<1>3. CASE ~Ambiguous(ref) /\ Answers(ref, s) /\ ~Has(s, ref.name)
  <2>1. Leaf(ref, s) = [ret |-> -1, tuple |-> 0, pos |-> 0]
    BY <1>3 DEF Leaf, Missing, Answers
  <2>2. Leaf(ref, s).ret = -1
    BY <2>1
  <2>3. Outcome(Leaf(ref, s))
    BY <2>1, IsOutcome
  <2> QED
    BY <1>3, <2>2, <2>3
<1>4. CASE ~Ambiguous(ref) /\ Answers(ref, s) /\ Has(s, ref.name)
  <2>1. Leaf(ref, s) = [ret |-> 1, tuple |-> 0, pos |-> PosByName(s, ref.name)]
    BY <1>4 DEF Leaf, Answers
  <2>2. Leaf(ref, s).ret = 1
    BY <2>1
  <2>3. Outcome(Leaf(ref, s))
    BY <2>1, IsOutcome
  <2> QED
    BY <1>4, <2>2, <2>3
<1> QED
  BY <1>1, <1>2, <1>3, <1>4

LEMMA BodyRet ==
  ASSUME query \in Queries, NEW ref, NEW e, NEW d, NEW x, NEW k \in Nat \ {0},
         k = 1 \/ Outcome(x)
  PROVE  /\ Outcome(Body(ref, e, d, x, k))
         /\ Body(ref, e, d, x, k).ret =
              IF k = 1 THEN Leaf(ref, k).ret
              ELSE IF k > N \/ x.ret # 0 THEN x.ret ELSE Leaf(ref, k).ret
<1>1. N \in Nat \ {0} /\ Op(1) = "SCAN"
  BY From
<1>2. CASE k = 1
  BY <1>1, <1>2, LeafRet DEF Body
<1>3. CASE k # 1 /\ k <= N
  <2>1. Op(k) = "NTJOIN"
    BY <1>1, <1>3 DEF Op
  <2>2. PICK r, t, p : r \in {-1, 0, 1} /\ Leaf(ref, k) = [ret |-> r, tuple |-> t, pos |-> p]
    BY LeafRet DEF Outcome
  <2>3. \A i : Outcome(OnRight(Leaf(ref, k), k, i)) /\ OnRight(Leaf(ref, k), k, i).ret = r
    <3>1. ASSUME NEW q
          PROVE  /\ [Leaf(ref, k) EXCEPT !.pos = q] = [ret |-> r, tuple |-> t, pos |-> q]
                 /\ [Leaf(ref, k) EXCEPT !.tuple = q] = [ret |-> r, tuple |-> q, pos |-> p]
      BY <2>2
    <3> QED
      BY <2>2, <3>1 DEF OnRight, Outcome
  <2> QED
    BY <1>1, <1>3, <2>1, <2>2, <2>3 DEF Body
<1>4. CASE k # 1 /\ k > N
  <2>1. Op(k) \notin {"SCAN", "NTJOIN"}
    BY <1>1, <1>4 DEF Op
  <2>2. Body(ref, e, d, x, k) = [x EXCEPT !.tuple = 0]
    BY <2>1 DEF Body
  <2>3. PICK r, t, p : r \in {-1, 0, 1} /\ x = [ret |-> r, tuple |-> t, pos |-> p]
    BY <1>4 DEF Outcome
  <2>4. [x EXCEPT !.tuple = 0] = [ret |-> r, tuple |-> 0, pos |-> p]
    BY <2>3
  <2> QED
    BY <1>4, <2>2, <2>3, <2>4 DEF Outcome
<1> QED
  BY <1>1, <1>2, <1>3, <1>4

(* What the lookup returns is what the first relation returns that returns *)
(* anything but 0.                                                         *)
LEMMA FirstToAnswer ==
  ASSUME query \in Queries, NEW ref, NEW e \in Nat, e >= N, NEW d
  PROVE  \/ /\ SetupAttribute(ref, e, d).ret = 0
            /\ \A t \in Scans : Leaf(ref, t).ret = 0
         \/ \E s \in Scans :
              /\ SetupAttribute(ref, e, d).ret = Leaf(ref, s).ret
              /\ Leaf(ref, s).ret # 0
              /\ \A t \in 1 .. (s - 1) : Leaf(ref, t).ret = 0
<1>1. N \in Nat \ {0} /\ Scans = 1 .. N
  BY From DEF Scans
<1>2. PICK at : /\ SetupAttribute(ref, e, d) = at[e]
                /\ \A k \in 1 .. e : at[k] = Body(ref, e, d, at[k - 1], k)
  BY LookupIs
<1> DEFINE First(x, n) ==
             \/ x = 0 /\ \A t \in 1 .. n : t \in Scans => Leaf(ref, t).ret = 0
             \/ \E s \in Scans : /\ x = Leaf(ref, s).ret /\ Leaf(ref, s).ret # 0
                                 /\ \A t \in 1 .. (s - 1) : Leaf(ref, t).ret = 0
           S == {n \in Nat : n \in 1 .. e => Outcome(at[n]) /\ First(at[n].ret, n)}
<1>3. 0 \in S
  OBVIOUS
<1>4. ASSUME NEW n \in Nat, n \in S
      PROVE  n + 1 \in S
  <2> DEFINE k == n + 1
  <2> SUFFICES ASSUME k \in 1 .. e
               PROVE  Outcome(at[k]) /\ First(at[k].ret, k)
    OBVIOUS
  <2>1. k \in Nat \ {0} /\ k - 1 = n
    OBVIOUS
  <2>2. at[k] = Body(ref, e, d, at[n], k)
    BY <1>2, <2>1
  <2>3. k = 1 \/ (Outcome(at[n]) /\ First(at[n].ret, n))
    BY <1>4
  <2>4. /\ Outcome(at[k])
        /\ at[k].ret = IF k = 1 THEN Leaf(ref, k).ret
                       ELSE IF k > N \/ at[n].ret # 0 THEN at[n].ret
                       ELSE Leaf(ref, k).ret
    BY <2>1, <2>2, <2>3, BodyRet
  <2> HIDE DEF First
  <2>5. First(at[k].ret, k)
    <3> DEFINE lx == Leaf(ref, k).ret
    <3>1. ASSUME k \in Scans, \A t \in 1 .. n : Leaf(ref, t).ret = 0
          PROVE  First(lx, k)
      <4>1. CASE lx = 0
        <5>1. \A t \in 1 .. k : t \in 1 .. n \/ t = k
          OBVIOUS
        <5> QED
          BY <3>1, <4>1, <5>1 DEF First
      <4>2. CASE lx # 0
        BY <2>1, <3>1, <4>2 DEF First
      <4> QED
        BY <4>1, <4>2
    <3>2. CASE k = 1
      <4>1. k \in Scans /\ at[k].ret = lx /\ \A t \in 1 .. n : Leaf(ref, t).ret = 0
        BY <1>1, <2>4, <3>2
      <4> QED
        BY <3>1, <4>1
    <3>3. CASE k # 1 /\ at[n].ret # 0
      <4>1. at[k].ret = at[n].ret
        BY <2>4, <3>3
      <4> QED
        BY <2>3, <3>3, <4>1 DEF First
    <3>4. CASE k # 1 /\ at[n].ret = 0
      <4>1. \A t \in 1 .. n : t \in Scans => Leaf(ref, t).ret = 0
        BY <2>3, <3>4 DEF First
      <4>2. CASE k > N
        <5>1. at[k].ret = 0
          BY <2>4, <3>4, <4>2
        <5>2. \A t \in 1 .. k : t \in Scans => t \in 1 .. n
          BY <1>1, <4>2
        <5> QED
          BY <4>1, <5>1, <5>2 DEF First
      <4>3. CASE ~(k > N)
        <5>1. k \in Scans /\ at[k].ret = lx /\ \A t \in 1 .. n : t \in Scans
          BY <1>1, <2>4, <3>4, <4>3
        <5> QED
          BY <3>1, <4>1, <5>1
      <4> QED
        BY <4>2, <4>3
    <3> QED
      BY <3>2, <3>3, <3>4
  <2> QED
    BY <2>4, <2>5
<1> HIDE DEF S
<1>5. Nat \subseteq S
  BY <1>3, <1>4, SetInduction
<1>6. First(at[e].ret, e)
  BY <1>1, <1>5 DEF S
<1> QED
  BY <1>1, <1>2, <1>6

-----------------------------------------------------------------------------
(* A name with one holder is found, but for an attribute without its table *)
(* that is not in the first relation; no other name is.                    *)
Exception(ref) == ref.table = "" /\ ~Has(1, ref.name)

LEMMA OneHolder ==
  ASSUME query \in Queries, NEW ref
  PROVE  /\ IsFiniteSet(Holders(ref)) /\ Cardinality(Holders(ref)) \in Nat
         /\ Cardinality(Holders(ref)) = 0 <=> Holders(ref) = {}
         /\ Named(ref) <=> \E s : Holders(ref) = {s}
         /\ ref.table = "" => (Ambiguous(ref) <=> Cardinality(Holders(ref)) > 1)
<1>1. Holders(ref) \subseteq Scans
  BY DEF Holders
<1>2. IsFiniteSet(Holders(ref))
  BY <1>1, From, FS_Subset
<1>3. Cardinality(Holders(ref)) \in Nat
  BY <1>2, FS_CardinalityType
<1>4. Cardinality(Holders(ref)) = 0 <=> Holders(ref) = {}
  BY <1>2, FS_EmptySet
<1>5. Named(ref) <=> \E s : Holders(ref) = {s}
  BY <1>2, FS_Singleton DEF Named
<1>6. ref.table = "" => Holders(ref) = {s \in Scans : Has(s, ref.name)}
  BY DEF Holders
<1> QED
  BY <1>2, <1>3, <1>4, <1>5, <1>6 DEF Ambiguous

LEMMA FoundIsNamed ==
  ASSUME query \in Queries, NEW ref, NEW e \in Nat, e >= N, NEW d,
         SetupAttribute(ref, e, d).ret = 1
  PROVE  Named(ref)
<1>1. PICK s \in Scans : Leaf(ref, s).ret = 1
  BY FirstToAnswer
<1>2. ~Ambiguous(ref) /\ ref.table \in {"", Alias(s)} /\ Has(s, ref.name)
  BY <1>1, LeafRet DEF Answers
<1>3. s \in Holders(ref)
  BY <1>2 DEF Holders
<1>4. CASE ref.table = ""
  <2>1. ~(Cardinality(Holders(ref)) > 1) /\ Cardinality(Holders(ref)) # 0
    BY <1>2, <1>3, <1>4, OneHolder
  <2> QED
    <3>1. Cardinality(Holders(ref)) \in Nat
      BY OneHolder
    <3> QED
      BY <2>1, <3>1 DEF Named
<1>5. CASE ref.table # ""
  <2>1. \A t \in Holders(ref) : t \in Scans /\ Alias(t) = Alias(s)
    BY <1>2, <1>5 DEF Holders
  <2>2. Holders(ref) = {s}
    BY <1>3, <2>1, From
  <2> QED
    BY <2>2, OneHolder
<1> QED
  BY <1>4, <1>5

LEMMA NamedIsFound ==
  ASSUME query \in Queries, NEW ref, NEW e \in Nat, e >= N, NEW d,
         Named(ref), ~Exception(ref)
  PROVE  SetupAttribute(ref, e, d).ret = 1
<1>1. PICK h : Holders(ref) = {h}
  BY OneHolder
<1>2. h \in Scans /\ ref.table \in {"", Alias(h)} /\ Has(h, ref.name)
  BY <1>1 DEF Holders
<1>3. ~Ambiguous(ref)
  <2>1. CASE ref.table = ""
    <3>1. Ambiguous(ref) <=> Cardinality(Holders(ref)) > 1
      BY <2>1, OneHolder
    <3> QED
      BY <3>1 DEF Named
  <2>2. CASE ref.table # ""
    BY <2>2 DEF Ambiguous
  <2> QED
    BY <2>1, <2>2
<1>4. Scans \subseteq Nat /\ 1 \in Scans /\ \A s \in Scans : s >= 1
  BY From DEF Scans
<1>5. PICK f \in Scans : /\ Leaf(ref, f).ret = 1
                         /\ \A t \in Scans : t < f => Leaf(ref, t).ret = 0
  <2>1. CASE ref.table = ""
    <3>1. Has(1, ref.name)
      BY <2>1 DEF Exception
    <3>2. Leaf(ref, 1).ret = 1
      BY <1>3, <2>1, <3>1, LeafRet DEF Answers
    <3>3. \A t \in Scans : ~(t < 1)
      BY <1>4
    <3> QED
      BY <1>4, <3>2, <3>3
  <2>2. CASE ref.table # ""
    <3>1. ref.table = Alias(h) /\ Leaf(ref, h).ret = 1
      BY <1>2, <1>3, <2>2, LeafRet DEF Answers
    <3>2. ASSUME NEW t \in Scans, t # h
          PROVE  Leaf(ref, t).ret = 0
      <4>1. ref.table \notin {"", Alias(t)}
        BY <1>2, <2>2, <3>1, <3>2, From
      <4> QED
        BY <1>3, <4>1, LeafRet DEF Answers
    <3>3. \A t \in Scans : t < h => t # h
      BY <1>4
    <3> QED
      BY <1>2, <3>1, <3>2, <3>3
  <2> QED
    BY <2>1, <2>2
<1>6. PICK s \in Scans : /\ SetupAttribute(ref, e, d).ret = Leaf(ref, s).ret
                         /\ Leaf(ref, s).ret # 0
                         /\ \A t \in 1 .. (s - 1) : Leaf(ref, t).ret = 0
  BY <1>5, FirstToAnswer
<1>7. s > f => f \in 1 .. (s - 1)
  BY <1>4
<1>8. s = f
  BY <1>4, <1>5, <1>6, <1>7
<1> QED
  BY <1>5, <1>6, <1>8

-----------------------------------------------------------------------------
CondNamed == \A ref \in CondRefs : Named(ref)
ItemsNamed == \A ref \in ItemRefs : Named(ref)
NoName == \E ref \in Refs : ~Named(ref) \/ Exception(ref)

NamesInv ==
  /\ query \in Queries
  /\ phase \in {"look", "ready", "next", "rewind"} => CondNamed
  /\ phase \in {"ready", "next", "rewind"} => ItemsNamed
  /\ phase = "refused" => NoName

(* They are about the query alone. *)
LEMMA SameNames ==
  ASSUME UNCHANGED query
  PROVE  /\ CondNamed' = CondNamed /\ ItemsNamed' = ItemsNamed
         /\ NoName' = NoName
BY DEF CondNamed, ItemsNamed, NoName, CondRefs, ItemRefs, Refs, RefsIn,
   Expressions, Named, Holders, Exception, Scans, N, Has, Relation, Alias,
   SE!Range

LEMMA NamesStep ==
  ASSUME NamesInv, [Next]_vars
  PROVE  NamesInv'
<1>2. N \in Nat
  BY From DEF NamesInv
<1>3. CASE UNCHANGED <<query, phase>>
  BY <1>3, SameNames DEF NamesInv
<1>4. CASE VerifyCondition
  <2>1. UNCHANGED query
    BY <1>4 DEF VerifyCondition
  <2> DEFINE e == IF Selects THEN N + 1 ELSE N
  <2>2. e \in Nat /\ e >= N
    BY <1>2
  <2> HIDE DEF e
  <2>3. phase' = IF \A ref \in CondRefs : SetupAttribute(ref, e, 0).ret = 1
                 THEN "look" ELSE "refused"
    BY <1>4 DEF VerifyCondition, e
  <2>4. CASE \A ref \in CondRefs : SetupAttribute(ref, e, 0).ret = 1
    <3>1. CondNamed
      BY <2>2, <2>4, FoundIsNamed DEF NamesInv, CondNamed
    <3> QED
      BY <2>1, <2>3, <2>4, <3>1, SameNames DEF NamesInv
  <2>5. CASE ~\A ref \in CondRefs : SetupAttribute(ref, e, 0).ret = 1
    <3>1. PICK ref \in CondRefs : SetupAttribute(ref, e, 0).ret # 1
      BY <2>5
    <3>2. ~Named(ref) \/ Exception(ref)
      BY <2>2, <3>1, NamedIsFound DEF NamesInv
    <3>3. NoName
      BY <3>1, <3>2 DEF NoName, Refs
    <3> QED
      BY <2>1, <2>3, <2>5, <3>3, SameNames DEF NamesInv
  <2> QED
    BY <2>4, <2>5
<1>5. CASE VerifyItems
  <2>1. UNCHANGED query /\ phase = "look"
    BY <1>5 DEF VerifyItems
  <2>2. Child \in Nat /\ Child >= N
    BY <1>2 DEF Child
  <2>3. phase' = IF \A ref \in ItemRefs : SetupAttribute(ref, Child, 1).ret = 1
                 THEN "ready" ELSE "refused"
    BY <1>5 DEF VerifyItems
  <2>4. CASE \A ref \in ItemRefs : SetupAttribute(ref, Child, 1).ret = 1
    <3>1. CondNamed /\ ItemsNamed
      BY <2>1, <2>2, <2>4, FoundIsNamed DEF NamesInv, ItemsNamed
    <3> QED
      BY <2>1, <2>3, <2>4, <3>1, SameNames DEF NamesInv
  <2>5. CASE ~\A ref \in ItemRefs : SetupAttribute(ref, Child, 1).ret = 1
    <3>1. PICK ref \in ItemRefs : SetupAttribute(ref, Child, 1).ret # 1
      BY <2>5
    <3>2. ~Named(ref) \/ Exception(ref)
      BY <2>2, <3>1, NamedIsFound DEF NamesInv
    <3>3. NoName
      BY <3>1, <3>2 DEF NoName, Refs
    <3> QED
      BY <2>1, <2>3, <2>5, <3>3, SameNames DEF NamesInv
  <2> QED
    BY <2>4, <2>5
<1>6. CASE CallNext \/ Answered \/ CallRewind \/ Rewound
  <2>1. UNCHANGED query /\ phase \in {"ready", "next", "rewind"}
        /\ phase' \in {"ready", "next", "rewind"}
    BY <1>6 DEF CallNext, Answered, CallRewind, Rewound, plan
  <2> QED
    BY <2>1, SameNames DEF NamesInv
<1>7. CASE InitNTJoin
  BY <1>3, <1>7 DEF InitNTJoin
<1>8. ASSUME Next, ~VerifyCondition, ~VerifyItems, ~InitNTJoin,
             ~(CallNext \/ Answered \/ CallRewind \/ Rewound)
      PROVE  UNCHANGED <<query, phase>>
  BY <1>8 DEF Next, Advance, NextScan, NTInner, NTOuter, NTDone, NTLeft,
     NTFirst, NextOneChild, SelectChild, ProjectChild, RewindScan, RewindChild,
     RewoundOneChild, RewoundNTJoin, Context, plan
<1>9. CASE UNCHANGED vars
  BY <1>3, <1>9 DEF vars, plan
<1> QED
  BY <1>3, <1>4, <1>5, <1>6, <1>7, <1>8, <1>9

(* A query is accepted only if each of its names has exactly one attribute,  *)
(* and refused only for a name that has not, or for the exception: an        *)
(* attribute without its table that is not in the first relation of FROM    *)
(* (dbparseexpr.c:581).                                                      *)
THEOREM NamesResolved == Spec => []RefusedAsNamed
<1>1. Init => NamesInv
  BY DEF Init, NamesInv
<1>2. NamesInv /\ [Next]_vars => NamesInv'
  BY NamesStep
<1>3. NamesInv => RefusedAsNamed
  BY DEF NamesInv, RefusedAsNamed, CondNamed, ItemsNamed, NoName, Legal, Refs,
     Exception
<1> QED
  BY <1>1, <1>2, <1>3, PTL DEF Spec

-----------------------------------------------------------------------------
(* Concat, one piece at a time. *)
Running(ss, n, g) == g = [i \in 1 .. n |-> IF i = 1 THEN ss[i] ELSE g[i - 1] \o ss[i]]

LEMMA RunningIs ==
  ASSUME NEW ss, NEW n \in Nat, NEW g, Running(ss, n, g)
  PROVE  \A k \in 1 .. n : g[k] = IF k = 1 THEN ss[k] ELSE g[k - 1] \o ss[k]
BY DEF Running

LEMMA RunningExists ==
  ASSUME NEW ss, NEW e \in Nat
  PROVE  \E g : Running(ss, e, g)
<1> DEFINE S == {n \in Nat : \E g : Running(ss, n, g)}
<1>1. 0 \in S
  <2> DEFINE g == [k \in 1 .. 0 |-> 0]
  <2>1. Running(ss, 0, g)
    BY DEF Running
  <2> QED
    BY <2>1
<1>2. ASSUME NEW n \in Nat, n \in S
      PROVE  n + 1 \in S
  <2>1. PICK g : Running(ss, n, g)
    BY <1>2
  <2>2. \A k \in 1 .. n : g[k] = IF k = 1 THEN ss[k] ELSE g[k - 1] \o ss[k]
    BY <2>1 DEF Running
  <2> DEFINE h == [k \in 1 .. (n + 1) |->
                     IF k = n + 1 THEN (IF k = 1 THEN ss[k] ELSE g[n] \o ss[k]) ELSE g[k]]
  <2>3. ASSUME NEW k \in 1 .. (n + 1)
        PROVE  h[k] = IF k = 1 THEN ss[k] ELSE h[k - 1] \o ss[k]
    <3>1. CASE k = n + 1
      <4>1. h[k] = IF k = 1 THEN ss[k] ELSE g[n] \o ss[k]
        BY <3>1
      <4>2. k # 1 => k - 1 \in 1 .. (n + 1) /\ k - 1 # n + 1 /\ h[k - 1] = g[n]
        BY <3>1
      <4> QED
        BY <4>1, <4>2
    <3>2. CASE k # n + 1
      <4>1. h[k] = g[k] /\ k \in 1 .. n
        BY <3>2
      <4>2. k # 1 => k - 1 \in 1 .. (n + 1) /\ k - 1 # n + 1 /\ h[k - 1] = g[k - 1]
        BY <3>2
      <4> HIDE DEF h
      <4> QED
        BY <2>2, <4>1, <4>2
    <3> QED
      BY <3>1, <3>2
  <2>4. h = [k \in 1 .. (n + 1) |-> h[k]]
    OBVIOUS
  <2> HIDE DEF h
  <2>5. Running(ss, n + 1, h)
    BY <2>3, <2>4 DEF Running
  <2> QED
    BY <2>5
<1> HIDE DEF S
<1>3. Nat \subseteq S
  BY <1>1, <1>2, SetInduction
<1> QED
  BY <1>3 DEF S

(* A longer sequence runs like a shorter one as far as that goes. *)
LEMMA RunningSame ==
  ASSUME NEW ss, NEW tt, NEW n \in Nat, NEW m \in Nat, n <= m,
         NEW g, NEW h, Running(ss, n, g), Running(tt, m, h),
         \A i \in 1 .. n : ss[i] = tt[i]
  PROVE  \A i \in 1 .. n : g[i] = h[i]
<1>1. \A k \in 1 .. n : g[k] = IF k = 1 THEN ss[k] ELSE g[k - 1] \o ss[k]
  BY RunningIs
<1>2. \A k \in 1 .. n : h[k] = IF k = 1 THEN tt[k] ELSE h[k - 1] \o tt[k]
  <2>1. \A k \in 1 .. m : h[k] = IF k = 1 THEN tt[k] ELSE h[k - 1] \o tt[k]
    BY RunningIs
  <2> QED
    BY <2>1
<1> DEFINE S == {i \in Nat : i \in 1 .. n => g[i] = h[i]}
<1>3. 0 \in S
  OBVIOUS
<1>4. ASSUME NEW i \in Nat, i \in S
      PROVE  i + 1 \in S
  <2> SUFFICES ASSUME i + 1 \in 1 .. n PROVE g[i + 1] = h[i + 1]
    OBVIOUS
  <2>1. (i + 1) - 1 = i
    OBVIOUS
  <2>2. CASE i = 0
    BY <1>1, <1>2, <2>2
  <2>3. CASE i # 0
    <3>1. g[i] = h[i] /\ i + 1 # 1
      BY <1>4, <2>3
    <3> QED
      BY <1>1, <1>2, <2>1, <3>1
  <2> QED
    BY <2>2, <2>3
<1> HIDE DEF S
<1>5. Nat \subseteq S
  BY <1>3, <1>4, SetInduction
<1> QED
  BY <1>5 DEF S

LEMMA ConcatRuns ==
  ASSUME NEW ss, Len(ss) \in Nat, Len(ss) # 0
  PROVE  \E g : Running(ss, Len(ss), g) /\ Concat(ss) = g[Len(ss)]
<1> DEFINE g == CHOOSE g : Running(ss, Len(ss), g)
<1>1. Running(ss, Len(ss), g)
  BY RunningExists
<1>2. Concat(ss) = g[Len(ss)]
  BY DEF Concat, SE!FlattenSeq, Running
<1> QED
  BY <1>1, <1>2

(* The first k pieces. *)
Upto(ss, k) == Concat([i \in 1 .. k |-> ss[i]])

LEMMA UptoRaw ==
  ASSUME NEW ss, NEW k \in Nat
  PROVE  /\ Upto(ss, 0) = <<>>
         /\ Upto(ss, k + 1) = IF k = 0 THEN ss[1] ELSE Upto(ss, k) \o ss[k + 1]
<1> DEFINE f == [i \in 1 .. k |-> ss[i]]
           g == [i \in 1 .. (k + 1) |-> ss[i]]
<1>1. Upto(ss, 0) = <<>>
  BY DEF Upto, Concat, SE!FlattenSeq
<1>2. /\ Len(f) = k /\ Len(g) = k + 1
      /\ \A i \in 1 .. k : f[i] = g[i]
      /\ g[k + 1] = ss[k + 1]
  OBVIOUS
<1>3. Upto(ss, k) = Concat(f) /\ Upto(ss, k + 1) = Concat(g)
  BY DEF Upto
<1> HIDE DEF f, g
<1>4. PICK y : Running(g, k + 1, y) /\ Concat(g) = y[k + 1]
  BY <1>2, ConcatRuns
<1>5. y[k + 1] = IF k = 0 THEN ss[k + 1] ELSE y[k] \o ss[k + 1]
  <2>1. \A j \in 1 .. (k + 1) : y[j] = IF j = 1 THEN g[j] ELSE y[j - 1] \o g[j]
    BY <1>4, RunningIs
  <2>2. k + 1 \in 1 .. (k + 1) /\ (k + 1) - 1 = k /\ (k + 1 = 1 <=> k = 0)
    OBVIOUS
  <2> QED
    BY <1>2, <2>1, <2>2
<1>6. CASE k = 0
  BY <1>1, <1>3, <1>4, <1>5, <1>6
<1>7. CASE k # 0
  <2>1. PICK x : Running(f, k, x) /\ Concat(f) = x[k]
    BY <1>2, <1>7, ConcatRuns
  <2>2. x[k] = y[k]
    <3>1. \A i \in 1 .. k : x[i] = y[i]
      BY <1>2, <1>4, <2>1, RunningSame
    <3> QED
      BY <1>7, <3>1
  <2> QED
    BY <1>1, <1>3, <1>4, <1>5, <1>7, <2>1, <2>2
<1> QED
  BY <1>6, <1>7

(* Pieces that are sequences over X. *)
Pieces(ss, n, X) == n \in Nat /\ \A i \in 1 .. n : ss[i] \in Seq(X)

LEMMA UptoStep ==
  ASSUME NEW X, NEW ss, NEW n, Pieces(ss, n, X)
  PROVE  /\ Upto(ss, 0) = <<>>
         /\ \A k \in 0 .. n : Upto(ss, k) \in Seq(X)
         /\ \A k \in 1 .. n : Upto(ss, k) = Upto(ss, k - 1) \o ss[k]
<1>0. n \in Nat
  BY DEF Pieces
<1> DEFINE S == {k \in Nat : k \in 0 .. n => Upto(ss, k) \in Seq(X)}
<1>1. Upto(ss, 0) = <<>>
  BY <1>0, UptoRaw
<1>2. 0 \in S
  <2>1. <<>> \in Seq(X)
    OBVIOUS
  <2> QED
    BY <1>1, <2>1
<1>3. ASSUME NEW k \in Nat, k \in S
      PROVE  k + 1 \in S
  <2> SUFFICES ASSUME k + 1 \in 0 .. n PROVE Upto(ss, k + 1) \in Seq(X)
    OBVIOUS
  <2>1. ss[k + 1] \in Seq(X) /\ Upto(ss, k) \in Seq(X)
    BY <1>0, <1>3 DEF Pieces
  <2>2. Upto(ss, k + 1) = IF k = 0 THEN ss[1] ELSE Upto(ss, k) \o ss[k + 1]
    BY UptoRaw
  <2>3. CASE k = 0
    BY <2>1, <2>2, <2>3
  <2>4. CASE k # 0
    <3>1. \A a, b \in Seq(X) : a \o b \in Seq(X)
      OBVIOUS
    <3> QED
      BY <2>1, <2>2, <2>4, <3>1
  <2> QED
    BY <2>3, <2>4
<1> HIDE DEF S
<1>4. Nat \subseteq S
  BY <1>2, <1>3, SetInduction
<1>5. \A k \in 0 .. n : Upto(ss, k) \in Seq(X)
  BY <1>0, <1>4 DEF S
<1>6. ASSUME NEW k \in 1 .. n
      PROVE  Upto(ss, k) = Upto(ss, k - 1) \o ss[k]
  <2>1. k - 1 \in Nat /\ (k - 1) + 1 = k /\ k \in 1 .. n
    BY <1>0
  <2>2. Upto(ss, k) = IF k - 1 = 0 THEN ss[1] ELSE Upto(ss, k - 1) \o ss[k]
    BY <2>1, UptoRaw
  <2>3. CASE k = 1
    <3>1. ss[1] \in Seq(X) /\ Upto(ss, k) = ss[1] /\ Upto(ss, k - 1) = <<>>
      BY <1>1, <2>1, <2>2, <2>3 DEF Pieces
    <3> QED
      BY <2>3, <3>1
  <2>4. CASE k # 1
    <3>1. k - 1 # 0
      BY <1>0, <2>4
    <3> QED
      BY <2>2, <3>1
  <2> QED
    BY <2>3, <2>4
<1> QED
  BY <1>1, <1>5, <1>6

(* What is in the concatenation, and where. *)
PieceAt(ss, m, k) ==
  \A i \in 1 .. Len(ss[k]) : Upto(ss, m)[Len(Upto(ss, k - 1)) + i] = ss[k][i]
StartsWith(t, s) == \A i \in 1 .. Len(s) : t[i] = s[i]

LEMMA UptoAt ==
  ASSUME NEW X, NEW ss, NEW n, Pieces(ss, n, X), NEW k \in 1 .. n
  PROVE  /\ \A m \in 0 .. (k - 1) : Len(Upto(ss, m)) <= Len(Upto(ss, k))
         /\ \A m \in k .. n : Len(Upto(ss, k - 1)) + Len(ss[k]) <= Len(Upto(ss, m))
         /\ \A m \in k .. n : PieceAt(ss, m, k)
         /\ \A m \in k .. n : StartsWith(Upto(ss, m), Upto(ss, k))
<1>0. n \in Nat /\ k \in 1 .. n /\ k \in Nat
  BY DEF Pieces
<1> DEFINE u(m) == Upto(ss, m)
<1>1. \A m \in 0 .. n : u(m) \in Seq(X) /\ Len(u(m)) \in Nat
  <2>1. \A m \in 0 .. n : u(m) \in Seq(X)
    BY UptoStep
  <2> QED
    BY <2>1
<1>2. \A m \in 1 .. n : ss[m] \in Seq(X) /\ Len(ss[m]) \in Nat
  BY DEF Pieces
<1>3. \A m \in 1 .. n : u(m) = u(m - 1) \o ss[m]
  BY UptoStep
<1> HIDE DEF u
<1>4. ASSUME NEW m \in 1 .. n
      PROVE  /\ Len(u(m)) = Len(u(m - 1)) + Len(ss[m])
             /\ \A i \in 1 .. Len(u(m - 1)) : u(m)[i] = u(m - 1)[i]
             /\ \A i \in 1 .. Len(ss[m]) : u(m)[Len(u(m - 1)) + i] = ss[m][i]
  <2>1. m - 1 \in 0 .. n
    BY <1>0
  <2> DEFINE a == u(m - 1)
             b == ss[m]
  <2>2. a \in Seq(X) /\ b \in Seq(X) /\ u(m) = a \o b
    BY <1>1, <1>2, <1>3, <2>1
  <2> HIDE DEF a, b
  <2>3. /\ Len(a \o b) = Len(a) + Len(b)
        /\ \A i \in 1 .. Len(a) : (a \o b)[i] = a[i]
        /\ \A i \in 1 .. Len(b) : (a \o b)[Len(a) + i] = b[i]
    BY <2>2
  <2> QED
    BY <2>2, <2>3 DEF a, b
<1> DEFINE S == {m \in Nat : m + k <= n =>
                   /\ Len(u(k)) <= Len(u(m + k))
                   /\ \A i \in 1 .. Len(u(k)) : u(m + k)[i] = u(k)[i]}
<1>5. 0 \in S
  BY <1>0, <1>1
<1>6. ASSUME NEW m \in Nat, m \in S
      PROVE  m + 1 \in S
  <2> SUFFICES ASSUME (m + 1) + k <= n
               PROVE  /\ Len(u(k)) <= Len(u((m + 1) + k))
                      /\ \A i \in 1 .. Len(u(k)) : u((m + 1) + k)[i] = u(k)[i]
    OBVIOUS
  <2>1. /\ (m + 1) + k \in 1 .. n /\ ((m + 1) + k) - 1 = m + k
        /\ m + k \in 0 .. n /\ k \in 0 .. n /\ m + k <= n
    BY <1>0
  <2> DEFINE j == (m + 1) + k
  <2>2. Len(u(j)) = Len(u(m + k)) + Len(ss[j]) /\
        \A i \in 1 .. Len(u(m + k)) : u(j)[i] = u(m + k)[i]
    BY <1>4, <2>1
  <2>3. Len(u(k)) <= Len(u(m + k)) /\ \A i \in 1 .. Len(u(k)) : u(m + k)[i] = u(k)[i]
    BY <1>6, <2>1
  <2>4. Len(u(k)) \in Nat /\ Len(u(m + k)) \in Nat /\ Len(ss[j]) \in Nat
    BY <1>1, <1>2, <2>1
  <2> HIDE DEF j
  <2>5. Len(u(k)) <= Len(u(j))
    <3> DEFINE a == Len(u(k))
               b == Len(u(m + k))
               c == Len(ss[j])
               d == Len(u(j))
    <3>1. d = b + c /\ a <= b /\ a \in Nat /\ b \in Nat /\ c \in Nat
      BY <2>2, <2>3, <2>4
    <3> HIDE DEF a, b, c, d
    <3>2. a <= d
      BY <3>1
    <3> QED
      BY <3>2 DEF a, d
  <2>6. \A i \in 1 .. Len(u(k)) : u(j)[i] = u(k)[i]
    <3>1. \A i \in 1 .. Len(u(k)) : i \in 1 .. Len(u(m + k))
      BY <2>3, <2>4
    <3> QED
      BY <2>2, <2>3, <3>1
  <2> QED
    BY <2>5, <2>6 DEF j
<1> HIDE DEF S
<1>7. Nat \subseteq S
  BY <1>5, <1>6, SetInduction
<1>8. ASSUME NEW m \in k .. n
      PROVE  /\ Len(u(k)) <= Len(u(m))
             /\ \A i \in 1 .. Len(u(k)) : u(m)[i] = u(k)[i]
  <2>1. m - k \in Nat /\ (m - k) + k = m /\ m <= n
    BY <1>0
  <2> QED
    BY <1>7, <2>1 DEF S
<1> DEFINE T == {m \in Nat : m <= k => Len(u(k - m)) <= Len(u(k))}
<1>9. \A m \in 0 .. (k - 1) : Len(u(m)) <= Len(u(k))
  <2>1. 0 \in T
    BY <1>0, <1>1
  <2>2. ASSUME NEW m \in Nat, m \in T
        PROVE  m + 1 \in T
    <3> SUFFICES ASSUME m + 1 <= k PROVE Len(u(k - (m + 1))) <= Len(u(k))
      OBVIOUS
    <3>1. k - m \in 1 .. n /\ (k - m) - 1 = k - (m + 1) /\ k - (m + 1) \in 0 .. n
          /\ k \in 0 .. n /\ m <= k
      BY <1>0
    <3>2. Len(u(k - m)) = Len(u(k - (m + 1))) + Len(ss[k - m])
      BY <1>4, <3>1
    <3>3. Len(u(k - m)) <= Len(u(k))
      BY <2>2, <3>1
    <3>4. Len(u(k)) \in Nat /\ Len(u(k - (m + 1))) \in Nat /\ Len(ss[k - m]) \in Nat
      BY <1>1, <1>2, <3>1
    <3> DEFINE a == Len(u(k - (m + 1)))
               b == Len(u(k))
               c == Len(ss[k - m])
    <3>5. a + c <= b /\ a \in Nat /\ b \in Nat /\ c \in Nat
      BY <3>2, <3>3, <3>4
    <3> HIDE DEF a, b, c
    <3>6. a <= b
      BY <3>5
    <3> QED
      BY <3>6 DEF a, b
  <2> HIDE DEF T
  <2>3. Nat \subseteq T
    BY <2>1, <2>2, SetInduction
  <2>4. ASSUME NEW m \in 0 .. (k - 1) PROVE Len(u(m)) <= Len(u(k))
    <3>1. k - m \in Nat /\ k - (k - m) = m /\ k - m <= k
      BY <1>0
    <3> QED
      BY <2>3, <3>1 DEF T
  <2> QED
    BY <2>4
<1>10. ASSUME NEW m \in k .. n
       PROVE  /\ Len(u(k - 1)) + Len(ss[k]) <= Len(u(m))
              /\ \A i \in 1 .. Len(ss[k]) : u(m)[Len(u(k - 1)) + i] = ss[k][i]
  <2>1. Len(u(k)) = Len(u(k - 1)) + Len(ss[k])
        /\ \A i \in 1 .. Len(ss[k]) : u(k)[Len(u(k - 1)) + i] = ss[k][i]
    BY <1>4
  <2>2. Len(u(k - 1)) \in Nat /\ Len(ss[k]) \in Nat
    <3>1. k - 1 \in 0 .. n
      BY <1>0
    <3> QED
      BY <1>1, <1>2, <3>1
  <2>3. \A i \in 1 .. Len(ss[k]) : Len(u(k - 1)) + i \in 1 .. Len(u(k))
    BY <2>1, <2>2
  <2> QED
    BY <1>8, <2>1, <2>3
<1> QED
  BY <1>8, <1>9, <1>10 DEF u, PieceAt, StartsWith

LEMMA SameUpto ==
  ASSUME NEW ss, NEW tt, NEW k, \A i \in 1 .. k : ss[i] = tt[i]
  PROVE  Upto(ss, k) = Upto(tt, k)
<1>1. [i \in 1 .. k |-> ss[i]] = [i \in 1 .. k |-> tt[i]]
  OBVIOUS
<1> QED
  BY <1>1 DEF Upto

LEMMA LenStep ==
  ASSUME NEW X, NEW ss, NEW n, Pieces(ss, n, X)
  PROVE  /\ Len(Upto(ss, 0)) = 0
         /\ \A k \in 0 .. n : Len(Upto(ss, k)) \in Nat
         /\ \A k \in 1 .. n : /\ Len(ss[k]) \in Nat
                              /\ Len(Upto(ss, k)) = Len(Upto(ss, k - 1)) + Len(ss[k])
<1>1. /\ Upto(ss, 0) = <<>>
      /\ \A k \in 0 .. n : Upto(ss, k) \in Seq(X)
      /\ \A k \in 1 .. n : Upto(ss, k) = Upto(ss, k - 1) \o ss[k]
  BY UptoStep
<1>2. \A k \in 0 .. n : Len(Upto(ss, k)) \in Nat
  BY <1>1
<1>3. ASSUME NEW k \in 1 .. n
      PROVE  Len(ss[k]) \in Nat /\ Len(Upto(ss, k)) = Len(Upto(ss, k - 1)) + Len(ss[k])
  <2>1. n \in Nat /\ k - 1 \in 0 .. n /\ ss[k] \in Seq(X)
    BY DEF Pieces
  <2>2. \A a, b \in Seq(X) : Len(a \o b) = Len(a) + Len(b)
    OBVIOUS
  <2>3. Upto(ss, k - 1) \in Seq(X) /\ Upto(ss, k) = Upto(ss, k - 1) \o ss[k]
    BY <1>1, <2>1
  <2>4. Len(Upto(ss, k)) = Len(Upto(ss, k - 1)) + Len(ss[k])
    BY <2>1, <2>2, <2>3
  <2> QED
    BY <2>1, <2>4
<1>4. Len(Upto(ss, 0)) = 0
  BY <1>1
<1> QED
  BY <1>2, <1>3, <1>4

LEMMA SameLengths ==
  ASSUME NEW X, NEW ss, NEW Y, NEW tt, NEW n, Pieces(ss, n, X), Pieces(tt, n, Y),
         \A i \in 1 .. n : Len(ss[i]) = Len(tt[i])
  PROVE  \A k \in 0 .. n : Len(Upto(ss, k)) = Len(Upto(tt, k))
<1>0. n \in Nat
  BY DEF Pieces
<1> DEFINE S == {k \in Nat : k \in 0 .. n => Len(Upto(ss, k)) = Len(Upto(tt, k))}
<1>1. 0 \in S
  BY LenStep
<1>2. ASSUME NEW k \in Nat, k \in S
      PROVE  k + 1 \in S
  <2> SUFFICES ASSUME k + 1 \in 0 .. n
               PROVE  Len(Upto(ss, k + 1)) = Len(Upto(tt, k + 1))
    OBVIOUS
  <2>1. k + 1 \in 1 .. n /\ (k + 1) - 1 = k /\ k \in 0 .. n
    BY <1>0
  <2>2. /\ Len(Upto(ss, k + 1)) = Len(Upto(ss, k)) + Len(ss[k + 1])
        /\ Len(Upto(tt, k + 1)) = Len(Upto(tt, k)) + Len(tt[k + 1])
    <3>1. Len(Upto(ss, k + 1)) = Len(Upto(ss, k)) + Len(ss[k + 1])
      BY <2>1, LenStep
    <3>2. Len(Upto(tt, k + 1)) = Len(Upto(tt, k)) + Len(tt[k + 1])
      BY <2>1, LenStep
    <3> QED
      BY <3>1, <3>2
  <2> QED
    BY <1>2, <2>1, <2>2
<1> HIDE DEF S
<1>3. Nat \subseteq S
  BY <1>1, <1>2, SetInduction
<1> QED
  BY <1>0, <1>3 DEF S

(* Pieces of one length. *)
LEMMA Products ==
  ASSUME NEW j \in Nat, NEW n \in Nat, NEW L \in Nat
  PROVE  /\ j * L \in Nat /\ (j + 1) * L = j * L + L
         /\ j >= 1 => (j - 1) * L + L = j * L /\ (j - 1) * L \in Nat
         /\ j <= n => j * L <= n * L
         /\ 0 * L = 0 /\ 1 * L = L
<1>1. j * L \in Nat /\ (j + 1) * L = j * L + L /\ (j - 1) * L + L = j * L
  OBVIOUS
<1>2. ASSUME j <= n PROVE j * L <= n * L
  <2>1. n - j \in Nat /\ n * L = j * L + (n - j) * L
    BY <1>2
  <2>2. (n - j) * L \in Nat
    BY <2>1
  <2> QED
    BY <1>1, <2>1, <2>2
<1>3. ASSUME j >= 1 PROVE (j - 1) * L \in Nat
  BY <1>3
<1> QED
  BY <1>1, <1>2, <1>3

EqualAt(ss, n, L) ==
  \A j \in 1 .. n, i \in 1 .. L :
    /\ (j - 1) * L + i \in 1 .. n * L
    /\ Upto(ss, n)[(j - 1) * L + i] = ss[j][i]

LEMMA EqualPieces ==
  ASSUME NEW X, NEW ss, NEW n, Pieces(ss, n, X), NEW L \in Nat,
         \A i \in 1 .. n : Len(ss[i]) = L
  PROVE  /\ \A k \in 0 .. n : Len(Upto(ss, k)) = k * L
         /\ EqualAt(ss, n, L)
<1>0. n \in Nat
  BY DEF Pieces
<1> DEFINE S == {k \in Nat : k \in 0 .. n => Len(Upto(ss, k)) = k * L}
<1>1. 0 \in S
  BY LenStep, Products
<1>2. ASSUME NEW k \in Nat, k \in S
      PROVE  k + 1 \in S
  <2> SUFFICES ASSUME k + 1 \in 0 .. n
               PROVE  Len(Upto(ss, k + 1)) = (k + 1) * L
    OBVIOUS
  <2>1. k + 1 \in 1 .. n /\ (k + 1) - 1 = k /\ k \in 0 .. n
    BY <1>0
  <2>2. Len(Upto(ss, k + 1)) = Len(Upto(ss, k)) + L
    BY <2>1, LenStep
  <2>3. Len(Upto(ss, k)) = k * L
    BY <1>2, <2>1
  <2>4. (k + 1) * L = k * L + L
    BY Products
  <2> QED
    BY <2>2, <2>3, <2>4
<1> HIDE DEF S
<1>3. Nat \subseteq S
  BY <1>1, <1>2, SetInduction
<1>4. \A k \in 0 .. n : Len(Upto(ss, k)) = k * L
  BY <1>0, <1>3 DEF S
<1>5. ASSUME NEW j \in 1 .. n, NEW i \in 1 .. L
      PROVE  /\ (j - 1) * L + i \in 1 .. n * L
             /\ Upto(ss, n)[(j - 1) * L + i] = ss[j][i]
  <2>1. j - 1 \in 0 .. n /\ n \in j .. n /\ j \in Nat /\ j >= 1 /\ j <= n
    BY <1>0
  <2>2. Upto(ss, n)[Len(Upto(ss, j - 1)) + i] = ss[j][i]
    <3>1. PieceAt(ss, n, j)
      BY <2>1, UptoAt
    <3>2. Len(ss[j]) = L
      OBVIOUS
    <3> QED
      BY <3>1, <3>2 DEF PieceAt
  <2>3. (j - 1) * L + L = j * L /\ (j - 1) * L \in Nat /\ j * L <= n * L /\ n * L \in Nat
    BY <1>0, <2>1, Products
  <2> DEFINE a == (j - 1) * L
             b == n * L
  <2>4. a + L <= b /\ a \in Nat /\ b \in Nat
    BY <2>3
  <2>5. Upto(ss, n)[a + i] = ss[j][i]
    BY <1>4, <2>1, <2>2
  <2> HIDE DEF a, b
  <2>6. a + i \in 1 .. b
    BY <2>4
  <2> QED
    BY <2>5, <2>6 DEF a, b
<1> QED
  BY <1>4, <1>5 DEF EqualAt

-----------------------------------------------------------------------------
(* The combinations of the tuples of the first k relations. *)
Values == UNION {UNION {SE!Range(Rows[r][k]) : k \in DOMAIN Rows[r]} : r \in DOMAIN Rows}
Names  == UNION {SE!Range(Attrs[r]) : r \in DOMAIN Rows}

Longer(shorter, k) ==
  Concat([j \in DOMAIN shorter |->
            [i \in DOMAIN File(k) |-> Append(shorter[j], File(k)[i])]])
Choosing(u) == u = [k \in 0 .. N |-> IF k = 0 THEN << <<>> >> ELSE Longer(u[k - 1], k)]
Choices     == CHOOSE u : Choosing(u)
Count(k)    == Len(Choices[k])
Size(k)     == Len(File(k))
Picks(k)    == {c \in Seq(Seq(Values)) :
                  Len(c) = k /\ \A s \in 1 .. k : \E i \in 1 .. Size(s) : c[s] = File(s)[i]}

LEMMA SeqMono ==
  ASSUME NEW S, NEW T, S \subseteq T, NEW q \in Seq(S)
  PROVE  q \in Seq(T)
OBVIOUS

LEMMA Files ==
  ASSUME query \in Queries, NEW s \in Scans
  PROVE  /\ Size(s) \in Nat /\ DOMAIN File(s) = 1 .. Size(s)
         /\ \A i \in 1 .. Size(s) :
              /\ File(s)[i] \in Seq(Values)
              /\ Len(File(s)[i]) = Len(Attrs[Relation(s)])
         /\ Attrs[Relation(s)] \in Seq(Names)
<1> DEFINE r == Relation(s)
<1>1. r \in DOMAIN Rows
  <2>1. IsSeq(query.from)
    BY QueriesAssumption
  <2>2. s \in DOMAIN query.from
    BY <2>1 DEF Scans, N, IsSeq
  <2> QED
    BY <2>2, QueriesAssumption DEF Relation
<1> HIDE DEF r
<1>2. IsSeq(Attrs[r]) /\ IsSeq(Rows[r]) /\ \A k \in DOMAIN Rows[r] :
         IsSeq(Rows[r][k]) /\ Len(Rows[r][k]) = Len(Attrs[r])
  BY <1>1, RowsAssumption
<1>3. Len(Rows[r]) \in Nat /\ DOMAIN Rows[r] = 1 .. Len(Rows[r])
  BY <1>2 DEF IsSeq
<1>4. ASSUME NEW k \in DOMAIN Rows[r]
      PROVE  Rows[r][k] \in Seq(Values)
  <2>1. Rows[r][k] \in Seq(SE!Range(Rows[r][k]))
    BY <1>2, <1>4 DEF IsSeq
  <2>2. SE!Range(Rows[r][k]) \subseteq Values
    BY <1>1, <1>4 DEF Values
  <2> QED
    BY <2>1, <2>2, SeqMono
<1>5. Attrs[r] \in Seq(Names)
  <2>1. Attrs[r] \in Seq(SE!Range(Attrs[r])) /\ SE!Range(Attrs[r]) \subseteq Names
    BY <1>1, <1>2 DEF IsSeq, Names
  <2> QED
    BY <2>1, SeqMono
<1> QED
  BY <1>2, <1>3, <1>4, <1>5 DEF Size, File, r

LEMMA ChoicesExist ==
  ASSUME N \in Nat
  PROVE  /\ Choices = [k \in 0 .. N |-> Choices[k]]
         /\ Choices[0] = << <<>> >>
         /\ \A k \in 1 .. N : Choices[k] = Longer(Choices[k - 1], k)
         /\ Combinations = Choices[N]
<1> DEFINE P(n, g) == g = [k \in 0 .. n |-> IF k = 0 THEN << <<>> >> ELSE Longer(g[k - 1], k)]
           S == {n \in Nat : \E g : P(n, g)}
<1>1. 0 \in S
  <2> DEFINE g == [k \in 0 .. 0 |-> << <<>> >>]
  <2>1. P(0, g)
    OBVIOUS
  <2> QED
    BY <2>1
<1>2. ASSUME NEW n \in Nat, n \in S
      PROVE  n + 1 \in S
  <2>1. PICK g : P(n, g)
    BY <1>2
  <2>2. \A k \in 0 .. n : g[k] = IF k = 0 THEN << <<>> >> ELSE Longer(g[k - 1], k)
    BY <2>1
  <2> DEFINE h == [k \in 0 .. (n + 1) |-> IF k = n + 1 THEN Longer(g[n], k) ELSE g[k]]
  <2>3. ASSUME NEW k \in 0 .. (n + 1)
        PROVE  h[k] = IF k = 0 THEN << <<>> >> ELSE Longer(h[k - 1], k)
    <3>1. CASE k = n + 1
      <4>1. h[k] = Longer(g[n], k)
        BY <3>1
      <4>2. k - 1 \in 0 .. (n + 1) /\ k - 1 # n + 1 /\ h[k - 1] = g[n] /\ k # 0
        BY <3>1
      <4> QED
        BY <4>1, <4>2
    <3>2. CASE k # n + 1
      <4>1. h[k] = g[k] /\ k \in 0 .. n
        BY <3>2
      <4>2. k # 0 => k - 1 \in 0 .. (n + 1) /\ k - 1 # n + 1 /\ h[k - 1] = g[k - 1]
        BY <3>2
      <4> HIDE DEF h
      <4> QED
        BY <2>2, <4>1, <4>2
    <3> QED
      BY <3>1, <3>2
  <2>4. h = [k \in 0 .. (n + 1) |-> h[k]]
    OBVIOUS
  <2> HIDE DEF h
  <2>5. P(n + 1, h)
    BY <2>3, <2>4
  <2> QED
    BY <2>5
<1> HIDE DEF S
<1>3. Nat \subseteq S
  BY <1>1, <1>2, SetInduction
<1>4. \E u : Choosing(u)
  BY <1>3 DEF S, Choosing
<1>5. Choosing(Choices)
  BY <1>4 DEF Choices
<1>6. Choices = [k \in 0 .. N |-> IF k = 0 THEN << <<>> >> ELSE Longer(Choices[k - 1], k)]
  BY <1>5 DEF Choosing
<1>7. Combinations = Choices[N]
  BY DEF Combinations, Choices, Choosing, Longer
<1> HIDE DEF Choices
<1>8. \A k \in 0 .. N : Choices[k] = IF k = 0 THEN << <<>> >> ELSE Longer(Choices[k - 1], k)
  BY <1>6
<1>9. Choices[0] = << <<>> >>
  BY <1>8
<1>10. \A k \in 1 .. N : Choices[k] = Longer(Choices[k - 1], k)
  BY <1>8
<1>11. Choices = [k \in 0 .. N |-> Choices[k]]
  BY <1>6
<1> QED
  BY <1>7, <1>9, <1>10, <1>11

LEMMA AppendIs ==
  ASSUME NEW X, NEW c \in Seq(X), NEW x \in X
  PROVE  /\ Append(c, x) \in Seq(X) /\ Len(Append(c, x)) = Len(c) + 1
         /\ \A s \in 1 .. Len(c) : Append(c, x)[s] = c[s]
         /\ Append(c, x)[Len(c) + 1] = x
OBVIOUS

LEMMA OnePick ==
  ASSUME query \in Queries, NEW k \in 1 .. N, NEW c \in Picks(k - 1), NEW i \in 1 .. Size(k)
  PROVE  Append(c, File(k)[i]) \in Picks(k)
<1> DEFINE x == File(k)[i]
           X == Seq(Values)
           d == Append(c, x)
<1>0. N \in Nat
  BY From
<1>1. x \in X
  BY Files DEF Scans
<1>2. c \in Seq(X) /\ Len(c) = k - 1
      /\ \A s \in 1 .. (k - 1) : \E j \in 1 .. Size(s) : c[s] = File(s)[j]
  BY DEF Picks
<1> HIDE DEF X, x
<1>3. /\ d \in Seq(X) /\ Len(d) = Len(c) + 1
      /\ \A s \in 1 .. Len(c) : d[s] = c[s]
      /\ d[Len(c) + 1] = x
  BY <1>1, <1>2, AppendIs
<1> HIDE DEF d
<1>4. Len(d) = k /\ d[k] = x /\ \A s \in 1 .. (k - 1) : d[s] = c[s]
  BY <1>0, <1>2, <1>3
<1>5. ASSUME NEW s \in 1 .. k
      PROVE  \E j \in 1 .. Size(s) : d[s] = File(s)[j]
  <2>1. CASE s = k
    BY <1>4, <2>1 DEF x
  <2>2. CASE s # k
    <3>1. s \in 1 .. (k - 1)
      BY <1>0, <2>2
    <3> QED
      BY <1>2, <1>4, <3>1
  <2> QED
    BY <2>1, <2>2
<1> QED
  BY <1>3, <1>4, <1>5 DEF Picks, X, d, x

LEMMA LongerIs ==
  ASSUME query \in Queries, NEW k \in 1 .. N,
         NEW shorter \in Seq(Picks(k - 1))
  PROVE  /\ Longer(shorter, k) \in Seq(Picks(k))
         /\ Len(Longer(shorter, k)) = Len(shorter) * Size(k)
         /\ \A j \in 1 .. Len(shorter), i \in 1 .. Size(k) :
              Longer(shorter, k)[(j - 1) * Size(k) + i] = Append(shorter[j], File(k)[i])
<1> DEFINE m == Len(shorter)
           L == Size(k)
           X == Picks(k)
           ss == [j \in 1 .. m |-> [i \in 1 .. L |-> Append(shorter[j], File(k)[i])]]
<1>1. L \in Nat /\ DOMAIN File(k) = 1 .. L
  BY Files DEF Scans
<1>2. m \in Nat /\ DOMAIN shorter = 1 .. m /\ \A j \in 1 .. m : shorter[j] \in Picks(k - 1)
  OBVIOUS
<1>3. Longer(shorter, k) = Concat(ss)
  BY <1>1, <1>2 DEF Longer
<1>4. ASSUME NEW j \in 1 .. m
      PROVE  /\ ss[j] \in Seq(X) /\ Len(ss[j]) = L
             /\ \A i \in 1 .. L : ss[j][i] = Append(shorter[j], File(k)[i])
  <2>1. \A i \in 1 .. L : Append(shorter[j], File(k)[i]) \in X
    BY <1>2, OnePick
  <2> HIDE DEF X
  <2>2. ss[j] \in [1 .. L -> X] /\ ss[j] = [i \in 1 .. L |-> Append(shorter[j], File(k)[i])]
    BY <2>1
  <2> HIDE DEF ss, L
  <2>3. ss[j] \in Seq(X) /\ Len(ss[j]) = L
    BY <1>1, <2>2
  <2> QED
    BY <2>2, <2>3
<1>5. ss = [j \in 1 .. m |-> ss[j]] /\ Concat(ss) = Upto(ss, m)
  BY DEF Upto
<1> HIDE DEF ss, X, L, m
<1>6. Pieces(ss, m, X)
  BY <1>2, <1>4 DEF Pieces
<1>7. /\ \A n \in 0 .. m : Len(Upto(ss, n)) = n * L
      /\ \A j \in 1 .. m, i \in 1 .. L : Upto(ss, m)[(j - 1) * L + i] = ss[j][i]
  <2>1. \A i \in 1 .. m : Len(ss[i]) = L
    BY <1>4
  <2>2. L \in Nat
    BY <1>1
  <2>3. \A n \in 0 .. m : Len(Upto(ss, n)) = n * L
    BY <1>6, <2>1, <2>2, EqualPieces
  <2>4. EqualAt(ss, m, L)
    BY <1>6, <2>1, <2>2, EqualPieces
  <2>5. \A j \in 1 .. m, i \in 1 .. L : Upto(ss, m)[(j - 1) * L + i] = ss[j][i]
    BY <2>4 DEF EqualAt
  <2> QED
    BY <2>3, <2>5
<1>8. Upto(ss, m) \in Seq(X)
  <2>1. m \in 0 .. m
    BY <1>2
  <2>2. \A n \in 0 .. m : Upto(ss, n) \in Seq(X)
    BY <1>6, UptoStep
  <2> QED
    BY <2>1, <2>2
<1>9. Len(Upto(ss, m)) = m * L
  <2>1. m \in 0 .. m
    BY <1>2
  <2> QED
    BY <1>7, <2>1
<1>10. Longer(shorter, k) = Upto(ss, m)
  BY <1>3, <1>5
<1>11. \A j \in 1 .. m, i \in 1 .. L :
          Longer(shorter, k)[(j - 1) * L + i] = Append(shorter[j], File(k)[i])
  BY <1>4, <1>7, <1>10
<1>12. Longer(shorter, k) \in Seq(X) /\ Len(Longer(shorter, k)) = m * L
  BY <1>8, <1>9, <1>10
<1> QED
  BY <1>11, <1>12 DEF m, L, X

LEMMA ChoiceTypes ==
  ASSUME query \in Queries
  PROVE  \A k \in 0 .. N : Choices[k] \in Seq(Picks(k))
<1>1. N \in Nat
  BY From
<1> DEFINE S == {k \in Nat : k \in 0 .. N => Choices[k] \in Seq(Picks(k))}
<1>2. 0 \in S
  <2>1. <<>> \in Picks(0)
    BY DEF Picks
  <2>2. << <<>> >> \in Seq(Picks(0))
    BY <2>1
  <2> QED
    BY <1>1, <2>2, ChoicesExist
<1>3. ASSUME NEW k \in Nat, k \in S
      PROVE  k + 1 \in S
  <2> SUFFICES ASSUME k + 1 \in 0 .. N
               PROVE  Choices[k + 1] \in Seq(Picks(k + 1))
    OBVIOUS
  <2>1. k + 1 \in 1 .. N /\ (k + 1) - 1 = k /\ k \in 0 .. N
    BY <1>1
  <2>2. Choices[k + 1] = Longer(Choices[k], k + 1)
    BY <1>1, <2>1, ChoicesExist
  <2>3. Choices[k] \in Seq(Picks((k + 1) - 1))
    BY <1>3, <2>1
  <2> QED
    BY <2>1, <2>2, <2>3, LongerIs
<1> HIDE DEF S
<1>4. Nat \subseteq S
  BY <1>2, <1>3, SetInduction
<1> QED
  BY <1>1, <1>4 DEF S

LEMMA ChoiceStep ==
  ASSUME query \in Queries, NEW k \in 1 .. N
  PROVE  /\ Count(k) \in Nat /\ Count(k - 1) \in Nat /\ Size(k) \in Nat
         /\ Count(k) = Count(k - 1) * Size(k)
         /\ \A j \in 1 .. Count(k - 1), i \in 1 .. Size(k) :
              /\ (j - 1) * Size(k) + i \in 1 .. Count(k)
              /\ Choices[k][(j - 1) * Size(k) + i] = Append(Choices[k - 1][j], File(k)[i])
<1>1. N \in Nat
  BY From
<1>2. k \in 0 .. N /\ k - 1 \in 0 .. N
  BY <1>1
<1>3. Choices[k] \in Seq(Picks(k)) /\ Choices[k - 1] \in Seq(Picks(k - 1))
  BY <1>2, ChoiceTypes
<1>4. Choices[k] = Longer(Choices[k - 1], k)
  BY <1>1, ChoicesExist
<1>5. Count(k) \in Nat /\ Count(k - 1) \in Nat
  BY <1>3 DEF Count
<1>6. Size(k) \in Nat
  BY Files DEF Scans
<1>7. /\ Count(k) = Count(k - 1) * Size(k)
      /\ \A j \in 1 .. Count(k - 1), i \in 1 .. Size(k) :
           Choices[k][(j - 1) * Size(k) + i] = Append(Choices[k - 1][j], File(k)[i])
  BY <1>3, <1>4, LongerIs DEF Count
<1> DEFINE m == Count(k - 1)
           L == Size(k)
<1>8. ASSUME NEW j \in 1 .. m, NEW i \in 1 .. L
      PROVE  (j - 1) * L + i \in 1 .. m * L
  <2>0. m \in Nat /\ L \in Nat
    BY <1>5, <1>6
  <2> HIDE DEF m, L
  <2>1. j \in Nat /\ j >= 1 /\ j <= m
    BY <2>0
  <2>2. (j - 1) * L + L = j * L /\ (j - 1) * L \in Nat /\ j * L <= m * L /\ m * L \in Nat
    BY <2>0, <2>1, Products
  <2> DEFINE a == (j - 1) * L
             b == m * L
  <2>3. a + L <= b /\ a \in Nat /\ b \in Nat
    BY <2>2
  <2> HIDE DEF a, b
  <2>4. a + i \in 1 .. b
    BY <2>0, <2>3
  <2> QED
    BY <2>4 DEF a, b
<1> QED
  BY <1>5, <1>6, <1>7, <1>8

(* The tuple a chain of joins makes of a combination. *)
Whole(k, n) == Concat(Choices[k][n])

LEMMA PickWhole ==
  ASSUME query \in Queries, NEW k \in 0 .. N, NEW c \in Picks(k)
  PROVE  /\ Pieces(c, k, Values) /\ c = [s \in 1 .. k |-> c[s]]
         /\ Concat(c) = Upto(c, k) /\ Concat(c) \in Seq(Values)
<1>1. c \in Seq(Seq(Values)) /\ Len(c) = k /\ k \in Nat
  BY From DEF Picks
<1> DEFINE X == Seq(Values)
<1>2. c \in Seq(X) /\ Len(c) = k
  BY <1>1
<1> HIDE DEF X
<1>3. c = [s \in 1 .. k |-> c[s]] /\ \A s \in 1 .. k : c[s] \in X
  BY <1>1, <1>2
<1>4. Pieces(c, k, Values)
  BY <1>1, <1>3 DEF Pieces, X
<1>5. Concat(c) = Upto(c, k)
  BY <1>3 DEF Upto
<1>6. Upto(c, k) \in Seq(Values)
  <2>1. k \in 0 .. k
    BY <1>1
  <2>2. \A n \in 0 .. k : Upto(c, n) \in Seq(Values)
    BY <1>4, UptoStep
  <2> QED
    BY <2>1, <2>2
<1> QED
  BY <1>3, <1>4, <1>5, <1>6

LEMMA Wholes ==
  ASSUME query \in Queries
  PROVE  /\ Count(1) = Size(1)
         /\ \A n \in 1 .. Size(1) : Whole(1, n) = File(1)[n]
         /\ \A k \in 2 .. N : \A j \in 1 .. Count(k - 1), i \in 1 .. Size(k) :
              Whole(k, (j - 1) * Size(k) + i) = Whole(k - 1, j) \o File(k)[i]
         /\ \A k \in 1 .. N : \A n \in 1 .. Count(k) :
              Choices[k][n] \in Picks(k) /\ Whole(k, n) \in Seq(Values)
<1>1. N \in Nat /\ N >= 1 /\ 1 \in 1 .. N
  BY From
<1>2. \A k \in 0 .. N : Choices[k] \in Seq(Picks(k))
  BY ChoiceTypes
<1>3. \A k \in 0 .. N : \A n \in 1 .. Count(k) : Choices[k][n] \in Picks(k)
  BY <1>2 DEF Count
<1>4. Count(0) = 1 /\ Choices[0][1] = <<>>
  <2>1. Choices[0] = << <<>> >>
    BY <1>1, ChoicesExist
  <2> QED
    BY <2>1 DEF Count
<1>5. Count(1) = Size(1) /\ Size(1) \in Nat
  <2>1. Count(1) = Count(1 - 1) * Size(1) /\ Size(1) \in Nat
    BY <1>1, ChoiceStep
  <2> QED
    BY <1>4, <2>1
<1>6. ASSUME NEW n \in 1 .. Size(1)
      PROVE  Whole(1, n) = File(1)[n]
  <2>1. Choices[1][(1 - 1) * Size(1) + n] = Append(Choices[1 - 1][1], File(1)[n])
    <3>1. 1 \in 1 .. Count(1 - 1)
      BY <1>4
    <3> QED
      BY <1>1, <3>1, ChoiceStep
  <2>2. Choices[1][n] = Append(<<>>, File(1)[n])
    <3>1. (1 - 1) * Size(1) + n = n
      BY <1>5
    <3> QED
      BY <1>4, <2>1, <3>1
  <2>3. Len(Choices[1][n]) = 1 /\ Choices[1][n][1] = File(1)[n]
    BY <2>2
  <2>4. Choices[1][n] \in Picks(1) /\ 1 \in 0 .. N
    BY <1>1, <1>3, <1>5
  <2>5. Whole(1, n) = Upto(Choices[1][n], 1)
    BY <2>4, PickWhole DEF Whole
  <2>6. Upto(Choices[1][n], 0 + 1) = Choices[1][n][1]
    BY UptoRaw
  <2> QED
    BY <2>3, <2>5, <2>6
<1>7. ASSUME NEW k \in 2 .. N, NEW j \in 1 .. Count(k - 1), NEW i \in 1 .. Size(k)
      PROVE  Whole(k, (j - 1) * Size(k) + i) = Whole(k - 1, j) \o File(k)[i]
  <2> DEFINE n == (j - 1) * Size(k) + i
             c == Choices[k - 1][j]
             d == Choices[k][n]
             x == File(k)[i]
  <2>1. k \in 1 .. N /\ k - 1 \in 0 .. N /\ k \in 0 .. N /\ k - 1 \in Nat /\ k \in Nat
    BY <1>1
  <2>2. n \in 1 .. Count(k) /\ d = Append(c, x)
    BY <2>1, ChoiceStep
  <2>3. c \in Picks(k - 1) /\ d \in Picks(k)
    BY <1>3, <2>1, <2>2
  <2>4. x \in Seq(Values)
    BY <2>1, Files DEF Scans
  <2>5. Whole(k, n) = Concat(d) /\ Whole(k - 1, j) = Concat(c)
    BY DEF Whole
  <2> HIDE DEF n, c, d, x
  <2>6. Concat(d) = Upto(d, k) /\ Concat(c) = Upto(c, k - 1) /\ Pieces(d, k, Values)
    BY <2>1, <2>3, PickWhole
  <2>7. Upto(d, k) = Upto(d, k - 1) \o d[k]
    <3>1. k \in 1 .. k
      BY <2>1
    <3> QED
      BY <2>6, <3>1, UptoStep
  <2>8. d[k] = x /\ \A s \in 1 .. (k - 1) : d[s] = c[s]
    <3> DEFINE X == Seq(Values)
    <3>1. c \in Seq(X) /\ Len(c) = k - 1 /\ x \in X
      BY <2>3, <2>4 DEF Picks
    <3> HIDE DEF X
    <3>2. /\ \A s \in 1 .. Len(c) : Append(c, x)[s] = c[s]
          /\ Append(c, x)[Len(c) + 1] = x
      BY <3>1, AppendIs
    <3>3. (k - 1) + 1 = k
      BY <2>1
    <3> QED
      BY <2>2, <3>1, <3>2, <3>3
  <2>9. Upto(d, k - 1) = Upto(c, k - 1)
    BY <2>8, SameUpto
  <2> QED
    BY <2>5, <2>6, <2>7, <2>8, <2>9 DEF n, x
<1>8. ASSUME NEW k \in 1 .. N, NEW n \in 1 .. Count(k)
      PROVE  Choices[k][n] \in Picks(k) /\ Whole(k, n) \in Seq(Values)
  <2>1. k \in 0 .. N
    OBVIOUS
  <2>2. Choices[k][n] \in Picks(k)
    BY <1>3, <2>1
  <2> QED
    BY <2>1, <2>2, PickWhole DEF Whole
<1> QED
  BY <1>5, <1>6, <1>7, <1>8

-----------------------------------------------------------------------------
(* Where the attribute of a name is in the tuple of a combination. *)
Placed(h, ref)  == [ret |-> 1, tuple |-> 0, pos |-> Width(h - 1) + PosByName(h, ref.name)]
PlacedInJoin(h, ref) == [ret |-> 1, tuple |-> h - 1, pos |-> PosByName(h, ref.name)]

AllAttrs == [s \in Scans |-> Attrs[Relation(s)]]

LEMMA Widths ==
  ASSUME query \in Queries
  PROVE  /\ Pieces(AllAttrs, N, Names)
         /\ Width(0) = 0
         /\ \A k \in 0 .. N : Width(k) = Len(Upto(AllAttrs, k)) /\ Width(k) \in Nat
<1>1. N \in Nat /\ Scans = 1 .. N
  BY From DEF Scans
<1>2. \A s \in 1 .. N : AllAttrs[s] = Attrs[Relation(s)] /\ AllAttrs[s] \in Seq(Names)
  BY <1>1, Files DEF AllAttrs
<1>3. Pieces(AllAttrs, N, Names)
  BY <1>1, <1>2 DEF Pieces
<1>4. ASSUME NEW k \in 0 .. N
      PROVE  Width(k) = Len(Upto(AllAttrs, k))
  <2>1. \A s \in 1 .. k : Attrs[Relation(s)] = AllAttrs[s]
    BY <1>1, <1>2
  <2>2. [s \in 1 .. k |-> Attrs[Relation(s)]] = [s \in 1 .. k |-> AllAttrs[s]]
    BY <2>1
  <2> QED
    BY <2>2 DEF Width, Upto
<1>5. /\ Len(Upto(AllAttrs, 0)) = 0
      /\ \A k \in 0 .. N : Len(Upto(AllAttrs, k)) \in Nat
  BY <1>3, LenStep
<1>6. Width(0) = 0
  BY <1>1, <1>4, <1>5
<1> QED
  BY <1>3, <1>4, <1>5, <1>6

LEMMA Positions ==
  ASSUME query \in Queries, NEW s \in Scans, NEW name, Has(s, name)
  PROVE  /\ PosByName(s, name) \in Nat
         /\ PosByName(s, name) + 1 \in 1 .. Len(Attrs[Relation(s)])
<1> DEFINE a == Attrs[Relation(s)]
<1>1. a \in Seq(Names)
  BY Files
<1>2. \E p \in DOMAIN a : a[p] = name
  BY DEF Has, SE!Range
<1> DEFINE q == CHOOSE p \in DOMAIN a : a[p] = name
<1>3. q \in DOMAIN a
  BY <1>2
<1>4. PosByName(s, name) = q - 1
  BY DEF PosByName
<1> HIDE DEF a, q
<1>5. q \in 1 .. Len(a) /\ Len(a) \in Nat
  BY <1>1, <1>3
<1> QED
  BY <1>4, <1>5 DEF a

LEMMA LeafIs ==
  ASSUME query \in Queries, NEW ref, NEW s \in Scans, Leaf(ref, s).ret = 1
  PROVE  /\ Leaf(ref, s) = [ret |-> 1, tuple |-> 0, pos |-> PosByName(s, ref.name)]
         /\ s \in Holders(ref) /\ Has(s, ref.name)
         /\ PosByName(s, ref.name) \in Nat
<1>1. ~Ambiguous(ref) /\ Answers(ref, s) /\ Has(s, ref.name)
  BY LeafRet
<1>2. Leaf(ref, s) = [ret |-> 1, tuple |-> 0, pos |-> PosByName(s, ref.name)]
  BY <1>1 DEF Leaf, Answers
<1> QED
  BY <1>1, <1>2, Positions DEF Holders, Answers

LEMMA Located ==
  ASSUME query \in Queries, NEW ref, NEW e \in Nat, e >= N, NEW d \in Nat, d + e > N,
         SetupAttribute(ref, e, d).ret = 1
  PROVE  \E h \in Scans : Holders(ref) = {h} /\ SetupAttribute(ref, e, d) = Placed(h, ref)
<1>1. N \in Nat \ {0} /\ Scans = 1 .. N /\ Op(1) = "SCAN" /\ 1 \in Scans
  BY From DEF Scans
<1>2. PICK at : /\ SetupAttribute(ref, e, d) = at[e]
                /\ \A k \in 1 .. e : at[k] = Body(ref, e, d, at[k - 1], k)
  BY LookupIs
<1> DEFINE Good(x) == x.ret = 1 => \E h \in Scans : h \in Holders(ref) /\ x = Placed(h, ref)
           S == {n \in Nat : n \in 1 .. e => Outcome(at[n]) /\ Good(at[n])}
<1>3. 0 \in S
  OBVIOUS
<1>4. ASSUME NEW n \in Nat, n \in S
      PROVE  n + 1 \in S
  <2> DEFINE k == n + 1
  <2> SUFFICES ASSUME k \in 1 .. e
               PROVE  Outcome(at[k]) /\ Good(at[k])
    OBVIOUS
  <2>1. k \in Nat \ {0} /\ k - 1 = n
    OBVIOUS
  <2>2. at[k] = Body(ref, e, d, at[n], k)
    BY <1>2, <2>1
  <2>3. k = 1 \/ (Outcome(at[n]) /\ Good(at[n]))
    BY <1>4
  <2>4. /\ Outcome(at[k])
        /\ at[k].ret = IF k = 1 THEN Leaf(ref, k).ret
                       ELSE IF k > N \/ at[n].ret # 0 THEN at[n].ret
                       ELSE Leaf(ref, k).ret
    BY <2>1, <2>2, <2>3, BodyRet
  <2> HIDE DEF S
  <2>5. Good(at[k])
    <3> SUFFICES ASSUME at[k].ret = 1
                 PROVE  \E h \in Scans : h \in Holders(ref) /\ at[k] = Placed(h, ref)
      OBVIOUS
    <3> HIDE DEF k
    <3>1. CASE k = 1
      <4>1. at[k] = Leaf(ref, 1)
        BY <1>1, <2>2, <3>1 DEF Body
      <4>2. /\ Leaf(ref, 1) = [ret |-> 1, tuple |-> 0, pos |-> PosByName(1, ref.name)]
            /\ 1 \in Holders(ref) /\ PosByName(1, ref.name) \in Nat
        BY <1>1, <3>1, <4>1, LeafIs
      <4>3. Width(1 - 1) + PosByName(1, ref.name) = PosByName(1, ref.name)
        BY <4>2, Widths
      <4>4. at[k] = Placed(1, ref)
        BY <4>1, <4>2, <4>3 DEF Placed
      <4> QED
        BY <1>1, <4>2, <4>4
    <3>2. CASE k # 1 /\ k <= N
      <4>1. Op(k) = "NTJOIN"
        BY <1>1, <2>1, <3>2 DEF Op
      <4>2. at[k] = IF at[n].ret # 0 THEN at[n] ELSE OnRight(Leaf(ref, k), k, d + e - k)
        BY <2>2, <4>1 DEF Body
      <4>3. CASE at[n].ret # 0
        BY <2>3, <3>2, <4>2, <4>3
      <4>4. CASE at[n].ret = 0
        <5>1. k \in Scans
          BY <1>1, <2>1, <3>2
        <5>2. Leaf(ref, k).ret = 1
          BY <2>1, <2>4, <3>2, <4>4
        <5>3. /\ Leaf(ref, k) = [ret |-> 1, tuple |-> 0, pos |-> PosByName(k, ref.name)]
              /\ k \in Holders(ref) /\ PosByName(k, ref.name) \in Nat
          BY <5>1, <5>2, LeafIs
        <5>4. d + e - k > 0
          BY <1>1, <2>1, <3>2
        <5>5. OnRight(Leaf(ref, k), k, d + e - k) =
                [Leaf(ref, k) EXCEPT !.pos = @ + Width(k - 1)]
          BY <5>2, <5>4 DEF OnRight
        <5>6. [Leaf(ref, k) EXCEPT !.pos = @ + Width(k - 1)] =
                [ret |-> 1, tuple |-> 0, pos |-> PosByName(k, ref.name) + Width(k - 1)]
          BY <5>3
        <5>7. Width(k - 1) \in Nat
          <6>1. k - 1 \in 0 .. N
            BY <1>1, <5>1
          <6> QED
            BY <6>1, Widths
        <5>8. PosByName(k, ref.name) + Width(k - 1) = Width(k - 1) + PosByName(k, ref.name)
          BY <5>3, <5>7
        <5>9. at[k] = Placed(k, ref)
          BY <4>2, <4>4, <5>5, <5>6, <5>8 DEF Placed
        <5> QED
          BY <5>1, <5>3, <5>9
      <4> QED
        BY <4>3, <4>4
    <3>3. CASE k > N
      <4>1. k # 1 /\ Op(k) \notin {"SCAN", "NTJOIN"}
        BY <1>1, <2>1, <3>3 DEF Op
      <4>2. at[k] = [at[n] EXCEPT !.tuple = 0]
        BY <2>2, <4>1 DEF Body
      <4>3. at[n].ret = 1
        BY <2>4, <3>3, <4>1
      <4>4. PICK h \in Scans : h \in Holders(ref) /\ at[n] = Placed(h, ref)
        BY <2>3, <4>1, <4>3
      <4>5. [Placed(h, ref) EXCEPT !.tuple = 0] = Placed(h, ref)
        BY DEF Placed
      <4> QED
        BY <4>2, <4>4, <4>5
    <3> QED
      BY <1>1, <2>1, <3>1, <3>2, <3>3
  <2> QED
    BY <2>4, <2>5
<1> HIDE DEF S
<1>5. Nat \subseteq S
  BY <1>3, <1>4, SetInduction
<1>6. e \in 1 .. e
  BY <1>1
<1>7. PICK g \in Scans : g \in Holders(ref) /\ SetupAttribute(ref, e, d) = Placed(g, ref)
  BY <1>2, <1>5, <1>6 DEF S
<1>8. PICK h : Holders(ref) = {h}
  BY FoundIsNamed, OneHolder
<1> QED
  BY <1>7, <1>8

LEMMA LocatedInJoin ==
  ASSUME query \in Queries, N = 2, NEW ref, SetupAttribute(ref, N, 0).ret = 1
  PROVE  \E h \in Scans :
            Holders(ref) = {h} /\ SetupAttribute(ref, N, 0) = PlacedInJoin(h, ref)
<1>1. Scans = 1 .. 2 /\ Op(1) = "SCAN" /\ Op(2) = "NTJOIN"
  BY From DEF Scans, Op
<1>2. PICK at : /\ SetupAttribute(ref, 2, 0) = at[2]
                /\ \A k \in 1 .. 2 : at[k] = Body(ref, 2, 0, at[k - 1], k)
  BY LookupIs
<1>3. at[1] = Leaf(ref, 1)
  BY <1>1, <1>2 DEF Body
<1>4. at[2] = Body(ref, 2, 0, at[1], 2)
  <2>1. 2 - 1 = 1 /\ 2 \in 1 .. 2
    OBVIOUS
  <2>2. at[2] = Body(ref, 2, 0, at[2 - 1], 2)
    BY <1>2, <2>1
  <2> QED
    BY <2>1, <2>2
<1>5. at[2] = IF at[1].ret # 0 THEN at[1] ELSE OnRight(Leaf(ref, 2), 2, 0)
  <2>1. 0 + 2 - 2 = 0
    OBVIOUS
  <2> QED
    BY <1>1, <1>4, <2>1 DEF Body
<1>6. at[2].ret = 1
  BY <1>2
<1>7. \E g \in Scans : g \in Holders(ref) /\ at[2] = PlacedInJoin(g, ref)
  <2>1. CASE at[1].ret # 0
    <3>1. Leaf(ref, 1).ret = 1 /\ at[2] = Leaf(ref, 1)
      BY <1>3, <1>5, <1>6, <2>1
    <3>2. /\ Leaf(ref, 1) = [ret |-> 1, tuple |-> 0, pos |-> PosByName(1, ref.name)]
          /\ 1 \in Holders(ref)
      BY <1>1, <3>1, LeafIs
    <3>3. at[2] = PlacedInJoin(1, ref)
      BY <3>1, <3>2 DEF PlacedInJoin
    <3> QED
      BY <1>1, <3>2, <3>3
  <2>2. CASE at[1].ret = 0
    <3>1. at[2] = OnRight(Leaf(ref, 2), 2, 0)
      BY <1>5, <2>2
    <3>2. Leaf(ref, 2).ret = 1
      BY <1>6, <3>1 DEF OnRight
    <3>3. /\ Leaf(ref, 2) = [ret |-> 1, tuple |-> 0, pos |-> PosByName(2, ref.name)]
          /\ 2 \in Holders(ref)
      BY <1>1, <3>2, LeafIs
    <3>4. at[2] = [Leaf(ref, 2) EXCEPT !.tuple = 1]
      BY <3>1, <3>2 DEF OnRight
    <3>5. at[2] = PlacedInJoin(2, ref)
      BY <3>3, <3>4 DEF PlacedInJoin
    <3> QED
      BY <1>1, <3>3, <3>5
  <2> QED
    BY <2>1, <2>2
<1>8. PICK h : Holders(ref) = {h}
  <2>1. N \in Nat /\ N >= N
    BY From
  <2>2. Named(ref)
    BY <2>1, FoundIsNamed
  <2> QED
    BY <2>2, OneHolder
<1> QED
  BY <1>2, <1>7, <1>8

-----------------------------------------------------------------------------
(* What is evaluated on the tuples is what is meant of the combination. *)
LEMMA PickAt ==
  ASSUME query \in Queries, NEW c \in Picks(N), NEW h \in Scans
  PROVE  /\ c[h] \in Seq(Values) /\ Len(c[h]) = Len(Attrs[Relation(h)])
         /\ Width(h - 1) \in Nat /\ Width(h) = Width(h - 1) + Len(c[h])
         /\ Width(h) <= Len(Concat(c)) /\ Concat(c) \in Seq(Values)
         /\ \A i \in 1 .. Len(c[h]) : Concat(c)[Width(h - 1) + i] = c[h][i]
<1>1. N \in Nat /\ Scans = 1 .. N /\ h \in 1 .. N
  BY From DEF Scans
<1>2. /\ Pieces(c, N, Values) /\ Concat(c) = Upto(c, N) /\ Concat(c) \in Seq(Values)
  <2>1. N \in 0 .. N
    BY <1>1
  <2> QED
    BY <2>1, PickWhole
<1>3. ASSUME NEW s \in 1 .. N
      PROVE  c[s] \in Seq(Values) /\ Len(c[s]) = Len(AllAttrs[s])
             /\ AllAttrs[s] = Attrs[Relation(s)]
  <2>1. PICK i \in 1 .. Size(s) : c[s] = File(s)[i]
    BY DEF Picks
  <2>2. s \in Scans
    BY <1>1
  <2> QED
    BY <2>1, <2>2, Files DEF AllAttrs
<1>4. Pieces(AllAttrs, N, Names) /\ \A k \in 0 .. N : Width(k) = Len(Upto(AllAttrs, k))
  BY Widths
<1>5. \A k \in 0 .. N : Len(Upto(c, k)) = Len(Upto(AllAttrs, k))
  <2>1. \A s \in 1 .. N : Len(c[s]) = Len(AllAttrs[s])
    BY <1>3
  <2> QED
    BY <1>2, <1>4, <2>1, SameLengths
<1>6. h - 1 \in 0 .. N /\ h \in 0 .. N /\ N \in h .. N
  BY <1>1
<1>7. Width(h - 1) = Len(Upto(c, h - 1)) /\ Width(h) = Len(Upto(c, h))
  BY <1>4, <1>5, <1>6
<1>8. PieceAt(c, N, h)
  BY <1>1, <1>2, <1>6, UptoAt
<1>9. Len(Upto(c, h - 1)) + Len(c[h]) <= Len(Upto(c, N))
  BY <1>1, <1>2, <1>6, UptoAt
<1>10. Len(Upto(c, h)) = Len(Upto(c, h - 1)) + Len(c[h]) /\ Len(Upto(c, h - 1)) \in Nat
  BY <1>1, <1>2, <1>6, LenStep
<1> QED
  BY <1>1, <1>2, <1>3, <1>7, <1>8, <1>9, <1>10 DEF PieceAt

RightAt(at, refs) ==
  \A ref \in refs : \E h \in Scans : Holders(ref) = {h} /\ at[ref] = Placed(h, ref)
RightInJoin(at, refs) ==
  \A ref \in refs : \E h \in Scans : Holders(ref) = {h} /\ at[ref] = PlacedInJoin(h, ref)

LEMMA MeantIs ==
  ASSUME query \in Queries, NEW o, o.kind = "attr", NEW h \in Scans, Holders(o) = {h}, NEW c
  PROVE  Meant(o, c) = c[h][PosByName(h, o.name) + 1]
<1>1. (CHOOSE s \in Scans : s \in Holders(o)) = h
  OBVIOUS
<1> QED
  BY <1>1 DEF Meant

LEMMA ValueIs ==
  ASSUME query \in Queries, NEW c \in Picks(N), NEW at, NEW o, NEW refs,
         o.kind = "attr" => o \in refs, RightAt(at, refs)
  PROVE  Value(o, at, <<Concat(c)>>) = Meant(o, c)
<1>1. CASE o.kind # "attr"
  BY <1>1 DEF Value, Meant
<1>2. CASE o.kind = "attr"
  <2>1. PICK h \in Scans : Holders(o) = {h} /\ at[o] = Placed(h, o)
    BY <1>2 DEF RightAt
  <2> DEFINE q == PosByName(h, o.name)
             w == Width(h - 1)
             t == Concat(c)
  <2>2. Has(h, o.name)
    BY <2>1 DEF Holders
  <2>3. q \in Nat /\ q + 1 \in 1 .. Len(Attrs[Relation(h)])
    BY <2>2, Positions
  <2>4. w \in Nat /\ \A i \in 1 .. Len(Attrs[Relation(h)]) : t[w + i] = c[h][i]
    BY PickAt
  <2>5. Value(o, at, <<t>>) = t[w + q + 1]
    <3>1. at[o].tuple = 0 /\ at[o].pos = w + q
      BY <2>1 DEF Placed
    <3> HIDE DEF t, w, q
    <3>2. at[o].tuple + 1 = 1 /\ <<t>>[1] = t
      BY <3>1
    <3> QED
      BY <1>2, <3>1, <3>2 DEF Value
  <2>6. Meant(o, c) = c[h][q + 1]
    BY <1>2, <2>1, MeantIs
  <2> HIDE DEF q, w, t
  <2>7. w + q + 1 = w + (q + 1)
    BY <2>3, <2>4
  <2> QED
    BY <2>3, <2>4, <2>5, <2>6, <2>7 DEF t
<1> QED
  BY <1>1, <1>2

LEMMA ValueInJoin ==
  ASSUME query \in Queries, N = 2, NEW c, NEW at, NEW o, NEW refs,
         o.kind = "attr" => o \in refs, RightInJoin(at, refs)
  PROVE  Value(o, at, <<c[1], c[2]>>) = Meant(o, c)
<1>1. CASE o.kind # "attr"
  BY <1>1 DEF Value, Meant
<1>2. CASE o.kind = "attr"
  <2>1. PICK h \in Scans : Holders(o) = {h} /\ at[o] = PlacedInJoin(h, o)
    BY <1>2 DEF RightInJoin
  <2>2. at[o].tuple = h - 1 /\ at[o].pos = PosByName(h, o.name)
    BY <2>1 DEF PlacedInJoin
  <2>3. h \in {1, 2}
    BY DEF Scans
  <2>4. (h - 1) + 1 = h /\ <<c[1], c[2]>>[h] = c[h]
    BY <2>3
  <2>5. Meant(o, c) = c[h][PosByName(h, o.name) + 1]
    BY <1>2, <2>1, MeantIs
  <2> QED
    BY <1>2, <2>2, <2>4, <2>5 DEF Value
<1> QED
  BY <1>1, <1>2

LEMMA InCond ==
  ASSUME NEW k \in DOMAIN query.where, NEW o \in {query.where[k].l, query.where[k].r},
         o.kind = "attr"
  PROVE  o \in CondRefs
BY DEF CondRefs, RefsIn

LEMMA PassesWhole ==
  ASSUME query \in Queries, NEW c \in Picks(N), RightAt(condAt, CondRefs)
  PROVE  Passes(<<Concat(c)>>) <=> Satisfies(c)
<1>1. ASSUME NEW k \in DOMAIN query.where
      PROVE  /\ Value(query.where[k].l, condAt, <<Concat(c)>>) = Meant(query.where[k].l, c)
             /\ Value(query.where[k].r, condAt, <<Concat(c)>>) = Meant(query.where[k].r, c)
  <2>1. \A o \in {query.where[k].l, query.where[k].r} : o.kind = "attr" => o \in CondRefs
    BY InCond
  <2> QED
    BY <2>1, ValueIs
<1> QED
  BY <1>1 DEF Passes, Satisfies

LEMMA PassesInJoin ==
  ASSUME query \in Queries, N = 2, NEW c, RightInJoin(condAt, CondRefs)
  PROVE  Passes(<<c[1], c[2]>>) <=> Satisfies(c)
<1>1. ASSUME NEW k \in DOMAIN query.where
      PROVE  /\ Value(query.where[k].l, condAt, <<c[1], c[2]>>) = Meant(query.where[k].l, c)
             /\ Value(query.where[k].r, condAt, <<c[1], c[2]>>) = Meant(query.where[k].r, c)
  <2>1. \A o \in {query.where[k].l, query.where[k].r} : o.kind = "attr" => o \in CondRefs
    BY InCond
  <2> QED
    BY <2>1, ValueInJoin
<1> QED
  BY <1>1 DEF Passes, Satisfies

LEMMA InItems ==
  ASSUME query \in Queries, NEW i \in DOMAIN query.items, query.items[i].kind = "sum",
         NEW j \in DOMAIN query.items[i].operands, query.items[i].operands[j].kind = "attr"
  PROVE  query.items[i].operands[j] \in ItemRefs
<1>1. query.items[i].operands[j] \in SE!Range(query.items[i].operands)
  BY DEF SE!Range
<1>2. i \in Expressions
  BY DEF Expressions
<1> QED
  BY <1>1, <1>2 DEF ItemRefs, RefsIn

LEMMA TakeIs ==
  ASSUME query \in Queries, NEW c \in Picks(N), RightAt(itemAt, ItemRefs),
         NEW i \in DOMAIN query.items
  PROVE  Take(query.items[i], Concat(c)) = ItemMeant(query.items[i], c)
<1> DEFINE it == query.items[i]
<1>1. \/ it.kind = "*"
      \/ it.kind = "T.*" /\ \E s \in DOMAIN query.from : query.from[s].alias = it.table
      \/ it.kind = "sum" /\ IsSeq(it.operands)
  BY QueriesAssumption
<1>2. CASE it.kind = "*"
  BY <1>2 DEF Take, ItemMeant
<1>3. CASE it.kind = "T.*"
  <2>1. \E s \in Scans : Alias(s) = it.table
    <3>1. DOMAIN query.from = Scans
      BY QueriesAssumption DEF Scans, N, IsSeq
    <3> QED
      BY <1>1, <1>3, <3>1 DEF Alias
  <2> DEFINE s == CHOOSE s \in Scans : Alias(s) = it.table
             t == Concat(c)
             w == Width(s - 1)
             v == Width(s)
  <2>2. s \in Scans
    BY <2>1
  <2>3. /\ c[s] \in Seq(Values) /\ w \in Nat /\ v = w + Len(c[s])
        /\ v <= Len(t) /\ t \in Seq(Values)
        /\ \A j \in 1 .. Len(c[s]) : t[w + j] = c[s][j]
    BY <2>2, PickAt
  <2>4. Take(it, t) = SubSeq(t, w + 1, v)
    BY <1>3 DEF Take, Firsts
  <2>5. ItemMeant(it, c) = c[s]
    BY <1>3 DEF ItemMeant
  <2> DEFINE z == c[s]
  <2>6. /\ z \in Seq(Values) /\ w \in Nat /\ v = w + Len(z) /\ v <= Len(t)
        /\ t \in Seq(Values) /\ \A j \in 1 .. Len(z) : t[w + j] = z[j]
    BY <2>3
  <2> HIDE DEF s, t, w, v, z
  <2>7. SubSeq(t, w + 1, v) = z
    <3>1. Len(z) \in Nat /\ z = [j \in 1 .. Len(z) |-> z[j]]
      BY <2>6
    <3>2. SubSeq(t, w + 1, v) = [j \in 1 .. Len(z) |-> t[w + j]]
      BY <2>6, <3>1
    <3> QED
      BY <2>6, <3>1, <3>2
  <2> QED
    BY <2>4, <2>5, <2>7 DEF z, t
<1>4. CASE it.kind = "sum"
  <2>1. it.kind \notin {"*", "T.*"}
    BY <1>4
  <2> DEFINE os == it.operands
             v == [j \in DOMAIN os |-> Value(os[j], itemAt, <<Concat(c)>>)]
             u == [j \in DOMAIN os |-> Meant(os[j], c)]
  <2>2. ASSUME NEW j \in DOMAIN os
        PROVE  Value(os[j], itemAt, <<Concat(c)>>) = Meant(os[j], c)
    <3>1. os[j].kind = "attr" => os[j] \in ItemRefs
      BY <1>4, InItems
    <3> QED
      BY <3>1, ValueIs
  <2>3. v = u
    BY <2>2
  <2>4. Take(it, Concat(c)) = <<Sum(os, itemAt, <<Concat(c)>>)>>
    BY <2>1 DEF Take
  <2> HIDE DEF it
  <2>5. ItemMeant(it, c) = <<IF \E j \in DOMAIN u : u[j] = NULL THEN NULL
                             ELSE IF Len(u) = 1 THEN u[1] ELSE u[1] + u[2]>>
    BY <2>1, Zenon DEF ItemMeant
  <2>6. Sum(os, itemAt, <<Concat(c)>>) =
          IF \E j \in DOMAIN v : v[j] = NULL THEN NULL
          ELSE IF Len(v) = 1 THEN v[1] ELSE v[1] + v[2]
    BY Zenon DEF Sum
  <2> HIDE DEF u, v
  <2> QED
    BY <2>3, <2>4, <2>5, <2>6 DEF it
<1> QED
  BY <1>1, <1>2, <1>3, <1>4

LEMMA ProjectedIs ==
  ASSUME query \in Queries, NEW c \in Picks(N), RightAt(itemAt, ItemRefs)
  PROVE  Projected(Concat(c)) = Wanted(c)
<1>1. \A i \in DOMAIN query.items :
        Take(query.items[i], Concat(c)) = ItemMeant(query.items[i], c)
  BY TakeIs
<1>2. [i \in DOMAIN query.items |-> Take(query.items[i], Concat(c))] =
        [i \in DOMAIN query.items |-> ItemMeant(query.items[i], c)]
  BY <1>1
<1> QED
  BY <1>2 DEF Projected, Wanted

LEMMA StarWanted ==
  ASSUME OnlyStar, NEW c
  PROVE  Wanted(c) = Concat(c)
<1> DEFINE f == [i \in DOMAIN query.items |-> ItemMeant(query.items[i], c)]
<1>1. DOMAIN query.items = 1 .. 1 /\ query.items[1].kind = "*"
  BY DEF OnlyStar
<1>2. f[1] = Concat(c)
  BY <1>1 DEF ItemMeant
<1>3. Wanted(c) = Concat(f)
  BY DEF Wanted
<1>4. f = [i \in 1 .. (0 + 1) |-> f[i]]
  BY <1>1
<1> HIDE DEF f
<1>5. Concat(f) = Upto(f, 0 + 1)
  BY <1>4 DEF Upto
<1>6. Upto(f, 0 + 1) = f[1]
  BY UptoRaw
<1> QED
  BY <1>2, <1>3, <1>5, <1>6

-----------------------------------------------------------------------------
(* The part of the answer that the first n combinations give. *)
Combination(n) == Choices[N][n]
Part(n)  == IF Satisfies(Combination(n)) THEN <<Wanted(Combination(n))>> ELSE <<>>
Parts    == [n \in 1 .. Count(N) |-> Part(n)]
Kept(n)  == Upto(Parts, n)

LEMMA SameQuery ==
  ASSUME UNCHANGED query
  PROVE  /\ N' = N /\ Scans' = Scans /\ OneJoin' = OneJoin /\ Selects' = Selects
         /\ OnlyStar' = OnlyStar /\ Child' = Child /\ Top' = Top
         /\ \A k : File(k)' = File(k) /\ Size(k)' = Size(k) /\ Op(k)' = Op(k)
         /\ CondRefs' = CondRefs /\ ItemRefs' = ItemRefs
<1> USE DEF N, Scans, OneJoin, Selects, OnlyStar, Child, Top, File, Size, Op, Relation,
       CondRefs, ItemRefs, RefsIn, Expressions, SE!Range
<1>1. N' = N /\ Scans' = Scans /\ OneJoin' = OneJoin /\ Selects' = Selects
         /\ OnlyStar' = OnlyStar /\ Child' = Child /\ Top' = Top
  OBVIOUS
<1>2. \A k : File(k)' = File(k) /\ Size(k)' = Size(k) /\ Op(k)' = Op(k)
  OBVIOUS
<1>3. CondRefs' = CondRefs /\ ItemRefs' = ItemRefs
  OBVIOUS
<1> QED
  BY <1>1, <1>2, <1>3

LEMMA SameChoices ==
  ASSUME UNCHANGED query
  PROVE  /\ Choices' = Choices /\ \A k : Count(k)' = Count(k)
         /\ \A k, n : Whole(k, n)' = Whole(k, n)
<1>1. Choices' = Choices
  BY DEF Choices, Choosing, Longer, N, File, Relation
<1>2. \A k : Count(k)' = Count(k)
  BY <1>1 DEF Count
<1>3. \A k, n : Whole(k, n)' = Whole(k, n)
  BY <1>1 DEF Whole
<1> QED
  BY <1>1, <1>2, <1>3

LEMMA SameMeaning ==
  ASSUME UNCHANGED query
  PROVE  /\ \A c : Satisfies(c)' = Satisfies(c) /\ Wanted(c)' = Wanted(c)
         /\ \A n : Combination(n)' = Combination(n) /\ Kept(n)' = Kept(n)
         /\ Answer' = Answer /\ Legal' = Legal
         /\ \A ref, e, d : SetupAttribute(ref, e, d)' = SetupAttribute(ref, e, d)
<1>1. \A s, name : Has(s, name)' = Has(s, name) /\ PosByName(s, name)' = PosByName(s, name)
  BY DEF Has, PosByName, Relation
<1>2. \A s : Alias(s)' = Alias(s)
  BY DEF Alias
<1>3. \A o, c : Meant(o, c)' = Meant(o, c)
  BY DEF Meant, Holders, Alias, Has, PosByName, Relation, Scans, N
<1>4. \A c : Satisfies(c)' = Satisfies(c)
  BY DEF Satisfies, Meant, Holders, Alias, Has, PosByName, Relation, Scans, N
<1>5. \A c : Wanted(c)' = Wanted(c)
  BY DEF Wanted, ItemMeant, Meant, Holders, Alias, Has, PosByName, Relation, Scans, N
<1>6. \A n : Combination(n)' = Combination(n)
  BY SameChoices, SameQuery DEF Combination
<1>7. \A n : Part(n)' = Part(n)
  BY <1>4, <1>5, <1>6 DEF Part
<1>8. Parts' = Parts
  BY <1>7, SameQuery, SameChoices DEF Parts
<1>9. \A n : Kept(n)' = Kept(n)
  BY <1>8 DEF Kept
<1>10. Combinations' = Combinations
  BY DEF Combinations, N, File, Relation
<1>11. Answer' = Answer
  BY <1>4, <1>5, <1>10 DEF Answer
<1>12. Legal' = Legal
  BY DEF Legal, Refs, CondRefs, ItemRefs, RefsIn, Expressions, Named, Holders,
     Alias, Has, Relation, Scans, N, SE!Range
<1>13. \A ref, e, d : SetupAttribute(ref, e, d)' = SetupAttribute(ref, e, d)
  BY DEF SetupAttribute, Leaf, OnRight, Ambiguous, Missing, Width, Op, Child, Selects, OneJoin,
     Alias, Has, PosByName, Relation, Scans, N, SE!Range
<1> QED
  BY <1>4, <1>5, <1>6, <1>9, <1>11, <1>12, <1>13

Given == {Wanted(Combination(n)) : n \in 1 .. Count(N)}

LEMMA PartsAre ==
  ASSUME query \in Queries
  PROVE  /\ Pieces(Parts, Count(N), Given)
         /\ Answer = Kept(Count(N)) /\ Count(N) \in Nat
         /\ \A n \in 1 .. Count(N) : Parts[n] = Part(n)
<1>1. N \in Nat /\ N \in 0 .. N
  BY From
<1>2. Choices[N] \in Seq(Picks(N)) /\ Combinations = Choices[N]
  BY <1>1, ChoiceTypes, ChoicesExist
<1>3. Count(N) \in Nat /\ DOMAIN Choices[N] = 1 .. Count(N)
  BY <1>2 DEF Count
<1>4. \A n \in 1 .. Count(N) : Parts[n] = Part(n)
  BY DEF Parts
<1>5. \A n \in 1 .. Count(N) : Parts[n] \in Seq(Given)
  <2>1. ASSUME NEW n \in 1 .. Count(N) PROVE Parts[n] \in Seq(Given)
    <3> DEFINE w == Wanted(Combination(n))
    <3>1. w \in Given
      BY DEF Given
    <3>2. Parts[n] = <<w>> \/ Parts[n] = <<>>
      BY <1>4 DEF Part
    <3> HIDE DEF w
    <3>3. <<w>> \in Seq(Given) /\ <<>> \in Seq(Given)
      BY <3>1
    <3> QED
      BY <3>2, <3>3
  <2> QED
    BY <2>1
<1>6. Answer = Concat(Parts)
  BY <1>2, <1>3 DEF Answer, Parts, Part, Combination
<1>7. Kept(Count(N)) = Concat(Parts)
  BY DEF Kept, Upto, Parts
<1> QED
  BY <1>3, <1>4, <1>5, <1>6, <1>7 DEF Pieces

LEMMA KeptStep ==
  ASSUME query \in Queries
  PROVE  /\ Kept(0) = <<>>
         /\ \A n \in 0 .. Count(N) : Kept(n) \in Seq(Given)
         /\ \A n \in 1 .. Count(N) :
              Kept(n) = IF Satisfies(Combination(n))
                        THEN Append(Kept(n - 1), Wanted(Combination(n)))
                        ELSE Kept(n - 1)
<1>1. Pieces(Parts, Count(N), Given) /\ Count(N) \in Nat
  BY PartsAre
<1>2. Kept(0) = <<>>
  BY <1>1, UptoStep DEF Kept
<1>3. \A n \in 0 .. Count(N) : Kept(n) \in Seq(Given)
  BY <1>1, UptoStep DEF Kept
<1>4. ASSUME NEW n \in 1 .. Count(N)
      PROVE  Kept(n) = IF Satisfies(Combination(n))
                       THEN Append(Kept(n - 1), Wanted(Combination(n)))
                       ELSE Kept(n - 1)
  <2>1. Kept(n) = Kept(n - 1) \o Part(n)
    <3>1. Upto(Parts, n) = Upto(Parts, n - 1) \o Parts[n]
      BY <1>1, UptoStep
    <3> QED
      BY <3>1, PartsAre DEF Kept
  <2> DEFINE k == Kept(n - 1)
             w == Wanted(Combination(n))
  <2>2. k \in Seq(Given) /\ w \in Given
    <3>1. n - 1 \in 0 .. Count(N)
      BY <1>1
    <3> QED
      BY <1>3, <3>1 DEF Given
  <2> HIDE DEF k, w
  <2>3. k \o <<w>> = Append(k, w) /\ k \o <<>> = k
    BY <2>2
  <2> QED
    BY <2>1, <2>3 DEF Part, k, w
<1> QED
  BY <1>2, <1>3, <1>4

(* A tuple that is kept is the next one of the answer. *)
LEMMA NextOfAnswer ==
  ASSUME query \in Queries, NEW n \in 1 .. Count(N), Satisfies(Combination(n))
  PROVE  /\ Stream!IsStrictPrefix(Kept(n - 1), Answer)
         /\ Append(Kept(n - 1), Wanted(Combination(n)))
              = SubSeq(Answer, 1, Len(Kept(n - 1)) + 1)
<1>1. Pieces(Parts, Count(N), Given) /\ Answer = Kept(Count(N)) /\ Count(N) \in Nat
  BY PartsAre
<1> DEFINE a == Answer
           k == Kept(n - 1)
           w == Wanted(Combination(n))
           b == Kept(n)
<1>2. a \in Seq(Given) /\ k \in Seq(Given) /\ b \in Seq(Given) /\ w \in Given
  <2>1. n - 1 \in 0 .. Count(N) /\ n \in 0 .. Count(N) /\ Count(N) \in 0 .. Count(N)
    BY <1>1
  <2> QED
    BY <1>1, <2>1, KeptStep DEF Given
<1>3. b = Append(k, w)
  BY KeptStep
<1>4. StartsWith(a, b) /\ Len(b) <= Len(a)
  <2>1. n \in n .. Count(N) /\ Count(N) \in n .. Count(N)
    BY <1>1
  <2>2. StartsWith(a, b)
    BY <1>1, <2>1, UptoAt DEF Kept
  <2>3. Len(b) <= Len(a)
    <3>1. CASE n = Count(N)
      <4>1. a = b
        BY <1>1, <3>1
      <4> QED
        BY <1>2, <4>1
    <3>2. CASE n # Count(N)
      <4>1. n \in 0 .. (Count(N) - 1) /\ Count(N) \in 1 .. Count(N)
        BY <1>1, <3>2
      <4>2. \A m \in 0 .. (Count(N) - 1) : Len(Upto(Parts, m)) <= Len(Upto(Parts, Count(N)))
        BY <1>1, <4>1, UptoAt
      <4> QED
        BY <1>1, <4>1, <4>2 DEF Kept
    <3> QED
      BY <3>1, <3>2
  <2> QED
    BY <2>2, <2>3
<1> HIDE DEF a, k, w, b
<1>5. Len(b) = Len(k) + 1 /\ \A i \in 1 .. Len(k) : b[i] = k[i]
  BY <1>2, <1>3
<1>6. Len(k) + 1 <= Len(a) /\ \A i \in 1 .. (Len(k) + 1) : a[i] = b[i]
  BY <1>4, <1>5 DEF StartsWith
<1>7. b = SubSeq(a, 1, Len(k) + 1)
  <2>1. SubSeq(a, 1, Len(k) + 1) = [i \in 1 .. (Len(k) + 1) |-> a[i]]
    BY <1>2, <1>6
  <2>2. b = [i \in 1 .. (Len(k) + 1) |-> b[i]]
    BY <1>2, <1>5
  <2> QED
    BY <1>6, <2>1, <2>2
<1>8. SubSeq(k, 1, Len(k)) = SubSeq(a, 1, Len(k))
  <2>1. SubSeq(a, 1, Len(k)) = [i \in 1 .. Len(k) |-> a[i]]
    BY <1>2, <1>6
  <2>2. SubSeq(k, 1, Len(k)) = [i \in 1 .. Len(k) |-> k[i]]
    BY <1>2
  <2>3. \A i \in 1 .. Len(k) : a[i] = k[i]
    BY <1>2, <1>5, <1>6
  <2> QED
    BY <2>1, <2>2, <2>3
<1>9. Len(k) < Len(a) /\ Len(k) <= Len(a) /\ k # a
  BY <1>2, <1>6
<1>10. Stream!IsStrictPrefix(k, a)
  BY <1>8, <1>9 DEF Stream!IsStrictPrefix, Stream!IsPrefix
<1>11. Append(k, w) = SubSeq(a, 1, Len(k) + 1)
  BY <1>3, <1>7
<1> QED
  BY <1>10, <1>11 DEF a, k, w

-----------------------------------------------------------------------------
(* The operators.  p[k] is how many of the combinations of the first k       *)
(* relations operator k has gone past.                                       *)
Lower(k) == IF k > N THEN N ELSE k

Settled(p, k) ==
  /\ p[k] \in 0 .. Count(k) /\ filepos[k] \in 0 .. Size(k)
  /\ k = 1 => p[1] = filepos[1]
  /\ k # 1 =>
       \/ /\ lvalid[k] = 1 /\ p[k - 1] \in 1 .. Count(k - 1)
          /\ lt[k] = Whole(k - 1, p[k - 1])
          /\ p[k] = (p[k - 1] - 1) * Size(k) + filepos[k]
       \/ lvalid[k] = 0 /\ p[k - 1] = Count(k - 1) /\ p[k] = Count(k)
Below(p, k) == \A i \in 1 .. k : Settled(p, i)

(* Operator k has returned. *)
Returned(p, k) ==
  \/ got.ret = 1 /\ p[k] \in 1 .. Count(k) /\ got.tuple = Whole(k, p[k])
  \/ got.ret = 0 /\ p[k] = Count(k)

(* A join that is about to take its left tuple, and one that will be. *)
Taking(p, k) ==
  /\ Below(p, k - 1) /\ Returned(p, k - 1)
  /\ p[k] = (IF got.ret = 1 THEN p[k - 1] - 1 ELSE p[k - 1]) * Size(k)
AtStart(p, k) == p[k] = 0 /\ filepos[k] = 0
Waiting(p, f) ==
  /\ f.at \in {"left", "first"} => p[f.op] = p[f.op - 1] * Size(f.op)
  /\ f.at = "first" => AtStart(p, f.op)

(* The innermost call. *)
Acting(p, f) ==
  /\ f.at = "next" => Below(p, Lower(f.op))
  /\ f.at \in {"left", "first"} => Taking(p, f.op)
  /\ f.at = "first" => AtStart(p, f.op)
  /\ f.at = "child" => Below(p, N)
  /\ f.at = "rewound" => Below(p, Lower(f.op - 1)) /\ p[Lower(f.op - 1)] = 0

Roof == IF phase = "build" THEN built ELSE N
Tree(p) ==
  /\ p \in [Scans -> Nat]
  /\ calls # <<>> => Acting(p, calls[1])
  /\ \A i \in 2 .. Len(calls) : Waiting(p, calls[i])
  /\ calls = <<>> => Below(p, Roof)
  /\ calls = <<>> /\ phase \in {"build", "look", "rewind"} => p[Roof] = 0

(* The stack. *)
AllAts == {"next", "left", "first", "child", "rewind", "rewound"}
Frames == [op : Nat, at : AllAts]
Kind(f) ==
  /\ f.op \in 1 .. Top
  /\ f.at \in {"left", "first"} => f.op \in 2 .. N
  /\ f.at = "child" => f.op > N
  /\ f.at = "rewound" => f.op > 1
Caller(at, above) ==
  /\ at \in {"next", "left", "child"} => above \in {"left", "first", "child"}
  /\ at \in {"first", "rewind", "rewound"} => above = "rewound"
Ats(ph) ==
  CASE ph = "build" -> {"next", "left", "first"}
    [] ph = "next" -> {"next", "left", "child"}
    [] ph = "rewind" -> {"next", "left", "first", "rewind", "rewound"}
    [] OTHER -> {}
Bottom(f, ph, b) ==
  /\ ph = "build" => f = Frame(b, "first")
  /\ ph \in {"next", "rewind"} => f.op = Top
  /\ ph = "rewind" => f.at \in {"first", "rewind", "rewound"}
Stacked(cs, ph, b) ==
  /\ cs \in Seq(Frames)
  /\ \A i \in 1 .. Len(cs) : /\ Kind(cs[i]) /\ cs[i].at \in Ats(ph)
                             /\ cs[i].op = cs[1].op + (i - 1)
  /\ \A i \in 1 .. (Len(cs) - 1) : Caller(cs[i].at, cs[i + 1].at)
  /\ cs # <<>> => Bottom(cs[Len(cs)], ph, b)

(* What has been returned to the caller of the plan. *)
Offered(p, k) ==
  \/ got.ret = 0 /\ p[N] = Count(N) /\ out = Kept(p[N])
  \/ /\ got.ret = 1 /\ p[N] \in 1 .. Count(N) /\ out = Kept(p[N] - 1)
     /\ k >= Child => Satisfies(Combination(p[N]))
     /\ got.tuple = IF k > Child THEN Wanted(Combination(p[N])) ELSE Whole(N, p[N])
Output(p) ==
  /\ phase \notin {"ready", "next"} => out = <<>>
  /\ phase = "ready" => out = Kept(p[N])
  /\ phase = "next" /\ calls # <<>> =>
       IF calls[1].at = "child" THEN Offered(p, calls[1].op - 1) ELSE out = Kept(p[N])
  /\ phase = "next" /\ calls = <<>> => Offered(p, Top)

Shape ==
  /\ query \in Queries
  /\ filepos \in [Scans -> Nat] /\ lvalid \in [Scans -> {0, 1}] /\ DOMAIN lt = Scans
  /\ built \in Scans
  /\ phase \in {"build", "look", "refused", "ready", "next", "rewind"}
  /\ phase = "build" => \A s \in Scans : s > built => filepos[s] = 0

NamesAt ==
  /\ phase \in {"look", "ready", "next", "rewind"} =>
       IF OneJoin THEN RightInJoin(condAt, CondRefs) ELSE RightAt(condAt, CondRefs)
  /\ phase \in {"ready", "next", "rewind"} => RightAt(itemAt, ItemRefs)
  /\ answers = IF Legal THEN {Answer} ELSE {}

TreeInv ==
  /\ Shape /\ NamesAt /\ Stacked(calls, phase, built)
  /\ \E p \in [Scans -> Nat] : Tree(p) /\ Output(p)

-----------------------------------------------------------------------------
Going == {"next", "left", "child"}
SameWay(a, b) == a \in Going <=> b \in Going

LEMMA TailIs ==
  ASSUME NEW X, NEW s \in Seq(X), s # <<>>
  PROVE  /\ Tail(s) \in Seq(X) /\ Len(Tail(s)) = Len(s) - 1
         /\ \A i \in 1 .. (Len(s) - 1) : Tail(s)[i] = s[i + 1]
         /\ Tail(s) = <<>> <=> Len(s) = 1
<1>1. Tail(s) \in Seq(X) /\ Len(Tail(s)) = Len(s) - 1 /\ Len(s) \in Nat
  OBVIOUS
<1>2. \A i \in 1 .. (Len(s) - 1) : Tail(s)[i] = s[i + 1]
  OBVIOUS
<1>3. Tail(s) = <<>> <=> Len(Tail(s)) = 0
  <2> DEFINE t == Tail(s)
  <2>1. t \in Seq(X)
    BY <1>1
  <2> HIDE DEF t
  <2>2. t = <<>> <=> Len(t) = 0
    BY <2>1
  <2> QED
    BY <2>2 DEF t
<1> QED
  BY <1>1, <1>2, <1>3

InFront(x, y, t) == <<x, y>> \o t = <<x>> \o (<<y>> \o t)

LEMMA TwoInFront ==
  ASSUME NEW X, NEW x \in X, NEW y \in X, NEW t \in Seq(X)
  PROVE  InFront(x, y, t)
<1> DEFINE a == <<y>> \o t
           b == <<x, y>> \o t
           c == <<x>> \o a
<1>1. /\ a \in Seq(X) /\ Len(a) = Len(t) + 1 /\ a[1] = y
      /\ \A i \in 2 .. (Len(t) + 1) : a[i] = t[i - 1]
  OBVIOUS
<1>2. /\ b \in Seq(X) /\ Len(b) = Len(t) + 2 /\ b[1] = x /\ b[2] = y
      /\ \A i \in 3 .. (Len(t) + 2) : b[i] = t[i - 2]
  OBVIOUS
<1> HIDE DEF a
<1>3. /\ c \in Seq(X) /\ Len(c) = Len(a) + 1 /\ c[1] = x
      /\ \A i \in 2 .. (Len(a) + 1) : c[i] = a[i - 1]
  BY <1>1
<1> HIDE DEF b, c
<1>4. Len(t) \in Nat
  OBVIOUS
<1>5. ASSUME NEW i \in 1 .. (Len(t) + 2)
      PROVE  b[i] = c[i]
  <2>1. CASE i = 1
    BY <1>2, <1>3, <2>1
  <2>2. CASE i = 2
    <3>1. c[2] = a[2 - 1]
      BY <1>1, <1>3, <1>4
    <3> QED
      BY <1>1, <1>2, <2>2, <3>1
  <2>3. CASE i \notin {1, 2}
    <3>1. i \in 3 .. (Len(t) + 2) /\ i \in 2 .. (Len(a) + 1) /\ i - 1 \in 2 .. (Len(t) + 1)
          /\ (i - 1) - 1 = i - 2
      BY <1>1, <1>4, <2>3
    <3> QED
      BY <1>1, <1>2, <1>3, <3>1
  <2> QED
    BY <2>1, <2>2, <2>3
<1>6. Len(c) = Len(b)
  BY <1>1, <1>2, <1>3, <1>4
<1>7. b = [i \in 1 .. Len(b) |-> b[i]] /\ c = [i \in 1 .. Len(c) |-> c[i]]
  BY <1>2, <1>3
<1>8. b = c
  BY <1>2, <1>5, <1>6, <1>7
<1>9. <<x, y>> \o t = <<x>> \o (<<y>> \o t)
  BY <1>8 DEF a, b, c
<1> QED
  BY <1>9 DEF InFront

LEMMA StackFacts ==
  ASSUME NEW cs, NEW ph, NEW b, Stacked(cs, ph, b), cs # <<>>
  PROVE  /\ Len(cs) \in Nat /\ Len(cs) >= 1 /\ 1 \in 1 .. Len(cs) /\ cs \in Seq(Frames)
         /\ cs[1].op \in Nat /\ cs[1].op >= 1 /\ cs[1].op <= Top
         /\ \A i \in 1 .. Len(cs) :
              /\ cs[i] \in Frames /\ cs[i] = Frame(cs[i].op, cs[i].at)
              /\ Kind(cs[i]) /\ cs[i].at \in Ats(ph) /\ cs[i].op = cs[1].op + (i - 1)
         /\ Len(cs) > 1 => /\ 2 \in 1 .. Len(cs) /\ cs[2].op = cs[1].op + 1
                           /\ Caller(cs[1].at, cs[2].at)
<1>1. cs \in Seq(Frames)
  BY DEF Stacked
<1>2. Len(cs) \in Nat /\ Len(cs) >= 1 /\ 1 \in 1 .. Len(cs)
  BY <1>1
<1>3. \A i \in 1 .. Len(cs) :
        /\ cs[i] \in Frames /\ Kind(cs[i]) /\ cs[i].at \in Ats(ph)
        /\ cs[i].op = cs[1].op + (i - 1)
  BY <1>1 DEF Stacked
<1>4. \A i \in 1 .. Len(cs) : cs[i] = Frame(cs[i].op, cs[i].at)
  BY <1>3 DEF Frames, Frame
<1>5. cs[1].op \in Nat /\ cs[1].op >= 1 /\ cs[1].op <= Top
  <2>1. cs[1].op \in Nat /\ cs[1].op \in 1 .. Top
    BY <1>2, <1>3 DEF Frames, Kind
  <2> QED
    BY <2>1
<1>6. Len(cs) > 1 => /\ 2 \in 1 .. Len(cs) /\ cs[2].op = cs[1].op + 1
                     /\ Caller(cs[1].at, cs[2].at)
  <2>1. ASSUME Len(cs) > 1
        PROVE  /\ 2 \in 1 .. Len(cs) /\ cs[2].op = cs[1].op + 1
               /\ Caller(cs[1].at, cs[2].at)
    <3>1. 2 \in 1 .. Len(cs) /\ 1 \in 1 .. (Len(cs) - 1)
      BY <1>2, <2>1
    <3>2. cs[2].op = cs[1].op + (2 - 1)
      BY <1>3, <3>1
    <3>3. Caller(cs[1].at, cs[1 + 1].at)
      BY <3>1 DEF Stacked
    <3> QED
      BY <3>1, <3>2, <3>3
  <2> QED
    BY <2>1
<1> QED
  BY <1>1, <1>2, <1>3, <1>4, <1>5, <1>6

(* The innermost call returns. *)
LEMMA StackReturns ==
  ASSUME NEW cs, NEW ph, NEW b, Stacked(cs, ph, b), cs # <<>>
  PROVE  /\ Stacked(Tail(cs), ph, b)
         /\ Len(Tail(cs)) = Len(cs) - 1
         /\ \A i \in 1 .. (Len(cs) - 1) : Tail(cs)[i] = cs[i + 1]
         /\ Tail(cs) = <<>> <=> Len(cs) = 1
<1> DEFINE m == Len(cs)
           ds == Tail(cs)
<1>1. cs \in Seq(Frames) /\ m \in Nat /\ m >= 1
  BY StackFacts
<1>2. /\ ds \in Seq(Frames) /\ Len(ds) = m - 1
      /\ \A i \in 1 .. (m - 1) : ds[i] = cs[i + 1]
      /\ ds = <<>> <=> m = 1
  BY <1>1, TailIs
<1>3. \A i \in 1 .. m : Kind(cs[i]) /\ cs[i].at \in Ats(ph) /\ cs[i].op = cs[1].op + (i - 1)
  BY StackFacts
<1>4. \A i \in 1 .. (m - 1) : Caller(cs[i].at, cs[i + 1].at)
  BY DEF Stacked
<1>5. Bottom(cs[m], ph, b)
  BY DEF Stacked
<1>0. cs[1].op \in Nat
  BY StackFacts
<1> HIDE DEF m, ds
<1>6. ASSUME NEW i \in 1 .. (m - 1)
      PROVE  Kind(ds[i]) /\ ds[i].at \in Ats(ph) /\ ds[i].op = ds[1].op + (i - 1)
  <2>1. i + 1 \in 1 .. m /\ 2 \in 1 .. m /\ 1 \in 1 .. (m - 1)
    BY <1>1
  <2>2. ds[i] = cs[i + 1] /\ ds[1] = cs[2]
    BY <1>2, <2>1
  <2>3. cs[i + 1].op = cs[1].op + ((i + 1) - 1) /\ cs[2].op = cs[1].op + (2 - 1)
    BY <1>3, <2>1
  <2>4. ds[i].op = ds[1].op + (i - 1)
    BY <1>0, <2>2, <2>3
  <2> QED
    BY <1>3, <2>1, <2>2, <2>4
<1>7. ASSUME NEW i \in 1 .. ((m - 1) - 1)
      PROVE  Caller(ds[i].at, ds[i + 1].at)
  <2>1. i \in 1 .. (m - 1) /\ i + 1 \in 1 .. (m - 1)
    BY <1>1
  <2>2. Caller(cs[i + 1].at, cs[(i + 1) + 1].at)
    BY <1>4, <2>1
  <2> QED
    BY <1>2, <2>1, <2>2
<1>8. ds # <<>> => Bottom(ds[Len(ds)], ph, b)
  <2>1. ASSUME ds # <<>> PROVE ds[m - 1] = cs[m]
    <3>1. m - 1 \in 1 .. (m - 1) /\ (m - 1) + 1 = m
      BY <1>1, <1>2, <2>1
    <3> QED
      BY <1>2, <3>1
  <2> QED
    BY <1>2, <1>5, <2>1
<1>9. Stacked(ds, ph, b)
  BY <1>2, <1>6, <1>7, <1>8 DEF Stacked
<1> QED
  BY <1>2, <1>9 DEF m, ds

(* It goes on with something else. *)
LEMMA StackGoes ==
  ASSUME NEW cs, NEW ph, NEW b, Stacked(cs, ph, b), cs # <<>>, cs[1].at # "first",
         NEW at \in Ats(ph), SameWay(cs[1].at, at), Kind(Frame(cs[1].op, at)),
         at \in AllAts, NEW ds, ds \in Seq(Frames), Len(ds) = Len(cs),
         ds[1] = Frame(cs[1].op, at), \A i \in 2 .. Len(cs) : ds[i] = cs[i]
  PROVE  Stacked(ds, ph, b)
<1> DEFINE m == Len(cs)
<1>1. m \in Nat /\ m >= 1 /\ cs[1].op \in Nat
  BY StackFacts
<1>2. \A i \in 1 .. m : Kind(cs[i]) /\ cs[i].at \in Ats(ph) /\ cs[i].op = cs[1].op + (i - 1)
  BY StackFacts
<1>3. \A i \in 1 .. (m - 1) : Caller(cs[i].at, cs[i + 1].at)
  BY DEF Stacked
<1>4. Bottom(cs[m], ph, b)
  BY DEF Stacked
<1>5. cs[1] \in Frames /\ cs[1].at \in AllAts
  <2>1. cs[1] \in Frames
    BY StackFacts
  <2> QED
    BY <2>1 DEF Frames
<1>10. ds[1].at = at /\ ds[1].op = cs[1].op
  BY DEF Frame
<1> HIDE DEF m
<1>6. ASSUME NEW i \in 1 .. m
      PROVE  Kind(ds[i]) /\ ds[i].at \in Ats(ph) /\ ds[i].op = ds[1].op + (i - 1)
  <2>1. CASE i = 1
    <3>1. cs[1].op = cs[1].op + (1 - 1)
      BY <1>1
    <3> QED
      BY <1>10, <2>1, <3>1
  <2>2. CASE i # 1
    <3>1. i \in 2 .. m
      BY <1>1, <2>2
    <3>2. ds[i] = cs[i]
      BY <3>1 DEF m
    <3> QED
      BY <1>2, <1>10, <3>2
  <2> QED
    BY <2>1, <2>2
<1>7. ASSUME NEW i \in 1 .. (m - 1)
      PROVE  Caller(ds[i].at, ds[i + 1].at)
  <2>1. i + 1 \in 2 .. m /\ i \in 1 .. m
    BY <1>1
  <2>2. ds[i + 1] = cs[i + 1] /\ Caller(cs[i].at, cs[i + 1].at)
    BY <1>3, <2>1 DEF m
  <2>3. CASE i = 1
    <3>1. Caller(at, cs[i + 1].at)
      BY <1>5, <2>2, <2>3 DEF Caller, SameWay, Going, AllAts
    <3> QED
      BY <1>10, <2>2, <2>3, <3>1
  <2>4. CASE i # 1
    <3>1. i \in 2 .. m
      BY <1>1, <2>1, <2>4
    <3>2. ds[i] = cs[i]
      BY <3>1 DEF m
    <3> QED
      BY <2>2, <3>2
  <2> QED
    BY <2>3, <2>4
<1>8. Bottom(ds[m], ph, b)
  <2>1. CASE m = 1
    <3>1. ph # "build"
      BY <1>4, <2>1 DEF Bottom, Frame
    <3>2. ds[1].op = cs[1].op /\ ds[1].at = at
      BY <1>10
    <3> QED
      BY <1>4, <1>5, <2>1, <3>1, <3>2 DEF Bottom, SameWay, Going, AllAts
  <2>2. CASE m # 1
    <3>1. m \in 2 .. m
      BY <1>1, <2>2
    <3> QED
      BY <1>4, <3>1 DEF m
  <2> QED
    BY <2>1, <2>2
<1> QED
  BY <1>6, <1>7, <1>8 DEF Stacked, m

(* It calls its child. *)
Pushed(cs, ds, f, g) ==
  /\ Len(ds) = Len(cs) + 1 /\ ds # <<>> /\ ds[1] = f /\ ds[2] = g
  /\ \A i \in 2 .. Len(cs) : ds[i + 1] = cs[i]

LEMMA StackCalls ==
  ASSUME NEW cs, NEW ph, NEW b, Stacked(cs, ph, b), cs # <<>>, cs[1].at # "first",
         NEW at \in Ats(ph), SameWay(cs[1].at, at), Kind(Frame(cs[1].op, at)), at \in AllAts,
         NEW what \in Ats(ph), Kind(Frame(cs[1].op - 1, what)), what \in AllAts,
         cs[1].op > 1, Caller(what, at), NEW ds,
         ds = <<Frame(cs[1].op - 1, what), Frame(cs[1].op, at)>> \o Tail(cs)
  PROVE  /\ Stacked(ds, ph, b)
         /\ Pushed(cs, ds, Frame(cs[1].op - 1, what), Frame(cs[1].op, at))
<1> DEFINE m == Len(cs)
           f == Frame(cs[1].op - 1, what)
           g == Frame(cs[1].op, at)
           es == <<g>> \o Tail(cs)
<1>1. m \in Nat /\ m >= 1 /\ cs[1].op \in Nat /\ cs \in Seq(Frames)
  BY StackFacts
<1>2. f \in Frames /\ g \in Frames
  BY <1>1 DEF Frame, Frames
<1> HIDE DEF m, f, g
<1>3. /\ es \in Seq(Frames) /\ Len(es) = m /\ es[1] = g
      /\ \A i \in 2 .. m : es[i] = cs[i]
  <2>1. Tail(cs) \in Seq(Frames) /\ Len(Tail(cs)) = m - 1
        /\ \A i \in 1 .. (m - 1) : Tail(cs)[i] = cs[i + 1]
    BY <1>1 DEF m
  <2> DEFINE t == Tail(cs)
  <2>2. t \in Seq(Frames) /\ Len(t) = m - 1 /\ \A i \in 1 .. (m - 1) : t[i] = cs[i + 1]
    BY <2>1
  <2> HIDE DEF t
  <2>3. /\ <<g>> \o t \in Seq(Frames) /\ Len(<<g>> \o t) = 1 + Len(t)
        /\ (<<g>> \o t)[1] = g
        /\ \A i \in 2 .. (1 + Len(t)) : (<<g>> \o t)[i] = t[i - 1]
    BY <1>2, <2>2
  <2>4. \A i \in 2 .. m : t[i - 1] = cs[i]
    BY <1>1, <2>2
  <2> QED
    BY <1>1, <2>2, <2>3, <2>4 DEF t
<1>4. Stacked(es, ph, b)
  BY <1>3, StackGoes DEF m, g
<1>5. ds = <<f>> \o es
  <2>1. Tail(cs) \in Seq(Frames)
    BY <1>1
  <2> DEFINE t == Tail(cs)
  <2>3. t \in Seq(Frames)
    BY <2>1
  <2> HIDE DEF t
  <2>4. InFront(f, g, t)
    BY <1>2, <2>3, TwoInFront
  <2>2. <<f, g>> \o t = <<f>> \o (<<g>> \o t)
    BY <2>4 DEF InFront
  <2> QED
    BY <2>2 DEF f, g, t
<1> HIDE DEF es
<1>6. /\ ds \in Seq(Frames) /\ Len(ds) = m + 1 /\ ds # <<>> /\ ds[1] = f
      /\ \A i \in 1 .. m : ds[i + 1] = es[i]
  BY <1>1, <1>2, <1>3, <1>5
<1>7. ds[2] = g /\ \A i \in 2 .. m : ds[i + 1] = cs[i]
  <2>1. ds[1 + 1] = es[1]
    BY <1>1, <1>6
  <2> QED
    BY <1>1, <1>3, <1>6, <2>1
<1>8. ASSUME NEW i \in 1 .. (m + 1)
      PROVE  Kind(ds[i]) /\ ds[i].at \in Ats(ph) /\ ds[i].op = ds[1].op + (i - 1)
  <2>0. f.op = cs[1].op - 1 /\ f.at = what /\ g.op = cs[1].op
    BY DEF f, g, Frame
  <2>1. CASE i = 1
    <3>1. f.op = f.op + (1 - 1)
      BY <1>1, <2>0
    <3> QED
      BY <1>6, <2>0, <2>1, <3>1 DEF f
  <2>2. CASE i # 1
    <3>1. i - 1 \in 1 .. m /\ (i - 1) + 1 = i
      BY <1>1, <2>2
    <3>2. ds[i] = es[i - 1]
      BY <1>6, <3>1
    <3>3. Kind(es[i - 1]) /\ es[i - 1].at \in Ats(ph) /\ es[i - 1].op = es[1].op + ((i - 1) - 1)
      BY <1>3, <1>4, <3>1 DEF Stacked
    <3>4. es[i - 1].op = ds[1].op + (i - 1)
      <4> DEFINE c == cs[1].op
      <4>1. es[1].op = c /\ ds[1].op = c - 1 /\ c \in Nat
        BY <1>1, <1>3, <1>6, <2>0
      <4>2. es[i - 1].op = c + ((i - 1) - 1)
        BY <3>3, <4>1
      <4> HIDE DEF c
      <4>3. c + ((i - 1) - 1) = (c - 1) + (i - 1)
        BY <1>1, <4>1
      <4> QED
        BY <4>1, <4>2, <4>3
    <3> QED
      BY <3>2, <3>3, <3>4
  <2> QED
    BY <2>1, <2>2
<1>9. ASSUME NEW i \in 1 .. ((m + 1) - 1)
      PROVE  Caller(ds[i].at, ds[i + 1].at)
  <2>1. CASE i = 1
    <3>1. ds[1].at = what /\ ds[2].at = at
      BY <1>6, <1>7 DEF f, g, Frame
    <3> QED
      BY <2>1, <3>1
  <2>2. CASE i # 1
    <3>1. i - 1 \in 1 .. (m - 1) /\ i - 1 \in 1 .. m /\ (i - 1) + 1 = i /\ i \in 1 .. m
      BY <1>1, <2>2
    <3>2. ds[i] = es[i - 1] /\ ds[i + 1] = es[i]
      BY <1>6, <3>1
    <3>3. Caller(es[i - 1].at, es[(i - 1) + 1].at)
      BY <1>3, <1>4, <3>1 DEF Stacked
    <3> QED
      BY <3>1, <3>2, <3>3
  <2> QED
    BY <2>1, <2>2
<1>10. Bottom(ds[m + 1], ph, b)
  <2>1. ds[m + 1] = es[m] /\ es # <<>>
    BY <1>1, <1>3, <1>6
  <2> QED
    BY <1>3, <1>4, <2>1 DEF Stacked
<1>11. Stacked(ds, ph, b)
  BY <1>6, <1>8, <1>9, <1>10 DEF Stacked
<1> QED
  BY <1>6, <1>7, <1>11 DEF f, g, m, Pushed

-----------------------------------------------------------------------------
LEMMA SettledSame ==
  ASSUME UNCHANGED query, NEW p, NEW q, NEW i, Settled(p, i),
         q[i] = p[i], i # 1 => q[i - 1] = p[i - 1],
         filepos'[i] = filepos[i], lvalid'[i] = lvalid[i], lt'[i] = lt[i]
  PROVE  Settled(q, i)'
BY SameQuery, SameChoices DEF Settled

LEMMA BelowSame ==
  ASSUME UNCHANGED query, NEW p, NEW q, NEW n \in Nat, Below(p, n),
         \A i \in 1 .. n : /\ q[i] = p[i] /\ filepos'[i] = filepos[i]
                           /\ lvalid'[i] = lvalid[i] /\ lt'[i] = lt[i]
  PROVE  Below(q, n)'
<1>1. ASSUME NEW i \in 1 .. n PROVE Settled(q, i)'
  <2>1. i # 1 => i - 1 \in 1 .. n
    OBVIOUS
  <2> QED
    BY <2>1, SettledSame DEF Below
<1> QED
  BY <1>1 DEF Below

LEMMA BelowLess ==
  ASSUME NEW p, NEW n \in Nat, NEW m \in Nat, m <= n, Below(p, n)
  PROVE  Below(p, m)
BY DEF Below

LEMMA StackedNext ==
  ASSUME UNCHANGED query, Stacked(calls', phase', built')
  PROVE  Stacked(calls, phase, built)'
<1>1. N' = N /\ Top' = Top
  BY SameQuery
<1> QED
  BY <1>1 DEF Stacked, Kind, Caller, Ats, Bottom, Frames, AllAts, Frame

(* Operators that are called are those of the chain. *)
LEMMA Chain ==
  ASSUME query \in Queries
  PROVE  /\ N \in Nat /\ N >= 1 /\ Scans = 1 .. N
         /\ Child \in {N, N + 1} /\ Top \in {Child, Child + 1}
         /\ Child \in Nat /\ Top \in Nat /\ N <= Child /\ Child <= Top /\ N <= Top
         /\ \A k \in 1 .. Top :
              /\ Op(k) = "SCAN" <=> k = 1
              /\ Op(k) = "NTJOIN" <=> k \in 2 .. N
              /\ Op(k) = "SELECT" <=> k > N /\ k <= Child
              /\ Op(k) = "PROJECT" <=> k > Child
<1>1. N \in Nat /\ N >= 1 /\ Scans = 1 .. N
  BY From DEF Scans
<1>2. Child \in {N, N + 1} /\ Top \in {Child, Child + 1}
  BY <1>1 DEF Child, Top
<1>3. Child \in Nat /\ Top \in Nat /\ N <= Child /\ Child <= Top /\ N <= Top
  BY <1>1, <1>2
<1> DEFINE c == Child
           t == Top
<1>4. ASSUME NEW k \in 1 .. t
      PROVE  /\ Op(k) = "SCAN" <=> k = 1
             /\ Op(k) = "NTJOIN" <=> k \in 2 .. N
             /\ Op(k) = "SELECT" <=> k > N /\ k <= c
             /\ Op(k) = "PROJECT" <=> k > c
  <2>1. c \in Nat /\ t \in Nat /\ N <= c /\ k \in Nat /\ k >= 1
    BY <1>3
  <2> HIDE DEF c, t
  <2>2. Op(k) = CASE k = 1 -> "SCAN" [] k \in 2 .. N -> "NTJOIN"
                  [] k > N /\ k <= c -> "SELECT" [] OTHER -> "PROJECT"
    BY DEF Op, c
  <2>3. CASE k = 1
    BY <1>1, <2>1, <2>2, <2>3
  <2>4. CASE k \in 2 .. N
    BY <1>1, <2>1, <2>2, <2>4
  <2>5. CASE k > N /\ k <= c
    BY <1>1, <2>1, <2>2, <2>5
  <2>6. CASE k > c
    BY <1>1, <2>1, <2>2, <2>6
  <2> QED
    BY <1>1, <2>1, <2>3, <2>4, <2>5, <2>6
<1> QED
  BY <1>1, <1>2, <1>3, <1>4

(* The next of an operator at the bottom of the chain, or of a join, returns. *)
LEMMA Gives ==
  ASSUME Shape, Stacked(calls, phase, built), NEW p, Tree(p), Output(p), NEW q,
         calls # <<>>, calls[1].at = "next", NEW t, t = calls[1].op, t <= N,
         Context, calls' = Tail(calls), q \in [Scans -> Nat],
         \A i \in Scans : i # t => q[i] = p[i] /\ filepos'[i] = filepos[i],
         UNCHANGED <<lt, lvalid>>,
         Below(q, t)', Returned(q, t)',
         q[t] = IF got'.ret = 1 THEN p[t] + 1 ELSE p[t],
         phase = "next" /\ t = N /\ N = Child /\ got'.ret = 1 => Satisfies(Combination(q[N]))
  PROVE  Stacked(calls, phase, built)' /\ Tree(q)' /\ Output(q)'
<1> DEFINE m == Len(calls)
<1>1. UNCHANGED <<query, built, phase, out>>
  BY DEF Context, plan
<1>2. /\ N' = N /\ Scans' = Scans /\ Child' = Child /\ Top' = Top
      /\ \A k : Size(k)' = Size(k) /\ Count(k)' = Count(k)
      /\ \A k, n : Whole(k, n)' = Whole(k, n)
      /\ \A n : Kept(n)' = Kept(n) /\ Combination(n)' = Combination(n)
      /\ \A c : Satisfies(c)' = Satisfies(c) /\ Wanted(c)' = Wanted(c)
  BY <1>1, SameQuery, SameChoices, SameMeaning
<1>3. /\ N \in Nat /\ N >= 1 /\ Scans = 1 .. N
      /\ Child \in {N, N + 1} /\ Top \in {Child, Child + 1} /\ N <= Top
  BY Chain DEF Shape
<1>4. /\ Stacked(Tail(calls), phase, built) /\ Len(Tail(calls)) = m - 1
      /\ \A i \in 1 .. (m - 1) : Tail(calls)[i] = calls[i + 1]
      /\ Tail(calls) = <<>> <=> m = 1
  BY StackReturns
<1>5. /\ m \in Nat /\ m >= 1 /\ t \in Nat /\ t >= 1
      /\ \A i \in 1 .. m : /\ Kind(calls[i]) /\ calls[i].at \in Ats(phase)
                           /\ calls[i].op = t + (i - 1)
      /\ m > 1 => 2 \in 1 .. m /\ calls[2].op = t + 1 /\ Caller("next", calls[2].at)
  BY StackFacts
<1> HIDE DEF m
<1>6. Stacked(calls, phase, built)'
  BY <1>1, <1>4, StackedNext
<1>7. phase = "next" => out = Kept(p[N])
  BY DEF Output
<1>8. t \in Scans
  BY <1>3, <1>5
<1>9. ASSUME phase = "next", t = N
      PROVE  Offered(q, N)'
  <2>1. \/ got'.ret = 1 /\ q[N] \in 1 .. Count(N) /\ got'.tuple = Whole(N, q[N])
        \/ got'.ret = 0 /\ q[N] = Count(N)
    BY <1>2, <1>9 DEF Returned
  <2>2. p[N] \in Nat
    BY <1>3, <1>8, <1>9 DEF Tree
  <2>3. CASE got'.ret = 1 /\ q[N] \in 1 .. Count(N) /\ got'.tuple = Whole(N, q[N])
    <3>1. q[N] = p[N] + 1 /\ q[N] - 1 = p[N]
      BY <1>9, <2>2, <2>3
    <3>2. out' = Kept(q[N] - 1)
      BY <1>1, <1>7, <1>9, <3>1
    <3>3. ~(N > Child) /\ (N >= Child => N = Child)
      BY <1>3
    <3>4. N >= Child => Satisfies(Combination(q[N]))
      BY <1>9, <2>3, <3>3
    <3> QED
      BY <1>2, <2>3, <3>2, <3>3, <3>4 DEF Offered
  <2>4. CASE got'.ret = 0 /\ q[N] = Count(N)
    <3>1. q[N] = p[N]
      BY <1>9, <2>4
    <3> QED
      BY <1>1, <1>2, <1>7, <1>9, <2>4, <3>1 DEF Offered
  <2> QED
    BY <2>1, <2>3, <2>4
<1>10. phase \in {"build", "next", "rewind"}
  <2>1. calls[1].at \in Ats(phase)
    BY <1>5
  <2> QED
    BY <2>1 DEF Ats, Shape
<1>13. m \in Nat /\ m >= 1 /\ t \in Nat /\ t >= 1
  BY <1>5
<1>11. CASE m = 1
  <2>1. Bottom(calls[1], phase, built)
    BY <1>11 DEF Stacked, m
  <2>2. phase = "next" /\ t = Top
    BY <1>10, <2>1 DEF Bottom, Frame
  <2>3. t = N /\ Top = N
    BY <1>3, <2>2
  <2>4. calls' = <<>>
    BY <1>4, <1>11
  <2>5. Len(calls') = 0
    <3>1. Len(<<>>) = 0
      OBVIOUS
    <3> QED
      BY <2>4, <3>1
  <2>6. Roof' = N
    BY <1>1, <1>2, <2>2 DEF Roof
  <2>10. Below(q, Roof)'
    BY <2>3, <2>6 DEF Below
  <2>11. \A i \in 2 .. Len(calls') : FALSE
    <3>1. \A i \in 2 .. 0 : FALSE
      OBVIOUS
    <3> QED
      BY <2>5, <3>1
  <2>7. Tree(q)'
    BY <1>1, <1>2, <2>2, <2>4, <2>10, <2>11 DEF Tree
  <2>8. Offered(q, Top)'
    BY <1>2, <1>9, <2>2, <2>3 DEF Offered
  <2>9. Output(q)'
    BY <1>1, <2>2, <2>4, <2>8 DEF Output
  <2> QED
    BY <1>6, <2>7, <2>9
<1>12. CASE m # 1
  <2>0. PICK f : f = calls[2]
    OBVIOUS
  <2>1. m > 1 /\ m - 1 >= 1
    BY <1>5, <1>12
  <2>2. f.op = t + 1 /\ f.at \in {"left", "first", "child"} /\ Kind(f) /\ f.at \in Ats(phase)
    <3>1. f.at \in {"left", "first", "child"}
      BY <1>5, <2>0, <2>1 DEF Caller
    <3> QED
      BY <1>5, <2>0, <2>1, <3>1
  <2>3. calls' # <<>> /\ calls'[1] = f /\ Len(calls') = m - 1
    <3>1. 1 \in 1 .. (m - 1) /\ 1 + 1 = 2
      BY <1>5, <2>1
    <3> QED
      BY <1>4, <1>12, <2>0, <3>1
  <2>4. Waiting(p, f)
    <3>1. 2 \in 2 .. m
      BY <1>5, <2>1
    <3> QED
      BY <2>0, <3>1 DEF Tree, m
  <2>5. Acting(q, f)'
    <3>1. CASE f.at = "child"
      <4>1. t = N
        <5>1. f.op > N
          BY <2>2, <3>1 DEF Kind
        <5> QED
          BY <1>3, <1>13, <2>2, <5>1
      <4> QED
        BY <1>2, <3>1, <4>1 DEF Acting
    <3>2. CASE f.at \in {"left", "first"}
      <4>1. f.op \in 2 .. N /\ f.op \in Scans /\ f.op # t /\ f.op - 1 = t
        <5>1. f.op \in 2 .. N
          BY <2>2, <3>2 DEF Kind
        <5>2. f.op = t + 1 /\ t \in Nat
          BY <1>13, <2>2
        <5>3. f.op \in Scans
          BY <1>3, <5>1
        <5>4. f.op # t /\ f.op - 1 = t
          BY <5>2
        <5> QED
          BY <5>1, <5>3, <5>4
      <4>2. q[f.op] = p[f.op] /\ filepos'[f.op] = filepos[f.op]
        BY <4>1
      <4>3. q[f.op] = p[t] * Size(f.op)
        BY <2>4, <3>2, <4>1, <4>2 DEF Waiting
      <4>4. q[f.op] = (IF got'.ret = 1 THEN q[t] - 1 ELSE q[t]) * Size(f.op)
        <5>1. p[t] \in Nat
          BY <1>8 DEF Tree
        <5>2. p[t] = (IF got'.ret = 1 THEN q[t] - 1 ELSE q[t])
          BY <5>1
        <5> QED
          BY <4>3, <5>2
      <4>5. Taking(q, f.op)'
        BY <1>2, <4>1, <4>4 DEF Taking
      <4>6. f.at = "first" => AtStart(q, f.op)'
        BY <2>4, <4>2 DEF Waiting, AtStart
      <4> QED
        BY <3>2, <4>5, <4>6 DEF Acting
    <3> QED
      BY <2>2, <3>1, <3>2
  <2>6. ASSUME NEW i \in 2 .. (m - 1)
        PROVE  Waiting(q, calls[i])'
    <3>1. i \in 1 .. (m - 1) /\ i + 1 \in 2 .. m /\ i + 1 \in 1 .. m
      BY <1>13
    <3>0. PICK g : g = calls[i + 1]
      OBVIOUS
    <3>2. calls'[i] = g
      BY <1>4, <3>0, <3>1
    <3>3. Waiting(p, g) /\ Kind(g) /\ g.op = t + ((i + 1) - 1)
      BY <1>5, <3>0, <3>1 DEF Tree, m
    <3>4. g.op # t /\ g.op - 1 # t
      BY <1>13, <3>1, <3>3
    <3>5. ASSUME g.at \in {"left", "first"}
          PROVE  /\ q[g.op] = p[g.op] /\ q[g.op - 1] = p[g.op - 1]
                 /\ filepos'[g.op] = filepos[g.op]
      <4>1. g.op \in 2 .. N /\ g.op \in Scans /\ g.op - 1 \in Scans
        <5>1. g.op \in 2 .. N
          BY <3>3, <3>5 DEF Kind
        <5> QED
          BY <1>3, <5>1
      <4> QED
        BY <3>4, <4>1
    <3>6. Waiting(q, g)'
      BY <1>2, <3>3, <3>5 DEF Waiting, AtStart
    <3> QED
      BY <3>2, <3>6 DEF Waiting, AtStart
  <2>7. Tree(q)'
    BY <1>2, <2>3, <2>5, <2>6 DEF Tree
  <2>8. Output(q)'
    <3>1. CASE phase # "next"
      BY <1>1, <1>10, <3>1 DEF Output
    <3>2. CASE phase = "next" /\ f.at = "child"
      <4>1. t = N /\ f.op - 1 = N
        <5>1. f.op > N
          BY <2>2, <3>2 DEF Kind
        <5> QED
          BY <1>3, <1>13, <2>2, <5>1
      <4>2. Offered(q, f.op - 1)'
        BY <1>2, <1>9, <3>2, <4>1 DEF Offered
      <4> QED
        BY <1>1, <2>3, <3>2, <4>2 DEF Output
    <3>3. CASE phase = "next" /\ f.at # "child"
      <4>1. f.op \in 2 .. N
        BY <2>2, <3>3 DEF Kind
      <4>2. N # t /\ N \in Scans
        BY <1>3, <1>5, <2>2, <4>1
      <4>3. q[N] = p[N]
        BY <4>2
      <4> QED
        BY <1>1, <1>2, <1>7, <2>3, <3>3, <4>3 DEF Output
    <3> QED
      BY <3>1, <3>2, <3>3
  <2> QED
    BY <1>6, <2>7, <2>8
<1> QED
  BY <1>11, <1>12

Elsewhere(p, q, t) ==
  \A i \in Scans : i # t => q[i] = p[i] /\ filepos'[i] = filepos[i]
Unheard(p, q, t) ==
  t \in Scans => q[t] = p[t] \/ t = N \/ calls[1].at \notin Going

LEMMA OthersWait ==
  ASSUME Shape, Stacked(calls, phase, built), NEW p, Tree(p), NEW q, calls # <<>>,
         NEW t, t = calls[1].op, UNCHANGED query,
         Elsewhere(p, q, t),
         Unheard(p, q, t),
         NEW i \in 2 .. Len(calls), NEW g, g = calls[i]
  PROVE  Waiting(q, g)'
<1> USE DEF Elsewhere, Unheard
<1> DEFINE m == Len(calls)
<1>1. /\ m \in Nat /\ t \in Nat /\ t >= 1
      /\ \A j \in 1 .. m : Kind(calls[j]) /\ calls[j].op = t + (j - 1)
      /\ m > 1 => Caller(calls[1].at, calls[2].at)
      /\ 1 \in 1 .. m /\ calls[1] \in Frames
  BY StackFacts
<1>2. i \in 1 .. m /\ i \in Nat /\ m > 1 /\ i >= 2
  BY <1>1
<1>3. Waiting(p, g)
  BY DEF Tree
<1>4. Kind(g) /\ g.op = t + (i - 1)
  BY <1>1, <1>2
<1>5. Scans = 1 .. N /\ N \in Nat
  BY Chain DEF Shape
<1>6. \A k : Size(k)' = Size(k)
  BY SameQuery
<1>7. ASSUME g.at \in {"left", "first"}
      PROVE  /\ q[g.op] = p[g.op] /\ q[g.op - 1] = p[g.op - 1]
             /\ filepos'[g.op] = filepos[g.op]
  <2>1. g.op \in 2 .. N
    BY <1>4, <1>7 DEF Kind
  <2>2. g.op \in Scans /\ g.op - 1 \in Scans /\ g.op # t
    BY <1>1, <1>2, <1>4, <1>5, <2>1
  <2>3. q[g.op - 1] = p[g.op - 1]
    <3>1. CASE g.op - 1 # t
      BY <2>2, <3>1
    <3>2. CASE g.op - 1 = t
      <4>1. i = 2 /\ t # N /\ t \in Scans
        BY <1>1, <1>2, <1>4, <1>5, <2>1, <2>2, <3>2
      <4>2. Caller(calls[1].at, g.at)
        BY <1>1, <1>2, <4>1
      <4>3. calls[1].at \in Going
        <5>1. calls[1].at \in AllAts
          BY <1>1 DEF Frames
        <5> QED
          BY <1>7, <4>2, <5>1 DEF Caller, Going, AllAts
      <4> QED
        BY <3>2, <4>1, <4>3
    <3> QED
      BY <3>1, <3>2
  <2> QED
    BY <2>2, <2>3
<1> QED
  BY <1>3, <1>6, <1>7 DEF Waiting, AtStart

(* The operator goes on with x. *)
LEMMA Turns ==
  ASSUME Shape, Stacked(calls, phase, built), NEW p, Tree(p), NEW q \in [Scans -> Nat],
         calls # <<>>, NEW t, t = calls[1].op, calls[1].at # "first", Context,
         NEW x \in Ats(phase), x \in AllAts, SameWay(calls[1].at, x), Kind(Frame(t, x)),
         calls' = [calls EXCEPT ![1].at = x],
         Elsewhere(p, q, t),
         Unheard(p, q, t),
         Acting(q, Frame(t, x))'
  PROVE  /\ Stacked(calls, phase, built)' /\ Tree(q)'
         /\ calls' # <<>> /\ calls'[1] = Frame(t, x)
<1> DEFINE m == Len(calls)
<1>1. UNCHANGED <<query, built, phase>>
  BY DEF Context, plan
<1>2. m \in Nat /\ m >= 1 /\ calls \in Seq(Frames) /\ calls[1] \in Frames /\ t \in Nat
  BY StackFacts
<1>3. /\ calls' \in Seq(Frames) /\ Len(calls') = m /\ calls'[1] = Frame(t, x)
      /\ \A i \in 2 .. m : calls'[i] = calls[i]
  <2>1. calls[1] = [op |-> t, at |-> calls[1].at]
    BY <1>2 DEF Frames
  <2>2. [calls[1] EXCEPT !.at = x] = Frame(t, x) /\ Frame(t, x) \in Frames
    <3>1. [calls[1] EXCEPT !.at = x] = [op |-> t, at |-> x]
      BY <2>1
    <3> QED
      BY <1>2, <3>1 DEF Frame, Frames
  <2>3. calls' = [calls EXCEPT ![1] = Frame(t, x)]
    BY <2>2
  <2> DEFINE f == Frame(t, x)
  <2> HIDE DEF f
  <2>4. f \in Frames /\ calls' = [calls EXCEPT ![1] = f]
    BY <2>2, <2>3 DEF f
  <2>5. calls' \in Seq(Frames) /\ Len(calls') = m
    BY <1>2, <2>4
  <2>6. calls'[1] = f /\ \A i \in 2 .. m : calls'[i] = calls[i]
    BY <1>2, <2>4
  <2> QED
    BY <2>5, <2>6 DEF f
<1>4. Stacked(calls', phase, built)
  <2>1. calls'[1] = Frame(calls[1].op, x) /\ Kind(Frame(calls[1].op, x))
    BY <1>3
  <2>2. \A i \in 2 .. Len(calls) : calls'[i] = calls[i]
    BY <1>3
  <2>3. calls' \in Seq(Frames) /\ Len(calls') = Len(calls)
    BY <1>3
  <2> QED
    BY <2>1, <2>2, <2>3, StackGoes
<1>5. Stacked(calls, phase, built)'
  BY <1>1, <1>4, StackedNext
<1>6. calls' # <<>>
  BY <1>2, <1>3
<1>7. ASSUME NEW i \in 2 .. m
      PROVE  Waiting(q, calls[i])'
  <2>1. PICK g : g = calls[i]
    OBVIOUS
  <2>2. Waiting(q, g)'
    BY <1>1, <2>1, OthersWait
  <2> QED
    BY <1>3, <2>1, <2>2 DEF Waiting, AtStart
<1>8. Acting(q, calls[1])'
  BY <1>3 DEF Acting, AtStart
<1>9. Scans' = Scans
  BY <1>1, SameQuery
<1>10. Tree(q)'
  BY <1>3, <1>6, <1>7, <1>8, <1>9 DEF Tree
<1> QED
  BY <1>3, <1>5, <1>6, <1>10

(* The operator calls its child. *)
LEMMA Descends ==
  ASSUME Shape, Stacked(calls, phase, built), NEW p, Tree(p), NEW q \in [Scans -> Nat],
         calls # <<>>, NEW t, t = calls[1].op, t > 1, calls[1].at # "first", Context,
         NEW x \in Ats(phase), x \in AllAts, SameWay(calls[1].at, x), Kind(Frame(t, x)),
         NEW what \in Ats(phase), what \in AllAts, Kind(Frame(t - 1, what)), Caller(what, x),
         calls' = <<Frame(t - 1, what), Frame(t, x)>> \o Tail(calls),
         Elsewhere(p, q, t),
         Unheard(p, q, t),
         Acting(q, Frame(t - 1, what))', Waiting(q, Frame(t, x))'
  PROVE  /\ Stacked(calls, phase, built)' /\ Tree(q)'
         /\ calls' # <<>> /\ calls'[1] = Frame(t - 1, what)
<1> DEFINE m == Len(calls)
<1>1. UNCHANGED <<query, built, phase>>
  BY DEF Context, plan
<1>2. m \in Nat /\ m >= 1
  BY StackFacts
<1>3. /\ Stacked(calls', phase, built) /\ Len(calls') = m + 1
      /\ calls' # <<>> /\ calls'[1] = Frame(t - 1, what) /\ calls'[2] = Frame(t, x)
      /\ \A i \in 2 .. m : calls'[i + 1] = calls[i]
  <2>1. /\ calls' = <<Frame(calls[1].op - 1, what), Frame(calls[1].op, x)>> \o Tail(calls)
        /\ Kind(Frame(calls[1].op, x)) /\ Kind(Frame(calls[1].op - 1, what))
        /\ calls[1].op > 1
    OBVIOUS
  <2>2. /\ Stacked(calls', phase, built)
        /\ Pushed(calls, calls', Frame(calls[1].op - 1, what), Frame(calls[1].op, x))
    BY <2>1, StackCalls
  <2> QED
    BY <2>2 DEF Pushed
<1>5. Stacked(calls, phase, built)'
  BY <1>1, <1>3, StackedNext
<1>7. ASSUME NEW i \in 2 .. (m + 1)
      PROVE  Waiting(q, calls[i])'
  <2>1. CASE i = 2
    BY <1>3, <2>1 DEF Waiting, AtStart
  <2>2. CASE i # 2
    <3>1. i - 1 \in 2 .. m /\ (i - 1) + 1 = i
      BY <1>2, <2>2
    <3>2. PICK g : g = calls[i - 1]
      OBVIOUS
    <3>3. Waiting(q, g)'
      BY <1>1, <3>1, <3>2, OthersWait
    <3>4. calls'[i] = g
      BY <1>3, <3>1, <3>2
    <3> QED
      BY <3>3, <3>4 DEF Waiting, AtStart
  <2> QED
    BY <2>1, <2>2
<1>8. Acting(q, calls[1])'
  BY <1>3 DEF Acting, AtStart
<1>9. Scans' = Scans
  BY <1>1, SameQuery
<1>10. Tree(q)'
  BY <1>3, <1>7, <1>8, <1>9 DEF Tree
<1> QED
  BY <1>3, <1>5, <1>10

(* The operator returns from what a rewind has called. *)
LEMMA Unwinds ==
  ASSUME Shape, Stacked(calls, phase, built), NEW p, Tree(p), NEW q \in [Scans -> Nat],
         calls # <<>>, NEW t, t = calls[1].op, calls[1].at \notin Going, Context,
         calls' = Tail(calls),
         Elsewhere(p, q, t),
         Below(q, Lower(t))', q[Lower(t)] = 0
  PROVE  Stacked(calls, phase, built)' /\ Tree(q)'
<1> DEFINE m == Len(calls)
<1>1. UNCHANGED <<query, built, phase>>
  BY DEF Context, plan
<1>2. /\ m \in Nat /\ m >= 1 /\ t \in Nat /\ calls[1] \in Frames
      /\ calls[1].at \in Ats(phase)
      /\ m > 1 => /\ calls[2].op = t + 1 /\ Caller(calls[1].at, calls[2].at)
                  /\ Kind(calls[2])
  BY StackFacts
<1>3. /\ Stacked(calls', phase, built) /\ Len(calls') = m - 1
      /\ \A i \in 1 .. (m - 1) : calls'[i] = calls[i + 1]
      /\ calls' = <<>> <=> m = 1
  BY StackReturns
<1>5. Stacked(calls, phase, built)'
  BY <1>1, <1>3, StackedNext
<1>6. Scans' = Scans /\ N' = N /\ (\A k : Lower(k)' = Lower(k))
  BY <1>1, SameQuery DEF Lower
<1>7. N \in Nat /\ N >= 1 /\ N <= Top /\ Scans = 1 .. N
  BY Chain DEF Shape
<1>8. calls[1].at \in {"first", "rewind", "rewound"}
  BY <1>2 DEF Frames, AllAts, Going
<1> HIDE DEF m
<1>9. CASE m = 1
  <2>1. Bottom(calls[1], phase, built)
    BY <1>9 DEF Stacked, m
  <2>2. phase \in {"build", "rewind"}
    BY <1>2, <1>8 DEF Ats, Shape
  <2>3. Lower(t) = Roof
    <3>1. CASE phase = "build"
      <4>1. t = built /\ built <= N
        BY <1>7, <2>1, <3>1 DEF Bottom, Frame, Shape
      <4> QED
        BY <1>2, <1>7, <3>1, <4>1 DEF Roof, Lower
    <3>2. CASE phase = "rewind"
      <4>1. t = Top
        BY <2>1, <3>2 DEF Bottom
      <4> QED
        BY <1>2, <1>7, <3>2, <4>1 DEF Roof, Lower
    <3> QED
      BY <2>2, <3>1, <3>2
  <2>4. Roof' = Roof
    BY <1>1, <1>6 DEF Roof
  <2>5. calls' = <<>> /\ Len(calls') = 0
    BY <1>3, <1>9
  <2>6. \A i \in 2 .. Len(calls') : FALSE
    <3>1. \A i \in 2 .. 0 : FALSE
      OBVIOUS
    <3> QED
      BY <2>5, <3>1
  <2>7. Below(q, Roof)' /\ q[Roof'] = 0
    BY <1>6, <2>3, <2>4 DEF Below
  <2> QED
    BY <1>5, <1>6, <2>5, <2>6, <2>7 DEF Tree
<1>10. CASE m # 1
  <2>0. PICK f : f = calls[2]
    OBVIOUS
  <2>1. m > 1 /\ 1 \in 1 .. (m - 1) /\ 1 + 1 = 2
    BY <1>2, <1>10
  <2>2. f.op = t + 1 /\ f.at = "rewound"
    BY <1>2, <1>8, <2>0, <2>1 DEF Caller
  <2>3. f.op - 1 = t
    BY <1>2, <2>2
  <2>4. Acting(q, f)'
    BY <1>6, <2>2, <2>3 DEF Acting
  <2>5. calls'[1] = f /\ calls' # <<>>
    BY <1>3, <1>10, <2>0, <2>1
  <2>6. ASSUME NEW i \in 2 .. (m - 1)
        PROVE  Waiting(q, calls[i])'
    <3>1. i + 1 \in 2 .. m /\ i \in 1 .. (m - 1)
      BY <1>2
    <3>2. PICK g : g = calls[i + 1]
      OBVIOUS
    <3>3. Waiting(q, g)'
      <4>1. Unheard(p, q, t)
        BY DEF Unheard
      <4> QED
        BY <1>1, <3>1, <3>2, <4>1, OthersWait DEF m
    <3>4. calls'[i] = g
      BY <1>3, <3>1, <3>2
    <3> QED
      BY <3>3, <3>4 DEF Waiting, AtStart
  <2>7. Acting(q, calls[1])'
    BY <2>4, <2>5 DEF Acting, AtStart
  <2>8. Tree(q)'
    BY <1>3, <1>6, <2>5, <2>6, <2>7 DEF Tree
  <2> QED
    BY <1>5, <2>8
<1> QED
  BY <1>9, <1>10

(* What an action that does something for the innermost call keeps. *)
Keeps == Shape' /\ Stacked(calls, phase, built)' /\ \E q : Tree(q)' /\ Output(q)'

LEMMA Here ==
  ASSUME Shape, Stacked(calls, phase, built), NEW op, NEW at, Active(op, at)
  PROVE  \E t \in 1 .. Top :
           /\ t = calls[1].op /\ calls[1] = Frame(t, at) /\ calls[1].at = at
           /\ Op(t) = op /\ at \in Ats(phase) /\ at \in AllAts /\ Kind(Frame(t, at))
           /\ calls # <<>> /\ calls \in Seq(Frames)
<1>1. calls # <<>> /\ Op(calls[1].op) = op /\ calls[1].at = at
  BY DEF Active
<1>2. /\ calls \in Seq(Frames) /\ 1 \in 1 .. Len(calls)
      /\ \A i \in 1 .. Len(calls) :
           /\ calls[i] \in Frames /\ calls[i] = Frame(calls[i].op, calls[i].at)
           /\ Kind(calls[i]) /\ calls[i].at \in Ats(phase)
  BY <1>1, StackFacts
<1>3. calls[1] = Frame(calls[1].op, at) /\ Kind(calls[1]) /\ at \in Ats(phase)
      /\ calls[1] \in Frames
  BY <1>1, <1>2
<1>4. calls[1].op \in 1 .. Top /\ at \in AllAts
  BY <1>1, <1>3 DEF Kind, Frames
<1> QED
  BY <1>1, <1>2, <1>3, <1>4

LEMMA ShapeKeeps ==
  ASSUME Shape, Context, filepos' \in [Scans -> Nat], lvalid' \in [Scans -> {0, 1}],
         DOMAIN lt' = Scans,
         phase = "build" => \A s \in Scans : s > built => filepos'[s] = filepos[s]
  PROVE  Shape'
<1>1. UNCHANGED <<query, built, phase>>
  BY DEF Context, plan
<1>2. Scans' = Scans
  BY <1>1, SameQuery
<1> QED
  BY <1>1, <1>2 DEF Shape

LEMMA LowWhileBuilding ==
  ASSUME Shape, Stacked(calls, phase, built), calls # <<>>, phase = "build",
         calls[1].at # "first"
  PROVE  calls[1].op < built
<1> DEFINE m == Len(calls)
<1>1. /\ m \in Nat /\ m >= 1 /\ calls[1].op \in Nat
      /\ \A i \in 1 .. m : calls[i].op = calls[1].op + (i - 1)
  BY StackFacts
<1>2. calls[m] = Frame(built, "first")
  BY DEF Stacked, Bottom
<1> HIDE DEF m
<1>3. m # 1 /\ m \in 1 .. m
  BY <1>1, <1>2 DEF Frame
<1>4. calls[m].op = built
  BY <1>2 DEF Frame
<1>5. built = calls[1].op + (m - 1)
  BY <1>1, <1>3, <1>4
<1> QED
  BY <1>1, <1>3, <1>5

(* Only its caller asks the plan for a tuple. *)
LEMMA Asked ==
  ASSUME Shape, Stacked(calls, phase, built), calls # <<>>, calls[1].at = "next",
         calls[1].op >= N
  PROVE  phase = "next"
<1>1. /\ Len(calls) \in Nat /\ Len(calls) >= 1 /\ calls[1].op \in Nat
      /\ calls[1].at \in Ats(phase) /\ 1 \in 1 .. Len(calls)
      /\ Len(calls) > 1 => /\ calls[2].op = calls[1].op + 1 /\ Kind(calls[2])
                           /\ Caller(calls[1].at, calls[2].at) /\ calls[2].at \in Ats(phase)
  BY StackFacts
<1>2. N \in Nat /\ Scans = 1 .. N
  BY Chain DEF Shape
<1>3. CASE phase = "build"
  <2>1. calls[1].op < built
    BY <1>3, LowWhileBuilding
  <2> QED
    BY <1>1, <1>2, <2>1 DEF Shape
<1>4. CASE phase = "rewind"
  <2>1. CASE Len(calls) = 1
    <3>1. Bottom(calls[1], phase, built)
      BY <2>1 DEF Stacked
    <3> QED
      BY <1>4, <3>1 DEF Bottom
  <2>2. CASE Len(calls) # 1
    <3> DEFINE m == Len(calls)
    <3>0. m \in Nat /\ m >= 1 /\ m # 1
      BY <1>1, <2>2
    <3> HIDE DEF m
    <3>a. m > 1
      BY <3>0
    <3>1. Len(calls) > 1
      BY <3>a DEF m
    <3>2. calls[2].at \in {"left", "first"}
      BY <1>1, <1>4, <3>1 DEF Caller, Ats
    <3>3. calls[2].op \in 2 .. N
      BY <1>1, <3>1, <3>2 DEF Kind
    <3> QED
      BY <1>1, <1>2, <3>1, <3>3
  <2> QED
    BY <2>1, <2>2
<1> QED
  BY <1>1, <1>3, <1>4 DEF Ats, Shape

LEMMA NoCondition ==
  ASSUME Shape, Child = N, ~OneJoin
  PROVE  \A c : Satisfies(c)
<1>1. N \in Nat
  BY Chain DEF Shape
<1>2. ~Selects
  BY <1>1 DEF Child
<1>3. query.where = <<>>
  BY <1>2 DEF Selects
<1>4. DOMAIN query.where = {}
  BY <1>3
<1> QED
  BY <1>4 DEF Satisfies

LEMMA NextScanKeeps ==
  ASSUME Shape, Stacked(calls, phase, built), NEW p, Tree(p), Output(p), NextScan
  PROVE  Keeps
<1>0. Context /\ UNCHANGED <<lt, lvalid>> /\ UNCHANGED query
  BY DEF NextScan, Context, plan
<1>1. PICK t \in 1 .. Top :
        /\ t = calls[1].op /\ calls[1] = Frame(t, "next") /\ calls[1].at = "next"
        /\ Op(t) = "SCAN" /\ calls # <<>>
  BY Here DEF NextScan
<1>2. /\ N \in Nat /\ N >= 1 /\ Scans = 1 .. N /\ 1 \in Scans
      /\ Child \in {N, N + 1}
  BY Chain DEF Shape
<1>3. t = 1
  BY <1>1, Chain DEF Shape
<1>4. Lower(1) = 1
  BY <1>2 DEF Lower
<1>5. Settled(p, 1)
  <2>1. Acting(p, calls[1])
    BY <1>1 DEF Tree
  <2>2. Below(p, Lower(1))
    BY <1>1, <1>3, <2>1 DEF Acting, Frame
  <2> QED
    BY <1>4, <2>2 DEF Below
<1>6. p[1] = filepos[1] /\ p[1] \in 0 .. Count(1) /\ p[1] \in Nat /\ p \in [Scans -> Nat]
      /\ filepos \in [Scans -> Nat]
  BY <1>2, <1>5 DEF Settled, Tree, Shape
<1>7. /\ Count(1) = Size(1) /\ Size(1) \in Nat
      /\ \A n \in 1 .. Size(1) : Whole(1, n) = File(1)[n]
  BY <1>2, Wholes, Files DEF Shape
<1>8. Size(1) = Len(File(1))
  BY DEF Size
<1>9. /\ \A k : Count(k)' = Count(k) /\ Size(k)' = Size(k)
      /\ \A k, n : Whole(k, n)' = Whole(k, n)
  BY <1>0, SameQuery, SameChoices
<1>10. CASE More(1)
  <2> DEFINE q == [p EXCEPT ![1] = @ + 1]
  <2>1. /\ got' = [ret |-> 1, tuple |-> Read(1)] /\ calls' = Tail(calls)
        /\ filepos' = [filepos EXCEPT ![1] = @ + 1]
    BY <1>10 DEF NextScan, Return
  <2>2. /\ q \in [Scans -> Nat] /\ q[1] = p[1] + 1 /\ filepos'[1] = filepos[1] + 1
        /\ \A i \in Scans : i # 1 => q[i] = p[i] /\ filepos'[i] = filepos[i]
        /\ filepos' \in [Scans -> Nat]
    BY <1>2, <1>6, <2>1
  <2> HIDE DEF q
  <2>3. q[1] \in 1 .. Count(1) /\ filepos[1] + 1 = q[1]
    BY <1>6, <1>7, <1>8, <1>10, <2>2 DEF More
  <2>4. got'.ret = 1 /\ got'.tuple = Whole(1, q[1])
    BY <1>7, <2>1, <2>3 DEF Read
  <2>5. Returned(q, 1)'
    BY <1>9, <2>3, <2>4 DEF Returned
  <2>6. Settled(q, 1)'
    <3>1. q[1] \in 0 .. Count(1) /\ filepos'[1] \in 0 .. Size(1) /\ q[1] = filepos'[1]
      BY <1>7, <2>2, <2>3
    <3> QED
      BY <1>9, <3>1 DEF Settled
  <2>7. Below(q, 1)'
    BY <2>6 DEF Below
  <2>8. N = 1 /\ Child = N => Satisfies(Combination(q[N]))
    BY NoCondition DEF OneJoin
  <2>9. Stacked(calls, phase, built)' /\ Tree(q)' /\ Output(q)'
    <3>1. 1 <= N /\ 1 = calls[1].op
      BY <1>1, <1>2, <1>3
    <3> QED
      BY <1>0, <1>1, <2>1, <2>2, <2>4, <2>5, <2>7, <2>8, <3>1, Gives
  <2>10. Shape'
    <3>1. ASSUME NEW s \in Scans, s > built PROVE filepos'[s] = filepos[s]
      <4>1. s # 1
        BY <1>2, <3>1 DEF Shape
      <4> QED
        BY <2>2, <4>1
    <3> QED
      BY <1>0, <2>2, <3>1, ShapeKeeps DEF Shape
  <2> QED
    BY <2>9, <2>10 DEF Keeps
<1>11. CASE ~More(1)
  <2>1. /\ got' = [ret |-> 0, tuple |-> got.tuple] /\ calls' = Tail(calls)
        /\ filepos' = filepos
    BY <1>11 DEF NextScan, Return
  <2>2. p[1] = Count(1) /\ got'.ret = 0
    BY <1>6, <1>7, <1>8, <1>11, <2>1 DEF More
  <2>3. Returned(p, 1)'
    BY <1>9, <2>2 DEF Returned
  <2>4. Below(p, 1)'
    <3>1. Below(p, 1)
      BY <1>5 DEF Below
    <3> QED
      BY <1>0, <2>1, <3>1, BelowSame
  <2>5. Stacked(calls, phase, built)' /\ Tree(p)' /\ Output(p)'
    <3>1. 1 <= N /\ 1 = calls[1].op
      BY <1>1, <1>2, <1>3
    <3> QED
      BY <1>0, <1>1, <1>6, <2>1, <2>2, <2>3, <2>4, <3>1, Gives
  <2>6. Shape'
    BY <1>0, <2>1, ShapeKeeps DEF Shape
  <2> QED
    BY <2>5, <2>6 DEF Keeps
<1> QED
  BY <1>10, <1>11

LEMMA NotReady ==
  ASSUME Shape, Stacked(calls, phase, built), calls # <<>>
  PROVE  phase \in {"build", "next", "rewind"}
<1>1. calls[1].at \in Ats(phase)
  BY StackFacts
<1> QED
  BY <1>1 DEF Ats, Shape

(* The caller of the plan has been given what it had been given. *)
LEMMA StillOut ==
  ASSUME Shape, Stacked(calls, phase, built), NEW p, Output(p), NEW q, calls # <<>>,
         Context, calls' # <<>>, calls'[1].at # "child", calls[1].at # "child",
         phase = "next" => Kept(q[N]) = Kept(p[N])
  PROVE  Output(q)'
<1>1. UNCHANGED query /\ phase' = phase /\ out' = out
  BY DEF Context, plan
<1>2. phase \in {"build", "next", "rewind"}
  BY NotReady
<1>3. N' = N
  BY <1>1, SameQuery
<1>4. CASE phase = "next"
  <2>1. out = Kept(p[N])
    BY <1>4 DEF Output
  <2>2. PICK n : n = q[N]
    OBVIOUS
  <2>3. Kept(n)' = Kept(n)
    BY <1>1, SameMeaning
  <2>4. out' = Kept(q[N])'
    BY <1>1, <1>3, <1>4, <2>1, <2>2, <2>3
  <2> QED
    BY <1>1, <1>4, <2>4 DEF Output
<1>5. CASE phase # "next"
  <2>1. out = <<>>
    BY <1>2, <1>5 DEF Output
  <2> QED
    BY <1>1, <1>2, <1>5, <2>1 DEF Output
<1> QED
  BY <1>4, <1>5

(* The right tuple of a join. *)
LEMMA JoinReads ==
  ASSUME Shape, NEW p \in [Scans -> Nat], NEW t \in 2 .. N, Settled(p, t),
         lvalid[t] = 1, More(t)
  PROVE  /\ p[t - 1] \in 1 .. Count(t - 1) /\ filepos[t] + 1 \in 1 .. Size(t)
         /\ p[t] + 1 \in 1 .. Count(t) /\ p[t] \in Nat
         /\ p[t] + 1 = (p[t - 1] - 1) * Size(t) + (filepos[t] + 1)
         /\ lt[t] = Whole(t - 1, p[t - 1])
         /\ lt[t] \o Read(t) = Whole(t, p[t] + 1)
<1>1. N \in Nat /\ Scans = 1 .. N /\ query \in Queries
  BY Chain DEF Shape
<1>2. t \in Scans /\ t \in 1 .. N /\ t - 1 \in Scans /\ t # 1 /\ filepos[t] \in Nat
  BY <1>1 DEF Shape
<1>3. /\ p[t - 1] \in 1 .. Count(t - 1) /\ lt[t] = Whole(t - 1, p[t - 1])
      /\ p[t] = (p[t - 1] - 1) * Size(t) + filepos[t]
  BY <1>2 DEF Settled
<1> DEFINE j == p[t - 1]
           i == filepos[t] + 1
<1>4. Size(t) \in Nat /\ filepos[t] < Size(t)
  BY <1>1, <1>2, Files DEF More, Size
<1>5. i \in 1 .. Size(t)
  BY <1>2, <1>4
<1>6. /\ Count(t - 1) \in Nat /\ Count(t) \in Nat
      /\ (j - 1) * Size(t) + i \in 1 .. Count(t)
  BY <1>1, <1>2, <1>3, <1>5, ChoiceStep
<1>7. Whole(t, (j - 1) * Size(t) + i) = Whole(t - 1, j) \o File(t)[i]
  BY <1>1, <1>3, <1>5, Wholes
<1>8. j \in Nat /\ j >= 1
  BY <1>3, <1>6
<1>9. p[t] + 1 = (j - 1) * Size(t) + i
  <2>1. (j - 1) * Size(t) \in Nat
    BY <1>4, <1>8, Products
  <2> DEFINE z == (j - 1) * Size(t)
  <2>2. z \in Nat /\ p[t] = z + filepos[t] /\ filepos[t] \in Nat
    BY <1>2, <1>3, <2>1
  <2> HIDE DEF z
  <2>3. p[t] + 1 = z + (filepos[t] + 1)
    BY <2>2
  <2> QED
    BY <2>3 DEF z
<1>10. p[t] \in Nat
  BY <1>2
<1> HIDE DEF j, i
<1>11. p[t] + 1 \in 1 .. Count(t) /\ Whole(t, p[t] + 1) = Whole(t - 1, j) \o File(t)[i]
  BY <1>6, <1>7, <1>9
<1> QED
  BY <1>3, <1>5, <1>9, <1>10, <1>11 DEF i, j, Read

LEMMA JoinHasRead ==
  ASSUME Shape, NEW p \in [Scans -> Nat], NEW t \in 2 .. N, Settled(p, t),
         lvalid[t] = 1, More(t), UNCHANGED <<query, lt, lvalid>>, NEW q,
         q[t] = p[t] + 1, q[t - 1] = p[t - 1], filepos'[t] = filepos[t] + 1
  PROVE  Settled(q, t)'
<1>1. /\ p[t - 1] \in 1 .. Count(t - 1) /\ filepos[t] + 1 \in 1 .. Size(t)
      /\ p[t] + 1 \in 1 .. Count(t) /\ p[t] \in Nat
      /\ p[t] + 1 = (p[t - 1] - 1) * Size(t) + (filepos[t] + 1)
      /\ lt[t] = Whole(t - 1, p[t - 1])
  BY JoinReads
<1>2. /\ \A k : Count(k)' = Count(k) /\ Size(k)' = Size(k)
      /\ \A k, n : Whole(k, n)' = Whole(k, n)
  BY SameQuery, SameChoices
<1>3. /\ q[t] \in 0 .. Count(t) /\ filepos'[t] \in 0 .. Size(t) /\ t # 1
      /\ lvalid'[t] = 1 /\ q[t - 1] \in 1 .. Count(t - 1)
      /\ lt'[t] = Whole(t - 1, q[t - 1])
      /\ q[t] = (q[t - 1] - 1) * Size(t) + filepos'[t]
  <2>1. N \in Nat
    BY Chain DEF Shape
  <2> QED
    BY <1>1, <2>1
<1> QED
  BY <1>2, <1>3 DEF Settled

LEMMA TwoAppended ==
  ASSUME NEW X, NEW x \in X, NEW y \in X
  PROVE  Append(Append(<<>>, x), y)[1] = x /\ Append(Append(<<>>, x), y)[2] = y
<1>1. Append(<<>>, x) \in Seq(X) /\ Append(<<>>, x)[1] = x /\ Len(Append(<<>>, x)) = 1
  <2>1. <<>> \in Seq(X)
    OBVIOUS
  <2> QED
    BY <2>1, AppendIs
<1> QED
  BY <1>1, AppendIs

(* The only join of a query of two relations. *)
LEMMA JoinCombination ==
  ASSUME query \in Queries, N = 2, NEW j \in 1 .. Count(1), NEW i \in 1 .. Size(2)
  PROVE  /\ Combination((j - 1) * Size(2) + i)[1] = Whole(1, j)
         /\ Combination((j - 1) * Size(2) + i)[2] = File(2)[i]
<1>1. Scans = 1 .. 2 /\ 1 \in 1 .. N /\ 2 \in 1 .. N /\ 1 \in 0 .. N /\ 0 \in 0 .. N
  BY DEF Scans
<1>2. Combination((j - 1) * Size(2) + i) = Append(Choices[1][j], File(2)[i])
  <2>1. 2 - 1 = 1
    OBVIOUS
  <2> QED
    BY <1>1, <2>1, ChoiceStep DEF Combination
<1>3. Choices[0] = << <<>> >> /\ Count(0) = 1
  BY <1>1, ChoicesExist DEF Count
<1>4. Count(1) = Size(1) /\ Whole(1, j) = File(1)[j] /\ Size(1) \in Nat
  BY <1>1, Wholes, Files
<1>5. Choices[1][j] = Append(<<>>, File(1)[j])
  <2>1. j \in 1 .. Size(1) /\ 1 \in 1 .. Count(0) /\ 1 - 1 = 0
    BY <1>3, <1>4
  <2>2. Choices[1][(1 - 1) * Size(1) + j] = Append(Choices[0][1], File(1)[j])
    BY <1>1, <2>1, ChoiceStep
  <2>3. (1 - 1) * Size(1) + j = j
    BY <1>4, <2>1
  <2> QED
    BY <1>3, <2>2, <2>3
<1>6. File(1)[j] \in Seq(Values) /\ File(2)[i] \in Seq(Values)
  BY <1>1, <1>4, Files
<1>7. PICK x \in Seq(Values) : x = File(1)[j]
  BY <1>6
<1>8. PICK y \in Seq(Values) : y = File(2)[i]
  BY <1>6
<1>9. Append(Append(<<>>, x), y)[1] = x /\ Append(Append(<<>>, x), y)[2] = y
  BY TwoAppended
<1> QED
  BY <1>2, <1>4, <1>5, <1>7, <1>8, <1>9

(* The next of a join, before it has done anything. *)
LEMMA JoinNext ==
  ASSUME Shape, Stacked(calls, phase, built), NEW p, Tree(p), Active("NTJOIN", "next")
  PROVE  \E t \in 2 .. N :
           /\ t = calls[1].op /\ calls[1] = Frame(t, "next") /\ calls[1].at = "next"
           /\ calls # <<>> /\ "next" \in Ats(phase) /\ t \in 1 .. Top
           /\ t \in Nat /\ t <= N /\ t \in Scans /\ t - 1 \in Scans /\ t \in 1 .. N
           /\ Lower(t) = t /\ Below(p, t) /\ Settled(p, t) /\ N \in Nat
           /\ query \in Queries /\ Scans = 1 .. N
<1>1. PICK t \in 1 .. Top :
        /\ t = calls[1].op /\ calls[1] = Frame(t, "next") /\ calls[1].at = "next"
        /\ Op(t) = "NTJOIN" /\ calls # <<>> /\ "next" \in Ats(phase)
  BY Here
<1>2. N \in Nat /\ N >= 1 /\ Scans = 1 .. N /\ query \in Queries
  BY Chain DEF Shape
<1>3. t \in 2 .. N
  BY <1>1, Chain DEF Shape
<1>4. t \in Nat /\ t <= N /\ t \in Scans /\ t - 1 \in Scans /\ Lower(t) = t
      /\ t \in 1 .. N /\ t \in 1 .. t
  BY <1>2, <1>3 DEF Lower
<1>5. Acting(p, calls[1])
  BY <1>1 DEF Tree
<1>6. Below(p, t)
  BY <1>1, <1>4, <1>5 DEF Acting
<1>7. Settled(p, t)
  BY <1>4, <1>6 DEF Below
<1> QED
  BY <1>1, <1>2, <1>3, <1>4, <1>6, <1>7

LEMMA NTInnerKeeps ==
  ASSUME Shape, NamesAt, Stacked(calls, phase, built), NEW p, Tree(p), Output(p), NTInner
  PROVE  Keeps
<1>0. Context /\ UNCHANGED <<lt, lvalid>> /\ UNCHANGED query /\ Active("NTJOIN", "next")
  BY DEF NTInner, Context, plan
<1>1. PICK t \in 2 .. N :
        /\ t = calls[1].op /\ calls[1] = Frame(t, "next") /\ calls[1].at = "next"
        /\ calls # <<>> /\ "next" \in Ats(phase) /\ t \in 1 .. Top
        /\ t \in Nat /\ t <= N /\ t \in Scans /\ t - 1 \in Scans /\ t \in 1 .. N
        /\ Lower(t) = t /\ Below(p, t) /\ Settled(p, t) /\ N \in Nat
        /\ query \in Queries /\ Scans = 1 .. N
  BY <1>0, JoinNext
<1>2. /\ lvalid[t] = 1 /\ More(t)
      /\ filepos' = [filepos EXCEPT ![t] = @ + 1]
      /\ IF Joined(t, Read(t)) THEN Return(1, lt[t] \o Read(t)) ELSE GoTo("next")
  BY <1>1 DEF NTInner, This
<1>3. p \in [Scans -> Nat] /\ filepos \in [Scans -> Nat] /\ lvalid \in [Scans -> {0, 1}]
      /\ DOMAIN lt = Scans
  BY DEF Tree, Shape
<1>4. /\ p[t - 1] \in 1 .. Count(t - 1) /\ filepos[t] + 1 \in 1 .. Size(t)
      /\ p[t] + 1 \in 1 .. Count(t) /\ p[t] \in Nat
      /\ p[t] + 1 = (p[t - 1] - 1) * Size(t) + (filepos[t] + 1)
      /\ lt[t] = Whole(t - 1, p[t - 1])
      /\ lt[t] \o Read(t) = Whole(t, p[t] + 1)
  BY <1>1, <1>2, <1>3, JoinReads
<1> DEFINE q == [p EXCEPT ![t] = @ + 1]
<1>5. /\ q \in [Scans -> Nat] /\ q[t] = p[t] + 1 /\ filepos'[t] = filepos[t] + 1
      /\ \A i \in Scans : i # t => q[i] = p[i] /\ filepos'[i] = filepos[i]
      /\ filepos' \in [Scans -> Nat]
  <2>1. t \in Scans /\ p[t] + 1 \in Nat /\ filepos[t] + 1 \in Nat
    <3>1. filepos[t] \in Nat /\ t \in Scans
      BY <1>1, <1>3
    <3>2. p[t] \in Nat
      BY <1>4
    <3> QED
      BY <3>1, <3>2
  <2>2. /\ q \in [Scans -> Nat] /\ q[t] = p[t] + 1
        /\ \A i \in Scans : i # t => q[i] = p[i]
    BY <1>3, <2>1
  <2>3. /\ filepos' \in [Scans -> Nat] /\ filepos'[t] = filepos[t] + 1
        /\ \A i \in Scans : i # t => filepos'[i] = filepos[i]
    BY <1>2, <1>3, <2>1
  <2> QED
    BY <2>2, <2>3
<1> HIDE DEF q
<1>6. q[t - 1] = p[t - 1]
  BY <1>1, <1>5
<1>7. Settled(q, t)'
  <2>1. UNCHANGED <<query, lt, lvalid>>
    BY <1>0
  <2>2. Settled(p, t) /\ lvalid[t] = 1 /\ More(t) /\ p \in [Scans -> Nat]
    BY <1>1, <1>2, <1>3
  <2>3. q[t] = p[t] + 1 /\ q[t - 1] = p[t - 1] /\ filepos'[t] = filepos[t] + 1
    BY <1>5, <1>6
  <2> QED
    BY <2>1, <2>2, <2>3, JoinHasRead
<1>8. Below(q, t - 1)'
  <2>1. t - 1 \in Nat /\ t - 1 <= t /\ \A i \in 1 .. (t - 1) : i \in Scans /\ i # t
    BY <1>1
  <2>2. Below(p, t - 1)
    BY <1>1, <2>1, BelowLess
  <2>3. \A i \in 1 .. (t - 1) : /\ q[i] = p[i] /\ filepos'[i] = filepos[i]
                                /\ lvalid'[i] = lvalid[i] /\ lt'[i] = lt[i]
    BY <1>0, <1>5, <2>1
  <2> QED
    BY <1>0, <2>1, <2>2, <2>3, BelowSame
<1>9. Below(q, t)'
  <2>1. \A i \in 1 .. t : i = t \/ i \in 1 .. (t - 1)
    BY <1>1
  <2> QED
    BY <1>7, <1>8, <2>1 DEF Below
<1>10. Shape'
  <2>1. ASSUME phase = "build", NEW s \in Scans, s > built PROVE filepos'[s] = filepos[s]
    <3>1. t < built
      BY <1>1, <2>1, LowWhileBuilding
    <3>2. s # t
      BY <1>1, <2>1, <3>1 DEF Shape
    <3> QED
      BY <1>5, <3>2
  <2> QED
    BY <1>0, <1>3, <1>5, <2>1, ShapeKeeps
<1>11. /\ \A k : Count(k)' = Count(k) /\ Size(k)' = Size(k)
       /\ \A k, n : Whole(k, n)' = Whole(k, n)
  BY <1>0, SameQuery, SameChoices
\* The combination that has been read passes the condition of the join.
<1>12. ASSUME OneJoin, phase = "next"
       PROVE  Passes(<<lt[t], Read(t)>>) <=> Satisfies(Combination(q[t]))
  <2>1. N = 2 /\ t = 2 /\ t - 1 = 1
    BY <1>1, <1>12 DEF OneJoin
  <2>2. RightInJoin(condAt, CondRefs)
    BY <1>12 DEF NamesAt
  <2> DEFINE c == Combination((p[1] - 1) * Size(2) + (filepos[2] + 1))
  <2>3. c[1] = Whole(1, p[1]) /\ c[2] = File(2)[filepos[2] + 1]
    BY <1>1, <1>4, <2>1, JoinCombination
  <2>4. c = Combination(q[t]) /\ lt[t] = Whole(1, p[1]) /\ Read(t) = File(2)[filepos[2] + 1]
    BY <1>4, <1>5, <2>1 DEF Read
  <2> HIDE DEF c
  <2>5. Passes(<<c[1], c[2]>>) <=> Satisfies(c)
    BY <1>1, <2>1, <2>2, PassesInJoin
  <2> QED
    BY <2>3, <2>4, <2>5
<1>13. CASE Joined(t, Read(t))
  <2>1. got' = [ret |-> 1, tuple |-> lt[t] \o Read(t)] /\ calls' = Tail(calls)
    BY <1>2, <1>13 DEF Return
  <2>2. got'.ret = 1 /\ got'.tuple = Whole(t, q[t])
    BY <1>4, <1>5, <2>1
  <2>3. Returned(q, t)'
    BY <1>4, <1>5, <1>11, <2>2 DEF Returned
  <2>4. ASSUME phase = "next", t = N, N = Child PROVE Satisfies(Combination(q[N]))
    <3>1. CASE OneJoin
      <4>1. Passes(<<lt[t], Read(t)>>)
        BY <1>13, <2>4, <3>1 DEF Joined
      <4> QED
        BY <1>12, <2>4, <3>1, <4>1
    <3>2. CASE ~OneJoin
      BY <2>4, <3>2, NoCondition
    <3> QED
      BY <3>1, <3>2
  <2>5. Stacked(calls, phase, built)' /\ Tree(q)' /\ Output(q)'
    <3>1. phase = "next" /\ t = N /\ N = Child /\ got'.ret = 1 => Satisfies(Combination(q[N]))
      BY <2>4
    <3>2. q[t] = IF got'.ret = 1 THEN p[t] + 1 ELSE p[t]
      BY <1>5, <2>2
    <3>3. calls # <<>> /\ calls[1].at = "next" /\ t = calls[1].op /\ t <= N
      BY <1>1
    <3>4. Context /\ UNCHANGED <<lt, lvalid>> /\ calls' = Tail(calls)
      BY <1>0, <2>1
    <3>5. /\ q \in [Scans -> Nat]
          /\ \A i \in Scans : i # t => q[i] = p[i] /\ filepos'[i] = filepos[i]
      BY <1>5
    <3> QED
      BY <1>9, <2>3, <3>1, <3>2, <3>3, <3>4, <3>5, Gives
  <2> QED
    BY <1>10, <2>5 DEF Keeps
<1>14. CASE ~Joined(t, Read(t))
  <2>1. calls' = [calls EXCEPT ![1].at = "next"]
    BY <1>2, <1>14 DEF GoTo
  <2>2. OneJoin /\ t = N /\ ~Passes(<<lt[t], Read(t)>>)
    BY <1>1, <1>14 DEF Joined, OneJoin
  <2>3. phase = "next"
    <3>1. calls[1].op >= N
      BY <1>1, <2>2
    <3> QED
      BY <1>1, <3>1, Asked
  <2>4. Acting(q, Frame(t, "next"))'
    <3>1. Lower(t)' = t
      BY <1>0, <1>1, SameQuery DEF Lower
    <3> QED
      BY <1>9, <3>1 DEF Acting, Frame
  <2>5. Elsewhere(p, q, t) /\ Unheard(p, q, t)
    BY <1>5, <2>2 DEF Elsewhere, Unheard
  <2>6. Kind(Frame(t, "next")) /\ "next" \in AllAts /\ SameWay(calls[1].at, "next")
    BY <1>1 DEF Kind, Frame, AllAts, SameWay
  <2>7. /\ Stacked(calls, phase, built)' /\ Tree(q)'
        /\ calls' # <<>> /\ calls'[1] = Frame(t, "next")
    <3>1. calls[1].at # "first"
      BY <1>1
    <3>2. /\ calls # <<>> /\ t = calls[1].op /\ "next" \in Ats(phase)
          /\ q \in [Scans -> Nat] /\ Context
      BY <1>0, <1>1, <1>5
    <3> QED
      BY <2>1, <2>4, <2>5, <2>6, <3>1, <3>2, Turns
  <2>8. Kept(q[N]) = Kept(p[N])
    <3>1. q[N] \in 1 .. Count(N) /\ q[N] - 1 = p[N]
      BY <1>4, <1>5, <2>2
    <3>2. ~Satisfies(Combination(q[N]))
      BY <1>12, <2>2, <2>3
    <3> QED
      BY <1>1, <3>1, <3>2, KeptStep
  <2>9. Output(q)'
    <3>1. calls'[1].at # "child" /\ calls[1].at # "child"
      BY <1>1, <2>7 DEF Frame
    <3> QED
      BY <1>0, <1>1, <2>7, <2>8, <3>1, StillOut
  <2> QED
    BY <1>10, <2>7, <2>9 DEF Keeps
<1> QED
  BY <1>13, <1>14

LEMMA NTDoneKeeps ==
  ASSUME Shape, Stacked(calls, phase, built), NEW p, Tree(p), Output(p), NTDone
  PROVE  Keeps
<1>0. /\ Context /\ UNCHANGED <<filepos, lt, lvalid>> /\ UNCHANGED query
      /\ Active("NTJOIN", "next")
  BY DEF NTDone, Context, plan, tree
<1>1. PICK t \in 2 .. N :
        /\ t = calls[1].op /\ calls[1] = Frame(t, "next") /\ calls[1].at = "next"
        /\ calls # <<>> /\ "next" \in Ats(phase) /\ t \in 1 .. Top
        /\ t \in Nat /\ t <= N /\ t \in Scans /\ t - 1 \in Scans /\ t \in 1 .. N
        /\ Lower(t) = t /\ Below(p, t) /\ Settled(p, t) /\ N \in Nat
        /\ query \in Queries /\ Scans = 1 .. N
  BY <1>0, JoinNext
<1>2. /\ lvalid[t] = 0 /\ got' = [ret |-> 0, tuple |-> got.tuple] /\ calls' = Tail(calls)
  BY <1>1 DEF NTDone, Return, This
<1>3. p \in [Scans -> Nat] /\ got'.ret = 0
  BY <1>2 DEF Tree
<1>4. p[t] = Count(t)
  BY <1>1, <1>2 DEF Settled
<1>5. Count(t)' = Count(t)
  BY <1>0, SameChoices
<1>6. Returned(p, t)'
  BY <1>3, <1>4, <1>5 DEF Returned
<1>7. Below(p, t)'
  BY <1>0, <1>1, BelowSame
<1>8. Stacked(calls, phase, built)' /\ Tree(p)' /\ Output(p)'
  BY <1>0, <1>1, <1>2, <1>3, <1>6, <1>7, Gives
<1>9. Shape'
  BY <1>0, ShapeKeeps DEF Shape
<1> QED
  BY <1>8, <1>9 DEF Keeps

LEMMA NoneOut ==
  ASSUME Shape, Stacked(calls, phase, built), calls # <<>>, phase # "next",
         NEW p, Output(p), NEW q, Context
  PROVE  Output(q)'
<1>1. phase \in {"build", "rewind"} /\ phase' = phase /\ out' = out
  BY NotReady DEF Context
<1> QED
  BY <1>1 DEF Output

LEMMA NTOuterKeeps ==
  ASSUME Shape, Stacked(calls, phase, built), NEW p, Tree(p), Output(p), NTOuter
  PROVE  Keeps
<1>0. /\ Context /\ UNCHANGED <<filepos, lt, lvalid>> /\ UNCHANGED query
      /\ Active("NTJOIN", "next")
  BY DEF NTOuter, Context, plan, tree
<1>1. PICK t \in 2 .. N :
        /\ t = calls[1].op /\ calls[1] = Frame(t, "next") /\ calls[1].at = "next"
        /\ calls # <<>> /\ "next" \in Ats(phase) /\ t \in 1 .. Top
        /\ t \in Nat /\ t <= N /\ t \in Scans /\ t - 1 \in Scans /\ t \in 1 .. N
        /\ Lower(t) = t /\ Below(p, t) /\ Settled(p, t) /\ N \in Nat
        /\ query \in Queries /\ Scans = 1 .. N
  BY <1>0, JoinNext
<1>2. /\ lvalid[t] = 1 /\ ~More(t)
      /\ calls' = <<Frame(t - 1, "next"), Frame(t, "left")>> \o Tail(calls)
  BY <1>1 DEF NTOuter, CallChild, This
<1>3. p \in [Scans -> Nat] /\ filepos \in [Scans -> Nat]
  BY DEF Tree, Shape
<1>4. p[t] = p[t - 1] * Size(t)
  <2>1. /\ t # 1 /\ p[t - 1] \in 1 .. Count(t - 1)
        /\ p[t] = (p[t - 1] - 1) * Size(t) + filepos[t] /\ filepos[t] \in 0 .. Size(t)
    BY <1>1, <1>2 DEF Settled
  <2>2. Size(t) \in Nat /\ Count(t - 1) \in Nat
    BY <1>1, ChoiceStep
  <2>3. filepos[t] = Size(t)
    BY <1>1, <1>2, <1>3, <2>1, <2>2 DEF More, Size
  <2>4. p[t - 1] \in Nat /\ p[t - 1] >= 1
    BY <2>1, <2>2
  <2>5. (p[t - 1] - 1) * Size(t) + Size(t) = p[t - 1] * Size(t)
    BY <2>2, <2>4, Products
  <2> QED
    BY <2>1, <2>3, <2>5
<1>5. /\ \A k : Size(k)' = Size(k)
      /\ N' = N /\ Lower(t - 1)' = t - 1 /\ t - 1 \in Nat
  <2>1. N' = N /\ \A k : Size(k)' = Size(k)
    BY <1>0, SameQuery
  <2> QED
    BY <1>1, <2>1 DEF Lower
<1>6. Below(p, t - 1)'
  <2>1. t - 1 \in Nat /\ t - 1 <= t
    BY <1>1
  <2>2. Below(p, t - 1)
    BY <1>1, <2>1, BelowLess
  <2> QED
    BY <1>0, <2>1, <2>2, BelowSame
<1>7. Acting(p, Frame(t - 1, "next"))'
  BY <1>5, <1>6 DEF Acting, Frame
<1>8. Waiting(p, Frame(t, "left"))'
  BY <1>4, <1>5 DEF Waiting, Frame
<1>9. /\ Kind(Frame(t, "left")) /\ Kind(Frame(t - 1, "next")) /\ Caller("next", "left")
      /\ "left" \in AllAts /\ "next" \in AllAts /\ SameWay(calls[1].at, "left")
      /\ t > 1 /\ calls[1].at # "first"
  <2>1. t - 1 \in 1 .. Top /\ t > 1
    <3>1. Top \in Nat
      BY <1>1, Chain
    <3> QED
      BY <1>1, <3>1
  <2> QED
    BY <1>1, <2>1 DEF Kind, Frame, Caller, AllAts, SameWay, Going
<1>10. "left" \in Ats(phase)
  BY <1>1, NotReady DEF Ats
<1>11. Elsewhere(p, p, t) /\ Unheard(p, p, t)
  BY <1>0 DEF Elsewhere, Unheard
<1>12. /\ Stacked(calls, phase, built)' /\ Tree(p)'
       /\ calls' # <<>> /\ calls'[1] = Frame(t - 1, "next")
  <2>1. calls # <<>> /\ t = calls[1].op /\ "next" \in Ats(phase) /\ Context
    BY <1>0, <1>1
  <2> QED
    BY <1>2, <1>3, <1>7, <1>8, <1>9, <1>10, <1>11, <2>1, Descends
<1>13. Output(p)'
  <2>1. calls'[1].at # "child" /\ calls[1].at # "child" /\ calls # <<>>
    BY <1>1, <1>12 DEF Frame
  <2> QED
    BY <1>0, <1>12, <2>1, StillOut
<1>14. Shape'
  BY <1>0, ShapeKeeps DEF Shape
<1> QED
  BY <1>12, <1>13, <1>14 DEF Keeps

(* A join takes its left tuple, at the start of its right child. *)
LEMMA JoinTakes ==
  ASSUME Shape, NEW p \in [Scans -> Nat], NEW t \in 2 .. N, Taking(p, t), UNCHANGED query,
         lvalid' = [lvalid EXCEPT ![t] = got.ret],
         lt' = IF got.ret = 1 THEN [lt EXCEPT ![t] = got.tuple] ELSE lt,
         filepos'[t] = 0, \A i \in Scans : i # t => filepos'[i] = filepos[i]
  PROVE  Below(p, t)' /\ lvalid' \in [Scans -> {0, 1}] /\ DOMAIN lt' = Scans
<1>1. N \in Nat /\ Scans = 1 .. N /\ query \in Queries
  BY Chain DEF Shape
<1>2. /\ t \in Scans /\ t \in 1 .. N /\ t - 1 \in Scans /\ t # 1
      /\ t \in Nat /\ t >= 1 /\ t - 1 \in Nat
  BY <1>1
<1>3. /\ Below(p, t - 1) /\ Returned(p, t - 1)
      /\ p[t] = (IF got.ret = 1 THEN p[t - 1] - 1 ELSE p[t - 1]) * Size(t)
  BY DEF Taking
<1>4. /\ Count(t - 1) \in Nat /\ Count(t) \in Nat /\ Size(t) \in Nat
      /\ Count(t) = Count(t - 1) * Size(t)
  BY <1>1, <1>2, ChoiceStep
<1>5. lvalid \in [Scans -> {0, 1}] /\ DOMAIN lt = Scans
  BY DEF Shape
<1>6. got.ret \in {0, 1}
  BY <1>3 DEF Returned
<1>7. lvalid' \in [Scans -> {0, 1}] /\ DOMAIN lt' = Scans
  BY <1>5, <1>6
<1>8. Below(p, t - 1)'
  <2>1. \A i \in 1 .. (t - 1) : i \in Scans /\ i # t
    BY <1>1, <1>2
  <2>2. \A i \in 1 .. (t - 1) : filepos'[i] = filepos[i] /\ lvalid'[i] = lvalid[i]
                                /\ lt'[i] = lt[i]
    BY <1>5, <2>1
  <2> QED
    BY <1>2, <1>3, <2>2, BelowSame
<1>9. /\ \A k : Count(k)' = Count(k) /\ Size(k)' = Size(k)
      /\ \A k, n : Whole(k, n)' = Whole(k, n)
  BY SameQuery, SameChoices
<1>x. \A i \in 1 .. t : i = t \/ i \in 1 .. (t - 1)
  BY <1>2
<1>10. CASE got.ret = 1
  <2>1. lvalid'[t] = 1 /\ lt'[t] = got.tuple
    BY <1>2, <1>5, <1>10
  <2>2. p[t - 1] \in 1 .. Count(t - 1) /\ got.tuple = Whole(t - 1, p[t - 1])
    BY <1>3, <1>10 DEF Returned
  <2>3. p[t] = (p[t - 1] - 1) * Size(t)
    BY <1>3, <1>10
  <2>4. p[t - 1] \in Nat /\ p[t - 1] - 1 \in Nat /\ p[t - 1] - 1 <= Count(t - 1)
    BY <1>4, <2>2
  <2>5. p[t] \in Nat /\ p[t] <= Count(t)
    BY <1>4, <2>3, <2>4, Products
  <2> DEFINE z == (p[t - 1] - 1) * Size(t)
  <2>6. p[t] = z /\ z \in Nat
    BY <2>3, <2>5
  <2> HIDE DEF z
  <2>7. p[t] = z + filepos'[t]
    BY <2>6
  <2>8. p[t] \in 0 .. Count(t) /\ filepos'[t] \in 0 .. Size(t)
    BY <1>4, <2>5
  <2>9. Settled(p, t)'
    BY <1>2, <1>9, <2>1, <2>2, <2>7, <2>8 DEF Settled, z
  <2> QED
    BY <1>x, <1>7, <1>8, <2>9 DEF Below
<1>11. CASE got.ret # 1
  <2>1. lvalid'[t] = 0
    BY <1>2, <1>5, <1>6, <1>11
  <2>2. p[t - 1] = Count(t - 1) /\ p[t] = p[t - 1] * Size(t)
    BY <1>3, <1>11 DEF Returned
  <2>3. p[t] = Count(t)
    BY <1>4, <2>2
  <2>4. p[t] \in 0 .. Count(t) /\ filepos'[t] \in 0 .. Size(t)
    BY <1>4, <2>3
  <2>5. Settled(p, t)'
    BY <1>2, <1>9, <2>1, <2>2, <2>3, <2>4 DEF Settled
  <2> QED
    BY <1>x, <1>7, <1>8, <2>5 DEF Below
<1> QED
  BY <1>10, <1>11

LEMMA JoinCalled ==
  ASSUME Shape, Stacked(calls, phase, built), NEW at, Active("NTJOIN", at)
  PROVE  \E t \in 2 .. N :
           /\ t = calls[1].op /\ calls[1] = Frame(t, at) /\ calls[1].at = at
           /\ calls # <<>> /\ at \in Ats(phase) /\ t \in 1 .. Top /\ t - 1 \in 1 .. Top
           /\ t \in Nat /\ t <= N /\ t \in Scans /\ t > 1 /\ t # 1
           /\ t - 1 \in Nat /\ Lower(t) = t /\ Lower(t - 1) = t - 1
           /\ N \in Nat /\ query \in Queries /\ Scans = 1 .. N
<1>1. PICK t \in 1 .. Top :
        /\ t = calls[1].op /\ calls[1] = Frame(t, at) /\ calls[1].at = at
        /\ Op(t) = "NTJOIN" /\ calls # <<>> /\ at \in Ats(phase)
  BY Here
<1>2. N \in Nat /\ N >= 1 /\ Scans = 1 .. N /\ query \in Queries /\ Top \in Nat
  BY Chain DEF Shape
<1>3. t \in 2 .. N
  BY <1>1, Chain DEF Shape
<1>4. t \in Nat /\ t <= N /\ t \in Scans /\ Lower(t) = t /\ Lower(t - 1) = t - 1
      /\ t > 1 /\ t # 1 /\ t - 1 \in Nat /\ t - 1 \in 1 .. Top
  <2>1. t \in Nat /\ t <= N /\ t > 1 /\ t # 1 /\ t - 1 \in Nat /\ t - 1 <= N
        /\ t - 1 \in 1 .. Top
    BY <1>1, <1>2, <1>3
  <2> QED
    BY <1>2, <2>1 DEF Lower
<1> QED
  BY <1>1, <1>2, <1>3, <1>4

LEMMA NTLeftKeeps ==
  ASSUME Shape, Stacked(calls, phase, built), NEW p, Tree(p), Output(p), NTLeft
  PROVE  Keeps
<1>0. Context /\ UNCHANGED query /\ Active("NTJOIN", "left") /\ p \in [Scans -> Nat]
  BY DEF NTLeft, Context, plan, Tree
<1>1. PICK t \in 2 .. N :
        /\ t = calls[1].op /\ calls[1] = Frame(t, "left") /\ calls[1].at = "left"
        /\ calls # <<>> /\ "left" \in Ats(phase) /\ t \in 1 .. Top /\ t - 1 \in 1 .. Top
        /\ t \in Nat /\ t <= N /\ t \in Scans /\ t > 1 /\ t # 1
        /\ t - 1 \in Nat /\ Lower(t) = t /\ Lower(t - 1) = t - 1
        /\ N \in Nat /\ query \in Queries /\ Scans = 1 .. N
  BY <1>0, JoinCalled
<1>2. /\ lvalid' = [lvalid EXCEPT ![t] = got.ret]
      /\ lt' = IF got.ret = 1 THEN [lt EXCEPT ![t] = got.tuple] ELSE lt
      /\ filepos' = [filepos EXCEPT ![t] = 0]
      /\ calls' = [calls EXCEPT ![1].at = "next"]
  BY <1>1 DEF NTLeft, TakeLeft, This, GoTo
<1>3. filepos \in [Scans -> Nat]
  BY DEF Shape
<1>4. /\ filepos' \in [Scans -> Nat] /\ filepos'[t] = 0
      /\ \A i \in Scans : i # t => filepos'[i] = filepos[i]
  BY <1>1, <1>2, <1>3
<1>5. Taking(p, t)
  <2>1. Acting(p, Frame(t, "left"))
    BY <1>1 DEF Tree
  <2> QED
    BY <2>1 DEF Acting, Frame
<1>6. Below(p, t)' /\ lvalid' \in [Scans -> {0, 1}] /\ DOMAIN lt' = Scans
  BY <1>0, <1>1, <1>2, <1>4, <1>5, JoinTakes
<1>7. Acting(p, Frame(t, "next"))'
  <2>1. Lower(t)' = t
    BY <1>0, <1>1, SameQuery DEF Lower
  <2> QED
    BY <1>6, <2>1 DEF Acting, Frame
<1>8. Elsewhere(p, p, t) /\ Unheard(p, p, t)
  BY <1>4 DEF Elsewhere, Unheard
<1>9. /\ Kind(Frame(t, "next")) /\ "next" \in AllAts /\ SameWay(calls[1].at, "next")
      /\ calls[1].at # "first"
  BY <1>1 DEF Kind, Frame, AllAts, SameWay, Going
<1>10. "next" \in Ats(phase)
  BY <1>1, NotReady DEF Ats
<1>11. /\ Stacked(calls, phase, built)' /\ Tree(p)'
       /\ calls' # <<>> /\ calls'[1] = Frame(t, "next")
  <2>1. calls # <<>> /\ t = calls[1].op /\ Context
    BY <1>0, <1>1
  <2> QED
    BY <1>0, <1>2, <1>7, <1>8, <1>9, <1>10, <2>1, Turns
<1>12. Output(p)'
  <2>1. calls'[1].at # "child" /\ calls[1].at # "child" /\ calls # <<>>
    BY <1>1, <1>11 DEF Frame
  <2> QED
    BY <1>0, <1>11, <2>1, StillOut
<1>13. Shape'
  <2>1. ASSUME phase = "build", NEW s \in Scans, s > built PROVE filepos'[s] = filepos[s]
    <3>1. t < built
      BY <1>1, <2>1, LowWhileBuilding
    <3>2. s # t
      BY <1>1, <2>1, <3>1 DEF Shape
    <3> QED
      BY <1>4, <3>2
  <2> QED
    BY <1>0, <1>4, <1>6, <2>1, ShapeKeeps
<1> QED
  BY <1>11, <1>12, <1>13 DEF Keeps

LEMMA NTFirstKeeps ==
  ASSUME Shape, Stacked(calls, phase, built), NEW p, Tree(p), Output(p), NTFirst
  PROVE  Keeps
<1>0. /\ Context /\ UNCHANGED query /\ Active("NTJOIN", "first") /\ p \in [Scans -> Nat]
      /\ UNCHANGED filepos /\ calls' = Tail(calls)
  BY DEF NTFirst, Context, plan, Tree, Pass
<1>1. PICK t \in 2 .. N :
        /\ t = calls[1].op /\ calls[1] = Frame(t, "first") /\ calls[1].at = "first"
        /\ calls # <<>> /\ "first" \in Ats(phase) /\ t \in 1 .. Top /\ t - 1 \in 1 .. Top
        /\ t \in Nat /\ t <= N /\ t \in Scans /\ t > 1 /\ t # 1
        /\ t - 1 \in Nat /\ Lower(t) = t /\ Lower(t - 1) = t - 1
        /\ N \in Nat /\ query \in Queries /\ Scans = 1 .. N
  BY <1>0, JoinCalled
<1>2. /\ lvalid' = [lvalid EXCEPT ![t] = got.ret]
      /\ lt' = IF got.ret = 1 THEN [lt EXCEPT ![t] = got.tuple] ELSE lt
  BY <1>1 DEF NTFirst, TakeLeft, This
<1>3. Taking(p, t) /\ p[t] = 0 /\ filepos[t] = 0
  <2>1. Acting(p, Frame(t, "first"))
    BY <1>1 DEF Tree
  <2> QED
    BY <2>1 DEF Acting, Frame, AtStart
<1>4. Below(p, t)' /\ lvalid' \in [Scans -> {0, 1}] /\ DOMAIN lt' = Scans
  BY <1>0, <1>1, <1>2, <1>3, JoinTakes
<1>5. Below(p, Lower(t))' /\ p[Lower(t)] = 0
  <2>1. Lower(t)' = t
    BY <1>0, <1>1, SameQuery DEF Lower
  <2> QED
    BY <1>1, <1>3, <1>4, <2>1
<1>6. Stacked(calls, phase, built)' /\ Tree(p)'
  <2>1. Elsewhere(p, p, t) /\ calls[1].at \notin Going
    BY <1>0, <1>1 DEF Elsewhere, Going
  <2>2. calls # <<>> /\ t = calls[1].op /\ Context
    BY <1>0, <1>1
  <2> QED
    BY <1>0, <1>5, <2>1, <2>2, Unwinds
<1>7. Output(p)'
  <2>1. phase # "next" /\ calls # <<>>
    BY <1>1 DEF Ats
  <2> QED
    BY <1>0, <2>1, NoneOut
<1>8. Shape'
  BY <1>0, <1>4, ShapeKeeps DEF Shape
<1> QED
  BY <1>6, <1>7, <1>8 DEF Keeps

(* An operator above the joins returns what it has made of its child's tuple. *)
LEMMA ChildReturns ==
  ASSUME Shape, Stacked(calls, phase, built), NEW p, Tree(p), calls # <<>>,
         calls[1].at = "child", NEW t, t = calls[1].op, Context, UNCHANGED tree,
         calls' = Tail(calls), Offered(p, t)'
  PROVE  Stacked(calls, phase, built)' /\ Tree(p)' /\ Output(p)'
<1> DEFINE m == Len(calls)
<1>1. UNCHANGED <<query, built, phase>> /\ UNCHANGED <<filepos, lt, lvalid>>
  BY DEF Context, plan, tree
<1>2. /\ m \in Nat /\ m >= 1 /\ t \in Nat /\ Kind(calls[1])
      /\ calls[1].at \in Ats(phase)
      /\ m > 1 => /\ calls[2].op = t + 1 /\ Caller(calls[1].at, calls[2].at)
                  /\ Kind(calls[2])
  BY StackFacts
<1>3. /\ Stacked(calls', phase, built) /\ Len(calls') = m - 1
      /\ \A i \in 1 .. (m - 1) : calls'[i] = calls[i + 1]
      /\ calls' = <<>> <=> m = 1
  BY StackReturns
<1>4. phase = "next"
  BY <1>2, NotReady DEF Ats
<1>5. Stacked(calls, phase, built)'
  BY <1>1, <1>3, StackedNext
<1>6. Scans' = Scans /\ N' = N /\ Top' = Top
  BY <1>1, SameQuery
<1>7. N \in Nat /\ N >= 1 /\ N <= Top /\ Scans = 1 .. N
  BY Chain DEF Shape
<1>8. t > N /\ p \in [Scans -> Nat]
  BY <1>2 DEF Kind, Tree
<1>9. Below(p, N)'
  <2>1. Acting(p, calls[1])
    BY DEF Tree
  <2>2. Below(p, N)
    BY <2>1 DEF Acting
  <2>3. Below(p, N)' <=> \A i \in 1 .. N' : Settled(p, i)'
    BY DEF Below
  <2>4. ASSUME NEW i \in 1 .. N PROVE Settled(p, i)'
    <3>1. Settled(p, i)
      BY <2>2 DEF Below
    <3> QED
      BY <1>1, <3>1, SettledSame
  <2> QED
    BY <1>6, <2>3, <2>4
<1> HIDE DEF m
<1>10. CASE m = 1
  <2>1. Bottom(calls[1], phase, built)
    BY <1>10 DEF Stacked, m
  <2>2. t = Top
    BY <1>4, <2>1 DEF Bottom
  <2>3. calls' = <<>> /\ Len(calls') = 0
    BY <1>3, <1>10
  <2>4. \A i \in 2 .. Len(calls') : FALSE
    <3>1. \A i \in 2 .. 0 : FALSE
      OBVIOUS
    <3> QED
      BY <2>3, <3>1
  <2>5. Below(p, Roof)'
    BY <1>1, <1>4, <1>9 DEF Below, Roof
  <2>6. Tree(p)'
    BY <1>1, <1>4, <1>6, <1>8, <2>3, <2>4, <2>5 DEF Tree
  <2>7. Offered(p, Top)'
    BY <1>6, <2>2 DEF Offered
  <2>8. Output(p)'
    BY <1>1, <1>4, <2>3, <2>7 DEF Output
  <2> QED
    BY <1>5, <2>6, <2>8
<1>11. CASE m # 1
  <2>0. PICK f : f = calls[2]
    OBVIOUS
  <2>1. m > 1 /\ 1 \in 1 .. (m - 1) /\ 1 + 1 = 2
    BY <1>2, <1>11
  <2>2. f.op = t + 1 /\ f.at = "child"
    <3>1. f.op = t + 1 /\ f.at \in {"left", "first", "child"} /\ Kind(f)
      BY <1>2, <2>0, <2>1 DEF Caller
    <3> QED
      BY <1>2, <1>7, <1>8, <3>1 DEF Kind
  <2>3. f.op - 1 = t
    BY <1>2, <2>2
  <2>4. Acting(p, f)'
    BY <1>9, <2>2 DEF Acting
  <2>5. calls'[1] = f /\ calls' # <<>>
    BY <1>3, <1>11, <2>0, <2>1
  <2>6. ASSUME NEW i \in 2 .. (m - 1)
        PROVE  Waiting(p, calls[i])'
    <3>1. i + 1 \in 2 .. m /\ i \in 1 .. (m - 1)
      BY <1>2
    <3>2. PICK g : g = calls[i + 1]
      OBVIOUS
    <3>3. Waiting(p, g)'
      <4>1. Unheard(p, p, t) /\ Elsewhere(p, p, t)
        BY <1>1 DEF Unheard, Elsewhere
      <4> QED
        BY <1>1, <3>1, <3>2, <4>1, OthersWait DEF m
    <3>4. calls'[i] = g
      BY <1>3, <3>1, <3>2
    <3> QED
      BY <3>3, <3>4 DEF Waiting, AtStart
  <2>7. Acting(p, calls[1])'
    BY <2>4, <2>5 DEF Acting, AtStart
  <2>8. Tree(p)'
    BY <1>3, <1>6, <1>8, <2>5, <2>6, <2>7 DEF Tree
  <2>9. Output(p)'
    <3>1. Offered(p, f.op - 1)'
      BY <2>3
    <3> QED
      BY <1>1, <1>4, <2>2, <2>5, <3>1 DEF Output
  <2> QED
    BY <1>5, <2>8, <2>9
<1> QED
  BY <1>10, <1>11

LEMMA AboveCalled ==
  ASSUME Shape, Stacked(calls, phase, built), NEW op \in {"SELECT", "PROJECT"}, NEW at,
         Active(op, at)
  PROVE  \E t \in 1 .. Top :
           /\ t = calls[1].op /\ calls[1] = Frame(t, at) /\ calls[1].at = at
           /\ calls # <<>> /\ at \in Ats(phase) /\ t - 1 \in 1 .. Top
           /\ t \in Nat /\ t > N /\ t - 1 >= N /\ t > 1 /\ t - 1 \in Nat
           /\ Lower(t) = N /\ Lower(t - 1) = N
           /\ N \in Nat /\ N >= 1 /\ query \in Queries /\ Scans = 1 .. N
           /\ Child \in {N, N + 1} /\ Top \in {Child, Child + 1}
           /\ Op(t) = op /\ (op = "SELECT" => t <= Child) /\ (op = "PROJECT" => t > Child)
<1>1. PICK t \in 1 .. Top :
        /\ t = calls[1].op /\ calls[1] = Frame(t, at) /\ calls[1].at = at
        /\ Op(t) = op /\ calls # <<>> /\ at \in Ats(phase)
  BY Here
<1>2. N \in Nat /\ N >= 1 /\ Scans = 1 .. N /\ query \in Queries /\ Top \in Nat
      /\ Child \in {N, N + 1} /\ Top \in {Child, Child + 1}
  BY Chain DEF Shape
<1>3. t > N /\ (op = "SELECT" => t <= Child) /\ (op = "PROJECT" => t > Child)
  <2>1. /\ op = "SELECT" => t > N /\ t <= Child
        /\ op = "PROJECT" => t > Child
    BY <1>1, Chain DEF Shape
  <2> QED
    BY <1>2, <2>1
<1>4. t \in Nat /\ t - 1 \in 1 .. Top /\ t - 1 >= N /\ t > 1 /\ t - 1 \in Nat
  BY <1>2, <1>3
<1>5. Lower(t) = N /\ Lower(t - 1) = N
  BY <1>2, <1>3, <1>4 DEF Lower
<1> QED
  BY <1>1, <1>2, <1>3, <1>4, <1>5

LEMMA NextOneChildKeeps ==
  ASSUME Shape, Stacked(calls, phase, built), NEW p, Tree(p), Output(p), NextOneChild
  PROVE  Keeps
<1>0. /\ Context /\ UNCHANGED <<filepos, lt, lvalid>> /\ UNCHANGED query
      /\ p \in [Scans -> Nat] /\ CallChild("next", "child")
  BY DEF NextOneChild, Context, plan, tree, Tree
<1>1. PICK op \in {"SELECT", "PROJECT"} : Active(op, "next")
  BY DEF NextOneChild
<1>2. PICK t \in 1 .. Top :
        /\ t = calls[1].op /\ calls[1] = Frame(t, "next") /\ calls[1].at = "next"
        /\ calls # <<>> /\ "next" \in Ats(phase) /\ t - 1 \in 1 .. Top
        /\ t \in Nat /\ t > N /\ t - 1 >= N /\ t > 1 /\ t - 1 \in Nat
        /\ Lower(t) = N /\ Lower(t - 1) = N
        /\ N \in Nat /\ N >= 1 /\ query \in Queries /\ Scans = 1 .. N
  BY <1>1, AboveCalled
<1>3. calls' = <<Frame(t - 1, "next"), Frame(t, "child")>> \o Tail(calls)
  BY <1>0, <1>2 DEF CallChild, This
<1>4. phase = "next"
  <2>1. calls[1].op >= N
    BY <1>2
  <2> QED
    BY <1>2, <2>1, Asked
<1>5. Below(p, N)'
  <2>1. Acting(p, Frame(t, "next"))
    BY <1>2 DEF Tree
  <2>2. Below(p, N)
    BY <1>2, <2>1 DEF Acting, Frame
  <2>3. PICK n \in Nat : n = N
    BY <1>2
  <2>4. Below(p, n)'
    BY <1>0, <2>2, <2>3, BelowSame
  <2>5. N' = n
    BY <1>0, <2>3, SameQuery
  <2> QED
    BY <2>4, <2>5 DEF Below
<1>6. Acting(p, Frame(t - 1, "next"))'
  <2>1. Lower(t - 1)' = N'
    BY <1>0, <1>2, SameQuery DEF Lower
  <2>2. Below(p, Lower(t - 1))'
    BY <1>5, <2>1 DEF Below
  <2> QED
    BY <2>2 DEF Acting, Frame
<1>7. Waiting(p, Frame(t, "child"))'
  BY DEF Waiting, Frame
<1>8. /\ Kind(Frame(t, "child")) /\ Kind(Frame(t - 1, "next")) /\ Caller("next", "child")
      /\ "child" \in AllAts /\ "next" \in AllAts /\ SameWay(calls[1].at, "child")
      /\ "child" \in Ats(phase) /\ calls[1].at # "first"
  BY <1>2, <1>4 DEF Kind, Frame, Caller, AllAts, SameWay, Going, Ats
<1>9. Elsewhere(p, p, t) /\ Unheard(p, p, t)
  BY <1>0 DEF Elsewhere, Unheard
<1>10. /\ Stacked(calls, phase, built)' /\ Tree(p)'
       /\ calls' # <<>> /\ calls'[1] = Frame(t - 1, "next")
  <2>1. calls # <<>> /\ t = calls[1].op /\ "next" \in Ats(phase) /\ Context /\ t > 1
    BY <1>0, <1>2
  <2> QED
    BY <1>0, <1>3, <1>6, <1>7, <1>8, <1>9, <2>1, Descends
<1>11. Output(p)'
  <2>1. calls'[1].at # "child" /\ calls[1].at # "child" /\ calls # <<>>
    BY <1>2, <1>10 DEF Frame
  <2> QED
    BY <1>0, <1>10, <2>1, StillOut
<1>12. Shape'
  BY <1>0, ShapeKeeps DEF Shape
<1> QED
  BY <1>10, <1>11, <1>12 DEF Keeps

LEMMA SelectChildKeeps ==
  ASSUME Shape, NamesAt, Stacked(calls, phase, built), NEW p, Tree(p), Output(p),
         SelectChild
  PROVE  Keeps
<1>0. /\ Context /\ UNCHANGED <<filepos, lt, lvalid>> /\ UNCHANGED query /\ UNCHANGED tree
      /\ p \in [Scans -> Nat] /\ Active("SELECT", "child")
      /\ UNCHANGED <<phase, out>>
      /\ IF got.ret = 1 /\ ~Passes(<<got.tuple>>) THEN GoTo("next") ELSE Pass
  BY DEF SelectChild, Context, plan, tree, Tree
<1>1. PICK t \in 1 .. Top :
        /\ t = calls[1].op /\ calls[1] = Frame(t, "child") /\ calls[1].at = "child"
        /\ calls # <<>> /\ "child" \in Ats(phase)
        /\ t \in Nat /\ t > N /\ Lower(t) = N
        /\ N \in Nat /\ N >= 1 /\ query \in Queries /\ Scans = 1 .. N
        /\ Child \in {N, N + 1} /\ Op(t) = "SELECT" /\ t <= Child
  <2>1. "SELECT" \in {"SELECT", "PROJECT"}
    OBVIOUS
  <2> QED
    BY <1>0, <2>1, AboveCalled
<1>2. Child = N + 1 /\ t = N + 1 /\ t - 1 = N /\ t = Child
  BY <1>1
<1>3. phase = "next"
  BY <1>1, NotReady DEF Ats
<1>4. Offered(p, N)
  BY <1>1, <1>2, <1>3 DEF Output
<1>5. RightAt(condAt, CondRefs)
  <2>1. ~OneJoin
    BY <1>1, <1>2 DEF Child, Selects
  <2> QED
    BY <1>3, <2>1 DEF NamesAt
<1>6. Below(p, N)
  <2>1. Acting(p, calls[1])
    BY <1>1 DEF Tree
  <2> QED
    BY <1>1, <2>1 DEF Acting
<1>7. ASSUME got.ret = 1
      PROVE  /\ p[N] \in 1 .. Count(N) /\ out = Kept(p[N] - 1) /\ got.tuple = Whole(N, p[N])
             /\ Passes(<<got.tuple>>) <=> Satisfies(Combination(p[N]))
  <2>1. p[N] \in 1 .. Count(N) /\ out = Kept(p[N] - 1) /\ got.tuple = Whole(N, p[N])
    BY <1>1, <1>2, <1>4, <1>7 DEF Offered
  <2>2. Combination(p[N]) \in Picks(N) /\ Whole(N, p[N]) = Concat(Combination(p[N]))
    <3>1. N \in 1 .. N
      BY <1>1
    <3> QED
      BY <1>1, <2>1, <3>1, Wholes DEF Combination, Whole
  <2>3. Passes(<<Concat(Combination(p[N]))>>) <=> Satisfies(Combination(p[N]))
    BY <1>1, <1>5, <2>2, PassesWhole
  <2> QED
    BY <2>1, <2>2, <2>3
<1>8. Shape'
  BY <1>0, ShapeKeeps DEF Shape
<1>9. CASE got.ret = 1 /\ ~Passes(<<got.tuple>>)
  <2>1. calls' = [calls EXCEPT ![1].at = "next"]
    BY <1>0, <1>9 DEF GoTo
  <2>2. Acting(p, Frame(t, "next"))'
    <3>1. PICK n \in Nat : n = N
      BY <1>1
    <3>2. Below(p, n)'
      BY <1>0, <1>6, <3>1, BelowSame
    <3>3. Lower(t)' = n
      BY <1>0, <1>1, <3>1, SameQuery DEF Lower
    <3> QED
      BY <3>2, <3>3 DEF Acting, Frame
  <2>3. Elsewhere(p, p, t) /\ Unheard(p, p, t)
    BY <1>0 DEF Elsewhere, Unheard
  <2>4. /\ Kind(Frame(t, "next")) /\ "next" \in AllAts /\ SameWay(calls[1].at, "next")
        /\ calls[1].at # "first" /\ "next" \in Ats(phase)
    BY <1>1, <1>3 DEF Kind, Frame, AllAts, SameWay, Going, Ats
  <2>5. /\ Stacked(calls, phase, built)' /\ Tree(p)'
        /\ calls' # <<>> /\ calls'[1] = Frame(t, "next")
    <3>1. calls # <<>> /\ t = calls[1].op /\ Context
      BY <1>0, <1>1
    <3> QED
      BY <1>0, <2>1, <2>2, <2>3, <2>4, <3>1, Turns
  <2>6. Output(p)'
    <3>1. Kept(p[N]) = Kept(p[N] - 1)
      <4>1. p[N] \in 1 .. Count(N) /\ ~Satisfies(Combination(p[N]))
        BY <1>7, <1>9
      <4> QED
        BY <1>1, <4>1, KeptStep
    <3>2. PICK n : n = p[N]
      OBVIOUS
    <3>3. N' = N /\ Kept(n)' = Kept(n)
      BY <1>0, SameQuery, SameMeaning
    <3>4. out' = Kept(p[N])'
      BY <1>0, <1>7, <1>9, <3>1, <3>2, <3>3
    <3> QED
      BY <1>0, <1>3, <2>5, <3>4 DEF Output, Frame
  <2> QED
    BY <1>8, <2>5, <2>6 DEF Keeps
<1>10. CASE ~(got.ret = 1 /\ ~Passes(<<got.tuple>>))
  <2>1. calls' = Tail(calls) /\ got' = got
    BY <1>0, <1>10 DEF Pass
  <2>2. /\ N' = N /\ Child' = Child /\ \A k : Count(k)' = Count(k)
        /\ \A k, n : Whole(k, n)' = Whole(k, n)
        /\ \A n : Kept(n)' = Kept(n) /\ Combination(n)' = Combination(n)
        /\ \A c : Satisfies(c)' = Satisfies(c)
    BY <1>0, SameQuery, SameChoices, SameMeaning
  <2>3. Offered(p, t)'
    <3>1. CASE got.ret = 0
      <4>1. p[N] = Count(N) /\ out = Kept(p[N])
        BY <1>4, <3>1 DEF Offered
      <4> QED
        BY <1>0, <2>1, <2>2, <3>1, <4>1 DEF Offered
    <3>2. CASE got.ret = 1
      <4>1. /\ p[N] \in 1 .. Count(N) /\ out = Kept(p[N] - 1)
            /\ got.tuple = Whole(N, p[N]) /\ Satisfies(Combination(p[N]))
        BY <1>7, <1>10, <3>2
      <4>2. ~(t > Child)
        BY <1>1, <1>2
      <4> QED
        BY <1>0, <2>1, <2>2, <3>2, <4>1, <4>2 DEF Offered
    <3> QED
      BY <1>4, <3>1, <3>2 DEF Offered
  <2>4. Stacked(calls, phase, built)' /\ Tree(p)' /\ Output(p)'
    BY <1>0, <1>1, <2>1, <2>3, ChildReturns
  <2> QED
    BY <1>8, <2>4 DEF Keeps
<1> QED
  BY <1>9, <1>10

LEMMA ProjectChildKeeps ==
  ASSUME Shape, NamesAt, Stacked(calls, phase, built), NEW p, Tree(p), Output(p),
         ProjectChild
  PROVE  Keeps
<1>0. /\ Context /\ UNCHANGED <<filepos, lt, lvalid>> /\ UNCHANGED query /\ UNCHANGED tree
      /\ p \in [Scans -> Nat] /\ Active("PROJECT", "child")
      /\ UNCHANGED <<phase, out>>
      /\ IF got.ret = 1 THEN Return(1, Projected(got.tuple)) ELSE Pass
  BY DEF ProjectChild, Context, plan, tree, Tree
<1>1. PICK t \in 1 .. Top :
        /\ t = calls[1].op /\ calls[1] = Frame(t, "child") /\ calls[1].at = "child"
        /\ calls # <<>> /\ "child" \in Ats(phase)
        /\ t \in Nat /\ t > N
        /\ N \in Nat /\ N >= 1 /\ query \in Queries /\ Scans = 1 .. N
        /\ Child \in {N, N + 1} /\ Top \in {Child, Child + 1} /\ t > Child
  <2>1. "PROJECT" \in {"SELECT", "PROJECT"}
    OBVIOUS
  <2> QED
    BY <1>0, <2>1, AboveCalled
<1>2. t - 1 = Child /\ t >= Child /\ ~(t - 1 > Child) /\ t - 1 >= Child
  BY <1>1
<1>3. phase = "next"
  BY <1>1, NotReady DEF Ats
<1>4. Offered(p, t - 1)
  BY <1>1, <1>3 DEF Output
<1>5. calls' = Tail(calls)
  BY <1>0 DEF Return, Pass
<1>6. /\ N' = N /\ Child' = Child /\ \A k : Count(k)' = Count(k)
      /\ \A n : Kept(n)' = Kept(n) /\ Combination(n)' = Combination(n)
      /\ \A c : Satisfies(c)' = Satisfies(c) /\ Wanted(c)' = Wanted(c)
  BY <1>0, SameQuery, SameChoices, SameMeaning
<1>7. Offered(p, t)'
  <2>1. CASE got.ret = 0
    <3>1. p[N] = Count(N) /\ out = Kept(p[N])
      BY <1>4, <2>1 DEF Offered
    <3>2. got' = got
      BY <1>0, <2>1 DEF Pass
    <3> QED
      BY <1>0, <1>6, <2>1, <3>1, <3>2 DEF Offered
  <2>2. CASE got.ret = 1
    <3>1. /\ p[N] \in 1 .. Count(N) /\ out = Kept(p[N] - 1)
          /\ got.tuple = Whole(N, p[N]) /\ Satisfies(Combination(p[N]))
      BY <1>2, <1>4, <2>2 DEF Offered
    <3>2. Combination(p[N]) \in Picks(N) /\ Whole(N, p[N]) = Concat(Combination(p[N]))
      <4>1. N \in 1 .. N
        BY <1>1
      <4> QED
        BY <1>1, <3>1, <4>1, Wholes DEF Combination, Whole
    <3>3. RightAt(itemAt, ItemRefs)
      BY <1>3 DEF NamesAt
    <3>4. Projected(got.tuple) = Wanted(Combination(p[N]))
      BY <1>1, <3>1, <3>2, <3>3, ProjectedIs
    <3>5. got' = [ret |-> 1, tuple |-> Projected(got.tuple)]
      BY <1>0, <2>2 DEF Return
    <3>6. got'.ret = 1 /\ got'.tuple = Wanted(Combination(p[N]))
      BY <3>4, <3>5
    <3> QED
      BY <1>0, <1>1, <1>6, <3>1, <3>6 DEF Offered
  <2> QED
    BY <1>4, <2>1, <2>2 DEF Offered
<1>8. Stacked(calls, phase, built)' /\ Tree(p)' /\ Output(p)'
  BY <1>0, <1>1, <1>5, <1>7, ChildReturns
<1>9. Shape'
  BY <1>0, ShapeKeeps DEF Shape
<1> QED
  BY <1>8, <1>9 DEF Keeps

LEMMA RewindScanKeeps ==
  ASSUME Shape, Stacked(calls, phase, built), NEW p, Tree(p), Output(p), RewindScan
  PROVE  Keeps
<1>0. /\ Context /\ UNCHANGED <<lt, lvalid>> /\ UNCHANGED query
      /\ p \in [Scans -> Nat] /\ Active("SCAN", "rewind")
      /\ filepos' = [filepos EXCEPT ![1] = 0] /\ calls' = Tail(calls)
  BY DEF RewindScan, Context, plan, Tree, Pass
<1>1. PICK t \in 1 .. Top :
        /\ t = calls[1].op /\ calls[1].at = "rewind"
        /\ Op(t) = "SCAN" /\ calls # <<>> /\ "rewind" \in Ats(phase)
  BY <1>0, Here
<1>2. /\ N \in Nat /\ N >= 1 /\ Scans = 1 .. N /\ 1 \in Scans /\ query \in Queries
      /\ t = 1
  BY <1>1, Chain DEF Shape
<1>3. phase = "rewind"
  BY <1>1, NotReady DEF Ats
<1> DEFINE q == [p EXCEPT ![1] = 0]
<1>4. /\ q \in [Scans -> Nat] /\ q[1] = 0 /\ filepos'[1] = 0
      /\ filepos' \in [Scans -> Nat]
      /\ \A i \in Scans : i # 1 => q[i] = p[i] /\ filepos'[i] = filepos[i]
  <2>1. filepos \in [Scans -> Nat]
    BY DEF Shape
  <2> QED
    BY <1>0, <1>2, <2>1
<1> HIDE DEF q
<1>5. Settled(q, 1)'
  <2>1. Count(1) \in Nat /\ Size(1) \in Nat
    BY <1>2, Wholes, Files
  <2>2. q[1] \in 0 .. Count(1) /\ filepos'[1] \in 0 .. Size(1) /\ q[1] = filepos'[1]
    BY <1>4, <2>1
  <2>3. Count(1)' = Count(1) /\ Size(1)' = Size(1)
    BY <1>0, SameQuery, SameChoices
  <2> QED
    BY <2>2, <2>3 DEF Settled
<1>6. Below(q, Lower(t))' /\ q[Lower(t)] = 0
  <2>1. Lower(t) = 1 /\ Lower(t)' = 1
    <3>1. N' = N
      BY <1>0, SameQuery
    <3> QED
      BY <1>2, <3>1 DEF Lower
  <2>2. Below(q, 1)'
    BY <1>5 DEF Below
  <2> QED
    BY <1>4, <2>1, <2>2
<1>7. Elsewhere(p, q, t) /\ calls[1].at \notin Going
  BY <1>1, <1>2, <1>4 DEF Elsewhere, Going
<1>8. Stacked(calls, phase, built)' /\ Tree(q)'
  BY <1>0, <1>1, <1>4, <1>6, <1>7, Unwinds
<1>9. Output(q)'
  BY <1>0, <1>1, <1>3, NoneOut
<1>10. Shape'
  BY <1>0, <1>3, <1>4, ShapeKeeps DEF Shape
<1> QED
  BY <1>8, <1>9, <1>10 DEF Keeps

LEMMA NotScanCalled ==
  ASSUME Shape, Stacked(calls, phase, built), NEW op \in {"NTJOIN", "SELECT", "PROJECT"},
         NEW at, Active(op, at)
  PROVE  \E t \in 1 .. Top :
           /\ t = calls[1].op /\ calls[1] = Frame(t, at) /\ calls[1].at = at
           /\ calls # <<>> /\ at \in Ats(phase) /\ t - 1 \in 1 .. Top /\ t > 1
<1>1. PICK t \in 1 .. Top :
        /\ t = calls[1].op /\ calls[1] = Frame(t, at) /\ calls[1].at = at
        /\ Op(t) = op /\ calls # <<>> /\ at \in Ats(phase)
  BY Here
<1>2. Op(t) # "SCAN"
  BY <1>1
<1>3. t # 1 /\ Top \in Nat
  BY <1>2, Chain DEF Shape
<1>4. t - 1 \in 1 .. Top /\ t > 1
  BY <1>3
<1> QED
  BY <1>1, <1>4

LEMMA RewindChildKeeps ==
  ASSUME Shape, Stacked(calls, phase, built), NEW p, Tree(p), Output(p), RewindChild
  PROVE  Keeps
<1>0. /\ Context /\ UNCHANGED <<filepos, lt, lvalid>> /\ UNCHANGED query
      /\ p \in [Scans -> Nat] /\ CallChild("rewind", "rewound")
  BY DEF RewindChild, Context, plan, tree, Tree
<1>1. PICK op \in {"NTJOIN", "SELECT", "PROJECT"} : Active(op, "rewind")
  BY DEF RewindChild
<1>2. PICK t \in 1 .. Top :
        /\ t = calls[1].op /\ calls[1] = Frame(t, "rewind") /\ calls[1].at = "rewind"
        /\ calls # <<>> /\ "rewind" \in Ats(phase) /\ t - 1 \in 1 .. Top /\ t > 1
  BY <1>1, NotScanCalled
<1>3. calls' = <<Frame(t - 1, "rewind"), Frame(t, "rewound")>> \o Tail(calls)
  BY <1>0, <1>2 DEF CallChild, This
<1>4. phase = "rewind"
  BY <1>2, NotReady DEF Ats
<1>5. Acting(p, Frame(t - 1, "rewind"))'
  BY DEF Acting, Frame
<1>6. Waiting(p, Frame(t, "rewound"))'
  BY DEF Waiting, Frame
<1>7. /\ Kind(Frame(t, "rewound")) /\ Kind(Frame(t - 1, "rewind"))
      /\ Caller("rewind", "rewound") /\ "rewound" \in AllAts /\ "rewind" \in AllAts
      /\ SameWay(calls[1].at, "rewound") /\ "rewound" \in Ats(phase)
      /\ calls[1].at # "first"
  BY <1>2, <1>4 DEF Kind, Frame, Caller, AllAts, SameWay, Going, Ats
<1>8. Elsewhere(p, p, t) /\ Unheard(p, p, t)
  BY <1>0 DEF Elsewhere, Unheard
<1>9. Stacked(calls, phase, built)' /\ Tree(p)'
  <2>1. calls # <<>> /\ t = calls[1].op /\ "rewind" \in Ats(phase) /\ Context /\ t > 1
    BY <1>0, <1>2
  <2> QED
    BY <1>0, <1>3, <1>5, <1>6, <1>7, <1>8, <2>1, Descends
<1>10. Output(p)'
  BY <1>0, <1>2, <1>4, NoneOut
<1>11. Shape'
  BY <1>0, ShapeKeeps DEF Shape
<1> QED
  BY <1>9, <1>10, <1>11 DEF Keeps

LEMMA RewoundOneChildKeeps ==
  ASSUME Shape, Stacked(calls, phase, built), NEW p, Tree(p), Output(p), RewoundOneChild
  PROVE  Keeps
<1>0. /\ Context /\ UNCHANGED <<filepos, lt, lvalid>> /\ UNCHANGED query
      /\ p \in [Scans -> Nat] /\ calls' = Tail(calls)
  BY DEF RewoundOneChild, Context, plan, tree, Tree, Pass
<1>1. PICK op \in {"SELECT", "PROJECT"} : Active(op, "rewound")
  BY DEF RewoundOneChild
<1>2. PICK t \in 1 .. Top :
        /\ t = calls[1].op /\ calls[1] = Frame(t, "rewound") /\ calls[1].at = "rewound"
        /\ calls # <<>> /\ "rewound" \in Ats(phase)
        /\ Lower(t) = N /\ Lower(t - 1) = N /\ N \in Nat /\ t \in Nat /\ t > N
  BY <1>1, AboveCalled
<1>3. phase = "rewind"
  BY <1>2, NotReady DEF Ats
<1>4. Below(p, N) /\ p[N] = 0
  <2>1. Acting(p, Frame(t, "rewound"))
    BY <1>2 DEF Tree
  <2> QED
    BY <1>2, <2>1 DEF Acting, Frame
<1>5. Below(p, Lower(t))' /\ p[Lower(t)] = 0
  <2>1. PICK n \in Nat : n = N
    BY <1>2
  <2>2. Below(p, n)'
    BY <1>0, <1>4, <2>1, BelowSame
  <2>3. Lower(t)' = n
    BY <1>0, <1>2, <2>1, SameQuery DEF Lower
  <2> QED
    BY <1>2, <1>4, <2>2, <2>3
<1>6. Elsewhere(p, p, t) /\ calls[1].at \notin Going
  BY <1>0, <1>2 DEF Elsewhere, Going
<1>7. Stacked(calls, phase, built)' /\ Tree(p)'
  BY <1>0, <1>2, <1>5, <1>6, Unwinds
<1>8. Output(p)'
  BY <1>0, <1>2, <1>3, NoneOut
<1>9. Shape'
  BY <1>0, ShapeKeeps DEF Shape
<1> QED
  BY <1>7, <1>8, <1>9 DEF Keeps

LEMMA RewoundNTJoinKeeps ==
  ASSUME Shape, Stacked(calls, phase, built), NEW p, Tree(p), Output(p), RewoundNTJoin
  PROVE  Keeps
<1>0. /\ Context /\ UNCHANGED <<lt, lvalid>> /\ UNCHANGED query
      /\ p \in [Scans -> Nat] /\ CallChild("next", "first")
      /\ Active("NTJOIN", "rewound")
  BY DEF RewoundNTJoin, Context, plan, tree, Tree
<1>1. PICK t \in 2 .. N :
        /\ t = calls[1].op /\ calls[1] = Frame(t, "rewound") /\ calls[1].at = "rewound"
        /\ calls # <<>> /\ "rewound" \in Ats(phase) /\ t \in 1 .. Top /\ t - 1 \in 1 .. Top
        /\ t \in Nat /\ t <= N /\ t \in Scans /\ t > 1 /\ t # 1
        /\ t - 1 \in Nat /\ Lower(t) = t /\ Lower(t - 1) = t - 1
        /\ N \in Nat /\ query \in Queries /\ Scans = 1 .. N
  BY <1>0, JoinCalled
<1>2. /\ filepos' = [filepos EXCEPT ![t] = 0]
      /\ calls' = <<Frame(t - 1, "next"), Frame(t, "first")>> \o Tail(calls)
  BY <1>0, <1>1 DEF RewoundNTJoin, CallChild, This
<1>3. phase = "rewind"
  BY <1>1, NotReady DEF Ats
<1> DEFINE q == [p EXCEPT ![t] = 0]
<1>4. /\ q \in [Scans -> Nat] /\ q[t] = 0 /\ filepos'[t] = 0
      /\ filepos' \in [Scans -> Nat]
      /\ \A i \in Scans : i # t => q[i] = p[i] /\ filepos'[i] = filepos[i]
  <2>1. filepos \in [Scans -> Nat]
    BY DEF Shape
  <2> QED
    BY <1>0, <1>1, <1>2, <2>1
<1> HIDE DEF q
<1>5. Below(p, t - 1) /\ p[t - 1] = 0
  <2>1. Acting(p, Frame(t, "rewound"))
    BY <1>1 DEF Tree
  <2> QED
    BY <1>1, <2>1 DEF Acting, Frame
<1>6. q[t - 1] = 0
  <2>1. t - 1 \in Scans /\ t - 1 # t
    BY <1>1
  <2> QED
    BY <1>4, <1>5, <2>1
<1>7. Below(q, t - 1)'
  <2>1. \A i \in 1 .. (t - 1) : i \in Scans /\ i # t
    BY <1>1
  <2>2. \A i \in 1 .. (t - 1) : /\ q[i] = p[i] /\ filepos'[i] = filepos[i]
                                /\ lvalid'[i] = lvalid[i] /\ lt'[i] = lt[i]
    BY <1>0, <1>4, <2>1
  <2> QED
    BY <1>0, <1>1, <1>5, <2>2, BelowSame
<1>8. Acting(q, Frame(t - 1, "next"))'
  <2>1. Lower(t - 1)' = t - 1
    BY <1>0, <1>1, SameQuery DEF Lower
  <2> QED
    BY <1>7, <2>1 DEF Acting, Frame
<1>9. Waiting(q, Frame(t, "first"))'
  <2>1. Size(t) \in Nat /\ Size(t)' = Size(t)
    BY <1>0, <1>1, SameQuery, Files
  <2>2. q[t] = q[t - 1] * Size(t)
    BY <1>4, <1>6, <2>1
  <2> QED
    BY <1>4, <2>1, <2>2 DEF Waiting, Frame, AtStart
<1>10. /\ Kind(Frame(t, "first")) /\ Kind(Frame(t - 1, "next")) /\ Caller("next", "first")
       /\ "first" \in AllAts /\ "next" \in AllAts /\ SameWay(calls[1].at, "first")
       /\ "first" \in Ats(phase) /\ "next" \in Ats(phase) /\ calls[1].at # "first"
  BY <1>1, <1>3 DEF Kind, Frame, Caller, AllAts, SameWay, Going, Ats
<1>11. Elsewhere(p, q, t) /\ Unheard(p, q, t)
  BY <1>1, <1>4 DEF Elsewhere, Unheard, Going
<1>12. Stacked(calls, phase, built)' /\ Tree(q)'
  <2>1. calls # <<>> /\ t = calls[1].op /\ Context /\ t > 1
    BY <1>0, <1>1
  <2> QED
    BY <1>2, <1>4, <1>8, <1>9, <1>10, <1>11, <2>1, Descends
<1>13. Output(q)'
  BY <1>0, <1>1, <1>3, NoneOut
<1>14. Shape'
  BY <1>0, <1>3, <1>4, ShapeKeeps DEF Shape
<1> QED
  BY <1>12, <1>13, <1>14 DEF Keeps

-----------------------------------------------------------------------------
(* The actions of what is above the plan. *)
LEMMA NoneCalled ==
  ASSUME Stacked(calls, phase, built), Ats(phase) = {}
  PROVE  calls = <<>>
<1>1. ASSUME calls # <<>> PROVE FALSE
  <2>1. calls[1].at \in Ats(phase)
    BY <1>1, StackFacts
  <2> QED
    BY <2>1
<1> QED
  BY <1>1

LEMMA StackedNone ==
  ASSUME NEW ph, NEW b
  PROVE  Stacked(<<>>, ph, b)
<1>1. /\ <<>> \in Seq(Frames) /\ Len(<<>>) = 0
      /\ \A i \in 1 .. 0 : FALSE
      /\ \A i \in 1 .. (0 - 1) : FALSE
  OBVIOUS
<1>2. /\ \A i \in 1 .. Len(<<>>) : FALSE
      /\ \A i \in 1 .. (Len(<<>>) - 1) : FALSE
  BY <1>1
<1> QED
  BY <1>1, <1>2 DEF Stacked

LEMMA StackedOne ==
  ASSUME query \in Queries, NEW ph, NEW b, NEW at, at \in {"next", "rewind"},
         at \in Ats(ph), Bottom(Frame(Top, at), ph, b)
  PROVE  Stacked(<<Frame(Top, at)>>, ph, b)
<1>1. Top \in Nat /\ Top >= 1
  BY Chain
<1> DEFINE f == Frame(Top, at)
           cs == <<f>>
<1>2. f \in Frames /\ Kind(f) /\ f.at = at /\ f.op = Top
  BY <1>1 DEF Frame, Frames, AllAts, Kind
<1> HIDE DEF f
<1>3. /\ cs \in Seq(Frames) /\ Len(cs) = 1 /\ cs[1] = f
      /\ \A i \in 1 .. 1 : i = 1
      /\ \A i \in 1 .. (1 - 1) : FALSE
  BY <1>2
<1>4. f.op = f.op + (1 - 1)
  BY <1>1, <1>2
<1>5. Bottom(f, ph, b)
  BY DEF f
<1> HIDE DEF cs
<1>6. \A i \in 1 .. Len(cs) : /\ Kind(cs[i]) /\ cs[i].at \in Ats(ph)
                              /\ cs[i].op = cs[1].op + (i - 1)
  BY <1>2, <1>3, <1>4
<1>7. \A i \in 1 .. (Len(cs) - 1) : Caller(cs[i].at, cs[i + 1].at)
  BY <1>3
<1>8. cs # <<>> => Bottom(cs[Len(cs)], ph, b)
  BY <1>3, <1>5
<1>9. Stacked(cs, ph, b)
  BY <1>3, <1>6, <1>7, <1>8 DEF Stacked
<1> QED
  BY <1>9 DEF cs, f

LEMMA StackedTwo ==
  ASSUME query \in Queries, NEW b, b \in Scans, b < N
  PROVE  Stacked(<<Frame(b, "next"), Frame(b + 1, "first")>>, "build", b + 1)
<1>1. N \in Nat /\ Top \in Nat /\ N <= Top /\ Scans = 1 .. N
  BY Chain
<1> DEFINE f == Frame(b, "next")
           g == Frame(b + 1, "first")
           cs == <<f, g>>
<1>2. /\ b \in 1 .. Top /\ b + 1 \in 1 .. Top /\ b + 1 \in 2 .. N /\ b \in Nat /\ b + 1 \in Nat
      /\ b + 1 = b + (2 - 1) /\ b = b + (1 - 1)
  BY <1>1
<1>3. /\ f \in Frames /\ Kind(f) /\ f.at = "next" /\ f.op = b /\ f.at \in Ats("build")
      /\ g \in Frames /\ Kind(g) /\ g.at = "first" /\ g.op = b + 1 /\ g.at \in Ats("build")
      /\ Bottom(g, "build", b + 1) /\ Caller(f.at, g.at)
  BY <1>2 DEF Frame, Frames, AllAts, Kind, Ats, Bottom, Caller
<1> HIDE DEF f, g
<1>4. /\ cs \in Seq(Frames) /\ Len(cs) = 2 /\ cs[1] = f /\ cs[2] = g
      /\ \A i \in 1 .. 2 : i = 1 \/ i = 2
      /\ \A i \in 1 .. (2 - 1) : i = 1 /\ i + 1 = 2
  BY <1>3
<1> HIDE DEF cs
<1>5. cs # <<>>
  BY <1>4
<1>6. \A i \in 1 .. Len(cs) : /\ Kind(cs[i]) /\ cs[i].at \in Ats("build")
                              /\ cs[i].op = cs[1].op + (i - 1)
  BY <1>2, <1>3, <1>4
<1>7. \A i \in 1 .. (Len(cs) - 1) : Caller(cs[i].at, cs[i + 1].at)
  BY <1>3, <1>4
<1>8. Bottom(cs[Len(cs)], "build", b + 1)
  BY <1>3, <1>4
<1>9. Stacked(cs, "build", b + 1)
  BY <1>4, <1>6, <1>7, <1>8 DEF Stacked
<1> QED
  BY <1>9 DEF cs, f, g

(* No call, before or after. *)
LEMMA Idle ==
  ASSUME Shape, NEW p \in [Scans -> Nat], Below(p, N), UNCHANGED <<query, tree>>,
         calls' = <<>>, phase' # "build", phase' \in {"look", "rewind"} => p[N] = 0
  PROVE  Stacked(calls, phase, built)' /\ Tree(p)'
<1>1. UNCHANGED query /\ UNCHANGED <<filepos, lt, lvalid>>
  BY DEF tree
<1>2. N' = N /\ Scans' = Scans /\ N \in Nat
  BY <1>1, SameQuery, Chain DEF Shape
<1>3. Stacked(calls', phase', built')
  BY StackedNone
<1>4. Stacked(calls, phase, built)'
  BY <1>1, <1>3, StackedNext
<1>5. PICK n \in Nat : n = N
  BY <1>2
<1>6. Below(p, n)'
  BY <1>1, <1>5, BelowSame
<1>7. Roof' = n
  BY <1>2, <1>5 DEF Roof
<1>8. Below(p, Roof)'
  BY <1>6, <1>7 DEF Below
<1>9. \A i \in 2 .. Len(calls') : FALSE
  <2>1. Len(<<>>) = 0 /\ \A i \in 2 .. 0 : FALSE
    OBVIOUS
  <2> QED
    BY <2>1
<1>10. calls' = <<>> /\ phase' \in {"build", "look", "rewind"} => p[Roof'] = 0
  BY <1>5, <1>7
<1>11. Tree(p)'
  BY <1>2, <1>8, <1>9, <1>10 DEF Tree
<1> QED
  BY <1>4, <1>11

(* A call of the top of the plan. *)
LEMMA Calls ==
  ASSUME Shape, NEW p \in [Scans -> Nat], Below(p, N), UNCHANGED <<query, tree>>,
         NEW at, at \in {"next", "rewind"}, calls' = <<Frame(Top, at)>>, phase' = at
  PROVE  Stacked(calls, phase, built)' /\ Tree(p)' /\ calls' # <<>> /\ calls'[1].at = at
<1>1. UNCHANGED query /\ UNCHANGED <<filepos, lt, lvalid>> /\ query \in Queries
  BY DEF tree, Shape
<1>2. N' = N /\ Scans' = Scans /\ N \in Nat /\ N <= Top /\ Top \in Nat
  BY <1>1, SameQuery, Chain
<1>3. at \in Ats(at) /\ Bottom(Frame(Top, at), at, built')
  BY DEF Ats, Bottom, Frame
<1>4. Stacked(calls', phase', built')
  BY <1>1, <1>3, StackedOne
<1>5. Stacked(calls, phase, built)'
  BY <1>1, <1>4, StackedNext
<1>6. PICK n \in Nat : n = N
  BY <1>2
<1>7. Below(p, n)'
  BY <1>1, <1>6, BelowSame
<1>8. PICK f : f = Frame(Top, at)
  OBVIOUS
<1>9. f.at = at /\ f.op = Top
  BY <1>8 DEF Frame
<1>10. Lower(f.op)' = n
  BY <1>2, <1>6, <1>9 DEF Lower
<1>11. Acting(p, f)'
  BY <1>7, <1>9, <1>10 DEF Acting
<1>12. calls' # <<>> /\ calls'[1] = f /\ Len(calls') = 1
  <2>1. <<f>> # <<>> /\ <<f>>[1] = f /\ Len(<<f>>) = 1
    OBVIOUS
  <2> QED
    BY <1>8, <2>1
<1>13. \A i \in 2 .. Len(calls') : FALSE
  <2>1. \A i \in 2 .. 1 : FALSE
    OBVIOUS
  <2> QED
    BY <1>12, <2>1
<1>14. Tree(p)'
  <2>1. Acting(p, calls[1])'
    BY <1>11, <1>12 DEF Acting
  <2> QED
    BY <1>2, <1>12, <1>13, <2>1 DEF Tree
<1> QED
  BY <1>5, <1>9, <1>12, <1>14

LEMMA SameRight ==
  ASSUME UNCHANGED query, NEW at, NEW refs
  PROVE  /\ RightAt(at, refs)' <=> RightAt(at, refs)
         /\ RightInJoin(at, refs)' <=> RightInJoin(at, refs)
<1>1. Scans' = Scans
  BY SameQuery
<1>2. \A ref, h : /\ Holders(ref)' = Holders(ref) /\ Placed(h, ref)' = Placed(h, ref)
                  /\ PlacedInJoin(h, ref)' = PlacedInJoin(h, ref)
  BY DEF Holders, Placed, PlacedInJoin, Width, PosByName, Alias, Has, Relation, Scans, N
<1> QED
  BY <1>1, <1>2 DEF RightAt, RightInJoin

LEMMA BuildKeeps ==
  ASSUME Shape, NEW p, Tree(p), Output(p), InitNTJoin
  PROVE  Keeps
<1>0. /\ UNCHANGED <<query, phase, out>> /\ UNCHANGED <<filepos, lt, lvalid>>
      /\ phase = "build" /\ calls = <<>> /\ built < N /\ built' = built + 1
      /\ calls' = <<Frame(built, "next"), Frame(built + 1, "first")>>
  BY DEF InitNTJoin, tree
<1>1. PICK b : b = built
  OBVIOUS
<1>2. /\ N \in Nat /\ Scans = 1 .. N /\ b \in Scans /\ b < N /\ query \in Queries
      /\ filepos \in [Scans -> Nat] /\ p \in [Scans -> Nat]
      /\ \A s \in Scans : s > b => filepos[s] = 0
  BY <1>0, <1>1, Chain DEF Shape, Tree
<1>3. b + 1 \in Scans /\ b \in Nat /\ b <= N /\ b + 1 > b /\ (b + 1) - 1 = b /\ b # b + 1
  BY <1>2
<1>4. /\ N' = N /\ Scans' = Scans /\ (\A k : Size(k)' = Size(k)) /\ Lower(b)' = b
  <2>1. N' = N /\ Scans' = Scans /\ (\A k : Size(k)' = Size(k))
    BY <1>0, SameQuery
  <2> QED
    BY <1>2, <1>3, <2>1 DEF Lower
<1> DEFINE q == [p EXCEPT ![b + 1] = 0]
<1>5. /\ q \in [Scans -> Nat] /\ q[b + 1] = 0 /\ q[b] = p[b]
      /\ \A i \in 1 .. b : q[i] = p[i]
  <2>1. /\ q \in [Scans -> Nat] /\ q[b + 1] = 0
        /\ \A i \in Scans : i # b + 1 => q[i] = p[i]
    BY <1>2, <1>3
  <2>2. \A i \in 1 .. b : i \in Scans /\ i # b + 1
    BY <1>2, <1>3
  <2> QED
    BY <1>2, <1>3, <2>1, <2>2
<1> HIDE DEF q
<1>6. Below(p, b) /\ p[b] = 0
  BY <1>0, <1>1 DEF Tree, Roof
<1>7. Below(q, b)'
  BY <1>0, <1>3, <1>5, <1>6, BelowSame
<1>8. PICK f : f = Frame(b, "next")
  OBVIOUS
<1>9. PICK g : g = Frame(b + 1, "first")
  OBVIOUS
<1>10. f.at = "next" /\ f.op = b /\ g.at = "first" /\ g.op = b + 1
  BY <1>8, <1>9 DEF Frame
<1>11. Acting(q, f)'
  BY <1>4, <1>7, <1>10 DEF Acting
<1>12. Waiting(q, g)'
  <2>1. filepos'[b + 1] = 0
    BY <1>0, <1>2, <1>3
  <2>2. Size(b + 1) \in Nat
    BY <1>2, <1>3, Files
  <2>3. q[b + 1] = q[b] * Size(b + 1)
    BY <1>5, <1>6, <2>2
  <2>4. q[g.op] = q[g.op - 1] * Size(g.op)'
    BY <1>3, <1>4, <1>10, <2>3
  <2>5. AtStart(q, g.op)'
    BY <1>5, <1>10, <2>1 DEF AtStart
  <2> QED
    BY <1>10, <2>4, <2>5 DEF Waiting
<1>13. calls' = <<f, g>> /\ calls' # <<>> /\ calls'[1] = f /\ Len(calls') = 2 /\ calls'[2] = g
  <2>1. <<f, g>> # <<>> /\ <<f, g>>[1] = f /\ Len(<<f, g>>) = 2 /\ <<f, g>>[2] = g
    OBVIOUS
  <2> QED
    BY <1>0, <1>1, <1>8, <1>9, <2>1
<1>14. Tree(q)'
  <2>1. Acting(q, calls[1])'
    BY <1>11, <1>13 DEF Acting
  <2>2. Waiting(q, calls[2])'
    BY <1>12, <1>13 DEF Waiting, AtStart
  <2>3. \A i \in 2 .. 2 : i = 2
    OBVIOUS
  <2>4. \A i \in 2 .. Len(calls') : Waiting(q, calls[i])'
    BY <1>13, <2>2, <2>3
  <2> QED
    BY <1>4, <1>5, <1>13, <2>1, <2>4 DEF Tree
<1>15. Output(q)'
  <2>1. out = <<>>
    BY <1>0 DEF Output
  <2> QED
    BY <1>0, <2>1 DEF Output
<1>16. Stacked(calls, phase, built)'
  <2>1. Stacked(<<Frame(b, "next"), Frame(b + 1, "first")>>, "build", b + 1)
    BY <1>2, StackedTwo
  <2>2. Stacked(calls', phase', built')
    BY <1>0, <1>1, <2>1
  <2> QED
    BY <1>0, <2>2, StackedNext
<1>17. Shape'
  <2>1. \A s \in Scans : s > b + 1 => filepos'[s] = 0
    <3>1. \A s \in Scans : s > b + 1 => s > b
      BY <1>2
    <3> QED
      BY <1>0, <1>2, <3>1
  <2> QED
    BY <1>0, <1>1, <1>3, <1>4, <2>1 DEF Shape
<1> QED
  BY <1>14, <1>15, <1>16, <1>17 DEF Keeps

LEMMA VerifyConditionKeeps ==
  ASSUME Shape, NamesAt, NEW p, Tree(p), Output(p), VerifyCondition
  PROVE  Keeps /\ NamesAt'
<1>0. /\ UNCHANGED <<query, answers, itemAt, built, out>> /\ UNCHANGED tree
      /\ UNCHANGED <<filepos, lt, lvalid>> /\ UNCHANGED <<query, tree>>
      /\ phase = "build" /\ calls = <<>> /\ built = N /\ calls' = <<>>
      /\ condAt' = [ref \in CondRefs |->
                      SetupAttribute(ref, IF Selects THEN N + 1 ELSE N, 0)]
      /\ phase' = IF \A ref \in CondRefs : condAt'[ref].ret = 1
                  THEN "look" ELSE "refused"
  BY DEF VerifyCondition, tree
<1>1. N \in Nat /\ Scans' = Scans /\ query \in Queries /\ p \in [Scans -> Nat]
  BY <1>0, SameQuery, Chain DEF Shape, Tree
<1>2. Below(p, N) /\ p[N] = 0 /\ out = <<>>
  BY <1>0 DEF Tree, Roof, Output
<1>3. phase' \in {"look", "refused"}
  BY <1>0
<1>4. Stacked(calls, phase, built)' /\ Tree(p)'
  BY <1>0, <1>1, <1>2, <1>3, Idle
<1>5. Output(p)'
  BY <1>0, <1>2, <1>3 DEF Output
<1>6. Shape'
  BY <1>0, <1>1, <1>3 DEF Shape
<1>7. Keeps
  BY <1>4, <1>5, <1>6 DEF Keeps
<1>8. PICK at : at = condAt'
  OBVIOUS
<1>9. ASSUME phase' = "look"
      PROVE  IF OneJoin THEN RightInJoin(at, CondRefs) ELSE RightAt(at, CondRefs)
  <2> DEFINE e == IF Selects THEN N + 1 ELSE N
  <2>1. \A ref \in CondRefs : at[ref] = SetupAttribute(ref, e, 0)
                              /\ SetupAttribute(ref, e, 0).ret = 1
    <3>1. \A ref \in CondRefs : at[ref] = SetupAttribute(ref, e, 0)
      BY <1>0, <1>8
    <3>2. \A ref \in CondRefs : at[ref].ret = 1
      BY <1>0, <1>8, <1>9
    <3> QED
      BY <3>1, <3>2
  <2>2. CASE OneJoin
    <3>1. N = 2 /\ e = N
      BY <2>2 DEF OneJoin, Selects
    <3>2. \A ref \in CondRefs : SetupAttribute(ref, N, 0).ret = 1
                                /\ at[ref] = SetupAttribute(ref, N, 0)
      BY <2>1, <3>1
    <3>3. ASSUME NEW ref \in CondRefs
          PROVE  \E h \in Scans : Holders(ref) = {h} /\ at[ref] = PlacedInJoin(h, ref)
      BY <1>1, <3>1, <3>2, LocatedInJoin
    <3> QED
      BY <2>2, <3>3 DEF RightInJoin
  <2>3. CASE ~OneJoin /\ Selects
    <3>1. e = N + 1 /\ e \in Nat /\ e >= N /\ 0 + e > N
      BY <1>1, <2>3
    <3> HIDE DEF e
    <3>2. ASSUME NEW ref \in CondRefs
          PROVE  \E h \in Scans : Holders(ref) = {h} /\ at[ref] = Placed(h, ref)
      BY <1>1, <2>1, <3>1, Located
    <3> QED
      BY <2>3, <3>2 DEF RightAt
  <2>4. CASE ~OneJoin /\ ~Selects
    <3>1. query.where = <<>>
      BY <2>4 DEF Selects
    <3>2. DOMAIN query.where = {}
      BY <3>1
    <3>3. CondRefs = {}
      BY <3>2 DEF CondRefs, RefsIn
    <3> QED
      BY <2>4, <3>3 DEF RightAt
  <2> QED
    BY <2>2, <2>3, <2>4
<1>10. NamesAt'
  <2>1. /\ OneJoin' = OneJoin /\ CondRefs' = CondRefs
        /\ Answer' = Answer /\ Legal' = Legal
    BY <1>0, SameQuery, SameMeaning
  <2>2. PICK refs : refs = CondRefs
    OBVIOUS
  <2>3. /\ RightAt(at, refs)' <=> RightAt(at, refs)
        /\ RightInJoin(at, refs)' <=> RightInJoin(at, refs)
    BY <1>0, SameRight
  <2>4. /\ RightAt(condAt, CondRefs)' <=> RightAt(at, refs)'
        /\ RightInJoin(condAt, CondRefs)' <=> RightInJoin(at, refs)'
    BY <1>8, <2>1, <2>2 DEF RightAt, RightInJoin
  <2> QED
    BY <1>0, <1>3, <1>9, <2>1, <2>2, <2>3, <2>4 DEF NamesAt
<1> QED
  BY <1>7, <1>10

LEMMA VerifyItemsKeeps ==
  ASSUME Shape, NamesAt, Stacked(calls, phase, built), NEW p, Tree(p), Output(p),
         VerifyItems
  PROVE  Keeps /\ NamesAt'
<1>0. /\ UNCHANGED <<query, answers, condAt, built, out>> /\ UNCHANGED tree
      /\ UNCHANGED <<filepos, lt, lvalid>> /\ UNCHANGED <<query, tree>>
      /\ phase = "look" /\ UNCHANGED calls
      /\ itemAt' = [ref \in ItemRefs |-> SetupAttribute(ref, Child, 1)]
      /\ phase' = IF \A ref \in ItemRefs : itemAt'[ref].ret = 1
                  THEN "ready" ELSE "refused"
  BY DEF VerifyItems, tree
<1>1. /\ N \in Nat /\ Scans' = Scans /\ query \in Queries /\ p \in [Scans -> Nat]
      /\ Child \in Nat /\ N <= Child
  BY <1>0, SameQuery, Chain DEF Shape, Tree
<1>2. calls = <<>> /\ calls' = <<>>
  BY <1>0, NoneCalled DEF Ats
<1>3. Below(p, N) /\ p[N] = 0 /\ out = <<>>
  BY <1>0, <1>2 DEF Tree, Roof, Output
<1>4. phase' \in {"ready", "refused"}
  BY <1>0
<1>5. Stacked(calls, phase, built)' /\ Tree(p)'
  BY <1>0, <1>1, <1>2, <1>3, <1>4, Idle
<1>6. Output(p)'
  <2>1. Kept(0) = <<>> /\ Kept(0)' = Kept(0) /\ N' = N
    BY <1>0, <1>1, KeptStep, SameMeaning, SameQuery
  <2>2. Kept(p[N])' = <<>>
    BY <1>3, <2>1
  <2> QED
    BY <1>0, <1>3, <1>4, <2>2 DEF Output
<1>7. Shape'
  BY <1>0, <1>1, <1>4 DEF Shape
<1>8. Keeps
  BY <1>5, <1>6, <1>7 DEF Keeps
<1>9. PICK at : at = itemAt'
  OBVIOUS
<1>10. ASSUME phase' = "ready" PROVE RightAt(at, ItemRefs)
  <2>1. \A ref \in ItemRefs : at[ref] = SetupAttribute(ref, Child, 1)
    BY <1>0, <1>9
  <2>2. \A ref \in ItemRefs : at[ref].ret = 1
    BY <1>0, <1>9, <1>10
  <2>3. Child >= N /\ 1 + Child > N /\ 1 \in Nat
    BY <1>1
  <2>4. ASSUME NEW ref \in ItemRefs
        PROVE  \E h \in Scans : Holders(ref) = {h} /\ at[ref] = Placed(h, ref)
    BY <1>1, <2>1, <2>2, <2>3, Located
  <2> QED
    BY <2>4 DEF RightAt
<1>11. NamesAt'
  <2>1. /\ OneJoin' = OneJoin /\ CondRefs' = CondRefs /\ ItemRefs' = ItemRefs
        /\ Answer' = Answer /\ Legal' = Legal
    BY <1>0, SameQuery, SameMeaning
  <2>2. PICK refs : refs = ItemRefs
    OBVIOUS
  <2>3. RightAt(itemAt, ItemRefs)' <=> RightAt(at, refs)
    <3>1. RightAt(at, refs)' <=> RightAt(at, refs)
      BY <1>0, SameRight
    <3>2. RightAt(itemAt, ItemRefs)' <=> RightAt(at, refs)'
      BY <1>9, <2>1, <2>2 DEF RightAt
    <3> QED
      BY <3>1, <3>2
  <2>4. PICK cat : cat = condAt
    OBVIOUS
  <2>5. PICK crefs : crefs = CondRefs
    OBVIOUS
  <2>6. /\ RightAt(cat, crefs)' <=> RightAt(cat, crefs)
        /\ RightInJoin(cat, crefs)' <=> RightInJoin(cat, crefs)
    BY <1>0, SameRight
  <2>7. /\ RightAt(condAt, CondRefs)' <=> RightAt(cat, crefs)'
        /\ RightInJoin(condAt, CondRefs)' <=> RightInJoin(cat, crefs)'
    BY <1>0, <2>1, <2>4, <2>5 DEF RightAt, RightInJoin
  <2>8. IF OneJoin THEN RightInJoin(condAt, CondRefs) ELSE RightAt(condAt, CondRefs)
    BY <1>0 DEF NamesAt
  <2>9. (IF OneJoin THEN RightInJoin(condAt, CondRefs) ELSE RightAt(condAt, CondRefs))'
    BY <2>1, <2>4, <2>5, <2>6, <2>7, <2>8
  <2>10. phase' = "ready" => RightAt(itemAt, ItemRefs)'
    BY <1>10, <2>2, <2>3
  <2>11. (answers = IF Legal THEN {Answer} ELSE {})'
    BY <1>0, <2>1 DEF NamesAt
  <2> QED
    BY <1>4, <2>9, <2>10, <2>11 DEF NamesAt
<1> QED
  BY <1>8, <1>11

LEMMA CallNextKeeps ==
  ASSUME Shape, Stacked(calls, phase, built), NEW p, Tree(p), Output(p), CallNext
  PROVE  Keeps
<1>0. /\ UNCHANGED <<query, out, built>> /\ UNCHANGED <<query, tree>>
      /\ UNCHANGED <<filepos, lt, lvalid>>
      /\ phase = "ready" /\ phase' = "next" /\ calls' = <<Frame(Top, "next")>>
  BY DEF CallNext, plan, tree
<1>1. N \in Nat /\ Scans' = Scans /\ query \in Queries /\ p \in [Scans -> Nat] /\ N' = N
  BY <1>0, SameQuery, Chain DEF Shape, Tree
<1>2. calls = <<>>
  BY <1>0, NoneCalled DEF Ats
<1>3. Below(p, N) /\ out = Kept(p[N])
  BY <1>0, <1>2 DEF Tree, Roof, Output
<1>4. Stacked(calls, phase, built)' /\ Tree(p)' /\ calls' # <<>> /\ calls'[1].at = "next"
  BY <1>0, <1>1, <1>3, Calls
<1>5. Output(p)'
  <2>1. PICK n : n = p[N]
    OBVIOUS
  <2>2. Kept(n)' = Kept(n)
    BY <1>0, SameMeaning
  <2>3. out' = Kept(p[N])'
    BY <1>0, <1>1, <1>3, <2>1, <2>2
  <2> QED
    BY <1>0, <1>4, <2>3 DEF Output
<1>6. Shape'
  BY <1>0, <1>1 DEF Shape
<1> QED
  BY <1>4, <1>5, <1>6 DEF Keeps

NoMore(p)  == out = Kept(p[N]) /\ out = Answer
OneMore(p) ==
  /\ Append(out, got.tuple) = Kept(p[N])
  /\ Stream!IsStrictPrefix(out, Answer)
  /\ Append(out, got.tuple) = SubSeq(Answer, 1, Len(out) + 1)

(* What is returned to the caller is the next tuple of the answer. *)
LEMMA WhatIsGiven ==
  ASSUME Shape, NEW p, Output(p), phase = "next", calls = <<>>
  PROVE  (got.ret = 0 /\ NoMore(p)) \/ (got.ret = 1 /\ OneMore(p))
<1>1. Offered(p, Top)
  BY DEF Output
<1>2. /\ query \in Queries /\ N \in Nat /\ Child \in Nat /\ Child <= Top
      /\ (Top = Child \/ Top = Child + 1) /\ N \in 1 .. N
  BY Chain DEF Shape
<1>3. CASE got.ret = 0
  BY <1>1, <1>2, <1>3, PartsAre DEF Offered, NoMore
<1>4. CASE got.ret = 1
  <2> DEFINE n == p[N]
  <2>1. /\ n \in 1 .. Count(N) /\ out = Kept(n - 1) /\ Satisfies(Combination(n))
        /\ got.tuple = IF Top > Child THEN Wanted(Combination(n)) ELSE Whole(N, n)
    <3>1. Top >= Child
      BY <1>2
    <3> QED
      BY <1>1, <1>4, <3>1 DEF Offered
  <2>2. got.tuple = Wanted(Combination(n))
    <3>1. CASE Top > Child
      BY <2>1, <3>1
    <3>2. CASE ~(Top > Child)
      <4>1. OnlyStar
        BY <1>2, <3>2 DEF Top
      <4>2. Wanted(Combination(n)) = Concat(Combination(n))
        BY <4>1, StarWanted
      <4> QED
        BY <2>1, <3>2, <4>2 DEF Whole, Combination
    <3> QED
      BY <3>1, <3>2
  <2> HIDE DEF n
  <2>3. Kept(n) = Append(Kept(n - 1), Wanted(Combination(n)))
    BY <1>2, <2>1, KeptStep
  <2>4. /\ Stream!IsStrictPrefix(Kept(n - 1), Answer)
        /\ Append(Kept(n - 1), Wanted(Combination(n)))
             = SubSeq(Answer, 1, Len(Kept(n - 1)) + 1)
    BY <1>2, <2>1, NextOfAnswer
  <2> QED
    BY <1>4, <2>1, <2>2, <2>3, <2>4 DEF n, OneMore
<1>5. got.ret = 0 \/ got.ret = 1
  BY <1>1 DEF Offered
<1> QED
  BY <1>3, <1>4, <1>5

LEMMA AnsweredKeeps ==
  ASSUME Shape, Stacked(calls, phase, built), NEW p, Tree(p), Output(p), Answered
  PROVE  Keeps
<1>0. /\ UNCHANGED <<query, built>> /\ UNCHANGED <<query, tree>>
      /\ UNCHANGED <<filepos, lt, lvalid>>
      /\ phase = "next" /\ phase' = "ready" /\ calls = <<>> /\ calls' = <<>>
      /\ out' = IF got.ret = 1 THEN Append(out, got.tuple) ELSE out
  BY DEF Answered, plan, tree
<1>1. N \in Nat /\ Scans' = Scans /\ query \in Queries /\ p \in [Scans -> Nat] /\ N' = N
  BY <1>0, SameQuery, Chain DEF Shape, Tree
<1>2. Below(p, N)
  BY <1>0 DEF Tree, Roof
<1>3. Stacked(calls, phase, built)' /\ Tree(p)'
  BY <1>0, <1>1, <1>2, Idle
<1>4. out' = Kept(p[N])
  <2>1. \/ got.ret = 0 /\ out = Kept(p[N])
        \/ got.ret = 1 /\ Append(out, got.tuple) = Kept(p[N])
    BY <1>0, WhatIsGiven DEF NoMore, OneMore
  <2>2. CASE got.ret = 0 /\ out = Kept(p[N])
    <3>1. got.ret # 1
      BY <2>2
    <3> QED
      BY <1>0, <2>2, <3>1
  <2>3. CASE got.ret = 1 /\ Append(out, got.tuple) = Kept(p[N])
    <3>1. out' = Append(out, got.tuple)
      BY <1>0, <2>3
    <3> QED
      BY <2>3, <3>1
  <2> QED
    BY <2>1, <2>2, <2>3
<1>5. Output(p)'
  <2>1. PICK n : n = p[N]
    OBVIOUS
  <2>2. Kept(n)' = Kept(n)
    BY <1>0, SameMeaning
  <2>3. out' = Kept(p[N])'
    BY <1>1, <1>4, <2>1, <2>2
  <2> QED
    BY <1>0, <2>3 DEF Output
<1>6. Shape'
  BY <1>0, <1>1 DEF Shape
<1> QED
  BY <1>3, <1>5, <1>6 DEF Keeps

LEMMA CallRewindKeeps ==
  ASSUME Shape, Stacked(calls, phase, built), NEW p, Tree(p), CallRewind
  PROVE  Keeps
<1>0. /\ UNCHANGED <<query, built>> /\ UNCHANGED <<query, tree>>
      /\ UNCHANGED <<filepos, lt, lvalid>>
      /\ phase = "ready" /\ phase' = "rewind" /\ calls' = <<Frame(Top, "rewind")>>
      /\ out' = <<>>
  BY DEF CallRewind, plan, tree
<1>1. N \in Nat /\ Scans' = Scans /\ query \in Queries /\ p \in [Scans -> Nat]
  BY <1>0, SameQuery, Chain DEF Shape, Tree
<1>2. calls = <<>>
  BY <1>0, NoneCalled DEF Ats
<1>3. Below(p, N)
  BY <1>0, <1>2 DEF Tree, Roof
<1>4. Stacked(calls, phase, built)' /\ Tree(p)'
  BY <1>0, <1>1, <1>3, Calls
<1>5. Output(p)'
  BY <1>0 DEF Output
<1>6. Shape'
  BY <1>0, <1>1 DEF Shape
<1> QED
  BY <1>4, <1>5, <1>6 DEF Keeps

LEMMA RewoundKeeps ==
  ASSUME Shape, NEW p, Tree(p), Output(p), Rewound
  PROVE  Keeps
<1>0. /\ UNCHANGED <<query, built, out>> /\ UNCHANGED <<query, tree>>
      /\ UNCHANGED <<filepos, lt, lvalid>>
      /\ phase = "rewind" /\ phase' = "ready" /\ calls = <<>> /\ calls' = <<>>
  BY DEF Rewound, plan, tree
<1>1. N \in Nat /\ Scans' = Scans /\ query \in Queries /\ p \in [Scans -> Nat] /\ N' = N
  BY <1>0, SameQuery, Chain DEF Shape, Tree
<1>2. Below(p, N) /\ p[N] = 0 /\ out = <<>>
  BY <1>0 DEF Tree, Roof, Output
<1>3. Stacked(calls, phase, built)' /\ Tree(p)'
  BY <1>0, <1>1, <1>2, Idle
<1>4. Output(p)'
  <2>1. Kept(0) = <<>> /\ Kept(0)' = Kept(0)
    BY <1>0, <1>1, KeptStep, SameMeaning
  <2>2. Kept(p[N])' = <<>>
    BY <1>1, <1>2, <2>1
  <2> QED
    BY <1>0, <1>2, <2>2 DEF Output
<1>5. Shape'
  BY <1>0, <1>1 DEF Shape
<1> QED
  BY <1>3, <1>4, <1>5 DEF Keeps

(* Nothing but the lookups changes where the attributes are. *)
LEMMA NamesAtKeeps ==
  ASSUME Shape, NamesAt, UNCHANGED <<query, answers, condAt, itemAt>>,
         phase' = phase \/ phase \in {"ready", "next", "rewind"}
  PROVE  NamesAt'
<1>1. UNCHANGED <<query, answers, condAt, itemAt>>
  OBVIOUS
<1>2. /\ OneJoin' = OneJoin /\ CondRefs' = CondRefs /\ ItemRefs' = ItemRefs
      /\ Answer' = Answer /\ Legal' = Legal
  BY <1>1, SameQuery, SameMeaning
<1>3. \A ref, h : /\ Holders(ref)' = Holders(ref) /\ Placed(h, ref)' = Placed(h, ref)
                  /\ PlacedInJoin(h, ref)' = PlacedInJoin(h, ref)
  BY <1>1 DEF Holders, Placed, PlacedInJoin, Width, PosByName, Alias, Has, Relation, Scans, N
<1>4. Scans' = Scans
  BY <1>1, SameQuery
<1>5. /\ RightAt(condAt, CondRefs)' <=> RightAt(condAt, CondRefs)
      /\ RightAt(itemAt, ItemRefs)' <=> RightAt(itemAt, ItemRefs)
      /\ RightInJoin(condAt, CondRefs)' <=> RightInJoin(condAt, CondRefs)
  BY <1>1, <1>2, <1>3, <1>4 DEF RightAt, RightInJoin
<1> QED
  BY <1>1, <1>2, <1>5 DEF NamesAt

LEMMA TreeInit ==
  Init => TreeInv
<1> SUFFICES ASSUME Init PROVE TreeInv
  OBVIOUS
<1>1. /\ query \in Queries /\ answers = (IF Legal THEN {Answer} ELSE {})
      /\ filepos = [s \in Scans |-> 0] /\ lt = [k \in Scans |-> <<>>]
      /\ lvalid = [k \in Scans |-> 0] /\ calls = <<>> /\ built = 1 /\ phase = "build"
      /\ out = <<>>
  BY DEF Init
<1>2. N \in Nat /\ N >= 1 /\ Scans = 1 .. N /\ 1 \in Scans
  BY <1>1, Chain
<1>3. Shape
  BY <1>1, <1>2 DEF Shape
<1>4. NamesAt
  BY <1>1 DEF NamesAt
<1>5. Stacked(calls, phase, built)
  BY <1>1, StackedNone
<1> DEFINE p == [s \in Scans |-> 0]
<1>6. p \in [Scans -> Nat] /\ p[1] = 0 /\ filepos[1] = 0
  BY <1>1, <1>2
<1> HIDE DEF p
<1>7. Below(p, Roof)
  <2>1. Count(1) \in Nat /\ Size(1) \in Nat
    BY <1>1, <1>2, Wholes, Files
  <2>2. p[1] \in 0 .. Count(1) /\ filepos[1] \in 0 .. Size(1)
    BY <1>6, <2>1
  <2>3. Settled(p, 1)
    BY <1>6, <2>2 DEF Settled
  <2>4. Roof = 1
    BY <1>1 DEF Roof
  <2> QED
    BY <2>3, <2>4 DEF Below
<1>8. \A i \in 2 .. Len(calls) : FALSE
  <2>1. Len(<<>>) = 0 /\ \A i \in 2 .. 0 : FALSE
    OBVIOUS
  <2> QED
    BY <1>1, <2>1
<1>9. p[Roof] = 0
  BY <1>1, <1>6 DEF Roof
<1>10. Tree(p)
  BY <1>1, <1>6, <1>7, <1>8, <1>9 DEF Tree
<1>11. Output(p)
  BY <1>1 DEF Output
<1> QED
  BY <1>3, <1>4, <1>5, <1>6, <1>10, <1>11 DEF TreeInv

(* With p before the step and q after it. *)
LEMMA TreeKeeps ==
  ASSUME Keeps, NamesAt'
  PROVE  TreeInv'
<1>1. PICK q : Tree(q)' /\ Output(q)'
  BY DEF Keeps
<1>2. q \in [Scans' -> Nat]
  BY <1>1 DEF Tree
<1> QED
  BY <1>1, <1>2 DEF Keeps, TreeInv

LEMMA StepOfPlan ==
  ASSUME Shape, NamesAt, Stacked(calls, phase, built), NEW p, Tree(p), Output(p),
         \/ NextScan \/ NTInner \/ NTOuter \/ NTDone \/ NTLeft \/ NTFirst
         \/ NextOneChild \/ SelectChild \/ ProjectChild
         \/ RewindScan \/ RewindChild \/ RewoundOneChild \/ RewoundNTJoin
  PROVE  Keeps
<1>1. CASE NextScan
  BY <1>1, NextScanKeeps
<1>2. CASE NTInner
  BY <1>2, NTInnerKeeps
<1>3. CASE NTOuter
  BY <1>3, NTOuterKeeps
<1>4. CASE NTDone
  BY <1>4, NTDoneKeeps
<1>5. CASE NTLeft
  BY <1>5, NTLeftKeeps
<1>6. CASE NTFirst
  BY <1>6, NTFirstKeeps
<1>7. CASE NextOneChild
  BY <1>7, NextOneChildKeeps
<1>8. CASE SelectChild
  BY <1>8, SelectChildKeeps
<1>9. CASE ProjectChild
  BY <1>9, ProjectChildKeeps
<1>10. CASE RewindScan
  BY <1>10, RewindScanKeeps
<1>11. CASE RewindChild
  BY <1>11, RewindChildKeeps
<1>12. CASE RewoundOneChild
  BY <1>12, RewoundOneChildKeeps
<1>13. CASE RewoundNTJoin
  BY <1>13, RewoundNTJoinKeeps
<1> QED
  BY <1>1, <1>2, <1>3, <1>4, <1>5, <1>6, <1>7, <1>8, <1>9, <1>10, <1>11, <1>12, <1>13

LEMMA InContext ==
  ASSUME \/ NextScan \/ NTInner \/ NTOuter \/ NTDone \/ NTLeft \/ NTFirst
         \/ NextOneChild \/ SelectChild \/ ProjectChild
         \/ RewindScan \/ RewindChild \/ RewoundOneChild \/ RewoundNTJoin
  PROVE  /\ UNCHANGED <<query, answers, condAt, itemAt>>
         /\ phase' = phase /\ out' = out /\ over' = over
<1>1. Context
  BY DEF NextScan, NTInner, NTOuter, NTDone, NTLeft, NTFirst, NextOneChild, SelectChild,
     ProjectChild, RewindScan, RewindChild, RewoundOneChild, RewoundNTJoin
<1> QED
  BY <1>1 DEF Context, plan

LEMMA TreeStep ==
  TreeInv /\ [Next]_vars => TreeInv'
<1> SUFFICES ASSUME TreeInv, [Next]_vars PROVE TreeInv'
  OBVIOUS
<1>1. Shape /\ NamesAt /\ Stacked(calls, phase, built)
  BY DEF TreeInv
<1>2. PICK p : Tree(p) /\ Output(p)
  BY DEF TreeInv
<1>3. CASE InitNTJoin
  <2>1. Keeps
    BY <1>1, <1>2, <1>3, BuildKeeps
  <2>2. UNCHANGED <<query, answers, condAt, itemAt>> /\ phase' = phase
    BY <1>3 DEF InitNTJoin
  <2>3. NamesAt'
    BY <1>1, <2>2, NamesAtKeeps
  <2> QED
    BY <2>1, <2>3, TreeKeeps
<1>4. CASE VerifyCondition
  <2>1. Keeps /\ NamesAt'
    BY <1>1, <1>2, <1>4, VerifyConditionKeeps
  <2> QED
    BY <2>1, TreeKeeps
<1>5. CASE VerifyItems
  <2>1. Keeps /\ NamesAt'
    BY <1>1, <1>2, <1>5, VerifyItemsKeeps
  <2> QED
    BY <2>1, TreeKeeps
<1>6. CASE CallNext \/ Answered \/ CallRewind \/ Rewound
  <2>1. Keeps
    BY <1>1, <1>2, <1>6, CallNextKeeps, AnsweredKeeps, CallRewindKeeps, RewoundKeeps
  <2>2. UNCHANGED <<query, answers, condAt, itemAt>> /\ phase \in {"ready", "next", "rewind"}
    BY <1>6 DEF CallNext, Answered, CallRewind, Rewound, plan
  <2>3. NamesAt'
    BY <1>1, <2>2, NamesAtKeeps
  <2> QED
    BY <2>1, <2>3, TreeKeeps
<1>7. CASE \/ NextScan \/ NTInner \/ NTOuter \/ NTDone \/ NTLeft \/ NTFirst
           \/ NextOneChild \/ SelectChild \/ ProjectChild
           \/ RewindScan \/ RewindChild \/ RewoundOneChild \/ RewoundNTJoin
  <2>1. Keeps
    BY <1>1, <1>2, <1>7, StepOfPlan
  <2>2. UNCHANGED <<query, answers, condAt, itemAt>> /\ phase' = phase
    BY <1>7, InContext
  <2>3. NamesAt'
    BY <1>1, <2>2, NamesAtKeeps
  <2> QED
    BY <2>1, <2>3, TreeKeeps
<1>8. CASE UNCHANGED vars
  <2>1. /\ UNCHANGED <<query, answers, condAt, itemAt, built>> /\ UNCHANGED <<query, tree>>
        /\ UNCHANGED <<filepos, lt, lvalid>>
        /\ phase' = phase /\ calls' = calls /\ got' = got /\ out' = out
    BY <1>8 DEF vars, plan, tree
  <2>2. NamesAt'
    BY <1>1, <2>1, NamesAtKeeps
  <2>3. /\ N' = N /\ Scans' = Scans /\ Child' = Child /\ Top' = Top
        /\ \A k : Size(k)' = Size(k) /\ Count(k)' = Count(k)
        /\ \A k, n : Whole(k, n)' = Whole(k, n)
        /\ \A n : Kept(n)' = Kept(n) /\ Combination(n)' = Combination(n)
        /\ \A c : Satisfies(c)' = Satisfies(c) /\ Wanted(c)' = Wanted(c)
    BY <2>1, SameQuery, SameChoices, SameMeaning
  <2>4. Shape'
    BY <1>1, <2>1, <2>3 DEF Shape
  <2>5. Stacked(calls, phase, built)'
    <3>1. Stacked(calls', phase', built')
      BY <1>1, <2>1
    <3> QED
      BY <2>1, <3>1, StackedNext
  <2>6. \A k : Below(p, k)' <=> Below(p, k)
    BY <2>1, <2>3 DEF Below, Settled
  <2>7. \A f : (Acting(p, f)' <=> Acting(p, f)) /\ (Waiting(p, f)' <=> Waiting(p, f))
    BY <2>1, <2>3, <2>6 DEF Acting, Waiting, Taking, Returned, AtStart, Lower
  <2>8. Tree(p)'
    BY <1>2, <2>1, <2>3, <2>6, <2>7 DEF Tree, Roof
  <2>9. Output(p)'
    BY <1>2, <2>1, <2>3 DEF Output, Offered
  <2> QED
    BY <2>2, <2>4, <2>5, <2>8, <2>9, TreeKeeps DEF Keeps
<1> QED
  BY <1>3, <1>4, <1>5, <1>6, <1>7, <1>8 DEF Next, Advance

LEMMA GivesOrFinishes ==
  ASSUME TreeInv, NamesInv, Answered
  PROVE  Stream!Give \/ Stream!Finish
<1>1. Shape /\ NamesAt
  BY DEF TreeInv
<1>2. PICK p : Tree(p) /\ Output(p)
  BY DEF TreeInv
<1>3. /\ phase = "next" /\ calls = <<>> /\ UNCHANGED answers
      /\ got.ret = 1 => out' = Append(out, got.tuple) /\ UNCHANGED over
      /\ got.ret # 1 => over' = TRUE /\ UNCHANGED out
  BY DEF Answered, plan
<1>4. answers = {Answer}
  <2>1. Legal
    BY <1>3 DEF NamesInv, Legal, Refs, CondNamed, ItemsNamed
  <2> QED
    BY <1>1, <2>1 DEF NamesAt
<1>5. (got.ret = 0 /\ NoMore(p)) \/ (got.ret = 1 /\ OneMore(p))
  BY <1>1, <1>2, <1>3, WhatIsGiven
<1>6. CASE got.ret = 0 /\ NoMore(p)
  <2>1. got.ret # 1
    BY <1>6
  <2>2. out = Answer
    BY <1>6 DEF NoMore
  <2> QED
    BY <1>3, <1>4, <2>1, <2>2 DEF Stream!Finish
<1>7. CASE got.ret = 1 /\ OneMore(p)
  <2>1. out' = Append(out, got.tuple) /\ UNCHANGED over
    BY <1>3, <1>7
  <2>2. /\ Stream!IsStrictPrefix(out, Answer)
        /\ Append(out, got.tuple) = SubSeq(Answer, 1, Len(out) + 1)
    BY <1>7 DEF OneMore
  <2>3. Answer \in answers /\ Stream!IsStrictPrefix(out, Answer)
        /\ out' = SubSeq(Answer, 1, Len(out) + 1)
    BY <1>4, <2>1, <2>2
  <2> QED
    BY <1>3, <2>1, <2>3 DEF Stream!Give
<1> QED
  BY <1>5, <1>6, <1>7

(* Whatever the plan and wherever its caller rewinds it, next returns the    *)
(* tuples that the query means, one by one, and 0 when there are no more:    *)
(* every step of the calls is a step of TupleStream, or changes nothing that *)
(* it speaks of (dbparseexpr.c:535, ntjoin.c:117, select.c:53, project.c:59).*)
THEOREM AnswersAsMeant == Spec => AnswersMeant
<1>1. Init => Stream!Init /\ NamesInv
  BY DEF Init, Stream!Init, NamesInv
<1>2. TreeInv /\ NamesInv /\ [Next]_vars => [Stream!Next]_(<<answers, out, over>>)
  <2> SUFFICES ASSUME TreeInv, NamesInv, [Next]_vars
               PROVE  \/ Stream!Give \/ Stream!Finish \/ Stream!Restart
                      \/ UNCHANGED <<answers, out, over>>
    BY DEF Stream!Next
  <2>1. CASE Answered
    BY <2>1, GivesOrFinishes
  <2>2. CASE CallRewind
    BY <2>2 DEF CallRewind, Stream!Restart, plan
  <2>3. CASE \/ NextScan \/ NTInner \/ NTOuter \/ NTDone \/ NTLeft \/ NTFirst
             \/ NextOneChild \/ SelectChild \/ ProjectChild
             \/ RewindScan \/ RewindChild \/ RewoundOneChild \/ RewoundNTJoin
    BY <2>3, InContext
  <2>4. CASE InitNTJoin \/ VerifyCondition \/ VerifyItems
    BY <2>4 DEF InitNTJoin, VerifyCondition, VerifyItems
  <2>5. CASE CallNext \/ Rewound \/ UNCHANGED vars
    BY <2>5 DEF CallNext, Rewound, vars, plan
  <2> QED
    BY <2>1, <2>2, <2>3, <2>4, <2>5 DEF Next, Advance
<1>3. NamesInv /\ [Next]_vars => NamesInv'
  BY NamesStep
<1> QED
  BY <1>1, <1>2, <1>3, TreeInit, TreeStep, PTL DEF Spec, AnswersMeant, Stream!Spec
=============================================================================
