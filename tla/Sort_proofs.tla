----------------------------- MODULE Sort_proofs -----------------------------
(***************************************************************************)
(* cmp_tuple orders the tuples of a relation, whatever they are sorted on; *)
(* therefore the sort, which remembers a single tuple, returns the tuples  *)
(* of its source in that order, leaves none out, and implements            *)
(* TupleStream.                                                            *)
(***************************************************************************)
EXTENDS Sort, FiniteSetTheorems, WellFoundedInduction, TLAPS

Values == Int \cup {NULL}
Outcomes == {-1, 0, 1}

\* Of three comparisons, of a first thing with a second, of that with a third,
\* and of the first with the third: what transitivity says.
Composes(x, y, z) == x <= 0 /\ y <= 0 => z <= 0 /\ (z = 0 => x = 0 /\ y = 0)

-----------------------------------------------------------------------------
\* The comparison of two values: an outcome, the opposite one the other way
\* round, transitive.
LEMMA ValuesAnti ==
  ASSUME NEW x \in Values, NEW y \in Values
  PROVE  /\ CompareValues(x, y) \in Outcomes
         /\ CompareValues(y, x) + CompareValues(x, y) = 0
  BY DEF CompareValues, Sign, Values, Outcomes

LEMMA ValuesTransitive ==
  ASSUME NEW x \in Values, NEW y \in Values, NEW z \in Values,
         CompareValues(x, y) <= 0, CompareValues(y, z) <= 0
  PROVE  /\ CompareValues(x, z) <= 0
         /\ CompareValues(x, z) = 0 =>
              CompareValues(x, y) = 0 /\ CompareValues(y, z) = 0
  BY DEF CompareValues, Sign, Values

\* So is that of two attributes by their bytes.
LEMMA BytesAnti ==
  ASSUME NEW x \in Values, NEW y \in Values
  PROVE  /\ Sign(Bytes(x) - Bytes(y)) \in Outcomes
         /\ Sign(Bytes(y) - Bytes(x)) + Sign(Bytes(x) - Bytes(y)) = 0
  BY DEF Bytes, Sign, Values, Outcomes

LEMMA BytesTransitive ==
  ASSUME NEW x \in Values, NEW y \in Values, NEW z \in Values,
         Sign(Bytes(x) - Bytes(y)) <= 0, Sign(Bytes(y) - Bytes(z)) <= 0
  PROVE  /\ Sign(Bytes(x) - Bytes(z)) <= 0
         /\ Sign(Bytes(x) - Bytes(z)) = 0 =>
              /\ Sign(Bytes(x) - Bytes(y)) = 0
              /\ Sign(Bytes(y) - Bytes(z)) = 0
  BY DEF Bytes, Sign, Values

-----------------------------------------------------------------------------
\* Among the positions of a sequence there is a first one.
LEMMA LeastExists ==
  ASSUME NEW n \in Nat, NEW S \in SUBSET (1..n), S # {}
  PROVE  Min(S) \in S /\ \A q \in S : Min(S) <= q
<1> DEFINE UpTo(k) == {q \in S : q <= k}
           Initial == {UpTo(k) : k \in S}
<1>1. /\ Initial \subseteq FiniteSubsetsOf(1..n)
      /\ Initial # {}
  <2>1. FiniteSubsetsOf(1..n) = SUBSET (1..n)
    <3>1. IsFiniteSet(1..n)
      BY FS_Interval
    <3> QED
      BY <3>1, FS_FiniteSubsetsOfFinite
  <2>2. Initial \subseteq SUBSET (1..n) /\ Initial # {}
    OBVIOUS
  <2> HIDE DEF Initial
  <2> QED
    BY <2>1, <2>2
<1>2. PICK U \in Initial : \A V \in Initial : <<V, U>> \notin StrictSubsetOrdering(1..n)
  <2> HIDE DEF Initial
  <2> QED
    BY <1>1, WFMin, FS_StrictSubsetOrderingWellFounded
<1>3. PICK m \in S : U = UpTo(m)
  OBVIOUS
<1>4. \A q \in S : m <= q
  <2> SUFFICES ASSUME NEW q \in S, q < m
               PROVE  FALSE
    OBVIOUS
  <2>1. UpTo(q) \subseteq UpTo(m) /\ m \in UpTo(m) /\ m \notin UpTo(q)
    <3>1. S \subseteq Int /\ q \in Int /\ m \in Int
      OBVIOUS
    <3>2. UpTo(q) \subseteq UpTo(m)
      <4> SUFFICES ASSUME NEW r \in UpTo(q) PROVE r \in UpTo(m)
        OBVIOUS
      <4>1. r \in S /\ r <= q
        OBVIOUS
      <4>2. r <= m
        BY <3>1, <4>1
      <4> QED
        BY <4>1, <4>2
    <3>3. m \in UpTo(m) /\ m \notin UpTo(q)
      BY <3>1
    <3> QED
      BY <3>2, <3>3
  <2>2. <<UpTo(q), UpTo(m)>> \in StrictSubsetOrdering(1..n)
    <3>1. UpTo(q) \in SUBSET (1..n) /\ UpTo(m) \in SUBSET (1..n)
      OBVIOUS
    <3> HIDE DEF UpTo
    <3> QED
      BY <2>1, <3>1 DEF StrictSubsetOrdering
  <2>3. UpTo(q) \in Initial
    OBVIOUS
  <2> HIDE DEF UpTo, Initial
  <2> QED
    BY <1>2, <1>3, <2>2, <2>3
<1> QED
  BY <1>4 DEF Min

\* What FirstDecides returns: 0 if every comparison is a tie, and else the first
\* that is not.
LEMMA Decided ==
  ASSUME NEW n \in Nat, NEW c \in [1..n -> Outcomes]
  PROVE  \/ /\ FirstDecides(c) = 0
            /\ \A q \in 1..n : c[q] = 0
         \/ \E p \in 1..n : /\ c[p] # 0
                            /\ FirstDecides(c) = c[p]
                            /\ \A q \in 1..n : q < p => c[q] = 0
<1> DEFINE S == {p \in DOMAIN c : c[p] # 0}
<1>1. DOMAIN c = 1..n /\ S \in SUBSET (1..n)
  OBVIOUS
<1>2. CASE S = {}
  BY <1>1, <1>2 DEF FirstDecides
<1>3. CASE S # {}
  <2>1. Min(S) \in S /\ \A q \in S : Min(S) <= q
    BY <1>1, <1>3, LeastExists
  <2>2. FirstDecides(c) = c[Min(S)]
    BY <1>3 DEF FirstDecides
  <2>3. Min(S) \in 1..n /\ c[Min(S)] # 0
    BY <1>1, <2>1
  <2>4. \A q \in 1..n : q < Min(S) => c[q] = 0
    BY <1>1, <2>1, <2>3
  <2> QED
    BY <2>2, <2>3, <2>4
<1> QED
  BY <1>2, <1>3

LEMMA DecidedAnti ==
  ASSUME NEW n \in Nat, NEW c \in [1..n -> Outcomes], NEW d \in [1..n -> Outcomes],
         \A q \in 1..n : d[q] + c[q] = 0
  PROVE  /\ FirstDecides(c) \in Outcomes
         /\ FirstDecides(d) + FirstDecides(c) = 0
<1>1. CASE \A q \in 1..n : c[q] = 0
  <2>1. \A q \in 1..n : d[q] = 0
    BY <1>1 DEF Outcomes
  <2>2. FirstDecides(c) = 0
    BY <1>1, Decided
  <2>3. FirstDecides(d) = 0
    BY <2>1, Decided
  <2>4. 0 \in Outcomes
    BY DEF Outcomes
  <2>5. 0 + 0 = 0
    OBVIOUS
  <2> QED
    BY <2>2, <2>3, <2>4, <2>5, Zenon
<1>2. CASE \E q \in 1..n : c[q] # 0
  <2>1. PICK p \in 1..n : /\ c[p] # 0
                          /\ FirstDecides(c) = c[p]
                          /\ \A q \in 1..n : q < p => c[q] = 0
    BY <1>2, Decided
  <2>2. d[p] # 0 /\ \A q \in 1..n : q < p => d[q] = 0
    BY <2>1 DEF Outcomes
  <2>3. PICK r \in 1..n : /\ d[r] # 0
                          /\ FirstDecides(d) = d[r]
                          /\ \A q \in 1..n : q < r => d[q] = 0
    BY <2>2, Decided
  <2>4. r = p
    BY <2>2, <2>3
  <2>5. d[p] + c[p] = 0 /\ c[p] \in Outcomes
    OBVIOUS
  <2>6. FirstDecides(c) = c[p] /\ FirstDecides(d) = d[p]
    BY <2>1, <2>3, <2>4
  <2> QED
    BY <2>5, <2>6, Zenon
<1> QED
  BY <1>1, <1>2

\* If comparisons are transitive position by position, so is the outcome.
LEMMA DecidedTransitive ==
  ASSUME NEW n \in Nat, NEW c \in [1..n -> Outcomes], NEW d \in [1..n -> Outcomes],
         NEW e \in [1..n -> Outcomes],
         \A q \in 1..n : Composes(c[q], d[q], e[q])
  PROVE  Composes(FirstDecides(c), FirstDecides(d), FirstDecides(e))
<1> SUFFICES ASSUME FirstDecides(c) <= 0, FirstDecides(d) <= 0
             PROVE  /\ FirstDecides(e) <= 0
                    /\ FirstDecides(e) = 0 =>
                         FirstDecides(c) = 0 /\ FirstDecides(d) = 0
  BY DEF Composes
<1> USE DEF Composes
<1> DEFINE Both == {q \in 1..n : c[q] # 0 \/ d[q] # 0}
<1>1. CASE Both = {}
  <2>1. \A q \in 1..n : c[q] = 0 /\ d[q] = 0
    BY <1>1
  <2>2. FirstDecides(c) = 0 /\ FirstDecides(d) = 0
    BY <2>1, Decided
  <2>3. FirstDecides(e) <= 0
    <3>1. \A q \in 1..n : e[q] <= 0
      BY <2>1
    <3> QED
      BY <3>1, Decided
  <2> QED
    BY <2>2, <2>3
<1>2. CASE Both # {}
  <2>1. PICK p \in Both : \A q \in Both : p <= q
    BY <1>2, LeastExists
  <2>2. \A q \in 1..n : q < p => c[q] = 0 /\ d[q] = 0
    BY <2>1
  <2>3. c[p] <= 0 /\ d[p] <= 0
    <3>1. c[p] <= 0
      BY <2>1, <2>2, Decided DEF Outcomes
    <3>2. d[p] <= 0
      BY <2>1, <2>2, Decided DEF Outcomes
    <3> QED
      BY <3>1, <3>2
  <2>4. e[p] < 0
    BY <2>1, <2>3 DEF Outcomes
  <2>5. CASE FirstDecides(e) = 0
    BY <2>1, <2>4, <2>5, Decided
  <2>6. CASE FirstDecides(e) # 0
    <3>1. PICK r \in 1..n : /\ e[r] # 0
                            /\ FirstDecides(e) = e[r]
                            /\ \A q \in 1..n : q < r => e[q] = 0
      BY <2>6, Decided
    <3>2. r <= p
      BY <2>1, <2>4, <3>1 DEF Outcomes
    <3>3. c[r] <= 0 /\ d[r] <= 0
      BY <2>2, <2>3, <3>2
    <3>4. e[r] <= 0 /\ e[r] # 0
      BY <3>1, <3>3 DEF Outcomes
    <3> QED
      BY <3>1, <3>4, Zenon
  <2> QED
    BY <2>5, <2>6
<1> QED
  BY <1>1, <1>2

-----------------------------------------------------------------------------
\* The same of two tuples: by one order expression, by all of them, by the bytes
\* of the attributes, and by cmp_tuple.
KeyOutcome(a, b, k) ==
  CompareValues(a[OrderBy[k]], b[OrderBy[k]]) * (IF Desc[k] THEN -1 ELSE 1)

LEMMA KeyOutcomes ==
  ASSUME NEW a \in Tuples, NEW b \in Tuples, NEW k \in DOMAIN OrderBy
  PROVE  /\ KeyOutcome(a, b, k) \in Outcomes
         /\ KeyOutcome(b, a, k) + KeyOutcome(a, b, k) = 0
<1> DEFINE x == a[OrderBy[k]]
           y == b[OrderBy[k]]
<1>1. x \in Values /\ y \in Values
  BY SortAssumption DEF Tuples, Values
<1>2. CompareValues(x, y) \in Outcomes /\ CompareValues(y, x) \in Outcomes
  BY <1>1, ValuesAnti
<1>3. CompareValues(y, x) + CompareValues(x, y) = 0
  BY <1>1, ValuesAnti
<1>4. CASE Desc[k]
  BY <1>2, <1>3, <1>4 DEF KeyOutcome, Outcomes
<1>5. CASE ~Desc[k]
  BY <1>2, <1>3, <1>5 DEF KeyOutcome, Outcomes
<1> QED
  BY <1>4, <1>5

LEMMA KeyOutcomesTransitive ==
  ASSUME NEW a \in Tuples, NEW b \in Tuples, NEW c \in Tuples,
         NEW k \in DOMAIN OrderBy,
         KeyOutcome(a, b, k) <= 0, KeyOutcome(b, c, k) <= 0
  PROVE  /\ KeyOutcome(a, c, k) <= 0
         /\ KeyOutcome(a, c, k) = 0 =>
              KeyOutcome(a, b, k) = 0 /\ KeyOutcome(b, c, k) = 0
<1> DEFINE x == a[OrderBy[k]]
           y == b[OrderBy[k]]
           z == c[OrderBy[k]]
<1>1. x \in Values /\ y \in Values /\ z \in Values
  BY SortAssumption DEF Tuples, Values
<1>2. /\ CompareValues(x, y) \in Outcomes /\ CompareValues(y, x) \in Outcomes
      /\ CompareValues(y, z) \in Outcomes /\ CompareValues(z, y) \in Outcomes
      /\ CompareValues(x, z) \in Outcomes /\ CompareValues(z, x) \in Outcomes
  BY <1>1, ValuesAnti
<1>3. /\ CompareValues(y, x) + CompareValues(x, y) = 0
      /\ CompareValues(z, y) + CompareValues(y, z) = 0
      /\ CompareValues(z, x) + CompareValues(x, z) = 0
  BY <1>1, ValuesAnti
<1>4. CASE ~Desc[k]
  <2>1. CompareValues(x, y) <= 0 /\ CompareValues(y, z) <= 0
    BY <1>2, <1>4 DEF KeyOutcome, Outcomes
  <2>2. /\ CompareValues(x, z) <= 0
        /\ CompareValues(x, z) = 0 =>
             CompareValues(x, y) = 0 /\ CompareValues(y, z) = 0
    BY <1>1, <2>1, ValuesTransitive
  <2> QED
    BY <1>2, <1>4, <2>2 DEF KeyOutcome, Outcomes
<1>5. CASE Desc[k]
  <2>1. CompareValues(z, y) <= 0 /\ CompareValues(y, x) <= 0
    BY <1>2, <1>3, <1>5 DEF KeyOutcome, Outcomes
  <2>2. /\ CompareValues(z, x) <= 0
        /\ CompareValues(z, x) = 0 =>
             CompareValues(z, y) = 0 /\ CompareValues(y, x) = 0
    BY <1>1, <2>1, ValuesTransitive
  <2> QED
    BY <1>2, <1>3, <1>5, <2>2 DEF KeyOutcome, Outcomes
<1> QED
  BY <1>4, <1>5

LEMMA KeyOrder ==
  ASSUME NEW a \in Tuples, NEW b \in Tuples, NEW c \in Tuples
  PROVE  /\ KeyCmp(a, b) \in Outcomes
         /\ KeyCmp(b, a) + KeyCmp(a, b) = 0
         /\ Composes(KeyCmp(a, b), KeyCmp(b, c), KeyCmp(a, c))
<1> DEFINE f(u, v) == [k \in DOMAIN OrderBy |-> KeyOutcome(u, v, k)]
<1>1. Len(OrderBy) \in Nat /\ DOMAIN OrderBy = 1..Len(OrderBy)
  BY SortAssumption
<1>2. \A u, v \in Tuples : f(u, v) \in [1..Len(OrderBy) -> Outcomes]
  BY <1>1, KeyOutcomes
<1>3. \A u, v \in Tuples : KeyCmp(u, v) = FirstDecides(f(u, v))
  BY DEF KeyCmp, KeyOutcome
<1>4. \A q \in 1..Len(OrderBy) : f(b, a)[q] + f(a, b)[q] = 0
  BY <1>1, KeyOutcomes
<1>5. \A q \in 1..Len(OrderBy) : Composes(f(a, b)[q], f(b, c)[q], f(a, c)[q])
  BY <1>1, KeyOutcomesTransitive DEF Composes
<1> HIDE DEF f
<1>6. /\ FirstDecides(f(a, b)) \in Outcomes
      /\ FirstDecides(f(b, a)) + FirstDecides(f(a, b)) = 0
  BY <1>1, <1>2, <1>4, DecidedAnti
<1>7. Composes(FirstDecides(f(a, b)), FirstDecides(f(b, c)), FirstDecides(f(a, c)))
  <2>1. /\ f(a, b) \in [1..Len(OrderBy) -> Outcomes]
        /\ f(b, c) \in [1..Len(OrderBy) -> Outcomes]
        /\ f(a, c) \in [1..Len(OrderBy) -> Outcomes]
    BY <1>2
  <2> QED
    BY <1>1, <1>5, <2>1, DecidedTransitive
<1> QED
  BY <1>3, <1>6, <1>7, Zenon

LEMMA TieOrder ==
  ASSUME NEW a \in Tuples, NEW b \in Tuples, NEW c \in Tuples
  PROVE  /\ TieCmp(a, b) \in Outcomes
         /\ TieCmp(b, a) + TieCmp(a, b) = 0
         /\ Composes(TieCmp(a, b), TieCmp(b, c), TieCmp(a, c))
<1> DEFINE f(u, v) == [p \in DOMAIN u |-> Sign(Bytes(u[p]) - Bytes(v[p]))]
<1>1. NumAttr \in Nat /\ \A u \in Tuples : DOMAIN u = 1..NumAttr
  BY SortAssumption DEF Tuples
<1>2. \A u \in Tuples, q \in 1..NumAttr : u[q] \in Values
  BY DEF Tuples, Values
<1>3. \A u, v \in Tuples : f(u, v) \in [1..NumAttr -> Outcomes]
  BY <1>1, <1>2, BytesAnti
<1>4. \A u, v \in Tuples : TieCmp(u, v) = FirstDecides(f(u, v))
  BY DEF TieCmp
<1>5. \A q \in 1..NumAttr : f(b, a)[q] + f(a, b)[q] = 0
  BY <1>1, <1>2, BytesAnti
<1>6. \A q \in 1..NumAttr : Composes(f(a, b)[q], f(b, c)[q], f(a, c)[q])
  BY <1>1, <1>2, BytesTransitive DEF Composes
<1> HIDE DEF f
<1>7. /\ FirstDecides(f(a, b)) \in Outcomes
      /\ FirstDecides(f(b, a)) + FirstDecides(f(a, b)) = 0
  BY <1>1, <1>3, <1>5, DecidedAnti
<1>8. Composes(FirstDecides(f(a, b)), FirstDecides(f(b, c)), FirstDecides(f(a, c)))
  <2>1. /\ f(a, b) \in [1..NumAttr -> Outcomes]
        /\ f(b, c) \in [1..NumAttr -> Outcomes]
        /\ f(a, c) \in [1..NumAttr -> Outcomes]
    BY <1>3
  <2> QED
    BY <1>1, <1>6, <2>1, DecidedTransitive
<1> QED
  BY <1>4, <1>7, <1>8, Zenon

\* cmp_tuple is a total preorder, whatever the order expressions, their
\* directions and the NULLs in the tuples: the outcome the other way round is the
\* opposite one, and it is transitive.
THEOREM Order ==
  ASSUME NEW a \in Tuples, NEW b \in Tuples, NEW c \in Tuples
  PROVE  /\ Cmp(a, b) \in Outcomes
         /\ Cmp(b, a) + Cmp(a, b) = 0
         /\ Composes(Cmp(a, b), Cmp(b, c), Cmp(a, c))
<1>1. /\ KeyCmp(a, b) \in Outcomes /\ KeyCmp(b, a) \in Outcomes
      /\ KeyCmp(b, c) \in Outcomes /\ KeyCmp(a, c) \in Outcomes
      /\ TieCmp(a, b) \in Outcomes /\ TieCmp(b, a) \in Outcomes
      /\ TieCmp(b, c) \in Outcomes /\ TieCmp(a, c) \in Outcomes
  BY KeyOrder, TieOrder
<1>2. KeyCmp(b, a) + KeyCmp(a, b) = 0 /\ TieCmp(b, a) + TieCmp(a, b) = 0
  BY KeyOrder, TieOrder
<1>3. Composes(KeyCmp(a, b), KeyCmp(b, c), KeyCmp(a, c))
  BY KeyOrder
<1>4. Composes(TieCmp(a, b), TieCmp(b, c), TieCmp(a, c))
  BY TieOrder
<1> QED
  BY <1>1, <1>2, <1>3, <1>4 DEF Cmp, Outcomes, Composes

LEMMA Reflexive ==
  ASSUME NEW a \in Tuples
  PROVE  Cmp(a, a) = 0
  BY Order DEF Outcomes

LEMMA Opposite ==
  ASSUME NEW a \in Tuples, NEW b \in Tuples
  PROVE  /\ Cmp(a, b) < 0 <=> Cmp(b, a) > 0
         /\ Cmp(a, b) = 0 <=> Cmp(b, a) = 0
         /\ Cmp(a, b) > 0 <=> Cmp(b, a) < 0
         /\ Cmp(a, b) \in Int
         /\ ~(Cmp(a, b) > 0) <=> Cmp(a, b) <= 0
         /\ ~(Cmp(a, b) < 0) <=> Cmp(b, a) <= 0
         /\ Cmp(a, b) < 0 \/ Cmp(a, b) = 0 \/ Cmp(a, b) > 0
<1>1. Cmp(a, b) \in Outcomes /\ Cmp(b, a) \in Outcomes /\ Cmp(b, a) + Cmp(a, b) = 0
  BY Order
<1> QED
  BY <1>1 DEF Outcomes

\* What is at or before something that comes before a third thing comes before it.
LEMMA Between ==
  ASSUME NEW a \in Tuples, NEW b \in Tuples, NEW c \in Tuples
  PROVE  /\ Cmp(a, b) <= 0 /\ Cmp(b, c) <= 0 => Cmp(a, c) <= 0
         /\ Cmp(a, b) <= 0 /\ Cmp(b, c) < 0 => Cmp(a, c) < 0
         /\ Cmp(a, b) < 0 /\ Cmp(b, c) <= 0 => Cmp(a, c) < 0
<1>1. /\ Cmp(a, b) \in Outcomes /\ Cmp(b, c) \in Outcomes /\ Cmp(a, c) \in Outcomes
      /\ Composes(Cmp(a, b), Cmp(b, c), Cmp(a, c))
  BY Order
<1> QED
  BY <1>1 DEF Composes, Outcomes

-----------------------------------------------------------------------------
\* Counting copies.
LEMMA CopiesType ==
  ASSUME NEW s, NEW n \in Nat, NEW t
  PROVE  /\ IsFiniteSet({j \in 1..n : Cmp(s[j], t) = 0})
         /\ Copies(s, n, t) \in Nat
<1>1. IsFiniteSet(1..n)
  BY FS_Interval
<1>2. IsFiniteSet({j \in 1..n : Cmp(s[j], t) = 0})
  BY <1>1, FS_Subset
<1> QED
  BY <1>2, FS_CardinalityType DEF Copies

LEMMA CopiesNone ==
  ASSUME NEW s, NEW n \in Nat, NEW t, \A j \in 1..n : Cmp(s[j], t) # 0
  PROVE  Copies(s, n, t) = 0
<1>1. {j \in 1..n : Cmp(s[j], t) = 0} = {}
  OBVIOUS
<1> QED
  BY <1>1, FS_EmptySet DEF Copies

LEMMA CopiesStep ==
  ASSUME NEW s, NEW n \in Nat, NEW t
  PROVE  /\ Cmp(s[n + 1], t) = 0 => Copies(s, n + 1, t) = Copies(s, n, t) + 1
         /\ Cmp(s[n + 1], t) # 0 => Copies(s, n + 1, t) = Copies(s, n, t)
<1> DEFINE A == {j \in 1..n : Cmp(s[j], t) = 0}
           B == {j \in 1..(n + 1) : Cmp(s[j], t) = 0}
<1>1. IsFiniteSet(A) /\ n + 1 \notin A
  BY CopiesType
<1>2. CASE Cmp(s[n + 1], t) = 0
  <2>1. B = A \cup {n + 1}
    BY <1>2
  <2> HIDE DEF A, B
  <2>2. Cardinality(B) = Cardinality(A) + 1
    BY <1>1, <2>1, FS_AddElement
  <2> QED
    BY <1>2, <2>2 DEF A, B, Copies
<1>3. CASE Cmp(s[n + 1], t) # 0
  <2>1. B = A
    BY <1>3
  <2> QED
    BY <1>3, <2>1 DEF Copies
<1> QED
  BY <1>2, <1>3

LEMMA CopiesAppend ==
  ASSUME NEW o \in Seq(Tuples), NEW x \in Tuples, NEW t
  PROVE  LET p == Append(o, x)
         IN  /\ Cmp(x, t) = 0 => Copies(p, Len(p), t) = Copies(o, Len(o), t) + 1
             /\ Cmp(x, t) # 0 => Copies(p, Len(p), t) = Copies(o, Len(o), t)
<1> DEFINE p == Append(o, x)
<1>1. /\ Len(o) \in Nat /\ Len(p) = Len(o) + 1
      /\ p[Len(o) + 1] = x
      /\ \A j \in 1..Len(o) : p[j] = o[j]
  OBVIOUS
<1>2. Copies(p, Len(o), t) = Copies(o, Len(o), t)
  BY <1>1 DEF Copies
<1> HIDE DEF p
<1>3. /\ Cmp(x, t) = 0 => Copies(p, Len(p), t) = Copies(o, Len(o), t) + 1
      /\ Cmp(x, t) # 0 => Copies(p, Len(p), t) = Copies(o, Len(o), t)
  BY <1>1, <1>2, CopiesStep
<1> QED
  BY <1>3 DEF p
-----------------------------------------------------------------------------
\* Every tuple returned is one of the source, and they come in order.
ReturnsSorted ==
  /\ \A j \in DOMAIN out : \E i \in DOMAIN src : out[j] = src[i]
  /\ \A j, k \in DOMAIN out : j <= k => Cmp(out[j], out[k]) <= 0

\* No tuple of the source is passed over: what does not come after the last
\* tuple returned has been returned, and in the end everything has.
Returned(t) == \E j \in DOMAIN out : Cmp(out[j], t) = 0

LeavesNoneOut ==
  \A i \in DOMAIN src :
    \/ previous # <<>> /\ Cmp(src[i], previous[1]) <= 0
    \/ returned = 0
    => Returned(src[i])

TypeOK ==
  /\ src \in Seq(Tuples) /\ out \in Seq(Tuples)
  /\ previous = <<>> \/ previous \in [1..1 -> Tuples]
  /\ pos \in Nat /\ next_count \in Int
  /\ pc \in {"idle", "pass"} /\ returned \in {0, 1}

\* Only the last tuple returned is remembered.
Remembers ==
  /\ previous = <<>> <=> out = <<>>
  /\ previous # <<>> => previous[1] = out[Len(out)]

\* During a pass the candidate is the least of the tuples read that come after
\* the last one returned, and counted; or there is none yet.
Least ==
  /\ AfterPrevious(candidate)
  /\ \E i \in 1..pos : candidate = src[i]
  /\ \A j \in 1..pos : AfterPrevious(src[j]) => Cmp(candidate, src[j]) <= 0
  /\ next_count = Copies(src, pos, candidate)

NoneYet ==
  /\ SameAsPrevious(candidate)
  /\ \A j \in 1..pos : ~AfterPrevious(src[j])
  /\ next_count = 1

PassInv ==
  pc = "pass" =>
    /\ pos \in 1..Len(src)
    /\ candidate \in Tuples
    /\ next_count >= 1
    /\ Least \/ NoneYet
    /\ previous # <<>> =>
         Copies(src, Len(src), previous[1]) = Copies(out, Len(out), previous[1])

\* Between calls the count is that of the copies that are due.
CountInv ==
  pc = "idle" /\ previous # <<>> => next_count >= 0

IInv ==
  /\ TypeOK /\ Remembers /\ PassInv /\ CountInv
  /\ CountsCopies /\ ReturnsSorted /\ LeavesNoneOut

LEMMA Initially == SortInit => IInv
<1> SUFFICES ASSUME SortInit PROVE IInv
  OBVIOUS
<1>1. src \in Seq(Tuples) /\ out = <<>> /\ previous = <<>> /\ pc = "idle" /\ returned = 1
      /\ pos = 0 /\ next_count = 0
  BY SortAssumption DEF SortInit
<1>2. TypeOK /\ Remembers
  BY <1>1 DEF TypeOK, Remembers
<1>3. PassInv /\ CountInv /\ CountsCopies
  BY <1>1 DEF PassInv, CountInv, CountsCopies
<1>4. ReturnsSorted /\ LeavesNoneOut
  BY <1>1 DEF ReturnsSorted, LeavesNoneOut
<1> QED
  BY <1>2, <1>3, <1>4 DEF IInv

\* Steps within a pass change nothing that has been returned.
LEMMA OutKept ==
  ASSUME IInv, UNCHANGED <<src, previous, returned, out>>
  PROVE  Remembers' /\ ReturnsSorted' /\ LeavesNoneOut'
BY DEF IInv, Remembers, ReturnsSorted, LeavesNoneOut, Returned

\* What a call that returns a tuple adds: it is one of the source, nothing
\* returned before comes after it.
LEMMA OutGrows ==
  ASSUME IInv, NEW t \in Tuples, NEW i \in DOMAIN src, t = src[i],
         \A j \in DOMAIN out : Cmp(out[j], t) <= 0,
         out' = Append(out, t), src' = src
  PROVE  /\ out' \in Seq(Tuples) /\ out' # <<>> /\ out'[Len(out')] = t
         /\ ReturnsSorted'
         /\ \A u : Returned(u) => Returned(u)'
         /\ \A u : Cmp(t, u) = 0 => Returned(u)'
<1>1. out \in Seq(Tuples)
  BY DEF IInv, TypeOK
<1>2. /\ DOMAIN out = 1..Len(out) /\ Len(out) \in Nat
      /\ out' \in Seq(Tuples) /\ Len(out') = Len(out) + 1
      /\ DOMAIN out' = 1..(Len(out) + 1)
      /\ out'[Len(out) + 1] = t
      /\ \A j \in 1..Len(out) : out'[j] = out[j]
  BY <1>1
<1>3. Cmp(t, t) <= 0
  BY Reflexive
<1>4. ReturnsSorted'
  BY <1>2, <1>3 DEF IInv, ReturnsSorted
<1>5. /\ \A u : Returned(u) => Returned(u)'
      /\ \A u : Cmp(t, u) = 0 => Returned(u)'
  BY <1>2 DEF Returned
<1> QED
  BY <1>2, <1>4, <1>5

LEMMA PreviousTyped ==
  ASSUME IInv, previous # <<>>
  PROVE  /\ previous[1] \in Tuples
         /\ previous[1] = out[Len(out)] /\ Len(out) \in DOMAIN out
         /\ \E i \in DOMAIN src : previous[1] = src[i]
         /\ \A j \in DOMAIN out : Cmp(out[j], previous[1]) <= 0
<1>1. out \in Seq(Tuples) /\ out # <<>> /\ previous[1] = out[Len(out)]
  BY DEF IInv, TypeOK, Remembers
<1>2. Len(out) \in DOMAIN out /\ out[Len(out)] \in Tuples /\ DOMAIN out = 1..Len(out)
      /\ Len(out) \in Nat
  BY <1>1
<1>3. \A j \in DOMAIN out : j <= Len(out)
  BY <1>2
<1> QED
  BY <1>1, <1>2, <1>3 DEF IInv, ReturnsSorted

LEMMA CopyKeeps == ASSUME IInv, NextCopy PROVE IInv'
<1> USE DEF NextCopy
<1>1. PICK i \in DOMAIN src : previous[1] = src[i]
  BY PreviousTyped
<1>2. /\ out' \in Seq(Tuples) /\ out' # <<>> /\ out'[Len(out')] = previous[1]
      /\ ReturnsSorted'
      /\ \A u : Returned(u) => Returned(u)'
  BY <1>1, PreviousTyped, OutGrows
<1>3. TypeOK' /\ Remembers'
  BY <1>2 DEF IInv, TypeOK, Remembers
<1>4. PassInv' /\ CountInv'
  BY DEF IInv, TypeOK, PassInv, CountInv
<1>5. CountsCopies'
  <2>1. Copies(out', Len(out'), previous[1]) = Copies(out, Len(out), previous[1]) + 1
    BY PreviousTyped, Reflexive, CopiesAppend DEF IInv, TypeOK
  <2>2. Copies(out, Len(out), previous[1]) \in Nat /\ next_count \in Int
    <3>1. Len(out) \in Nat /\ next_count \in Int
      BY DEF IInv, TypeOK
    <3> QED
      BY <3>1, CopiesType
  <2>3. Copies(src, Len(src), previous[1]) =
        Copies(out, Len(out), previous[1]) + next_count
    BY DEF IInv, CountsCopies
  <2> QED
    BY <2>1, <2>2, <2>3 DEF CountsCopies
<1>6. LeavesNoneOut'
  <2>1. \A k \in DOMAIN src : Cmp(src[k], previous[1]) <= 0 => Returned(src[k])'
    BY <1>2 DEF IInv, LeavesNoneOut
  <2> QED
    BY <2>1 DEF LeavesNoneOut
<1> QED
  BY <1>2, <1>3, <1>4, <1>5, <1>6 DEF IInv

LEMMA BeginKeeps == ASSUME IInv, NextBegin PROVE IInv'
<1> USE DEF NextBegin
<1>1. /\ src \in Seq(Tuples) /\ Len(src) \in Nat /\ Len(src) >= 1 /\ src[1] \in Tuples
      /\ previous # <<>> => previous[1] \in Tuples
  BY PreviousTyped DEF IInv, TypeOK
<1>2. TypeOK' /\ CountInv' /\ CountsCopies'
  BY DEF IInv, TypeOK, CountInv, CountsCopies
<1>3. Remembers' /\ ReturnsSorted' /\ LeavesNoneOut'
  BY OutKept
<1>4. candidate' \in Tuples /\ pos' \in 1..Len(src) /\ next_count' >= 1
  BY <1>1
<1>5. ASSUME previous # <<>>
      PROVE  Copies(src, Len(src), previous[1]) = Copies(out, Len(out), previous[1])
  <2>1. next_count = 0
    BY <1>5 DEF IInv, TypeOK, CountInv
  <2>2. Copies(out, Len(out), previous[1]) \in Nat
    <3>1. Len(out) \in Nat
      BY DEF IInv, TypeOK
    <3> QED
      BY <3>1, CopiesType
  <2> QED
    BY <1>5, <2>1, <2>2 DEF IInv, CountsCopies
<1>6. (Least \/ NoneYet)'
  <2>1. CASE previous # <<>> /\ Cmp(src[1], previous[1]) < 0
    <3>1. candidate' = previous[1] /\ Cmp(previous[1], previous[1]) = 0
      BY <1>1, <2>1, Reflexive
    <3> QED
      BY <1>1, <2>1, <3>1, Opposite DEF NoneYet, SameAsPrevious, AfterPrevious
  <2>2. CASE previous # <<>> /\ Cmp(src[1], previous[1]) = 0
    <3>1. candidate' = src[1]
      BY <2>2
    <3> QED
      BY <1>1, <2>2, <3>1, Opposite DEF NoneYet, SameAsPrevious, AfterPrevious
  <2>3. CASE previous = <<>> \/ Cmp(src[1], previous[1]) > 0
    <3>1. candidate' = src[1]
      BY <1>1, <2>3, Opposite
    <3>2. Cmp(src[1], src[1]) = 0
      BY <1>1, Reflexive
    <3>3. Copies(src, 1, src[1]) = 1
      <4>1. Copies(src, 0, src[1]) = 0
        BY CopiesNone
      <4>2. Copies(src, 0 + 1, src[1]) = Copies(src, 0, src[1]) + 1
        BY <3>2, CopiesStep
      <4> QED
        BY <4>1, <4>2
    <3> QED
      BY <1>1, <2>3, <3>1, <3>2, <3>3 DEF Least, AfterPrevious
  <2>4. previous # <<>> => Cmp(src[1], previous[1]) \in Int
    BY <1>1, Opposite
  <2> QED
    BY <2>1, <2>2, <2>3, <2>4
<1>7. PassInv'
  BY <1>4, <1>5, <1>6 DEF PassInv
<1> QED
  BY <1>2, <1>3, <1>7 DEF IInv

LEMMA EmptyKeeps == ASSUME IInv, NextEmpty PROVE IInv'
<1> USE DEF NextEmpty
<1>1. out = <<>> /\ previous = <<>> /\ DOMAIN src = {}
  <2>1. DOMAIN src = {}
    OBVIOUS
  <2>2. DOMAIN out = {}
    BY <2>1 DEF IInv, ReturnsSorted
  <2> QED
    BY <2>1, <2>2 DEF IInv, TypeOK, Remembers
<1>2. TypeOK' /\ Remembers'
  BY DEF IInv, TypeOK, Remembers
<1>3. PassInv' /\ CountInv' /\ CountsCopies'
  BY <1>1 DEF PassInv, CountInv, CountsCopies
<1>4. ReturnsSorted' /\ LeavesNoneOut'
  BY <1>1 DEF ReturnsSorted, LeavesNoneOut
<1> QED
  BY <1>2, <1>3, <1>4 DEF IInv

LEMMA RewindKeeps == ASSUME IInv, Rewind PROVE IInv'
<1> USE DEF Rewind
<1>1. TypeOK' /\ Remembers'
  BY DEF IInv, TypeOK, Remembers
<1>2. PassInv' /\ CountInv' /\ CountsCopies'
  BY DEF PassInv, CountInv, CountsCopies
<1>3. ReturnsSorted' /\ LeavesNoneOut'
  BY DEF ReturnsSorted, LeavesNoneOut
<1> QED
  BY <1>1, <1>2, <1>3 DEF IInv

\* A round of the pass, for the tuple t, if there is no candidate yet.
LEMMA RoundNoneYet ==
  ASSUME IInv, NextTuple, NoneYet
  PROVE  /\ candidate' \in Tuples /\ next_count' \in Int /\ next_count' >= 1
         /\ (Least \/ NoneYet)'
<1> DEFINE t == src[pos + 1]
           p == previous[1]
<1> USE DEF NextTuple, ReadOn
<1>1. /\ src \in Seq(Tuples) /\ Len(src) \in Nat /\ pos \in 1..Len(src)
      /\ pos + 1 \in 1..Len(src) /\ t \in Tuples
      /\ candidate \in Tuples /\ next_count = 1
      /\ \A j \in 1..pos : src[j] \in Tuples
  BY DEF IInv, TypeOK, PassInv, NoneYet
<1>2. previous # <<>> /\ p \in Tuples /\ Cmp(candidate, p) = 0
  BY PreviousTyped DEF NoneYet, SameAsPrevious
<1>3. \A j \in 1..pos : Cmp(src[j], p) <= 0
  <2>1. \A j \in 1..pos : Cmp(src[j], p) \in Int
    BY <1>1, <1>2, Opposite
  <2> QED
    BY <1>2, <2>1 DEF NoneYet, AfterPrevious
<1>4. CASE ~AfterPrevious(t)
  <2>1. candidate' = candidate /\ next_count' = next_count
    BY <1>4 DEF Better, CountAfter
  <2>2. \A j \in 1..(pos + 1) : ~AfterPrevious(src[j])
    BY <1>1, <1>4 DEF NoneYet
  <2> QED
    BY <1>1, <2>1, <2>2 DEF NoneYet, SameAsPrevious, AfterPrevious
<1>5. CASE AfterPrevious(t)
  <2>1. Cmp(t, p) > 0 /\ Cmp(p, t) < 0
    BY <1>1, <1>2, <1>5, Opposite DEF AfterPrevious
  <2>2. Cmp(candidate, t) < 0 /\ Cmp(t, candidate) > 0
    <3>1. Cmp(candidate, p) <= 0
      BY <1>2
    <3>2. Cmp(candidate, t) < 0
      BY <1>1, <1>2, <2>1, <3>1, Between
    <3> QED
      BY <1>1, <3>2, Opposite
  <2>3. candidate' = t /\ next_count' = 1
    BY <1>1, <1>5, <2>2 DEF Better, CountAfter, NoneYet
  <2>4. \A j \in 1..pos : Cmp(src[j], t) < 0
    BY <1>1, <1>2, <1>3, <2>1, Between
  <2>5. Copies(src, pos + 1, t) = 1
    <3>1. Copies(src, pos, t) = 0
      BY <1>1, <2>4, CopiesNone
    <3>2. Copies(src, pos + 1, t) = Copies(src, pos, t) + 1
      BY <1>1, Reflexive, CopiesStep
    <3> QED
      BY <3>1, <3>2
  <2>6. \A j \in 1..(pos + 1) : AfterPrevious(src[j]) => Cmp(t, src[j]) <= 0
    <3>1. \A j \in 1..pos : ~AfterPrevious(src[j])
      BY DEF NoneYet
    <3>2. Cmp(t, t) <= 0
      BY <1>1, Reflexive
    <3> QED
      BY <1>1, <3>1, <3>2
  <2> QED
    BY <1>1, <1>5, <2>3, <2>5, <2>6 DEF Least, AfterPrevious
<1> QED
  BY <1>4, <1>5

\* The same if there is one.
LEMMA RoundLeast ==
  ASSUME IInv, NextTuple, Least
  PROVE  /\ candidate' \in Tuples /\ next_count' \in Int /\ next_count' >= 1
         /\ Least'
<1> DEFINE t == src[pos + 1]
<1> USE DEF NextTuple, ReadOn
<1>1. /\ src \in Seq(Tuples) /\ Len(src) \in Nat /\ pos \in 1..Len(src)
      /\ pos + 1 \in 1..Len(src) /\ t \in Tuples
      /\ candidate \in Tuples /\ next_count \in Int /\ next_count >= 1
      /\ \A j \in 1..pos : src[j] \in Tuples
  BY DEF IInv, TypeOK, PassInv
<1>2. /\ AfterPrevious(candidate) /\ next_count = Copies(src, pos, candidate)
      /\ \E i \in 1..(pos + 1) : candidate = src[i]
      /\ \A j \in 1..pos : AfterPrevious(src[j]) => Cmp(candidate, src[j]) <= 0
  BY <1>1 DEF Least
<1>6. /\ Cmp(t, candidate) \in Int
      /\ Cmp(t, candidate) < 0 \/ Cmp(t, candidate) = 0 \/ Cmp(t, candidate) > 0
      /\ ~(Cmp(t, candidate) < 0) => Cmp(candidate, t) <= 0
  BY <1>1, Opposite
<1>3. ~SameAsPrevious(candidate)
  BY <1>2 DEF AfterPrevious, SameAsPrevious
<1>4. CASE AfterPrevious(t) /\ Cmp(t, candidate) < 0
  <2>1. candidate' = t /\ next_count' = 1
    BY <1>4, <1>6 DEF Better, CountAfter
  <2>2. \A j \in 1..pos : AfterPrevious(src[j]) => Cmp(t, src[j]) < 0
    BY <1>1, <1>2, <1>4, Between
  <2>3. \A j \in 1..pos : ~AfterPrevious(src[j]) => Cmp(src[j], t) < 0
    <3>1. SUFFICES ASSUME NEW j \in 1..pos, ~AfterPrevious(src[j])
                   PROVE  Cmp(src[j], t) < 0
      OBVIOUS
    <3>2. previous # <<>> /\ previous[1] \in Tuples
      BY <3>1, PreviousTyped DEF AfterPrevious
    <3>3. Cmp(src[j], previous[1]) <= 0
      BY <1>1, <3>1, <3>2, Opposite DEF AfterPrevious
    <3>4. Cmp(previous[1], t) < 0
      BY <1>1, <1>4, <3>2, Opposite DEF AfterPrevious
    <3> QED
      BY <1>1, <3>2, <3>3, <3>4, Between
  <2>4. \A j \in 1..pos : Cmp(src[j], t) # 0
    <3>1. SUFFICES ASSUME NEW j \in 1..pos PROVE Cmp(src[j], t) # 0
      OBVIOUS
    <3>2. Cmp(src[j], t) < 0 \/ Cmp(t, src[j]) < 0
      BY <2>2, <2>3
    <3>3. CASE Cmp(src[j], t) < 0
      <4>1. Cmp(src[j], t) \in Int
        BY <1>1, Opposite
      <4> QED
        BY <3>3, <4>1
    <3>4. CASE Cmp(t, src[j]) < 0
      <4>1. Cmp(src[j], t) > 0 /\ Cmp(src[j], t) \in Int
        BY <1>1, <3>4, Opposite
      <4> QED
        BY <4>1
    <3> QED
      BY <3>2, <3>3, <3>4
  <2>5. Copies(src, pos + 1, t) = 1
    <3>1. Copies(src, pos, t) = 0
      BY <1>1, <2>4, CopiesNone
    <3>2. Copies(src, pos + 1, t) = Copies(src, pos, t) + 1
      BY <1>1, Reflexive, CopiesStep
    <3> QED
      BY <3>1, <3>2
  <2>6. \A j \in 1..(pos + 1) : AfterPrevious(src[j]) => Cmp(t, src[j]) <= 0
    <3>1. Cmp(t, t) <= 0
      BY <1>1, Reflexive
    <3>2. \A j \in 1..pos : AfterPrevious(src[j]) => Cmp(t, src[j]) <= 0
      <4> SUFFICES ASSUME NEW j \in 1..pos, AfterPrevious(src[j])
                   PROVE  Cmp(t, src[j]) <= 0
        OBVIOUS
      <4>1. Cmp(t, src[j]) < 0 /\ Cmp(t, src[j]) \in Int
        BY <1>1, <2>2, Opposite
      <4> QED
        BY <4>1
    <3> QED
      BY <1>1, <3>1, <3>2
  <2> QED
    BY <1>1, <1>4, <2>1, <2>5, <2>6 DEF Least, AfterPrevious
<1>5. CASE ~(AfterPrevious(t) /\ Cmp(t, candidate) < 0)
  <2>1. candidate' = candidate
    BY <1>3, <1>5 DEF Better
  <2>2. AfterPrevious(t) => Cmp(candidate, t) <= 0
    BY <1>5, <1>6
  <2>3. \A j \in 1..(pos + 1) : AfterPrevious(src[j]) => Cmp(candidate, src[j]) <= 0
    BY <1>1, <1>2, <2>2
  <2>4. next_count' = Copies(src, pos + 1, candidate)
    <3>1. CASE ~AfterPrevious(t)
      <4>1. previous # <<>> /\ previous[1] \in Tuples
        BY <3>1, PreviousTyped DEF AfterPrevious
      <4>2. Cmp(t, previous[1]) <= 0 /\ Cmp(previous[1], candidate) < 0
        <5>1. ~(Cmp(t, previous[1]) > 0) /\ Cmp(candidate, previous[1]) > 0
          BY <1>2, <3>1, <4>1 DEF AfterPrevious
        <5> QED
          BY <1>1, <4>1, <5>1, Opposite
      <4>3. Cmp(t, candidate) < 0
        BY <1>1, <4>1, <4>2, Between
      <4>4. Cmp(t, candidate) # 0
        BY <1>6, <4>3
      <4> QED
        BY <1>1, <1>2, <3>1, <4>4, CopiesStep DEF CountAfter
    <3>2. CASE AfterPrevious(t) /\ Cmp(t, candidate) = 0
      BY <1>1, <1>2, <3>2, CopiesStep DEF CountAfter
    <3>3. CASE AfterPrevious(t) /\ Cmp(t, candidate) > 0
      BY <1>1, <1>2, <3>3, CopiesStep DEF CountAfter
    <3> QED
      BY <1>5, <1>6, <3>1, <3>2, <3>3
  <2>5. next_count' \in Int /\ next_count' >= 1
    <3>1. next_count' \in {next_count, next_count + 1}
      BY <1>5, <1>6 DEF CountAfter
    <3> QED
      BY <1>1, <3>1
  <2> QED
    BY <1>1, <1>2, <2>1, <2>3, <2>4, <2>5 DEF Least, AfterPrevious
<1> QED
  BY <1>4, <1>5

LEMMA TupleKeeps == ASSUME IInv, NextTuple PROVE IInv'
<1> USE DEF NextTuple, ReadOn
<1>1. /\ candidate' \in Tuples /\ next_count' \in Int /\ next_count' >= 1
      /\ (Least \/ NoneYet)'
  BY RoundNoneYet, RoundLeast DEF IInv, PassInv
<1>2. pos' \in 1..Len(src) /\ pos' \in Nat
  BY DEF IInv, TypeOK, PassInv
<1>4. TypeOK' /\ CountInv' /\ CountsCopies'
  BY <1>1, <1>2 DEF IInv, TypeOK, CountInv, CountsCopies
<1>5. Remembers' /\ ReturnsSorted' /\ LeavesNoneOut'
  BY OutKept
<1>6. PassInv'
  BY <1>1, <1>2 DEF IInv, PassInv
<1> QED
  BY <1>4, <1>5, <1>6 DEF IInv

LEMMA ReturnKeeps == ASSUME IInv, NextReturn PROVE IInv'
<1> USE DEF NextReturn
<1>1. /\ src \in Seq(Tuples) /\ Len(src) \in Nat /\ pos = Len(src)
      /\ out \in Seq(Tuples) /\ Len(out) \in Nat
      /\ DOMAIN src = 1..pos /\ DOMAIN out = 1..Len(out)
      /\ \A i \in 1..pos : src[i] \in Tuples
      /\ \A i \in DOMAIN out : out[i] \in Tuples
      /\ candidate \in Tuples /\ next_count \in Int /\ next_count >= 1
      /\ Least \/ NoneYet
  BY DEF IInv, TypeOK, PassInv
<1>2. previous # <<>> => previous[1] \in Tuples
  BY PreviousTyped
\* A candidate: it is the next tuple.
<1>3. CASE AfterPrevious(candidate) /\ previous' = <<candidate>>
           /\ out' = Append(out, candidate) /\ returned' = 1
  <2>1. Least
    BY <1>1, <1>3 DEF NoneYet, SameAsPrevious, AfterPrevious
  <2>2. PICK i \in DOMAIN src : candidate = src[i]
    BY <1>1, <2>1 DEF Least
  <2>3. \A k \in DOMAIN out : Cmp(out[k], candidate) < 0
    <3> SUFFICES ASSUME NEW k \in DOMAIN out
                 PROVE  Cmp(out[k], candidate) < 0
      OBVIOUS
    <3>1. previous # <<>>
      BY <1>1 DEF IInv, Remembers
    <3>2. Cmp(out[k], previous[1]) <= 0
      BY <3>1, PreviousTyped
    <3>3. Cmp(previous[1], candidate) < 0
      BY <1>1, <1>2, <1>3, <3>1, Opposite DEF AfterPrevious
    <3> QED
      BY <1>1, <1>2, <3>1, <3>2, <3>3, Between
  <2>4. \A k \in DOMAIN out : Cmp(out[k], candidate) <= 0 /\ Cmp(out[k], candidate) # 0
    <3> SUFFICES ASSUME NEW k \in DOMAIN out
                 PROVE  Cmp(out[k], candidate) <= 0 /\ Cmp(out[k], candidate) # 0
      OBVIOUS
    <3>1. Cmp(out[k], candidate) < 0 /\ Cmp(out[k], candidate) \in Int
      BY <1>1, <2>3, Opposite
    <3> QED
      BY <3>1
  <2>5. /\ out' \in Seq(Tuples) /\ out' # <<>> /\ out'[Len(out')] = candidate
        /\ ReturnsSorted'
        /\ \A u : Returned(u) => Returned(u)'
        /\ \A u : Cmp(candidate, u) = 0 => Returned(u)'
    BY <1>1, <1>3, <2>2, <2>4, OutGrows
  <2>6. TypeOK' /\ Remembers'
    BY <1>1, <1>3, <2>5 DEF IInv, TypeOK, Remembers
  <2>7. PassInv' /\ CountInv'
    BY <1>1 DEF PassInv, CountInv
  <2>8. CountsCopies'
    <3>1. Copies(out, Len(out), candidate) = 0
      BY <1>1, <2>4, CopiesNone
    <3>2. Copies(out', Len(out'), candidate) = 1
      BY <1>1, <1>3, <3>1, Reflexive, CopiesAppend
    <3>3. Copies(src, Len(src), candidate) = next_count
      BY <1>1, <2>1 DEF Least
    <3> QED
      BY <1>1, <1>3, <3>2, <3>3 DEF CountsCopies
  <2>9. LeavesNoneOut'
    <3> SUFFICES ASSUME NEW k \in DOMAIN src, Cmp(src[k], candidate) <= 0
                 PROVE  Returned(src[k])'
      BY <1>3 DEF LeavesNoneOut
    <3>1. CASE AfterPrevious(src[k])
      <4>1. Cmp(candidate, src[k]) <= 0
        BY <1>1, <2>1, <3>1 DEF Least
      <4>2. Cmp(candidate, src[k]) = 0
        <5>1. /\ ~(Cmp(candidate, src[k]) < 0)
              /\ Cmp(candidate, src[k]) \in Int
          BY <1>1, Opposite
        <5> QED
          BY <4>1, <5>1
      <4> QED
        BY <2>5, <4>2
    <3>2. CASE ~AfterPrevious(src[k])
      <4>1. previous # <<>> /\ Cmp(src[k], previous[1]) <= 0
        BY <1>1, <1>2, <3>2, Opposite DEF AfterPrevious
      <4> QED
        BY <2>5, <4>1 DEF IInv, LeavesNoneOut
    <3> QED
      BY <3>1, <3>2
  <2> QED
    BY <2>5, <2>6, <2>7, <2>8, <2>9 DEF IInv
\* None: everything has been returned.
<1>4. CASE ~AfterPrevious(candidate) /\ returned' = 0 /\ UNCHANGED <<previous, out>>
  <2>1. NoneYet
    BY <1>1, <1>4 DEF Least
  <2>2. previous # <<>> /\ next_count' = 0
    BY <2>1 DEF NoneYet, SameAsPrevious
  <2>3. TypeOK' /\ Remembers' /\ ReturnsSorted'
    BY <1>4, <2>2 DEF IInv, TypeOK, Remembers, ReturnsSorted
  <2>4. PassInv' /\ CountInv'
    BY <2>2 DEF PassInv, CountInv
  <2>5. CountsCopies'
    <3>1. Copies(src, Len(src), previous[1]) = Copies(out, Len(out), previous[1])
      BY <2>2 DEF IInv, PassInv
    <3>2. Copies(out, Len(out), previous[1]) \in Nat
      BY <1>1, CopiesType
    <3> QED
      BY <1>4, <2>2, <3>1, <3>2 DEF CountsCopies
  <2>6. LeavesNoneOut'
    <3> SUFFICES ASSUME NEW k \in DOMAIN src PROVE Returned(src[k])
      BY <1>4 DEF LeavesNoneOut, Returned
    <3>1. ~AfterPrevious(src[k])
      BY <1>1, <2>1 DEF NoneYet
    <3>2. Cmp(src[k], previous[1]) <= 0
      BY <1>1, <1>2, <2>2, <3>1, Opposite DEF AfterPrevious
    <3> QED
      BY <2>2, <3>2 DEF IInv, LeavesNoneOut
  <2> QED
    BY <2>3, <2>4, <2>5, <2>6 DEF IInv
<1> QED
  BY <1>3, <1>4

LEMMA StutterKeeps == ASSUME IInv, UNCHANGED vars PROVE IInv'
BY DEF vars, IInv, TypeOK, Remembers, PassInv, CountInv, CountsCopies,
       ReturnsSorted, LeavesNoneOut, Returned, Least, NoneYet, AfterPrevious,
       SameAsPrevious

LEMMA InvarianceStep == ASSUME IInv, [SortNext]_vars PROVE IInv'
<1>1. CASE NextCopy
  BY <1>1, CopyKeeps
<1>2. CASE NextBegin
  BY <1>2, BeginKeeps
<1>3. CASE NextEmpty
  BY <1>3, EmptyKeeps
<1>4. CASE NextTuple
  BY <1>4, TupleKeeps
<1>5. CASE NextReturn
  BY <1>5, ReturnKeeps
<1>6. CASE RewindWhenDone
  BY <1>6, RewindKeeps DEF RewindWhenDone
<1>7. CASE UNCHANGED vars
  BY <1>7, StutterKeeps
<1> QED
  BY <1>1, <1>2, <1>3, <1>4, <1>5, <1>6, <1>7 DEF SortNext, NextSort

LEMMA Invariance == SortSpec => []IInv
<1>1. IInv /\ [SortNext]_vars => IInv'
  BY InvarianceStep
<1> QED
  BY <1>1, Initially, PTL DEF SortSpec

-----------------------------------------------------------------------------
\* At any time what next_sort has returned is tuples of its source in order
\* (sort.c): remembering the last one is enough for that.
THEOREM Sorts == SortSpec => []ReturnsSorted
<1>1. IInv => ReturnsSorted
  BY DEF IInv
<1> QED
  BY <1>1, Invariance, PTL

\* next_inorder_tuple (compare_tuple.c) passes over no tuple: all that come before
\* the last one returned have been returned, and when next_sort returns 0 all have.
THEOREM PassesOverNone == SortSpec => []LeavesNoneOut
<1>1. IInv => LeavesNoneOut
  BY DEF IInv
<1> QED
  BY <1>1, Invariance, PTL

\* next_count (compare_tuple.h) is the number of copies still to come, so that
\* each tuple is returned as often as the source has it.
THEOREM CopiesCounted == SortSpec => []CountsCopies
<1>1. IInv => CountsCopies
  BY DEF IInv
<1> QED
  BY <1>1, Invariance, PTL

-----------------------------------------------------------------------------
(* What next_sort returns is one sorted arrangement of the source.         *)

\* A function that is one-to-one hits all of a set as large as its domain, and
\* misses something of a larger one.
LEMMA OneToOne ==
  ASSUME NEW S, NEW T, IsFiniteSet(T), NEW f \in [S -> T],
         \A x, y \in S : f[x] = f[y] => x = y
  PROVE  /\ Cardinality(S) <= Cardinality(T)
         /\ Cardinality(S) = Cardinality(T) => \A t \in T : \E x \in S : f[x] = t
         /\ Cardinality(S) # Cardinality(T) => \E t \in T : \A x \in S : f[x] # t
<1>1. f \in Injection(S, T)
  BY DEF Injection, IsInjective
<1>2. /\ Cardinality(S) <= Cardinality(T)
      /\ Cardinality(S) = Cardinality(T) <=> f \in Surjection(S, T)
  BY <1>1, FS_Injection
<1> QED
  BY <1>2 DEF Surjection

\* Among tuples there is one that comes before or with all the others.
LEMMA LeastTuple ==
  ASSUME NEW s \in Seq(Tuples), NEW U \in SUBSET (1..Len(s)), U # {}
  PROVE  \E m \in U : \A k \in U : Cmp(s[m], s[k]) <= 0
<1> DEFINE Below(j) == {k \in U : Cmp(s[k], s[j]) < 0}
           Sets == {Below(j) : j \in U}
<1>1. \A j \in U : s[j] \in Tuples
  OBVIOUS
<1>2. Sets \subseteq FiniteSubsetsOf(1..Len(s)) /\ Sets # {}
  <2>1. FiniteSubsetsOf(1..Len(s)) = SUBSET (1..Len(s))
    <3>1. IsFiniteSet(1..Len(s))
      BY FS_Interval
    <3> QED
      BY <3>1, FS_FiniteSubsetsOfFinite
  <2>2. Sets \subseteq SUBSET (1..Len(s)) /\ Sets # {}
    OBVIOUS
  <2> HIDE DEF Sets
  <2> QED
    BY <2>1, <2>2
<1>3. PICK X \in Sets : \A Y \in Sets : <<Y, X>> \notin StrictSubsetOrdering(1..Len(s))
  <2> HIDE DEF Sets
  <2> QED
    BY <1>2, WFMin, FS_StrictSubsetOrderingWellFounded
<1>4. PICK m \in U : X = Below(m)
  OBVIOUS
<1>5. ASSUME NEW k \in U, Cmp(s[k], s[m]) < 0 PROVE FALSE
  <2>1. Below(k) \subseteq Below(m)
    <3> SUFFICES ASSUME NEW l \in U, Cmp(s[l], s[k]) < 0
                 PROVE  Cmp(s[l], s[m]) < 0
      OBVIOUS
    <3>1. Cmp(s[k], s[m]) <= 0
      <4>1. Cmp(s[k], s[m]) \in Int
        BY <1>1, Opposite
      <4> QED
        BY <1>5, <4>1
    <3> QED
      BY <1>1, <3>1, Between
  <2>2. k \in Below(m) /\ k \notin Below(k)
    <3>1. Cmp(s[k], s[k]) = 0
      BY <1>1, Reflexive
    <3> QED
      BY <1>5, <3>1
  <2>3. <<Below(k), Below(m)>> \in StrictSubsetOrdering(1..Len(s))
    <3>1. Below(k) \in SUBSET (1..Len(s)) /\ Below(m) \in SUBSET (1..Len(s))
      OBVIOUS
    <3> HIDE DEF Below
    <3> QED
      BY <2>1, <2>2, <3>1 DEF StrictSubsetOrdering
  <2>4. Below(k) \in Sets
    OBVIOUS
  <2> HIDE DEF Below, Sets
  <2> QED
    BY <1>3, <1>4, <2>3, <2>4
<1>6. \A k \in U : Cmp(s[m], s[k]) <= 0
  BY <1>1, <1>5, Opposite
<1> QED
  BY <1>6

\* The tuples o are taken from s at the places g, each place once and none
\* after a place with a tuple that comes before.
Free(s, o, g) == {j \in 1..Len(s) : \A k \in 1..Len(o) : g[k] # j}
Taken(s, o, g) ==
  /\ o \in Seq(Tuples)
  /\ g \in [1..Len(o) -> 1..Len(s)]
  /\ \A k, l \in 1..Len(o) : g[k] = g[l] => k = l
  /\ \A k \in 1..Len(o) : o[k] = s[g[k]]
  /\ \A k \in 1..(Len(o) - 1) : Cmp(o[k], o[k + 1]) <= 0
  /\ Len(o) > 0 => \A j \in Free(s, o, g) : Cmp(o[Len(o)], s[j]) <= 0

\* Taking one more.
LEMMA TakeOne ==
  ASSUME NEW s \in Seq(Tuples), NEW o, NEW g, Taken(s, o, g),
         NEW m \in Free(s, o, g), NEW q, q = Append(o, s[m]),
         \A j \in Free(s, o, g) : Cmp(s[m], s[j]) <= 0
  PROVE  \E h : Taken(s, q, h)
<1> DEFINE h == [k \in 1..Len(q) |-> IF k = Len(q) THEN m ELSE g[k]]
<1>1. /\ o \in Seq(Tuples) /\ g \in [1..Len(o) -> 1..Len(s)]
      /\ m \in 1..Len(s) /\ s[m] \in Tuples
      /\ \A k \in 1..Len(o) : g[k] # m
  BY DEF Taken, Free
<1>2. /\ Len(o) \in Nat /\ Len(q) = Len(o) + 1 /\ q[Len(q)] = s[m]
      /\ q \in Seq(Tuples)
      /\ \A k \in 1..Len(o) : q[k] = o[k]
  BY <1>1
<1>3. \A k \in 1..Len(q) : k = Len(q) \/ k \in 1..Len(o)
  BY <1>2
<1>4. /\ h[Len(q)] = m /\ Len(q) \in 1..Len(q)
      /\ \A k \in 1..Len(o) : h[k] = g[k] /\ k \in 1..Len(q)
  BY <1>2
<1>5. h \in [1..Len(q) -> 1..Len(s)]
  BY <1>1, <1>3, <1>4
<1> HIDE DEF h
<1>6. \A k, l \in 1..Len(q) : h[k] = h[l] => k = l
  BY <1>1, <1>3, <1>4 DEF Taken
<1>7. \A k \in 1..Len(q) : q[k] = s[h[k]]
  BY <1>1, <1>2, <1>3, <1>4 DEF Taken
<1>8. \A k \in 1..(Len(q) - 1) : Cmp(q[k], q[k + 1]) <= 0
  <2> SUFFICES ASSUME NEW k \in 1..Len(o) PROVE Cmp(q[k], q[k + 1]) <= 0
    BY <1>2
  <2>1. CASE k = Len(o)
    <3>1. Cmp(o[Len(o)], s[m]) <= 0
      BY <2>1 DEF Taken
    <3> QED
      BY <1>2, <2>1, <3>1
  <2>2. CASE k # Len(o)
    <3>1. k \in 1..(Len(o) - 1) /\ k + 1 \in 1..Len(o)
      BY <1>2, <2>2
    <3> QED
      BY <1>2, <3>1 DEF Taken
  <2> QED
    BY <2>1, <2>2
<1>9. \A j \in Free(s, q, h) : Cmp(q[Len(q)], s[j]) <= 0
  <2>1. \A j \in Free(s, q, h) : j \in Free(s, o, g)
    BY <1>4 DEF Free
  <2> QED
    BY <1>2, <2>1
<1> QED
  BY <1>2, <1>5, <1>6, <1>7, <1>8, <1>9 DEF Taken

\* There are places left as long as fewer tuples have been taken than there are.
LEMMA PlacesLeft ==
  ASSUME NEW s \in Seq(Tuples), NEW o, NEW g, Taken(s, o, g)
  PROVE  /\ Len(o) \in Nat /\ Len(o) <= Len(s)
         /\ Len(o) # Len(s) => Free(s, o, g) # {}
<1>1. /\ Len(o) \in Nat /\ Len(s) \in Nat
      /\ g \in [1..Len(o) -> 1..Len(s)]
      /\ \A k, l \in 1..Len(o) : g[k] = g[l] => k = l
  BY DEF Taken
<1>2. \A n \in Nat : IsFiniteSet(1..n) /\ Cardinality(1..n) = n
  <2> SUFFICES ASSUME NEW n \in Nat
               PROVE  IsFiniteSet(1..n) /\ Cardinality(1..n) = n
    OBVIOUS
  <2>1. /\ IsFiniteSet(1..n)
        /\ Cardinality(1..n) = IF 1 > n THEN 0 ELSE n - 1 + 1
    BY FS_Interval
  <2> QED
    BY <2>1
<1>3. /\ IsFiniteSet(1..Len(s)) /\ Cardinality(1..Len(s)) = Len(s)
      /\ Cardinality(1..Len(o)) = Len(o)
  BY <1>1, <1>2
<1>4. /\ Cardinality(1..Len(o)) <= Cardinality(1..Len(s))
      /\ Cardinality(1..Len(o)) # Cardinality(1..Len(s)) =>
           \E t \in 1..Len(s) : \A x \in 1..Len(o) : g[x] # t
  <2> DEFINE S == 1..Len(o)
             T == 1..Len(s)
  <2>1. /\ IsFiniteSet(T) /\ g \in [S -> T]
        /\ \A x, y \in S : g[x] = g[y] => x = y
    BY <1>1, <1>3
  <2> HIDE DEF S, T
  <2>2. /\ Cardinality(S) <= Cardinality(T)
        /\ Cardinality(S) # Cardinality(T) => \E t \in T : \A x \in S : g[x] # t
    BY <2>1, OneToOne
  <2> QED
    BY <2>2 DEF S, T
<1> QED
  BY <1>1, <1>3, <1>4 DEF Free

\* What has been taken can be completed to all of s.
LEMMA Completed ==
  ASSUME NEW s \in Seq(Tuples), NEW o, NEW g, Taken(s, o, g)
  PROVE  \E a, h : /\ Taken(s, a, h) /\ Len(a) = Len(s)
                   /\ \A k \in 1..Len(o) : a[k] = o[k]
<1> DEFINE Extends(a, h) ==
             /\ Taken(s, a, h) /\ Len(a) >= Len(o)
             /\ \A k \in 1..Len(o) : a[k] = o[k]
           Missing == {n \in 1..(Len(s) + 1) :
                         \E a, h : Extends(a, h) /\ n = Len(s) + 1 - Len(a)}
<1>1. Len(s) \in Nat /\ Len(s) + 1 \in Nat /\ Len(o) \in Nat
  BY DEF Taken
<1>2. \A a, h : Extends(a, h) =>
        Len(a) \in Nat /\ Len(a) <= Len(s) /\ Len(s) + 1 - Len(a) \in Missing
  <2> SUFFICES ASSUME NEW a, NEW h, Extends(a, h)
               PROVE  /\ Len(a) \in Nat /\ Len(a) <= Len(s)
                      /\ Len(s) + 1 - Len(a) \in Missing
    OBVIOUS
  <2>1. Len(a) \in Nat /\ Len(a) <= Len(s)
    BY PlacesLeft
  <2>2. Len(s) + 1 - Len(a) \in 1..(Len(s) + 1)
    BY <1>1, <2>1
  <2> QED
    BY <2>1, <2>2
<1>3. Extends(o, g)
  BY <1>1
<1>4. Missing # {} /\ Missing \in SUBSET (1..(Len(s) + 1))
  BY <1>2, <1>3
<1>5. PICK n \in Missing : \A x \in Missing : n <= x
  <2> HIDE DEF Missing
  <2> QED
    BY <1>1, <1>4, LeastExists
<1>6. PICK a, h : Extends(a, h) /\ n = Len(s) + 1 - Len(a)
  OBVIOUS
<1>7. ASSUME Len(a) # Len(s) PROVE FALSE
  <2>1. Free(s, a, h) # {} /\ Free(s, a, h) \in SUBSET (1..Len(s))
    BY <1>6, <1>7, PlacesLeft DEF Free
  <2>2. PICK m \in Free(s, a, h) : \A j \in Free(s, a, h) : Cmp(s[m], s[j]) <= 0
    BY <2>1, LeastTuple
  <2> DEFINE q == Append(a, s[m])
  <2>3. PICK r : Taken(s, q, r)
    BY <1>6, <2>2, TakeOne
  <2>4. /\ Len(q) = Len(a) + 1 /\ Len(a) \in Nat /\ s[m] \in Tuples
        /\ \A k \in 1..Len(a) : q[k] = a[k]
    <3>1. a \in Seq(Tuples) /\ s[m] \in Tuples
      BY <1>6, <2>1 DEF Taken
    <3> QED
      BY <3>1
  <2> HIDE DEF q
  <2>5. Extends(q, r)
    BY <1>1, <1>6, <2>3, <2>4
  <2>6. Len(s) + 1 - Len(q) \in Missing
    BY <1>2, <2>5
  <2>7. n <= Len(s) + 1 - Len(q)
    BY <1>5, <2>6
  <2> QED
    BY <1>1, <1>6, <2>4, <2>7
<1> QED
  BY <1>6, <1>7

\* The copies of t that are still free are those that o has not.
LEMMA CopiesFree ==
  ASSUME NEW s \in Seq(Tuples), NEW o, NEW g, Taken(s, o, g), NEW t
  PROVE  /\ Copies(s, Len(s), t) = Copies(o, Len(o), t) =>
              \A j \in Free(s, o, g) : Cmp(s[j], t) # 0
         /\ Copies(s, Len(s), t) # Copies(o, Len(o), t) =>
              \E j \in Free(s, o, g) : Cmp(s[j], t) = 0
<1> DEFINE S == {k \in 1..Len(o) : Cmp(o[k], t) = 0}
           T == {j \in 1..Len(s) : Cmp(s[j], t) = 0}
           f == [k \in S |-> g[k]]
<1>1. /\ g \in [1..Len(o) -> 1..Len(s)]
      /\ \A k, l \in 1..Len(o) : g[k] = g[l] => k = l
      /\ \A k \in 1..Len(o) : o[k] = s[g[k]]
  BY DEF Taken
<1>2. Len(s) \in Nat
  OBVIOUS
<1>3. IsFiniteSet(T)
  BY <1>2, CopiesType
<1>4. /\ f \in [S -> T]
      /\ \A x, y \in S : f[x] = f[y] => x = y
      /\ \A x \in S : f[x] = g[x]
  BY <1>1
<1>5. Copies(s, Len(s), t) = Cardinality(T) /\ Copies(o, Len(o), t) = Cardinality(S)
  BY DEF Copies
<1>6. /\ Cardinality(S) = Cardinality(T) => \A j \in T : \E x \in S : f[x] = j
      /\ Cardinality(S) # Cardinality(T) => \E j \in T : \A x \in S : f[x] # j
  <2> HIDE DEF S, T, f
  <2> QED
    BY <1>3, <1>4, OneToOne
<1>7. ASSUME Cardinality(S) = Cardinality(T), NEW j \in Free(s, o, g)
      PROVE  Cmp(s[j], t) # 0
  BY <1>4, <1>6, <1>7 DEF Free
<1>8. ASSUME Cardinality(S) # Cardinality(T)
      PROVE  \E j \in Free(s, o, g) : Cmp(s[j], t) = 0
  <2>1. PICK j \in T : \A x \in S : f[x] # j
    BY <1>6, <1>8
  <2>2. \A k \in 1..Len(o) : g[k] # j
    BY <1>1, <1>4, <2>1
  <2> QED
    BY <2>1, <2>2 DEF Free
<1> QED
  BY <1>5, <1>7, <1>8

\* What has been returned is taken from the source, each place once and the least
\* first; when next_sort has returned 0 no copies are due.
Drawn == \E g : Taken(src, out, g)
Ended == returned = 0 /\ pc = "idle" => next_count <= 0

RInv == IInv /\ src \in Sources /\ Drawn /\ Ended

LEMMA DrawnEmpty ==
  ASSUME NEW s \in Seq(Tuples)
  PROVE  \E g : Taken(s, <<>>, g)
<1>1. Taken(s, <<>>, <<>>)
  BY DEF Taken
<1> QED
  BY <1>1

LEMMA DrawnCopy == ASSUME Distinct, RInv, NextCopy PROVE Drawn'
<1> USE DEF NextCopy
<1>1. PICK g : Taken(src, out, g)
  BY DEF RInv, Drawn
<1>2. /\ src \in Seq(Tuples) /\ out \in Seq(Tuples) /\ Len(out) \in Nat
      /\ Len(src) \in Nat /\ DOMAIN src = 1..Len(src)
      /\ next_count \in Int /\ src \in Sources
  BY DEF RInv, IInv, TypeOK
<1>3. /\ previous[1] \in Tuples /\ previous[1] = out[Len(out)] /\ Len(out) > 0
      /\ \E i \in DOMAIN src : previous[1] = src[i]
  BY <1>2, PreviousTyped DEF RInv
<1>4. Copies(src, Len(src), previous[1]) # Copies(out, Len(out), previous[1])
  <2>1. Copies(out, Len(out), previous[1]) \in Nat
    BY <1>2, CopiesType
  <2>2. Copies(src, Len(src), previous[1]) =
        Copies(out, Len(out), previous[1]) + next_count
    BY DEF RInv, IInv, CountsCopies
  <2> QED
    BY <1>2, <2>1, <2>2
<1>5. PICK m \in Free(src, out, g) : Cmp(src[m], previous[1]) = 0
  BY <1>1, <1>2, <1>4, CopiesFree
<1>6. m \in DOMAIN src
  BY <1>2, <1>5 DEF Free
<1>7. src[m] = previous[1]
  BY <1>2, <1>3, <1>5, <1>6 DEF Distinct
<1>8. \A j \in Free(src, out, g) : Cmp(src[m], src[j]) <= 0
  BY <1>1, <1>3, <1>7 DEF Taken
<1>9. out' = Append(out, src[m])
  BY <1>7
<1>10. \E h : Taken(src, out', h)
  BY <1>1, <1>2, <1>5, <1>8, <1>9, TakeOne
<1> QED
  BY <1>10 DEF Drawn

\* At the end of a pass nothing that is still free comes before or with the last
\* tuple returned.
LEMMA FreeAfter ==
  ASSUME IInv, pc = "pass", NEW g, Taken(src, out, g),
         NEW j \in Free(src, out, g)
  PROVE  AfterPrevious(src[j])
<1> SUFFICES ASSUME previous # <<>> PROVE Cmp(src[j], previous[1]) > 0
  BY DEF AfterPrevious
<1>1. /\ src \in Seq(Tuples) /\ src[j] \in Tuples /\ previous[1] \in Tuples
      /\ out \in Seq(Tuples) /\ previous[1] = out[Len(out)] /\ Len(out) > 0
  <2>1. /\ src \in Seq(Tuples) /\ out \in Seq(Tuples)
        /\ previous[1] \in Tuples /\ previous[1] = out[Len(out)]
        /\ Len(out) \in DOMAIN out
    BY PreviousTyped DEF IInv, TypeOK
  <2>2. j \in 1..Len(src)
    BY DEF Free
  <2> QED
    BY <2>1, <2>2
<1>2. Cmp(previous[1], src[j]) <= 0
  BY <1>1 DEF Taken
<1>3. Cmp(src[j], previous[1]) # 0
  <2>1. Copies(src, Len(src), previous[1]) = Copies(out, Len(out), previous[1])
    BY DEF IInv, PassInv
  <2> QED
    BY <1>1, <2>1, CopiesFree
<1>4. /\ Cmp(src[j], previous[1]) \in Int /\ Cmp(previous[1], src[j]) \in Int
      /\ Cmp(src[j], previous[1]) < 0 <=> Cmp(previous[1], src[j]) > 0
  BY <1>1, Opposite
<1> QED
  BY <1>2, <1>3, <1>4

LEMMA DrawnReturn == ASSUME RInv, NextReturn PROVE Drawn'
<1> USE DEF NextReturn
<1>1. PICK g : Taken(src, out, g)
  BY DEF RInv, Drawn
<1>2. CASE ~AfterPrevious(candidate)
  BY <1>1, <1>2 DEF Drawn
<1>3. CASE AfterPrevious(candidate)
  <2>1. /\ src \in Seq(Tuples) /\ Len(src) \in Nat /\ pos = Len(src)
        /\ out \in Seq(Tuples) /\ out' = Append(out, candidate)
        /\ candidate \in Tuples
    BY <1>3 DEF RInv, IInv, TypeOK, PassInv
  <2>2. Least
    BY <1>3 DEF RInv, IInv, PassInv, NoneYet, SameAsPrevious, AfterPrevious
  <2>3. PICK i \in 1..Len(src) : candidate = src[i]
    BY <2>1, <2>2 DEF Least
  <2>4. \A k \in 1..Len(out) : g[k] # i
    <3> SUFFICES ASSUME NEW k \in 1..Len(out), g[k] = i PROVE FALSE
      OBVIOUS
    <3>1. out[k] = candidate /\ k \in DOMAIN out
      BY <1>1, <2>1, <2>3 DEF Taken
    <3>2. previous # <<>>
      BY <3>1, <2>1 DEF RInv, IInv, Remembers
    <3>3. Cmp(candidate, previous[1]) <= 0 /\ previous[1] \in Tuples
      BY <3>1, <3>2, PreviousTyped DEF RInv
    <3>4. Cmp(candidate, previous[1]) > 0 /\ Cmp(candidate, previous[1]) \in Int
      BY <1>3, <2>1, <3>2, <3>3, Opposite DEF AfterPrevious
    <3> QED
      BY <3>3, <3>4
  <2>5. i \in Free(src, out, g)
    BY <2>4 DEF Free
  <2>6. \A j \in Free(src, out, g) : Cmp(src[i], src[j]) <= 0
    <3> SUFFICES ASSUME NEW j \in Free(src, out, g)
                 PROVE  Cmp(src[i], src[j]) <= 0
      OBVIOUS
    <3>1. AfterPrevious(src[j])
      BY <1>1, FreeAfter DEF RInv
    <3>2. j \in 1..pos
      BY <2>1 DEF Free
    <3> QED
      BY <2>2, <2>3, <3>1, <3>2 DEF Least
  <2>7. out' = Append(out, src[i])
    BY <2>1, <2>3
  <2>8. \E h : Taken(src, out', h)
    BY <1>1, <2>1, <2>5, <2>6, <2>7, TakeOne
  <2> QED
    BY <2>8 DEF Drawn
<1> QED
  BY <1>2, <1>3

LEMMA DrawnInit == SortInit => RInv
<1> SUFFICES ASSUME SortInit PROVE RInv
  OBVIOUS
<1>1. IInv /\ src \in Sources
  BY Initially DEF SortInit
<1>2. Drawn
  BY <1>1, DrawnEmpty DEF IInv, TypeOK, SortInit, Drawn
<1>3. Ended
  BY DEF Ended, SortInit
<1> QED
  BY <1>1, <1>2, <1>3 DEF RInv

LEMMA DrawnKept == ASSUME Distinct, RInv, [SortNext]_vars PROVE RInv'
<1>1. IInv'
  BY InvarianceStep DEF RInv
<1>2. CASE NextCopy
  <2>1. Drawn'
    BY <1>2, DrawnCopy
  <2>2. Ended'
    BY <1>2 DEF NextCopy, Ended
  <2> QED
    BY <1>1, <1>2, <2>1, <2>2 DEF RInv, NextCopy
<1>3. CASE NextReturn
  <2>1. Drawn'
    BY <1>3, DrawnReturn
  <2>2. Ended'
    <3>1. CASE AfterPrevious(candidate)
      BY <1>3, <3>1 DEF NextReturn, Ended
    <3>2. CASE ~AfterPrevious(candidate)
      <4>1. next_count = 1
        BY <1>3, <3>2 DEF NextReturn, RInv, IInv, PassInv, Least, NoneYet
      <4> QED
        BY <1>3, <4>1 DEF NextReturn, Ended
    <3> QED
      BY <3>1, <3>2
  <2> QED
    BY <1>1, <1>3, <2>1, <2>2 DEF RInv, NextReturn
<1>4. CASE RewindWhenDone
  <2>1. Drawn'
    BY <1>4, DrawnEmpty DEF RInv, IInv, TypeOK, RewindWhenDone, Rewind, Drawn
  <2> QED
    BY <1>1, <1>4, <2>1 DEF RInv, RewindWhenDone, Rewind, Ended
<1>5. CASE NextBegin
  BY <1>1, <1>5 DEF RInv, NextBegin, Drawn, Ended
<1>6. CASE NextEmpty
  BY <1>1, <1>6 DEF RInv, NextEmpty, Drawn, Ended
<1>7. CASE NextTuple
  BY <1>1, <1>7 DEF RInv, NextTuple, Drawn, Ended
<1>8. CASE UNCHANGED vars
  BY <1>1, <1>8 DEF RInv, vars, Drawn, Ended
<1> QED
  BY <1>2, <1>3, <1>4, <1>5, <1>6, <1>7, <1>8 DEF SortNext, NextSort

\* What has been taken in full is an answer.
LEMMA IsAnswer ==
  ASSUME src \in Seq(Tuples), NEW a, NEW h, Taken(src, a, h), Len(a) = Len(src)
  PROVE  a \in Answers
<1> DEFINE n == Len(src)
<1>1. /\ a \in Seq(Tuples) /\ n \in Nat /\ Len(a) = n
      /\ DOMAIN a = 1..n /\ DOMAIN src = 1..n
      /\ h \in [1..n -> 1..n]
      /\ \A j, k \in 1..n : h[j] = h[k] => j = k
      /\ \A j \in 1..n : a[j] = src[h[j]]
      /\ \A j \in 1..(n - 1) : Cmp(a[j], a[j + 1]) <= 0
  BY DEF Taken
<1> HIDE DEF n
<1>2. a = [j \in 1..n |-> src[h[j]]]
  BY <1>1
<1>3. a \in Rearrangements(src)
  <2> DEFINE OnceEach == {f \in [1..n -> 1..n] :
                            \A j, k \in 1..n : f[j] = f[k] => j = k}
  <2>1. h \in OnceEach
    BY <1>1
  <2>2. Rearrangements(src) = {[j \in 1..n |-> src[f[j]]] : f \in OnceEach}
    BY <1>1 DEF Rearrangements
  <2> HIDE DEF OnceEach
  <2> QED
    BY <1>2, <2>1, <2>2
<1>4. \A j \in 1..(Len(a) - 1) : KeyCmp(a[j], a[j + 1]) <= 0
  <2> SUFFICES ASSUME NEW j \in 1..(n - 1) PROVE KeyCmp(a[j], a[j + 1]) <= 0
    BY <1>1
  <2>1. Cmp(a[j], a[j + 1]) <= 0
    BY <1>1
  <2> QED
    BY <2>1 DEF Cmp
<1> QED
  BY <1>3, <1>4 DEF Answers

\* A prefix, cut.
LEMMA Cut ==
  ASSUME NEW a \in Seq(Tuples), NEW o \in Seq(Tuples), Len(o) <= Len(a),
         \A k \in 1..Len(o) : a[k] = o[k]
  PROVE  SubSeq(a, 1, Len(o)) = o
<1>1. Len(o) \in Nat /\ Len(a) \in Nat /\ DOMAIN o = 1..Len(o)
  OBVIOUS
<1>2. SubSeq(a, 1, Len(o)) = [k \in 1..Len(o) |-> a[k]]
  BY <1>1
<1>3. o = [k \in 1..Len(o) |-> o[k]]
  BY <1>1
<1> QED
  BY <1>2, <1>3

LEMMA Gives ==
  ASSUME RInv, Drawn', NEW x \in Tuples, out' = Append(out, x), src' = src,
         returned # 0, returned' = 1
  PROVE  Stream!Give
<1>1. PICK g : Taken(src, out', g)
  BY DEF Drawn
<1>2. /\ src \in Seq(Tuples) /\ out \in Seq(Tuples) /\ out' \in Seq(Tuples)
      /\ Len(out') = Len(out) + 1 /\ Len(out) \in Nat
      /\ \A k \in 1..Len(out) : out'[k] = out[k] /\ k \in 1..Len(out')
  BY DEF RInv, IInv, TypeOK
<1>3. PICK a, h : /\ Taken(src, a, h) /\ Len(a) = Len(src)
                  /\ \A k \in 1..Len(out') : a[k] = out'[k]
  <2>1. src \in Seq(Tuples)
    BY <1>2
  <2>2. \A o : Taken(src, o, g) =>
               \E a, h : /\ Taken(src, a, h) /\ Len(a) = Len(src)
                         /\ \A k \in 1..Len(o) : a[k] = o[k]
    BY <2>1, Completed
  <2> QED
    BY <1>1, <2>2, Zenon
<1>4. /\ a \in Seq(Tuples) /\ Len(a) \in Nat /\ Len(out') <= Len(a)
      /\ a \in Answers
  <2>1. src \in Seq(Tuples)
    BY <1>2
  <2>2. a \in Answers
    BY <1>3, <2>1, IsAnswer
  <2>3. Len(out') <= Len(src)
    BY <1>1, <2>1, PlacesLeft
  <2>4. a \in Seq(Tuples) /\ Len(a) \in Nat
    BY <1>3 DEF Taken
  <2> QED
    BY <1>3, <2>2, <2>3, <2>4
<1>5. SubSeq(a, 1, Len(out) + 1) = out'
  BY <1>2, <1>3, <1>4, Cut
<1>6. SubSeq(a, 1, Len(out)) = out
  <2>1. /\ Len(out) <= Len(a)
        /\ \A k \in 1..Len(out) : a[k] = out[k]
    BY <1>2, <1>3, <1>4
  <2> QED
    BY <1>2, <1>4, <2>1, Cut
<1>7. SubSeq(out, 1, Len(out)) = out
  BY <1>2, Cut
<1>8. Stream!IsStrictPrefix(out, a)
  <2>1. out # a /\ Len(out) <= Len(a)
    BY <1>2, <1>4
  <2> QED
    BY <1>6, <1>7, <2>1 DEF Stream!IsStrictPrefix, Stream!IsPrefix
<1>9. UNCHANGED <<Answers, returned = 0>>
  <2>1. Answers' = Answers
    BY DEF Answers
  <2>2. (returned = 0)' = (returned = 0)
    OBVIOUS
  <2> QED
    BY <2>1, <2>2
<1> QED
  BY <1>4, <1>5, <1>8, <1>9 DEF Stream!Give

\* Nothing is left.
LEMMA Finishes ==
  ASSUME RInv, src' = src, out' = out, returned' = 0,
         \A g : Taken(src, out, g) => Free(src, out, g) = {}
  PROVE  Stream!Finish
<1>1. PICK g : Taken(src, out, g)
  BY DEF RInv, Drawn
<1>2. src \in Seq(Tuples)
  BY DEF RInv, IInv, TypeOK
<1>3. Len(out) = Len(src)
  BY <1>1, <1>2, PlacesLeft
<1>4. out \in Answers
  BY <1>1, <1>2, <1>3, IsAnswer
<1>5. UNCHANGED Answers
  BY DEF Answers
<1> QED
  BY <1>4, <1>5 DEF Stream!Finish

LEMMA CopyImplements == ASSUME Distinct, RInv, NextCopy PROVE Stream!Give
<1> USE DEF NextCopy
<1>1. Drawn'
  BY DrawnCopy
<1>2. previous[1] \in Tuples
  BY PreviousTyped DEF RInv
<1>3. returned # 0
  BY DEF RInv, Ended, IInv, TypeOK
<1> QED
  BY <1>1, <1>2, <1>3, Gives

LEMMA ReturnImplements == ASSUME RInv, NextReturn PROVE Stream!Give \/ Stream!Finish
<1> USE DEF NextReturn
<1>1. /\ src \in Seq(Tuples) /\ Len(src) \in Nat /\ pos = Len(src)
      /\ DOMAIN src = 1..Len(src) /\ out \in Seq(Tuples) /\ DOMAIN out = 1..Len(out)
      /\ candidate \in Tuples /\ pc = "pass"
      /\ Least \/ NoneYet
  BY DEF RInv, IInv, TypeOK, PassInv
<1>2. CASE AfterPrevious(candidate) /\ out' = Append(out, candidate) /\ returned' = 1
  <2>1. Drawn'
    BY DrawnReturn
  <2>2. returned # 0
    <3> SUFFICES ASSUME returned = 0 PROVE FALSE
      OBVIOUS
    <3>1. Least
      BY <1>1, <1>2 DEF NoneYet, SameAsPrevious, AfterPrevious
    <3>2. PICK i \in DOMAIN src : candidate = src[i]
      BY <1>1, <3>1 DEF Least
    <3>3. PICK k \in DOMAIN out : Cmp(out[k], candidate) = 0
      BY <3>2 DEF RInv, IInv, LeavesNoneOut, Returned
    <3>4. previous # <<>> /\ out[k] \in Tuples
      BY <1>1, <3>3 DEF RInv, IInv, Remembers
    <3>5. previous[1] \in Tuples /\ Cmp(out[k], previous[1]) <= 0
      BY <3>3, <3>4, PreviousTyped DEF RInv
    <3>6. Cmp(previous[1], candidate) < 0
      BY <1>1, <1>2, <3>4, <3>5, Opposite DEF AfterPrevious
    <3>7. Cmp(out[k], candidate) < 0
      BY <1>1, <3>4, <3>5, <3>6, Between
    <3> QED
      BY <3>3, <3>7
  <2> QED
    BY <1>1, <1>2, <2>1, <2>2, Gives
<1>3. CASE ~AfterPrevious(candidate) /\ out' = out /\ returned' = 0
  <2>1. NoneYet
    BY <1>1, <1>3 DEF Least
  <2>2. ASSUME NEW g, Taken(src, out, g), NEW j \in Free(src, out, g) PROVE FALSE
    <3>1. AfterPrevious(src[j])
      BY <1>1, <2>2, FreeAfter DEF RInv
    <3>2. j \in 1..pos
      BY <1>1, <2>2 DEF Free
    <3> QED
      BY <2>1, <3>1, <3>2 DEF NoneYet
  <2> QED
    BY <1>3, <2>2, Finishes
<1> QED
  BY <1>2, <1>3

\* Every call of next_sort that returns is a step of TupleStream: it gives the next
\* tuple of one sorted arrangement of the source, and 0 once all have been given
\* (sort.c).  A tuple is not returned too often or too seldom, and nothing is lost,
\* whatever the source and whatever it is sorted on; the tuples that cmp_tuple does
\* not tell apart have to be the same.
THEOREM Implements == ASSUME Distinct PROVE SortSpec => SortsSource
<1>1. SortInit => Stream!Init
  BY DEF SortInit, Stream!Init
<1>2. RInv /\ [SortNext]_vars => [Stream!Next]_(<<Answers, out, returned = 0>>)
  <2> SUFFICES ASSUME RInv, [SortNext]_vars
               PROVE  \/ Stream!Give \/ Stream!Finish \/ Stream!Restart
                      \/ UNCHANGED <<Answers, out, returned = 0>>
    BY DEF Stream!Next
  <2>1. CASE NextCopy
    BY <2>1, CopyImplements
  <2>2. CASE NextReturn
    BY <2>2, ReturnImplements
  <2>3. CASE NextEmpty
    <3>1. \A g : Free(src, out, g) = {}
      BY <2>3 DEF NextEmpty, Free
    <3> QED
      BY <2>3, <3>1, Finishes DEF NextEmpty
  <2>4. CASE RewindWhenDone
    BY <2>4 DEF RewindWhenDone, Rewind, Answers, Stream!Restart
  <2>5. CASE NextBegin \/ NextTuple \/ UNCHANGED vars
    BY <2>5 DEF NextBegin, NextTuple, vars, Answers
  <2> QED
    BY <2>1, <2>2, <2>3, <2>4, <2>5 DEF SortNext, NextSort
<1>3. RInv /\ [SortNext]_vars => RInv'
  BY DrawnKept
<1> QED
  BY <1>1, <1>2, <1>3, DrawnInit, PTL DEF SortSpec, SortsSource, Stream!Spec
=============================================================================
