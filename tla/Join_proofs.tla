----------------------------- MODULE Join_proofs -----------------------------
(***************************************************************************)
(* Indexes and joins, in three parts.  The bisection of db_index_getoffset,*)
(* for every sorted relation and key: it returns the first occurrence, and *)
(* every round makes progress.  An indexed scan answers the query, for     *)
(* every sorted relation and every condition: what parse makes of the      *)
(* condition, the search and the scan put together.  Both joins return the *)
(* pairs of the answer one by one, whatever the two relations: they        *)
(* implement TupleStream; the index join rests on what is proved of the    *)
(* search.                                                                 *)
(***************************************************************************)
EXTENDS Join, IndexScan, FiniteSetTheorems, TLAPS

-----------------------------------------------------------------------------
(* The search and the indexed scan.                                        *)

\* A stored relation has integer keys, in order.
LEMMA RelationSorted ==
  ASSUME rel \in Relations
  PROVE  /\ Len(rel) \in Nat
         /\ (rel # <<>> <=> Len(rel) > 0)
         /\ \A j \in Positions : Key(j) \in Int
         /\ \A j, k \in Positions : j <= k => Key(j) <= Key(k)
<1>1. rel \in Seq(Tuple) BY SearchAssumption
<1>2. Len(rel) \in Nat /\ (rel # <<>> <=> Len(rel) > 0) BY <1>1
<1>3. ASSUME NEW j \in Positions PROVE j + 1 \in 1..Len(rel) /\ Key(j) \in Int
  <2>1. j + 1 \in 1..Len(rel) BY <1>2 DEF Positions
  <2>2. rel[j + 1] \in Tuple BY <1>1, <2>1
  <2>3. QED BY <2>1, <2>2, SearchAssumption DEF Tuple, Key
<1>4. ASSUME NEW j \in Positions, NEW k \in Positions, j <= k
      PROVE  Key(j) <= Key(k)
  <2>1. j + 1 \in 1..Len(rel) /\ k + 1 \in 1..Len(rel) BY <1>3
  <2>2. j + 1 <= k + 1 BY <1>4, <1>2 DEF Positions
  <2>3. QED BY <2>1, <2>2, SearchAssumption DEF Key
<1>5. QED BY <1>2, <1>3, <1>4

\* The middle of a range that is not empty lies in it, and is its first
\* position only when no other is left of it.
LEMMA MiddleBetween ==
  ASSUME imin \in Nat, imax \in Int, imin <= imax
  PROVE  Middle \in Nat /\ imin <= Middle /\ Middle <= imax
         /\ (imin < imax => Middle < imax)
BY SMT DEF Middle

\* What next_scan leaves in temp is an integer.
LEMMA ReadInt ==
  ASSUME rel \in Relations, temp \in Int, NEW j \in Int
  PROVE  ReadKey(j) \in Int
BY RelationSorted DEF ReadKey

\* The invariant of the loop holds before any call.
LEMMA InitInv == Init => SearchInv
BY DEF Init, SearchInv, SearchTypeOK, FirstOccurrence

\* A call starts a search of the whole relation.
LEMMA CallInv ==
  ASSUME SearchInv, NEW k \in Int, NEW m \in {"int", "tuple"}, Call(k, m)
  PROVE  SearchInv'
<1>1. rel \in Relations /\ Len(rel) \in Nat /\ (rel # <<>> <=> Len(rel) > 0)
  BY RelationSorted DEF SearchInv, SearchTypeOK
<1>2. temp' \in Int BY SearchAssumption DEF Call
<1>3. SearchTypeOK' BY <1>1, <1>2 DEF SearchInv, SearchTypeOK, Call
<1>4. \A j \in Positions' : j >= imin' /\ (j > imax' => FALSE)
  BY <1>1 DEF Call, Positions
<1>5. imin' <= imax' + 1 /\ (rel # <<>> => imax' < Len(rel) /\ imin' # Len(rel))
  BY <1>1 DEF Call
<1>6. rel' = rel /\ pc' = "probe" /\ imin' = 0 /\ imax' \in Int
  BY <1>1 DEF Call
<1>7. \A j \in Positions' : (j < imin' => Key(j)' < key') /\ (j > imax' => key' <= Key(j)')
  BY <1>4, <1>6, <1>1 DEF Positions
<1>8. QED BY <1>3, <1>5, <1>6, <1>7 DEF SearchInv, FirstOccurrence

\* A round of the loop keeps the first occurrence between imin and imax, and
\* leaves a smaller range when the loop goes on.
LEMMA ProbeInv ==
  ASSUME SearchInv, Probe
  PROVE  SearchInv' /\ (pc' = "probe" => imax' - imin' < imax - imin)
<1> DEFINE m == Middle
<1> DEFINE r == ReadKey(m)
<1>1. /\ rel \in Relations /\ rel' = rel /\ key' = key /\ mode' = mode
      /\ key \in Int /\ imin \in Nat /\ imax \in Int /\ i \in Int
      /\ temp \in Int /\ imin <= imax /\ result' = result /\ temp' = r
  BY DEF SearchInv, SearchTypeOK, Probe
<1>2. m \in Nat /\ imin <= m /\ m <= imax /\ (imin < imax => m < imax)
  BY <1>1, MiddleBetween
<1>3. r \in Int BY <1>1, <1>2, ReadInt
<1>4. /\ Len(rel) \in Nat /\ (rel # <<>> <=> Len(rel) > 0)
      /\ \A j \in Positions : Key(j) \in Int
      /\ \A j, k \in Positions : j <= k => Key(j) <= Key(k)
  BY <1>1, RelationSorted
<1>5. \A j \in Positions : (j < imin => Key(j) < key) /\ (j > imax => key <= Key(j))
  BY DEF SearchInv, Probe
<1>6. rel # <<>> => imax < Len(rel) BY DEF SearchInv, Probe
<1>7. m \in Positions => r = Key(m) BY DEF ReadKey
<1>8. rel # <<>> => m \in Positions BY <1>2, <1>4, <1>6, <1>1 DEF Positions
<1>9. rel = <<>> => Positions = {} BY <1>4 DEF Positions
<1>10. filepos' \in Nat BY <1>2, <1>3 DEF Probe, After
<1>11. Positions' = Positions /\ \A j : Key(j)' = Key(j) BY <1>1 DEF Positions, Key
<1>12. Positions \subseteq Int BY DEF Positions
<1>13. CASE r < key /\ GoRight(m) /\ UNCHANGED <<imax, i, pc>>
  <2>1. imin' = m + 1 /\ imax' = imax /\ i' = i /\ pc' = pc /\ pc = "probe"
    BY <1>13 DEF GoRight, Probe
  <2>2. \A j \in Positions : j < m + 1 => Key(j) < key
    <3>1. SUFFICES ASSUME NEW j \in Positions, j < m + 1 PROVE Key(j) < key
      OBVIOUS
    <3>2. m \in Positions /\ r = Key(m) BY <1>7, <1>8, <1>9
    <3>3. j <= m BY <3>1, <1>2, <1>12
    <3>4. Key(j) <= Key(m) /\ Key(j) \in Int BY <3>2, <3>3, <1>4
    <3>5. QED BY <3>4, <3>2, <1>13, <1>3, <1>1
  <2>3. SearchTypeOK' BY <2>1, <1>1, <1>2, <1>3, <1>10 DEF SearchInv, SearchTypeOK
  <2>4. m + 1 <= imax + 1 BY <1>2, <1>1
  <2>5. \A j \in Positions' : (j < imin' => Key(j)' < key') /\ (j > imax' => key' <= Key(j)')
    BY <2>1, <2>2, <1>5, <1>11, <1>1
  <2>6. rel' # <<>> => imax' < Len(rel') /\ (imin' = Len(rel') => temp' < key')
    BY <2>1, <1>6, <1>13, <1>1
  <2>7. imax' - imin' < imax - imin BY <2>1, <1>1, <1>2
  <2>8. QED BY <2>1, <2>3, <2>4, <2>5, <2>6, <2>7 DEF SearchInv, FirstOccurrence
<1>14. CASE r > key /\ imax' = m - 1 /\ UNCHANGED <<imin, i, pc>>
  <2>1. imin' = imin /\ imax' = m - 1 /\ i' = i /\ pc' = pc /\ pc = "probe"
    BY <1>14 DEF Probe
  <2>2. \A j \in Positions : j > m - 1 => key <= Key(j)
    <3>1. SUFFICES ASSUME NEW j \in Positions, j > m - 1 PROVE key <= Key(j)
      OBVIOUS
    <3>2. m \in Positions /\ r = Key(m) BY <1>7, <1>8, <1>9
    <3>3. m <= j BY <3>1, <1>2, <1>12
    <3>4. Key(m) <= Key(j) /\ Key(j) \in Int BY <3>2, <3>3, <1>4
    <3>5. QED BY <3>4, <3>2, <1>14, <1>3, <1>1
  <2>3. SearchTypeOK' BY <2>1, <1>1, <1>2, <1>3, <1>10 DEF SearchInv, SearchTypeOK
  <2>4. imin' <= imax' + 1 BY <2>1, <1>2, <1>1
  <2>5. \A j \in Positions' : (j < imin' => Key(j)' < key') /\ (j > imax' => key' <= Key(j)')
    BY <2>1, <2>2, <1>5, <1>11, <1>1
  <2>6. rel' # <<>> => imax' < Len(rel') /\ (imin' = Len(rel') => temp' < key')
    BY <2>1, <1>6, <1>1, <1>2, <1>4
  <2>7. imax' - imin' < imax - imin BY <2>1, <1>1, <1>2
  <2>8. QED BY <2>1, <2>3, <2>4, <2>5, <2>6, <2>7 DEF SearchInv, FirstOccurrence
<1>15. CASE r = key /\ KeepLeft(m) /\ imax' = m /\ UNCHANGED <<imin, i, pc>>
  <2>1. imin' = imin /\ imax' = m /\ i' = i /\ pc' = pc /\ pc = "probe" /\ imin # m
    BY <1>15 DEF KeepLeft, Probe
  <2>2. \A j \in Positions : j > m => key <= Key(j)
    <3>1. SUFFICES ASSUME NEW j \in Positions, j > m PROVE key <= Key(j)
      OBVIOUS
    <3>2. m \in Positions /\ r = Key(m) BY <1>7, <1>8, <1>9
    <3>3. Key(m) <= Key(j) /\ Key(j) \in Int BY <3>2, <3>1, <1>4, <1>12, <1>2
    <3>4. QED BY <3>3, <3>2, <1>15
  <2>3. SearchTypeOK' BY <2>1, <1>1, <1>2, <1>3, <1>10 DEF SearchInv, SearchTypeOK
  <2>4. imin' <= imax' + 1 BY <2>1, <1>2, <1>1
  <2>5. \A j \in Positions' : (j < imin' => Key(j)' < key') /\ (j > imax' => key' <= Key(j)')
    BY <2>1, <2>2, <1>5, <1>11, <1>1
  <2>6. rel' # <<>> => imax' < Len(rel') /\ (imin' = Len(rel') => temp' < key')
    BY <2>1, <1>6, <1>1, <1>2, <1>4
  <2>7. imax' - imin' < imax - imin BY <2>1, <1>1, <1>2
  <2>8. QED BY <2>1, <2>3, <2>4, <2>5, <2>6, <2>7 DEF SearchInv, FirstOccurrence
<1>16. CASE /\ r = key /\ ~KeepLeft(m)
            /\ i' = m /\ pc' = "verify" /\ UNCHANGED <<imin, imax>>
  <2>1. imin' = imin /\ imax' = imax /\ i' = m /\ pc' = "verify" /\ imin = m
    BY <1>16 DEF KeepLeft
  <2>2. SearchTypeOK' BY <2>1, <1>1, <1>2, <1>3, <1>10 DEF SearchInv, SearchTypeOK
  <2>3. \A j \in Positions : j < m <=> Key(j) < key
    <3>1. SUFFICES ASSUME NEW j \in Positions PROVE j < m <=> Key(j) < key
      OBVIOUS
    <3>2. m \in Positions /\ r = Key(m) BY <1>7, <1>8, <1>9
    <3>3. j < m => Key(j) < key BY <2>1, <1>5
    <3>4. m <= j => Key(m) <= Key(j) BY <3>2, <1>4
    <3>5. j \in Int /\ Key(j) \in Int BY <1>4, <1>12
    <3>6. QED BY <3>2, <3>3, <3>4, <3>5, <1>16, <1>1, <1>2
  <2>4. LowerBound(i)' BY <2>3, <2>1, <1>11, <1>1 DEF LowerBound
  <2>5. i' >= 0 BY <2>1, <1>2
  <2>6. rel' # <<>> => i' <= Len(rel') /\ i' # Len(rel')
    BY <2>1, <1>1, <1>2, <1>4, <1>6
  <2>7. QED BY <2>1, <2>2, <2>4, <2>5, <2>6 DEF SearchInv, FirstOccurrence
<1>17. QED BY <1>13, <1>14, <1>15, <1>16 DEF Probe

\* When nothing is left to search, imin is the place of the key.
LEMMA LoopEndsInv ==
  ASSUME SearchInv, LoopEnds
  PROVE  SearchInv'
<1>1. /\ rel \in Relations /\ rel' = rel /\ key' = key /\ imin' = imin
      /\ key \in Int /\ imin \in Nat /\ imax \in Int /\ imax < imin
      /\ i' = imin /\ pc' = "verify" /\ temp' = temp
  BY DEF SearchInv, SearchTypeOK, LoopEnds
<1>2. /\ Len(rel) \in Nat
      /\ \A j \in Positions : Key(j) \in Int
  BY <1>1, RelationSorted
<1>3. SearchTypeOK' BY <1>1 DEF SearchInv, SearchTypeOK, LoopEnds
<1>4. Positions' = Positions /\ \A j : Key(j)' = Key(j) BY <1>1 DEF Positions, Key
<1>5. \A j \in Positions : (j < imin => Key(j) < key) /\ (j > imax => key <= Key(j))
  BY DEF SearchInv, LoopEnds
<1>6. \A j \in Positions : j < imin <=> Key(j) < key
  BY <1>1, <1>2, <1>5 DEF Positions
<1>7. LowerBound(i)' BY <1>6, <1>4, <1>1 DEF LowerBound
<1>8. rel # <<>> => imax < Len(rel) /\ (imin = Len(rel) => temp < key)
      /\ imin <= imax + 1
  BY DEF SearchInv, LoopEnds
<1>9. rel' # <<>> => i' <= Len(rel') /\ (i' = Len(rel') => temp' < key')
  BY <1>1, <1>2, <1>8
<1>10. QED BY <1>1, <1>3, <1>7, <1>9 DEF SearchInv, FirstOccurrence

\* Reading the tuple again tells a hit from a miss.
LEMMA VerifyInv ==
  ASSUME SearchInv, Verify
  PROVE  SearchInv'
<1>1. /\ rel \in Relations /\ rel' = rel /\ key' = key /\ mode' = mode
      /\ key \in Int /\ i \in Nat /\ i' = i /\ pc' = "found" /\ temp \in Int
      /\ imin' = imin /\ imax' = imax /\ temp' = ReadKey(i)
  BY DEF SearchInv, SearchTypeOK, Verify
<1>2. /\ Len(rel) \in Nat /\ (rel # <<>> <=> Len(rel) > 0)
      /\ \A j \in Positions : Key(j) \in Int
      /\ \A j, k \in Positions : j <= k => Key(j) <= Key(k)
  BY <1>1, RelationSorted
<1>3. ReadKey(i) \in Int BY <1>1, ReadInt
<1>4. result' \in Int /\ filepos' \in Nat BY <1>1 DEF Verify, After
<1>5. SearchTypeOK' BY <1>1, <1>3, <1>4 DEF SearchInv, SearchTypeOK
<1>6. Positions' = Positions /\ \A j : Key(j)' = Key(j) BY <1>1 DEF Positions, Key
<1>7. \A j \in Positions : j < i <=> Key(j) < key BY DEF SearchInv, Verify, LowerBound
<1>8. rel # <<>> => i <= Len(rel) /\ (i = Len(rel) => temp < key)
  BY DEF SearchInv, Verify
<1>9. CASE Unequal(ReadKey(i)) /\ result' = -1
  <2>1. ReadKey(i) # key BY <1>9 DEF Unequal
  <2>2. \A j \in Positions : Key(j) # key
    <3>1. SUFFICES ASSUME NEW j \in Positions, Key(j) = key PROVE FALSE
      OBVIOUS
    <3>2. i <= j /\ i \in Positions BY <3>1, <1>7, <1>1, <1>2 DEF Positions
    <3>3. Key(i) <= Key(j) BY <3>2, <1>2
    <3>4. ~(Key(i) < key) BY <3>2, <1>7, <1>1
    <3>5. Key(i) = key BY <3>1, <3>2, <3>3, <3>4, <1>1, <1>2
    <3>6. QED BY <3>5, <3>2, <2>1 DEF ReadKey
  <2>3. QED BY <1>9, <1>5, <1>1, <1>6, <2>2 DEF SearchInv, FirstOccurrence
<1>10. CASE /\ ~Unequal(ReadKey(i)) /\ result' = i
            /\ filepos' = IF mode = "tuple" THEN i ELSE After(i)
  <2>1. LowerBound(result)' BY <1>7, <1>6, <1>1, <1>10 DEF LowerBound
  <2>2. ASSUME mode' = "tuple", rel' # <<>>
        PROVE  result' \in Positions' /\ Key(result)' = key'
    <3>1. ReadKey(i) = key BY <2>2, <1>10, <1>1 DEF Unequal
    <3>2. i \in Positions
      <4>1. SUFFICES ASSUME i \notin Positions PROVE FALSE OBVIOUS
      <4>2. i = Len(rel) /\ temp < key BY <4>1, <2>2, <1>1, <1>2, <1>8 DEF Positions
      <4>3. ReadKey(i) = temp BY <4>1 DEF ReadKey
      <4>4. QED BY <4>2, <4>3, <3>1, <1>1
    <3>3. Key(i) = key BY <3>1, <3>2 DEF ReadKey
    <3>4. Key(result)' = Key(i) BY <1>1, <1>10 DEF Key
    <3>5. QED BY <3>2, <3>3, <3>4, <2>2, <1>6, <1>10, <1>1
  <2>3. result' # -1 BY <1>10, <1>1
  <2>4. QED BY <1>5, <1>1, <2>1, <2>2, <2>3 DEF SearchInv, FirstOccurrence
<1>11. QED BY <1>9, <1>10 DEF Verify

\* Every step keeps the invariant, and a step inside the loop makes progress.
LEMMA StepInv ==
  ASSUME SearchInv, [Next]_searchVars
  PROVE  /\ SearchInv'
         /\ [pc = "probe" /\ pc' = "probe" => imax' - imin' < imax - imin]_searchVars
<1>1. CASE UNCHANGED searchVars
  BY <1>1 DEF searchVars, local, SearchInv, SearchTypeOK, FirstOccurrence,
              LowerBound, Positions, Key
<1>2. CASE Probe BY <1>2, ProbeInv
<1>3. CASE LoopEnds BY <1>3, LoopEndsInv DEF LoopEnds
<1>4. CASE Verify BY <1>4, VerifyInv DEF Verify
<1>5. CASE \E k \in Keys, m \in {"int", "tuple"} : Call(k, m)
  BY <1>5, CallInv, SearchAssumption DEF Call
<1>6. QED BY <1>1, <1>2, <1>3, <1>4, <1>5 DEF Next, SearchStep

\* The invariant of the loop is an invariant of the search.
LEMMA SearchInvariance == Spec => []SearchInv
<1>1. Init => SearchInv BY InitInv
<1>2. SearchInv /\ [Next]_searchVars => SearchInv' BY StepInv
<1>3. QED BY <1>1, <1>2, PTL DEF Spec

\* The locals of db_index_getoffset stay integers, and imin is never negative.
THEOREM SearchTyped == Spec => []SearchTypeOK
<1>1. SearchInv => SearchTypeOK BY DEF SearchInv
<1>2. QED BY <1>1, SearchInvariance, PTL

\* db_index_getoffset and scan_find return the first tuple with the key, and
\* report a miss only when there is none, for every sorted relation.
THEOREM FindsFirst == Spec => []FirstOccurrence
<1>1. SearchInv => FirstOccurrence BY DEF SearchInv
<1>2. QED BY <1>1, SearchInvariance, PTL

\* The bisection cannot go round for ever: each round leaves a smaller range.
THEOREM Progress == Spec => Shrinks
<1>1. SearchInv /\ [Next]_searchVars =>
        [pc = "probe" /\ pc' = "probe" => imax' - imin' < imax - imin]_searchVars
  BY StepInv
<1>2. QED BY <1>1, SearchInvariance, PTL DEF Spec, Shrinks

-----------------------------------------------------------------------------
\* The comparisons that parse may read off the nodes of the condition: those
\* with the attribute first, and those that are the same both ways.
Plain(c) ==
  Indexable(c) =>
    \/ c.form = "attr op val"
    \/ c.form = "val op attr" /\ c.op = "EQ"

\* SameAnswer with its n: the tuples returned are those that satisfy the
\* condition as far as the file has been read, which at the end is as far as
\* there are any.
AnswersInOrder ==
  Reading /\ Plain(cond) =>
    /\ Selected(out, filepos)
    /\ phase = "end" => \A j \in Positions : j >= filepos => ~Matches(j)

-----------------------------------------------------------------------------
\* The invariant.
StopsEarly(c) == Indexable(c) /\ c.op \in {"LTE", "EQ", "LT"}

ScanTypeOK ==
  /\ cond \in Conditions
  /\ tuple_start \in Nat /\ indexon \in Int /\ stopat \in Int
  /\ phase \in {"setup", "search", "stop", "scan", "end"}
  /\ out \in Seq(Tuple)

\* The search is for the start value, and what it returns is a position.
SearchForStart ==
  phase = "search" =>
    /\ SeeksStart(cond) /\ key = StartAt(cond) /\ mode = "int"
    /\ pc = "verify" => i \in Nat
    /\ pc = "found" => result \in Nat

\* What the scan is set up with, and when.
StartRight ==
  IF phase \in {"stop", "scan", "end"} /\ SeeksStart(cond)
  THEN \A j \in Positions : j < tuple_start <=> Key(j) < StartAt(cond)
  ELSE tuple_start = 0

StopRight ==
  IF phase \in {"scan", "end"} /\ StopsEarly(cond)
  THEN indexon = WhichIndex /\ stopat = StopValue(cond)
  ELSE indexon = -1

\* Where the file stands: all it has read before is below the stop value.
PlaceRight ==
  /\ phase \in {"setup", "stop"} => filepos = tuple_start /\ out = <<>>
  /\ phase = "search" => out = <<>>
  /\ phase \in {"scan", "end"} => filepos >= tuple_start
  /\ phase = "scan" /\ StopsEarly(cond) =>
       \A j \in Positions : j < filepos => Key(j) < StopValue(cond)

ScanInv ==
  /\ SearchInv /\ ScanTypeOK /\ SearchForStart
  /\ StartRight /\ StopRight /\ PlaceRight /\ AnswersInOrder

-----------------------------------------------------------------------------
\* What the assumptions say of the condition and of the tuples.
LEMMA Typed ==
  ASSUME SearchInv, ScanTypeOK
  PROVE  /\ rel \in Relations /\ rel \in Seq(Tuple) /\ Len(rel) \in Nat
         /\ filepos \in Nat
         /\ cond.val \in Int /\ cond.attr \in 0..(Arity - 1)
         /\ cond.op \in {"LT", "LTE", "GT", "GTE", "EQ", "NEQ"}
         /\ cond.form \in {"attr op val", "val op attr", "not"}
         /\ StartAt(cond) \in Int /\ StopValue(cond) \in Int
         /\ \A j \in Positions : Key(j) \in Int /\ rel[j + 1] \in Tuple
         /\ \A j, k \in Positions : j <= k => Key(j) <= Key(k)
<1>1. rel \in Relations /\ filepos \in Nat BY DEF SearchInv, SearchTypeOK
<1>2. rel \in Seq(Tuple) BY <1>1, SearchAssumption
<1>3. /\ cond.val \in Int /\ cond.attr \in 0..(Arity - 1)
      /\ cond.op \in {"LT", "LTE", "GT", "GTE", "EQ", "NEQ"}
      /\ cond.form \in {"attr op val", "val op attr", "not"}
  BY ScanAssumption DEF ScanTypeOK
<1>4. ASSUME NEW j \in Positions PROVE rel[j + 1] \in Tuple
  <2>1. Len(rel) \in Nat BY <1>2
  <2>2. j + 1 \in 1..Len(rel) BY <2>1 DEF Positions
  <2>3. QED BY <2>2, <1>2
<1>5. StartAt(cond) \in Int /\ StopValue(cond) \in Int
  <2>1. cond.val \in Int BY <1>3
  <2>2. cond.val + 1 \in Int BY <2>1
  <2>3. StartAt(cond) \in {cond.val, cond.val + 1}
        /\ StopValue(cond) \in {cond.val, cond.val + 1}
    BY DEF StartAt, StopValue
  <2>4. QED BY <2>1, <2>2, <2>3
<1>6. QED BY <1>1, <1>2, <1>3, <1>4, <1>5, RelationSorted

\* A tuple before the start value does not satisfy a condition that seeks it.
LEMMA StartSkips ==
  ASSUME SearchInv, ScanTypeOK, Plain(cond), SeeksStart(cond),
         NEW j \in Positions, Key(j) < StartAt(cond)
  PROVE  ~Matches(j)
<1>1. /\ cond.val \in Int /\ Key(j) \in Int
      /\ rel[j + 1][cond.attr] = Key(j)
      /\ cond.op \in {"GTE", "EQ", "GT"} /\ Indexable(cond)
  BY Typed DEF SeeksStart, Indexable, Key
<1>2. ~Compare(cond.op, Key(j), cond.val)
  <2>1. CASE cond.op = "GTE" BY <1>1, <2>1 DEF StartAt, Compare
  <2>2. CASE cond.op = "EQ" BY <1>1, <2>2 DEF StartAt, Compare
  <2>3. CASE cond.op = "GT" BY <1>1, <2>3 DEF StartAt, Compare
  <2>4. QED BY <1>1, <2>1, <2>2, <2>3
<1>3. cond.op = "EQ" => ~Compare(cond.op, cond.val, Key(j))
  BY <1>1 DEF StartAt, Compare
<1>4. CASE cond.form = "attr op val"
  BY <1>1, <1>2, <1>4 DEF Matches, Holds
<1>5. CASE cond.form = "val op attr" /\ cond.op = "EQ"
  BY <1>1, <1>3, <1>5 DEF Matches, Holds
<1>6. QED BY <1>1, <1>4, <1>5 DEF Plain

\* Nor does one that is not below the stop value.
LEMMA StopSkips ==
  ASSUME SearchInv, ScanTypeOK, Plain(cond), StopsEarly(cond),
         NEW j \in Positions, Key(j) >= StopValue(cond)
  PROVE  ~Matches(j)
<1>1. /\ cond.val \in Int /\ Key(j) \in Int
      /\ rel[j + 1][cond.attr] = Key(j)
      /\ cond.op \in {"LTE", "EQ", "LT"} /\ Indexable(cond)
  BY Typed DEF StopsEarly, Indexable, Key
<1>2. ~Compare(cond.op, Key(j), cond.val)
  <2>1. CASE cond.op = "LTE" BY <1>1, <2>1 DEF StopValue, Compare
  <2>2. CASE cond.op = "EQ" BY <1>1, <2>2 DEF StopValue, Compare
  <2>3. CASE cond.op = "LT" BY <1>1, <2>3 DEF StopValue, Compare
  <2>4. QED BY <1>1, <2>1, <2>2, <2>3
<1>3. cond.op = "EQ" => ~Compare(cond.op, cond.val, Key(j))
  BY <1>1 DEF StopValue, Compare
<1>4. CASE cond.form = "attr op val"
  BY <1>1, <1>2, <1>4 DEF Matches, Holds
<1>5. CASE cond.form = "val op attr" /\ cond.op = "EQ"
  BY <1>1, <1>3, <1>5 DEF Matches, Holds
<1>6. QED BY <1>1, <1>4, <1>5 DEF Plain

\* What the scan does with the file does not concern the search.
LEMMA SearchKept ==
  ASSUME SearchInv, UNCHANGED <<rel, local, pc>>, filepos' \in Nat
  PROVE  SearchInv'
BY DEF local, SearchInv, SearchTypeOK, FirstOccurrence, LowerBound, Positions, Key

\* The definitions that speak of the relation and the condition mean the same
\* after a step that leaves both alone.
LEMMA SameMeaning ==
  ASSUME rel' = rel, cond' = cond
  PROVE  /\ Positions' = Positions
         /\ \A j : Key(j)' = Key(j) /\ Matches(j)' = Matches(j)
         /\ Plain(cond)' = Plain(cond)
         /\ SeeksStart(cond)' = SeeksStart(cond)
         /\ StopsEarly(cond)' = StopsEarly(cond)
         /\ StartAt(cond)' = StartAt(cond) /\ StopValue(cond)' = StopValue(cond)
         /\ Selected(out, filepos)' <=> Selected(out', filepos')
BY DEF Positions, Key, Matches, Plain, SeeksStart, StopsEarly, StartAt, StopValue,
       Selected, Picks

\* Nothing has been set up, read or returned at first.
LEMMA ScanInitInv == ScanInit => ScanInv
<1> SUFFICES ASSUME ScanInit PROVE ScanInv
  OBVIOUS
<1>1. SearchInv BY InitInv DEF ScanInit
<1>2. filepos = 0 /\ tuple_start = 0 /\ out = <<>> /\ phase = "setup" /\ indexon = -1
      /\ stopat = 0 /\ cond \in Conditions
  BY DEF ScanInit, Init
<1>3. ScanTypeOK BY <1>2 DEF ScanTypeOK
<1>4. SearchForStart /\ StartRight /\ StopRight /\ PlaceRight
  BY <1>2 DEF SearchForStart, StartRight, StopRight, PlaceRight
<1>5. AnswersInOrder BY <1>2 DEF AnswersInOrder, Reading
<1>6. QED BY <1>1, <1>3, <1>4, <1>5 DEF ScanInv

\* Until the scan is set up there is no answer to speak of.
LEMMA NotReading ==
  ASSUME ~Reading PROVE AnswersInOrder
BY DEF AnswersInOrder

\* parse calls the search, or does without it.
LEMMA SetStartInv ==
  ASSUME ScanInv, SetStart PROVE ScanInv'
<1>1. /\ SearchInv /\ ScanTypeOK /\ phase = "setup" /\ cond' = cond
      /\ tuple_start' = tuple_start /\ indexon' = indexon /\ stopat' = stopat /\ out' = out
      /\ tuple_start = 0 /\ indexon = -1 /\ filepos = tuple_start /\ out = <<>>
  BY DEF ScanInv, SetStart, StartRight, StopRight, PlaceRight
<1>2. CASE SeeksStart(cond) /\ Call(StartAt(cond), "int") /\ phase' = "search"
  <2>1. SearchInv' BY <1>1, <1>2, CallInv, Typed
  <2>2. rel' = rel /\ key' = StartAt(cond) /\ mode' = "int" /\ pc' = "probe"
    BY <1>2 DEF Call
  <2>3. ScanTypeOK' BY <1>1, <1>2 DEF ScanTypeOK
  <2>4. SearchForStart' BY <1>1, <1>2, <2>2, SameMeaning DEF SearchForStart
  <2>5. StartRight' /\ StopRight' /\ PlaceRight'
    BY <1>1, <1>2 DEF StartRight, StopRight, PlaceRight
  <2>6. AnswersInOrder' BY <1>2 DEF AnswersInOrder, Reading
  <2>7. QED BY <2>1, <2>3, <2>4, <2>5, <2>6 DEF ScanInv
<1>3. CASE ~SeeksStart(cond) /\ phase' = "stop" /\ UNCHANGED searchVars
  <2>1. rel' = rel /\ filepos' = filepos /\ UNCHANGED <<rel, local, pc>>
    BY <1>3 DEF searchVars
  <2>2. SearchInv' BY <2>1, <1>1, SearchKept, Typed
  <2>3. ScanTypeOK' BY <1>1, <1>3 DEF ScanTypeOK
  <2>4. SearchForStart' /\ StopRight' BY <1>1, <1>3 DEF SearchForStart, StopRight
  <2>5. StartRight' BY <1>1, <1>3, <2>1, SameMeaning DEF StartRight
  <2>6. PlaceRight' BY <1>1, <1>3, <2>1 DEF PlaceRight
  <2>7. AnswersInOrder' BY <1>3 DEF AnswersInOrder, Reading
  <2>8. QED BY <2>2, <2>3, <2>4, <2>5, <2>6, <2>7 DEF ScanInv
<1>4. QED BY <1>2, <1>3 DEF SetStart

\* A step of the search that is for the start value.
LEMMA SearchingInv ==
  ASSUME ScanInv, Search PROVE ScanInv'
<1>1. /\ SearchInv /\ ScanTypeOK /\ phase = "search" /\ SearchForStart
      /\ cond' = cond /\ tuple_start' = tuple_start /\ indexon' = indexon
      /\ stopat' = stopat /\ phase' = phase /\ out' = out
      /\ tuple_start = 0 /\ indexon = -1 /\ out = <<>>
  BY DEF ScanInv, Search, scanVars, StartRight, StopRight, PlaceRight
<1>2. SearchInv' /\ rel' = rel /\ key' = key /\ mode' = mode
  BY <1>1, ProbeInv, LoopEndsInv, VerifyInv
     DEF Search, SearchStep, Probe, LoopEnds, Verify
<1>3. ScanTypeOK' BY <1>1 DEF ScanTypeOK
<1>4. pc' = "verify" => i' \in Nat
  BY <1>2 DEF SearchInv, SearchTypeOK
<1>5. pc' = "found" => result' \in Nat
  <2>1. SUFFICES ASSUME pc' = "found" PROVE result' \in Nat
    OBVIOUS
  <2>2. CASE Verify
    <3>1. mode = "int" /\ i \in Nat BY <1>1, <2>2 DEF SearchForStart, Verify
    <3>2. QED BY <2>2, <3>1 DEF Verify, Unequal
  <2>3. ~Probe /\ ~LoopEnds BY <2>1 DEF Probe, LoopEnds
  <2>4. QED BY <2>2, <2>3 DEF Search, SearchStep
<1>6. SearchForStart'
  BY <1>1, <1>2, <1>4, <1>5, SameMeaning DEF SearchForStart
<1>7. StartRight' /\ StopRight' /\ PlaceRight'
  BY <1>1 DEF StartRight, StopRight, PlaceRight
<1>8. AnswersInOrder' BY <1>1 DEF AnswersInOrder, Reading
<1>9. QED BY <1>2, <1>3, <1>6, <1>7, <1>8 DEF ScanInv

\* The search ends, with the first tuple to scan from.
LEMMA FoundInv ==
  ASSUME ScanInv, Found PROVE ScanInv'
<1>1. /\ SearchInv /\ ScanTypeOK /\ phase = "search" /\ SearchForStart /\ pc = "found"
      /\ cond' = cond /\ tuple_start' = result /\ filepos' = result
      /\ indexon' = indexon /\ stopat' = stopat /\ phase' = "stop" /\ out' = out
      /\ indexon = -1 /\ out = <<>> /\ UNCHANGED <<rel, local, pc>>
  BY DEF ScanInv, Found, StopRight, PlaceRight
<1>2. SeeksStart(cond) /\ key = StartAt(cond) /\ result \in Nat
  BY <1>1 DEF SearchForStart
<1>3. SearchInv' BY <1>1, <1>2, SearchKept
<1>4. ScanTypeOK' BY <1>1, <1>2 DEF ScanTypeOK
<1>5. \A j \in Positions : j < result <=> Key(j) < StartAt(cond)
  BY <1>1, <1>2 DEF SearchInv, FirstOccurrence, LowerBound
<1>6. StartRight' BY <1>1, <1>2, <1>5, SameMeaning DEF StartRight
<1>7. SearchForStart' /\ StopRight' /\ PlaceRight'
  BY <1>1 DEF SearchForStart, StopRight, PlaceRight
<1>8. AnswersInOrder' BY <1>1 DEF AnswersInOrder, Reading
<1>9. QED BY <1>3, <1>4, <1>6, <1>7, <1>8 DEF ScanInv

-----------------------------------------------------------------------------
\* Nothing has been selected from tuples none of which satisfies the condition.
LEMMA SelectedNone ==
  ASSUME NEW n \in Nat, \A j \in Positions : j < n => ~Matches(j)
  PROVE  Selected(<<>>, n)
<1>1. [k \in 1..0 |-> 0] \in [1..Len(<<>>) -> Positions] OBVIOUS
<1>2. Picks([k \in 1..0 |-> 0], <<>>, n) BY DEF Picks
<1>3. QED BY <1>1, <1>2 DEF Selected

\* A tuple that does not satisfy it changes nothing.
LEMMA SelectedSame ==
  ASSUME NEW n \in Nat, NEW o \in Seq(Tuple), Selected(o, n),
         n \in Positions => ~Matches(n)
  PROVE  Selected(o, n + 1)
<1>1. PICK f \in [1..Len(o) -> Positions] : Picks(f, o, n) BY DEF Selected
<1>2. Positions \subseteq Int BY DEF Positions
<1>3. \A j \in Positions : j < n + 1 /\ Matches(j) => j < n BY <1>2
<1>4. \A k \in 1..Len(o) : f[k] \in Int /\ f[k] < n => f[k] < n + 1 OBVIOUS
<1>5. \A k \in 1..Len(o) : f[k] \in Int BY <1>1, <1>2
<1>6. Picks(f, o, n + 1) BY <1>1, <1>3, <1>4, <1>5 DEF Picks
<1>7. QED BY <1>1, <1>6 DEF Selected

\* One that does is selected next.
LEMMA SelectedMore ==
  ASSUME NEW n \in Positions, NEW o \in Seq(Tuple), Selected(o, n), Matches(n)
  PROVE  Selected(Append(o, rel[n + 1]), n + 1)
<1>1. PICK f \in [1..Len(o) -> Positions] : Picks(f, o, n) BY DEF Selected
<1> DEFINE t == rel[n + 1]
           q == Append(o, t)
           g == [k \in 1..Len(q) |-> IF k = Len(q) THEN n ELSE f[k]]
<1>2. /\ Len(o) \in Nat /\ Len(q) = Len(o) + 1 /\ q[Len(q)] = t
      /\ \A k \in 1..Len(o) : q[k] = o[k]
  OBVIOUS
<1>3. Positions \subseteq Int /\ n \in Int BY DEF Positions
<1>4. g[Len(q)] = n /\ \A k \in 1..Len(o) : g[k] = f[k] /\ f[k] \in Positions /\ k \in 1..Len(q)
  BY <1>1, <1>2
<1>5. \A k \in 1..Len(q) : k = Len(q) \/ k \in 1..Len(o) BY <1>2
<1>6. g \in [1..Len(q) -> Positions] BY <1>1, <1>4, <1>5
<1>7. \A k \in 1..Len(o) : f[k] \in Int /\ f[k] < n BY <1>1, <1>3 DEF Picks
<1> HIDE DEF g, q, t
<1>8. \A k, l \in 1..Len(q) : k < l => g[k] < g[l]
  <2>1. SUFFICES ASSUME NEW k \in 1..Len(q), NEW l \in 1..Len(q), k < l
                 PROVE  g[k] < g[l]
    OBVIOUS
  <2>2. k \in 1..Len(o) BY <2>1, <1>2
  <2>3. CASE l = Len(q) BY <2>2, <2>3, <1>4, <1>7
  <2>4. CASE l \in 1..Len(o) BY <2>1, <2>2, <2>4, <1>1, <1>4 DEF Picks
  <2>5. QED BY <2>3, <2>4, <1>5
<1>9. \A k \in 1..Len(q) : q[k] = rel[g[k] + 1]
  <2>1. SUFFICES ASSUME NEW k \in 1..Len(q) PROVE q[k] = rel[g[k] + 1]
    OBVIOUS
  <2>2. CASE k = Len(q) BY <2>2, <1>2, <1>4 DEF t
  <2>3. CASE k \in 1..Len(o) BY <2>3, <1>1, <1>2, <1>4 DEF Picks
  <2>4. QED BY <2>2, <2>3, <1>5
<1>10. \A k \in 1..Len(q) : g[k] < n + 1 /\ Matches(g[k])
  <2>1. SUFFICES ASSUME NEW k \in 1..Len(q) PROVE g[k] < n + 1 /\ Matches(g[k])
    OBVIOUS
  <2>2. CASE k = Len(q) BY <2>2, <1>3, <1>4
  <2>3. CASE k \in 1..Len(o)
    <3>1. g[k] = f[k] /\ f[k] \in Int /\ f[k] < n BY <2>3, <1>4, <1>7
    <3>2. Matches(f[k]) BY <2>3, <1>1 DEF Picks
    <3>3. QED BY <3>1, <3>2, <1>3
  <2>4. QED BY <2>2, <2>3, <1>5
<1>11. \A j \in Positions : j < n + 1 /\ Matches(j) => \E k \in 1..Len(q) : g[k] = j
  <2>1. SUFFICES ASSUME NEW j \in Positions, j < n + 1, Matches(j)
                 PROVE  \E k \in 1..Len(q) : g[k] = j
    OBVIOUS
  <2>2. CASE j = n BY <2>2, <1>2, <1>4
  <2>3. CASE j < n
    <3>1. PICK k \in 1..Len(o) : f[k] = j BY <2>1, <2>3, <1>1 DEF Picks
    <3>2. QED BY <3>1, <1>4
  <2>4. QED BY <2>1, <2>2, <2>3, <1>3
<1>12. Picks(g, q, n + 1) BY <1>8, <1>9, <1>10, <1>11 DEF Picks
<1>13. Selected(q, n + 1) BY <1>6, <1>12 DEF Selected
<1>14. QED BY <1>13 DEF q, t

\* What the scan starts behind does not satisfy the condition.
LEMMA NoneBefore ==
  ASSUME ScanInv, phase \in {"stop", "scan", "end"}, Plain(cond),
         NEW j \in Positions, j < tuple_start
  PROVE  ~Matches(j)
<1>1. SeeksStart(cond)
  BY DEF ScanInv, StartRight, Positions
<1>2. Key(j) < StartAt(cond)
  BY <1>1 DEF ScanInv, StartRight
<1>3. QED BY <1>1, <1>2, StartSkips DEF ScanInv

\* The same for the stop value: it is not reached there.
LEMMA BelowStop ==
  ASSUME ScanInv, phase \in {"stop", "scan", "end"}, StopsEarly(cond),
         NEW j \in Positions, j < tuple_start
  PROVE  Key(j) < StopValue(cond)
<1>1. SeeksStart(cond)
  BY DEF ScanInv, StartRight, Positions
<1>2. Key(j) < StartAt(cond)
  BY <1>1 DEF ScanInv, StartRight
<1>3. cond.op = "EQ" BY <1>1 DEF SeeksStart, StopsEarly
<1>4. cond.val \in Int /\ Key(j) \in Int BY Typed DEF ScanInv
<1>5. QED BY <1>2, <1>3, <1>4 DEF StartAt, StopValue

\* The stop value is set, and the scan is ready to be read.
LEMMA SetStopInv ==
  ASSUME ScanInv, SetStop PROVE ScanInv'
<1>1. /\ SearchInv /\ ScanTypeOK /\ phase = "stop" /\ phase' = "scan"
      /\ UNCHANGED searchVars /\ cond' = cond /\ tuple_start' = tuple_start /\ out' = out
      /\ filepos = tuple_start /\ out = <<>> /\ indexon = -1
  BY DEF ScanInv, SetStop, StopRight, PlaceRight
<1>2. rel' = rel /\ filepos' = filepos /\ UNCHANGED <<rel, local, pc>>
  BY <1>1 DEF searchVars
<1>3. filepos \in Nat /\ StopValue(cond) \in Int BY <1>1, Typed
<1>4. SearchInv' BY <1>1, <1>2, <1>3, SearchKept
<1>5. /\ StopsEarly(cond) => stopat' = StopValue(cond) /\ indexon' = WhichIndex
      /\ ~StopsEarly(cond) => stopat' = stopat /\ indexon' = indexon
  BY DEF SetStop, StopsEarly
<1>6. ScanTypeOK'
  <2>1. WhichIndex \in Nat BY ScanAssumption
  <2>2. indexon' \in {indexon, WhichIndex} /\ stopat' \in {stopat, StopValue(cond)}
    BY <1>5
  <2>3. indexon \in Int /\ stopat \in Int BY <1>1 DEF ScanTypeOK
  <2>4. QED BY <1>1, <1>3, <2>1, <2>2, <2>3 DEF ScanTypeOK
<1>7. SearchForStart' BY <1>1 DEF SearchForStart
<1>8. StartRight' BY <1>1, <1>2, SameMeaning DEF ScanInv, StartRight
<1>9. StopRight' BY <1>1, <1>2, <1>5, SameMeaning DEF StopRight
<1>10. PlaceRight'
  BY <1>1, <1>2, <1>3, SameMeaning, BelowStop DEF PlaceRight
<1>11. AnswersInOrder'
  <2>1. Plain(cond) => Selected(<<>>, filepos)
    BY <1>1, <1>3, NoneBefore, SelectedNone
  <2>2. QED BY <1>1, <1>2, <2>1, SameMeaning DEF AnswersInOrder
<1>12. QED BY <1>4, <1>6, <1>7, <1>8, <1>9, <1>10, <1>11 DEF ScanInv

\* The parts of the invariant that a step of the reading scan leaves alone.
LEMMA ReadingKeeps ==
  ASSUME ScanInv, Reading, phase' \in {"scan", "end"}, filepos' \in Nat, out' \in Seq(Tuple),
         UNCHANGED <<rel, local, pc, cond, tuple_start, indexon, stopat>>
  PROVE  /\ SearchInv' /\ ScanTypeOK' /\ SearchForStart' /\ StartRight' /\ StopRight'
<1>1. SearchInv' BY SearchKept DEF ScanInv
<1>2. ScanTypeOK' BY DEF ScanInv, ScanTypeOK
<1>3. SearchForStart' BY DEF SearchForStart
<1>4. phase \in {"scan", "end"} BY DEF Reading
<1>5. StartRight' BY <1>4, SameMeaning DEF ScanInv, StartRight
<1>6. StopRight' BY <1>4, SameMeaning DEF ScanInv, StopRight
<1>7. QED BY <1>1, <1>2, <1>3, <1>5, <1>6

\* What the scan stops at is not below the stop value, and the other way round,
\* if the number of the index is the position of its attribute.
LEMMA StopsThere ==
  ASSUME ScanInv, Reading, WhichIndex = IndexAttr, NEW j \in Positions
  PROVE  AtStop(rel[j + 1]) <=> StopsEarly(cond) /\ Key(j) >= StopValue(cond)
<1>1. CASE StopsEarly(cond)
  <2>1. indexon = IndexAttr /\ stopat = StopValue(cond)
    BY <1>1 DEF ScanInv, StopRight, Reading
  <2>2. IndexAttr \in Nat BY SearchAssumption
  <2>3. QED BY <1>1, <2>1, <2>2 DEF AtStop, Key
<1>2. CASE ~StopsEarly(cond)
  BY <1>2 DEF ScanInv, StopRight, Reading, AtStop
<1>3. QED BY <1>1, <1>2

\* A tuple is read: kept, dropped, or stopped at.
LEMMA NextTupleInv ==
  ASSUME ScanInv, NextTuple, WhichIndex = IndexAttr PROVE ScanInv'
<1> DEFINE t == rel[filepos + 1]
<1>1. /\ SearchInv /\ ScanTypeOK /\ Reading /\ filepos \in Positions /\ filepos' = filepos + 1
      /\ UNCHANGED <<rel, local, pc, cond, tuple_start, indexon, stopat>>
      /\ tuple_start \in Nat /\ out \in Seq(Tuple)
  BY DEF ScanInv, NextTuple, ScanTypeOK
<1>2. /\ filepos \in Nat /\ t \in Tuple /\ StopValue(cond) \in Int
      /\ \A j \in Positions : Key(j) \in Int
      /\ \A j, k \in Positions : j <= k => Key(j) <= Key(k)
  BY <1>1, Typed
<1>3. Positions \subseteq Int BY DEF Positions
<1>4. phase \in {"scan", "end"} /\ filepos >= tuple_start
  BY <1>1 DEF ScanInv, PlaceRight, Reading
<1>5. AtStop(t) <=> StopsEarly(cond) /\ Key(filepos) >= StopValue(cond)
  BY <1>1, StopsThere
<1>6. Plain(cond) => Selected(out, filepos)
                     /\ (phase = "end" => \A j \in Positions : j >= filepos => ~Matches(j))
  BY <1>1 DEF ScanInv, AnswersInOrder
<1>7. CASE AtStop(t) /\ phase' = "end" /\ UNCHANGED out
  <2>1. SearchInv' /\ ScanTypeOK' /\ SearchForStart' /\ StartRight' /\ StopRight'
    BY <1>1, <1>2, <1>7, ReadingKeeps
  <2>2. PlaceRight' BY <1>1, <1>2, <1>4, <1>7 DEF PlaceRight
  <2>3. ASSUME Plain(cond), NEW j \in Positions, j >= filepos PROVE ~Matches(j)
    <3>1. Key(filepos) <= Key(j) /\ Key(j) \in Int /\ Key(filepos) \in Int
      BY <1>1, <1>2, <2>3
    <3>2. StopsEarly(cond) /\ Key(filepos) >= StopValue(cond) BY <1>5, <1>7
    <3>3. Key(j) >= StopValue(cond) BY <3>1, <3>2, <1>2
    <3>4. QED BY <1>1, <2>3, <3>2, <3>3, StopSkips
  <2>4. Plain(cond) => Selected(out, filepos + 1)
    BY <1>1, <1>2, <1>6, <2>3, SelectedSame
  <2>5. Plain(cond) => \A j \in Positions : j >= filepos + 1 => ~Matches(j)
    BY <1>2, <1>3, <2>3
  <2>6. AnswersInOrder'
    BY <1>1, <1>7, <2>4, <2>5, SameMeaning DEF AnswersInOrder
  <2>7. QED BY <2>1, <2>2, <2>6 DEF ScanInv
<1>8. CASE /\ ~AtStop(t) /\ UNCHANGED phase
           /\ \/ Holds(cond, t) /\ out' = Append(out, t)
              \/ ~Holds(cond, t) /\ UNCHANGED out
  <2>1. out' \in Seq(Tuple) BY <1>1, <1>2, <1>8
  <2>2. SearchInv' /\ ScanTypeOK' /\ SearchForStart' /\ StartRight' /\ StopRight'
    BY <1>1, <1>2, <1>4, <1>8, <2>1, ReadingKeeps
  <2>3. ASSUME phase = "scan", StopsEarly(cond), NEW j \in Positions, j < filepos + 1
        PROVE  Key(j) < StopValue(cond)
    <3>1. Key(filepos) < StopValue(cond) BY <1>1, <1>2, <1>5, <1>8, <2>3
    <3>2. j < filepos => Key(j) < StopValue(cond) BY <2>3 DEF ScanInv, PlaceRight
    <3>3. j < filepos \/ j = filepos BY <2>3, <1>2, <1>3
    <3>4. QED BY <3>1, <3>2, <3>3
  <2>4. PlaceRight'
    <3>1. filepos' = filepos + 1 /\ phase' = phase /\ filepos' >= tuple_start'
      BY <1>1, <1>2, <1>4, <1>8
    <3>2. phase' = "scan" /\ StopsEarly(cond)' =>
            \A j \in Positions' : j < filepos' => Key(j)' < StopValue(cond)'
      BY <1>1, <2>3, <3>1, SameMeaning
    <3>3. QED BY <1>4, <3>1, <3>2 DEF PlaceRight
  <2>5. Plain(cond) => Selected(out', filepos + 1)
    <3>1. Matches(filepos) <=> Holds(cond, t) BY DEF Matches
    <3>2. QED BY <1>1, <1>2, <1>6, <1>8, <3>1, SelectedSame, SelectedMore
  <2>6. \A j \in Positions : j >= filepos + 1 => j >= filepos BY <1>2, <1>3
  <2>7. AnswersInOrder'
    BY <1>1, <1>6, <1>8, <2>5, <2>6, SameMeaning DEF AnswersInOrder
  <2>8. QED BY <2>2, <2>4, <2>7 DEF ScanInv
<1>9. QED BY <1>7, <1>8 DEF NextTuple

\* There is no tuple left.
LEMMA EndOfFileInv ==
  ASSUME ScanInv, EndOfFile PROVE ScanInv'
<1>1. /\ SearchInv /\ ScanTypeOK /\ Reading /\ filepos \notin Positions /\ phase' = "end"
      /\ UNCHANGED <<searchVars, cond, tuple_start, indexon, stopat, out>>
      /\ out \in Seq(Tuple)
  BY DEF ScanInv, EndOfFile, ScanTypeOK
<1>2. rel' = rel /\ filepos' = filepos /\ UNCHANGED <<rel, local, pc>>
  BY <1>1 DEF searchVars
<1>3. filepos \in Nat /\ Len(rel) \in Nat BY <1>1, Typed
<1>4. SearchInv' /\ ScanTypeOK' /\ SearchForStart' /\ StartRight' /\ StopRight'
  BY <1>1, <1>2, <1>3, ReadingKeeps
<1>5. PlaceRight' BY <1>1, <1>2 DEF ScanInv, PlaceRight, Reading
<1>6. \A j \in Positions : ~(j >= filepos) BY <1>1, <1>3 DEF Positions
<1>7. AnswersInOrder'
  BY <1>1, <1>2, <1>6, SameMeaning DEF ScanInv, AnswersInOrder
<1>8. QED BY <1>4, <1>5, <1>7 DEF ScanInv

\* Back to where the first reading began.
LEMMA RewindInv ==
  ASSUME ScanInv, Rewind PROVE ScanInv'
<1>1. /\ SearchInv /\ ScanTypeOK /\ Reading /\ filepos' = tuple_start /\ phase' = "scan"
      /\ out' = <<>> /\ UNCHANGED <<rel, local, pc, cond, tuple_start, indexon, stopat>>
      /\ tuple_start \in Nat
  BY DEF ScanInv, Rewind, RewindTo, ScanTypeOK
<1>2. SearchInv' /\ ScanTypeOK' /\ SearchForStart' /\ StartRight' /\ StopRight'
  BY <1>1, ReadingKeeps
<1>3. phase \in {"scan", "end"} BY <1>1 DEF Reading
<1>4. PlaceRight'
  BY <1>1, <1>3, BelowStop, SameMeaning DEF PlaceRight
<1>5. Plain(cond) => Selected(<<>>, tuple_start)
  BY <1>1, <1>3, NoneBefore, SelectedNone
<1>6. AnswersInOrder'
  BY <1>1, <1>5, SameMeaning DEF AnswersInOrder
<1>7. QED BY <1>2, <1>4, <1>6 DEF ScanInv

\* Every step keeps the invariant.
LEMMA ScanStepInv ==
  ASSUME ScanInv, [ScanNext]_vars, WhichIndex = IndexAttr PROVE ScanInv'
<1>1. CASE UNCHANGED vars
  <2>1. /\ rel' = rel /\ cond' = cond /\ filepos' = filepos /\ out' = out /\ phase' = phase
        /\ tuple_start' = tuple_start /\ indexon' = indexon /\ stopat' = stopat
        /\ key' = key /\ mode' = mode /\ i' = i /\ result' = result /\ pc' = pc
        /\ UNCHANGED <<rel, local, pc>>
    BY <1>1 DEF vars, searchVars, scanVars, local
  <2>2. SearchInv' BY <2>1, SearchKept, Typed DEF ScanInv
  <2>3. ScanTypeOK' BY <2>1 DEF ScanInv, ScanTypeOK
  <2>4. SearchForStart' BY <2>1, SameMeaning DEF ScanInv, SearchForStart
  <2>5. StartRight' BY <2>1, SameMeaning DEF ScanInv, StartRight
  <2>6. StopRight' BY <2>1, SameMeaning DEF ScanInv, StopRight
  <2>7. PlaceRight' BY <2>1, SameMeaning DEF ScanInv, PlaceRight
  <2>8. AnswersInOrder'
    BY <2>1, SameMeaning DEF ScanInv, AnswersInOrder, Reading
  <2>9. QED BY <2>2, <2>3, <2>4, <2>5, <2>6, <2>7, <2>8 DEF ScanInv
<1>2. CASE SetStart BY <1>2, SetStartInv
<1>3. CASE Search BY <1>3, SearchingInv
<1>4. CASE Found BY <1>4, FoundInv
<1>5. CASE SetStop BY <1>5, SetStopInv
<1>6. CASE NextTuple BY <1>6, NextTupleInv
<1>7. CASE EndOfFile BY <1>7, EndOfFileInv
<1>8. CASE Rewind BY <1>8, RewindInv
<1>9. QED
  BY <1>1, <1>2, <1>3, <1>4, <1>5, <1>6, <1>7, <1>8 DEF ScanNext, Advance

-----------------------------------------------------------------------------
\* next_scan compares the attribute whose position is the number of the index
\* (dbparser.c:1515), which has to be the indexed one.
LEMMA ScanInvariance ==
  ASSUME WhichIndex = IndexAttr PROVE ScanSpec => []ScanInv
<1>1. ScanInv /\ [ScanNext]_vars => ScanInv' BY ScanStepInv
<1>2. QED BY <1>1, ScanInitInv, PTL DEF ScanSpec

\* What has been selected as far as a place behind which nothing satisfies the
\* condition has been selected from all there is.
LEMMA SelectedAll ==
  ASSUME NEW o, NEW n \in Nat, NEW m \in Nat, Selected(o, n),
         \A j \in Positions : Matches(j) => (j < n <=> j < m)
  PROVE  Selected(o, m)
<1>1. PICK f \in [1..Len(o) -> Positions] : Picks(f, o, n) BY DEF Selected
<1>2. \A k \in 1..Len(o) : f[k] \in Positions BY <1>1
<1>3. Picks(f, o, m) BY <1>1, <1>2 DEF Picks
<1>4. QED BY <1>1, <1>3 DEF Selected

\* An indexed scan answers the query, for every sorted relation and condition
\* with its attribute first: a select over it returns the tuples that satisfy
\* the condition, each once and in the order of the relation, and has returned
\* all when it returns 0.
THEOREM AnswersQuery ==
  ASSUME WhichIndex = IndexAttr, \A c \in Conditions : Plain(c)
  PROVE  ScanSpec => []SameAnswer
<1>1. ASSUME ScanInv PROVE SameAnswer
  <2>1. Plain(cond) /\ Len(rel) \in Nat /\ filepos \in Nat
    BY <1>1, Typed DEF ScanInv, ScanTypeOK
  <2>2. \A j \in Positions : j < Len(rel) /\ j \in Nat
    BY <2>1 DEF Positions
  <2>3. CASE ~Reading
    <3>1. out = <<>> /\ phase # "end"
      BY <1>1, <2>3 DEF ScanInv, ScanTypeOK, PlaceRight, Reading
    <3>2. Selected(<<>>, 0)
      BY <2>2, SelectedNone
    <3>3. 0 \in 0..Len(rel)
      BY <2>1
    <3>4. QED
      BY <3>1, <3>2, <3>3 DEF SameAnswer
  <2>4. CASE Reading /\ (phase = "end" \/ filepos > Len(rel))
    <3>1. /\ Selected(out, filepos)
          /\ phase = "end" => \A j \in Positions : j >= filepos => ~Matches(j)
      BY <1>1, <2>1, <2>4 DEF ScanInv, AnswersInOrder
    <3>2. \A j \in Positions : Matches(j) => (j < filepos <=> j < Len(rel))
      BY <2>1, <2>2, <2>4, <3>1
    <3>3. Selected(out, Len(rel))
      BY <2>1, <3>1, <3>2, SelectedAll
    <3>4. Len(rel) \in 0..Len(rel)
      BY <2>1
    <3>5. QED
      BY <3>3, <3>4 DEF SameAnswer
  <2>5. CASE Reading /\ phase # "end" /\ filepos <= Len(rel)
    <3>1. Selected(out, filepos) /\ filepos \in 0..Len(rel)
      BY <1>1, <2>1, <2>5 DEF ScanInv, AnswersInOrder
    <3>2. QED
      BY <2>5, <3>1 DEF SameAnswer
  <2>6. QED
    BY <2>1, <2>3, <2>4, <2>5
<1>2. QED
  BY <1>1, ScanInvariance, PTL

\* It begins at the first tuple that can satisfy the condition, and goes on to
\* none behind the first that is past the stop value.
THEOREM WastesNothing ==
  ASSUME WhichIndex = IndexAttr PROVE ScanSpec => []NoWaste
<1>1. ASSUME ScanInv, Reading, Indexable(cond), cond.op \in {"EQ", "GT", "GTE"},
             NEW j \in Positions
      PROVE  j < tuple_start <=>
             ~Compare(IF cond.op = "GT" THEN "GT" ELSE "GTE", Key(j), cond.val)
  <2>1. cond.val \in Int /\ Key(j) \in Int BY <1>1, Typed DEF ScanInv
  <2>2. j < tuple_start <=> Key(j) < StartAt(cond)
    BY <1>1 DEF ScanInv, StartRight, SeeksStart, Reading
  <2>3. CASE cond.op = "GT" BY <2>1, <2>2, <2>3 DEF StartAt, Compare
  <2>4. CASE cond.op # "GT" BY <2>1, <2>2, <2>4 DEF StartAt, Compare
  <2>5. QED BY <2>3, <2>4
<1>2. ASSUME ScanInv, phase = "scan", Indexable(cond), cond.op \in {"EQ", "LT", "LTE"},
             NEW j \in Positions, j < filepos
      PROVE  Compare(IF cond.op = "LT" THEN "LT" ELSE "LTE", Key(j), cond.val)
  <2>1. cond.val \in Int /\ Key(j) \in Int BY <1>2, Typed DEF ScanInv
  <2>2. Key(j) < StopValue(cond)
    BY <1>2 DEF ScanInv, PlaceRight, StopsEarly
  <2>3. CASE cond.op = "LT" BY <2>1, <2>2, <2>3 DEF StopValue, Compare
  <2>4. CASE cond.op # "LT" BY <2>1, <2>2, <2>4 DEF StopValue, Compare
  <2>5. QED BY <2>3, <2>4
<1>3. ScanInv => NoWaste BY <1>1, <1>2 DEF NoWaste
<1>4. QED BY <1>3, ScanInvariance, PTL

-----------------------------------------------------------------------------
(* The joins.                                                              *)

\* The invariant.
JoinTypeOK ==
  /\ outer \in Outers /\ plan \in Plans
  /\ outer # <<>> \/ plan # [cond |-> "EQ", index |-> "none"]
  /\ type \in {"NTJOIN", "OSIJOIN"}
  /\ opos \in Nat /\ ut \in Int /\ more \in BOOLEAN
  /\ stage \in {"init", "setup", "find", "run"}

\* Before the first next nothing is returned, and a nested-tuple join stands at
\* the start of both relations.
NotYet ==
  stage \in {"init", "setup"} =>
    /\ pairs = <<>> /\ type = "NTJOIN"
    /\ plan.index # "left" => filepos = 0
    /\ stage = "setup" /\ plan.index # "left" => opos = IF more THEN 1 ELSE 0

\* The tuple of outer is the one its file has just passed.
OuterRight ==
  stage = "init" \/ (stage = "setup" /\ plan.index = "left") \/
  IF more THEN opos \in 1..Len(outer) /\ ut = outer[opos]
          ELSE opos = Len(outer)

\* Where the join stands: at a tuple of outer, or behind the last; and at a tuple of
\* rel, the first one as long as it is being searched.
Row == IF more THEN opos ELSE opos + 1
Column == IF more /\ stage = "run" THEN filepos ELSE 0

\* What has been returned is as much of the answer as the join has passed.
Delivered ==
  stage \in {"find", "run"} =>
    pairs = SubSeq(Answer, 1, Cardinality(Passed(Row, Column)))

\* An index join searches for the tuple of outer, and then stands before all that
\* join with it, or none do.
Ahead ==
  /\ type = "OSIJOIN" => plan.cond = "EQ"
  /\ stage = "find" =>
       /\ type = "OSIJOIN" /\ key = ut /\ mode = "tuple"
       /\ pc = "verify" => i >= 0
       /\ pc = "found" /\ result # -1 => filepos = result
  /\ stage = "run" /\ type = "OSIJOIN" /\ more =>
       \/ \A j \in Positions : j >= filepos => ut <= Key(j)
       \/ \A j \in Positions : Key(j) # ut

JoinInv ==
  SearchInv /\ JoinTypeOK /\ NotYet /\ OuterRight /\ Delivered /\ Ahead

-----------------------------------------------------------------------------
\* Types.
LEMMA JoinTyped ==
  ASSUME SearchInv, JoinTypeOK
  PROVE  /\ rel \in Relations /\ Len(rel) \in Nat /\ filepos \in Nat
         /\ outer \in Seq(Int) /\ Len(outer) \in Nat
         /\ plan.cond \in {"EQ", "LT"} /\ plan.index \in {"none", "left", "right"}
         /\ plan.index = "left" => plan.cond = "EQ"
         /\ plan = [cond |-> plan.cond, index |-> plan.index]
         /\ \A j \in Positions : Key(j) \in Int /\ Key(j) = rel[j + 1][IndexAttr]
         /\ \A j, k \in Positions : j <= k => Key(j) <= Key(k)
<1>1. rel \in Relations /\ filepos \in Nat
  BY DEF SearchInv, SearchTypeOK
<1>2. outer \in Seq(Int) /\ Len(outer) \in Nat
  BY JoinAssumption DEF JoinTypeOK
<1>3. plan \in [cond : {"EQ", "LT"}, index : {"none", "left", "right"}]
  BY JoinAssumption DEF JoinTypeOK
<1>4. plan.index = "left" => plan.cond = "EQ"
  BY JoinAssumption DEF JoinTypeOK
<1>5. /\ plan.cond \in {"EQ", "LT"} /\ plan.index \in {"none", "left", "right"}
      /\ plan = [cond |-> plan.cond, index |-> plan.index]
  BY <1>3
<1> QED
  BY <1>1, <1>2, <1>4, <1>5, RelationSorted DEF Key

\* The answer stays what it is.
LEMMA Fixed ==
  ASSUME UNCHANGED <<rel, outer, plan>>
  PROVE  /\ Answer' = Answer /\ Joining' = Joining
         /\ Positions' = Positions /\ \A j : Key(j)' = Key(j)
         /\ \A u, t : On(u, t)' <=> On(u, t)
<1>1. Positions' = Positions
  BY DEF Positions
<1>2. \A u, t : On(u, t)' <=> On(u, t)
  BY DEF On
<1>3. Joining' = Joining
  BY <1>1, <1>2 DEF Joining
<1>4. \A p : PairAt(p)' = PairAt(p)
  BY DEF PairAt, Pair
<1>5. \A k, j : Passed(k, j)' = Passed(k, j)
  BY <1>3 DEF Passed
<1>6. \A n : Nth(n)' = Nth(n)
  BY <1>3, <1>5 DEF Nth
<1>7. Answer' = Answer
  BY <1>3, <1>4, <1>6 DEF Answer
<1> QED
  BY <1>1, <1>2, <1>3, <1>7 DEF Key

-----------------------------------------------------------------------------
\* The pairs that have been passed are finitely many.
LEMMA PassedFinite ==
  ASSUME SearchInv, JoinTypeOK
  PROVE  /\ IsFiniteSet(Joining) /\ Cardinality(Joining) \in Nat
         /\ \A k, j : /\ IsFiniteSet(Passed(k, j))
                      /\ Cardinality(Passed(k, j)) \in Nat
                      /\ Cardinality(Passed(k, j)) <= Cardinality(Joining)
<1>1. IsFiniteSet(1..Len(outer)) /\ IsFiniteSet(Positions)
  <2>1. Len(outer) \in Int /\ Len(rel) - 1 \in Int
    BY JoinTyped
  <2>2. IsFiniteSet(1..Len(outer)) /\ IsFiniteSet(0..(Len(rel) - 1))
    BY <2>1, FS_Interval
  <2> QED
    BY <2>2 DEF Positions
<1>2. IsFiniteSet((1..Len(outer)) \X Positions)
  BY <1>1, FS_Product
<1>3. Joining \subseteq (1..Len(outer)) \X Positions
  BY DEF Joining
<1>4. IsFiniteSet(Joining)
  BY <1>2, <1>3, FS_Subset
<1>5. \A k, j : Passed(k, j) \subseteq Joining
  BY DEF Passed
<1> QED
  BY <1>4, <1>5, FS_Subset, FS_CardinalityType

\* No two pairs have as many before them.
LEMMA RankUnique ==
  ASSUME SearchInv, JoinTypeOK, NEW p \in Joining, NEW q \in Joining,
         Cardinality(Passed(p[1], p[2])) = Cardinality(Passed(q[1], q[2]))
  PROVE  p = q
<1>1. /\ p = <<p[1], p[2]>> /\ q = <<q[1], q[2]>>
      /\ p[1] \in Int /\ p[2] \in Int /\ q[1] \in Int /\ q[2] \in Int
      /\ \A r \in Joining : r[1] \in Int /\ r[2] \in Int
  BY DEF Joining, Positions
<1>2. ASSUME NEW a \in Joining, NEW b \in Joining,
             a[1] < b[1] \/ (a[1] = b[1] /\ a[2] < b[2])
      PROVE  Cardinality(Passed(a[1], a[2])) # Cardinality(Passed(b[1], b[2]))
  <2>1. /\ a[1] \in Int /\ a[2] \in Int /\ b[1] \in Int /\ b[2] \in Int
    BY <1>1
  <2>2. Passed(a[1], a[2]) \subseteq Passed(b[1], b[2])
    BY <1>1, <1>2, <2>1 DEF Passed
  <2>3. a \in Passed(b[1], b[2]) /\ a \notin Passed(a[1], a[2])
    BY <1>2, <2>1 DEF Passed
  <2>4. Passed(a[1], a[2]) # Passed(b[1], b[2])
    BY <2>3
  <2> QED
    BY <2>2, <2>4, PassedFinite, FS_Subset
<1>3. \/ p[1] < q[1] \/ (p[1] = q[1] /\ p[2] < q[2])
      \/ q[1] < p[1] \/ (q[1] = p[1] /\ q[2] < p[2])
      \/ p[1] = q[1] /\ p[2] = q[2]
  BY <1>1
<1> QED
  BY <1>1, <1>2, <1>3

\* Each joining pair is in the answer, behind those before it.
LEMMA InAnswer ==
  ASSUME SearchInv, JoinTypeOK, NEW p \in Joining
  PROVE  LET n == Cardinality(Passed(p[1], p[2])) + 1
         IN n \in 1..Cardinality(Joining) /\ Answer[n] = PairAt(p)
<1> DEFINE c == Cardinality(Passed(p[1], p[2]))
           n == c + 1
<1>1. c \in Nat /\ Cardinality(Joining) \in Nat /\ c <= Cardinality(Joining)
  BY PassedFinite
<1>2. c # Cardinality(Joining)
  <2>1. p \notin Passed(p[1], p[2])
    BY DEF Passed, Joining, Positions
  <2>2. Passed(p[1], p[2]) \subseteq Joining /\ Passed(p[1], p[2]) # Joining
    BY <2>1 DEF Passed
  <2> QED
    BY <2>2, PassedFinite, FS_Subset
<1>3. n \in 1..Cardinality(Joining) /\ n - 1 = c
  BY <1>1, <1>2
<1>4. Nth(n) \in Joining /\ Cardinality(Passed(Nth(n)[1], Nth(n)[2])) = c
  <2>1. \E q \in Joining : Cardinality(Passed(q[1], q[2])) = n - 1
    BY <1>3
  <2> HIDE DEF n
  <2>2. Nth(n) \in Joining /\ Cardinality(Passed(Nth(n)[1], Nth(n)[2])) = n - 1
    BY <2>1 DEF Nth
  <2> QED
    BY <1>3, <2>2
<1>5. Nth(n) = p
  BY <1>4, RankUnique
<1>6. Answer[n] = PairAt(p)
  BY <1>3, <1>5 DEF Answer
<1> QED
  BY <1>3, <1>6

-----------------------------------------------------------------------------
\* Going on by one tuple of rel.
LEMMA PassedOne ==
  ASSUME SearchInv, JoinTypeOK, NEW k \in 1..Len(outer), NEW j \in Positions,
         NEW l, l = j + 1
  PROVE  /\ On(outer[k], rel[l]) =>
              /\ <<k, j>> \in Joining
              /\ Cardinality(Passed(k, l)) = Cardinality(Passed(k, j)) + 1
         /\ ~On(outer[k], rel[l]) => Passed(k, l) = Passed(k, j)
<1>1. k \in Int /\ j \in Int /\ l \in Int
  BY DEF Positions
<1>2. \A p \in Joining : /\ p[1] \in Int /\ p[2] \in Int /\ p = <<p[1], p[2]>>
                         /\ On(outer[p[1]], rel[p[2] + 1])
  BY DEF Joining, Positions
<1>3. \A p \in Joining : p \in Passed(k, l) <=> p \in Passed(k, j) \/ p = <<k, j>>
  BY <1>1, <1>2 DEF Passed
<1>4. Passed(k, l) \subseteq Joining /\ Passed(k, j) \subseteq Joining
  BY DEF Passed
<1>5. CASE On(outer[k], rel[l])
  <2>1. <<k, j>> \in Joining
    BY <1>5 DEF Joining
  <2>2. <<k, j>> \notin Passed(k, j)
    BY <1>1 DEF Passed
  <2>3. Passed(k, l) = Passed(k, j) \cup {<<k, j>>}
    BY <1>3, <1>4, <2>1
  <2>4. Cardinality(Passed(k, l)) = Cardinality(Passed(k, j)) + 1
    BY <2>2, <2>3, PassedFinite, FS_AddElement
  <2> QED
    BY <1>5, <2>1, <2>4
<1>6. CASE ~On(outer[k], rel[l])
  <2>1. <<k, j>> \notin Joining
    BY <1>2, <1>6
  <2>2. Passed(k, l) = Passed(k, j)
    BY <1>3, <1>4, <2>1
  <2> QED
    BY <1>6, <2>2
<1> QED
  BY <1>5, <1>6

\* Where no tuples join there is nothing to pass.
LEMMA PassedNone ==
  ASSUME SearchInv, JoinTypeOK, NEW k \in Int, NEW j \in Int, NEW l \in Int, j <= l,
         \A m \in Positions : j <= m /\ m < l => ~On(outer[k], rel[m + 1])
  PROVE  Passed(k, j) = Passed(k, l)
<1>1. \A p \in Joining : /\ p[1] \in Int /\ p[2] \in Positions /\ p[2] \in Int
                         /\ On(outer[p[1]], rel[p[2] + 1])
  BY DEF Joining, Positions
<1> QED
  BY <1>1 DEF Passed

LEMMA PassedRow ==
  ASSUME SearchInv, JoinTypeOK, NEW k \in Int, NEW j \in Int,
         \A m \in Positions : j <= m => ~On(outer[k], rel[m + 1])
  PROVE  Passed(k, j) = Passed(k + 1, 0)
<1>1. \A p \in Joining : /\ p[1] \in Int /\ p[2] \in Positions /\ p[2] \in Int
                         /\ p[2] >= 0
                         /\ On(outer[p[1]], rel[p[2] + 1])
  BY DEF Joining, Positions
<1>2. \A p \in Joining : p \in Passed(k, j) <=> p \in Passed(k + 1, 0)
  BY <1>1 DEF Passed
<1> QED
  BY <1>2 DEF Passed

LEMMA PassedEnds ==
  ASSUME SearchInv, JoinTypeOK
  PROVE  /\ Passed(1, 0) = {} /\ Cardinality(Passed(1, 0)) = 0
         /\ Passed(Len(outer) + 1, 0) = Joining
<1>1. \A p \in Joining : /\ p[1] \in 1..Len(outer) /\ p[2] \in Int /\ p[2] >= 0
  BY DEF Joining, Positions
<1>2. Len(outer) \in Nat
  BY JoinTyped
<1>3. Passed(1, 0) = {}
  BY <1>1, <1>2 DEF Passed
<1>4. Passed(Len(outer) + 1, 0) = Joining
  BY <1>1, <1>2 DEF Passed
<1> QED
  BY <1>3, <1>4, FS_EmptySet

-----------------------------------------------------------------------------
\* The answer is a sequence; its prefixes.
LEMMA AnswerSeq ==
  ASSUME SearchInv, JoinTypeOK
  PROVE  /\ Answer \in Seq({Answer[n] : n \in 1..Cardinality(Joining)})
         /\ Len(Answer) = Cardinality(Joining)
<1> DEFINE N == Cardinality(Joining)
           S == {Answer[n] : n \in 1..N}
<1>1. N \in Nat
  BY PassedFinite
<1>2. DOMAIN Answer = 1..N /\ Answer = [n \in 1..N |-> Answer[n]]
  BY DEF Answer
<1> HIDE DEF N
<1>3. \A n \in 1..N : Answer[n] \in S
  OBVIOUS
<1> HIDE DEF S
<1>4. Answer \in [1..N -> S]
  BY <1>2, <1>3
<1>5. Answer \in Seq(S) /\ Len(Answer) = N
  BY <1>1, <1>4
<1> QED
  BY <1>5 DEF N, S

\* The next pair of the answer is returned.
LEMMA GivesNext ==
  ASSUME SearchInv, JoinTypeOK, NEW n \in 1..Cardinality(Joining),
         pairs = SubSeq(Answer, 1, n - 1), pairs' = Append(pairs, Answer[n]),
         UNCHANGED <<rel, outer, plan, over>>
  PROVE  Stream!Give /\ pairs' = SubSeq(Answer, 1, n)
<1> DEFINE S == {Answer[m] : m \in 1..Cardinality(Joining)}
           a == Answer
<1>1. a \in Seq(S) /\ Len(a) = Cardinality(Joining) /\ n \in 1..Len(a)
  BY AnswerSeq
<1>2. a' = a
  BY Fixed
<1> HIDE DEF S, a
<1>3. pairs = SubSeq(a, 1, n - 1) /\ pairs' = Append(pairs, a[n])
  BY DEF a
<1>4. /\ Len(pairs) = n - 1 /\ Len(a) \in Nat /\ n \in Nat
      /\ pairs' = SubSeq(a, 1, n)
  BY <1>1, <1>3
<1>5. SubSeq(pairs, 1, Len(pairs)) = SubSeq(a, 1, Len(pairs))
  BY <1>1, <1>3, <1>4
<1>6. pairs # a /\ Len(pairs) <= Len(a) /\ Len(pairs) + 1 = n
  BY <1>1, <1>4
<1>7. Stream!IsStrictPrefix(pairs, a)
  BY <1>5, <1>6 DEF Stream!IsStrictPrefix, Stream!IsPrefix
<1>8. Stream!Give
  BY <1>2, <1>4, <1>6, <1>7 DEF Stream!Give, a
<1> QED
  BY <1>4, <1>8 DEF a

\* A step of the join that returns nothing, to where it then stands.
LEMMA DeliveredNext ==
  ASSUME UNCHANGED <<rel, outer, plan>>, NEW k, NEW j, Row' = k, Column' = j,
         pairs' = SubSeq(Answer, 1, Cardinality(Passed(k, j)))
  PROVE  Delivered'
<1>1. Answer' = Answer /\ Joining' = Joining
  BY Fixed
<1>2. Passed(Row, Column)' = Passed(k, j)
  BY <1>1 DEF Passed
<1> QED
  BY <1>1, <1>2 DEF Delivered

\* next on outer.
LEMMA OuterRead ==
  ASSUME SearchInv, JoinTypeOK, NEW p \in Nat, p <= Len(outer), NextOuter(p),
         UNCHANGED outer
  PROVE  /\ opos' \in Nat /\ ut' \in Int /\ more' \in BOOLEAN
         /\ IF more' THEN opos' \in 1..Len(outer) /\ ut' = outer[opos'] /\ opos' = p + 1
                     ELSE opos' = Len(outer) /\ opos' = p
<1>1. outer \in Seq(Int) /\ Len(outer) \in Nat
  BY JoinTyped
<1>2. CASE p < Len(outer) /\ ut' = outer[p + 1] /\ opos' = p + 1 /\ more' = TRUE
  <2>1. p + 1 \in 1..Len(outer)
    BY <1>1, <1>2
  <2>2. outer[p + 1] \in Int
    BY <1>1, <2>1
  <2> QED
    BY <1>2, <2>1, <2>2
<1>3. CASE p >= Len(outer) /\ opos' = p /\ more' = FALSE /\ UNCHANGED ut
  <2>1. p = Len(outer)
    BY <1>1, <1>3
  <2>2. ut' \in Int
    BY <1>3 DEF JoinTypeOK
  <2> QED
    BY <1>3, <2>1, <2>2
<1> QED
  BY <1>2, <1>3 DEF NextOuter

\* A lookup begins: no pair is passed.
LEMMA LooksUp ==
  ASSUME JoinInv, NEW p \in Nat, p <= Len(outer), NextOuter(p), Call(ut', "tuple"),
         stage' = "find", type' = "OSIJOIN", plan.cond = "EQ",
         UNCHANGED <<outer, plan>>,
         pairs' = SubSeq(Answer, 1, Cardinality(Passed(p + 1, 0)))
  PROVE  JoinInv'
<1>1. SearchInv /\ JoinTypeOK
  BY DEF JoinInv
<1>2. /\ opos' \in Nat /\ ut' \in Int /\ more' \in BOOLEAN
      /\ IF more' THEN opos' \in 1..Len(outer) /\ ut' = outer[opos'] /\ opos' = p + 1
                  ELSE opos' = Len(outer) /\ opos' = p
  BY <1>1, OuterRead
<1>3. rel' = rel /\ key' = ut' /\ mode' = "tuple" /\ pc' = "probe"
  BY DEF Call
<1>4. SearchInv'
  BY <1>1, <1>2, CallInv
<1>5. JoinTypeOK' /\ NotYet'
  BY <1>1, <1>2 DEF JoinTypeOK, NotYet
<1>6. OuterRight'
  BY <1>2 DEF OuterRight
<1>7. Row' = p + 1 /\ Column' = 0
  BY <1>2 DEF Row, Column
<1>8. Delivered'
  BY <1>3, <1>7, DeliveredNext
<1>9. Ahead'
  BY <1>3 DEF Ahead
<1> QED
  BY <1>4, <1>5, <1>6, <1>8, <1>9 DEF JoinInv

-----------------------------------------------------------------------------
LEMMA JoinInitially == SoundInit => JoinInv
<1> SUFFICES ASSUME SoundInit PROVE JoinInv
  OBVIOUS
<1>1. SearchInv
  BY InitInv DEF SoundInit, JoinInit
<1>2. JoinTypeOK
  BY SearchAssumption DEF SoundInit, JoinInit, JoinTypeOK
<1>3. NotYet /\ OuterRight /\ Delivered /\ Ahead
  BY DEF SoundInit, JoinInit, Init, NotYet, OuterRight, Delivered, Ahead
<1> QED
  BY <1>1, <1>2, <1>3 DEF JoinInv

LEMMA InitNTJoinKeeps == ASSUME JoinInv, InitNTJoin PROVE JoinInv'
<1> USE DEF InitNTJoin
<1>1. SearchInv /\ JoinTypeOK /\ pairs = <<>> /\ type = "NTJOIN"
      /\ (plan.index # "left" => filepos = 0)
  BY DEF JoinInv, NotYet
<1>2. CASE plan.index # "left" /\ NextOuter(0) /\ UNCHANGED filepos
  <2>1. /\ opos' \in Nat /\ ut' \in Int /\ more' \in BOOLEAN
        /\ IF more' THEN opos' \in 1..Len(outer) /\ ut' = outer[opos'] /\ opos' = 1
                    ELSE opos' = Len(outer) /\ opos' = 0
    <3>1. 0 <= Len(outer)
      BY <1>1, JoinTyped
    <3> QED
      BY <1>1, <1>2, <3>1, OuterRead
  <2>2. SearchInv'
    <3>1. filepos' \in Nat
      BY <1>1, <1>2, JoinTyped
    <3> QED
      BY <1>1, <3>1, SearchKept
  <2>3. JoinTypeOK' /\ NotYet' /\ OuterRight'
    BY <1>1, <1>2, <2>1 DEF JoinTypeOK, NotYet, OuterRight
  <2>4. Delivered' /\ Ahead'
    BY <1>1 DEF Delivered, Ahead
  <2> QED
    BY <2>2, <2>3, <2>4 DEF JoinInv
<1>3. CASE /\ plan.index = "left" /\ filepos' = After(0) /\ more' = (rel # <<>>)
           /\ ut' = IF rel # <<>> THEN rel[1][IndexAttr] ELSE ut
           /\ UNCHANGED opos
  <2>1. ut' \in Int
    <3>1. CASE rel # <<>>
      <4>1. 0 \in Positions
        BY <1>1, <3>1, JoinTyped, RelationSorted DEF Positions
      <4>2. Key(0) \in Int /\ Key(0) = rel[0 + 1][IndexAttr]
        BY <1>1, <4>1, JoinTyped
      <4> QED
        BY <1>3, <3>1, <4>2
    <3>2. CASE rel = <<>>
      BY <1>1, <1>3, <3>2 DEF JoinTypeOK
    <3> QED
      BY <3>1, <3>2
  <2>2. SearchInv'
    <3>1. filepos' \in Nat
      BY <1>3 DEF After
    <3> QED
      BY <1>1, <3>1, SearchKept
  <2>3. JoinTypeOK' /\ NotYet' /\ OuterRight'
    BY <1>1, <1>3, <2>1 DEF JoinTypeOK, NotYet, OuterRight
  <2>4. Delivered' /\ Ahead'
    BY <1>1 DEF Delivered, Ahead
  <2> QED
    BY <2>2, <2>3, <2>4 DEF JoinInv
<1> QED
  BY <1>2, <1>3

LEMMA NoIndexKeeps == ASSUME JoinInv, NoIndex PROVE JoinInv'
<1> USE DEF NoIndex
<1>1. /\ SearchInv /\ JoinTypeOK /\ pairs = <<>> /\ type = "NTJOIN"
      /\ more \in BOOLEAN
      /\ plan.index # "left" =>
           /\ filepos = 0 /\ opos = (IF more THEN 1 ELSE 0)
           /\ IF more THEN opos \in 1..Len(outer) /\ ut = outer[opos]
                      ELSE opos = Len(outer)
  BY DEF JoinInv, NotYet, OuterRight, JoinTypeOK
<1>2. plan.index # "left" /\ (plan.cond = "EQ" => plan.index = "none")
  BY <1>1, JoinTyped
<1>3. more' = more
  <2>1. CASE plan.cond = "EQ"
    <3>1. plan = [cond |-> "EQ", index |-> "none"]
      BY <1>1, <1>2, <2>1, JoinTyped
    <3>2. outer # <<>>
      BY <1>1, <3>1 DEF JoinTypeOK
    <3>3. Len(outer) # 0
      BY <1>1, <3>2, JoinTyped
    <3> QED
      BY <1>1, <1>2, <3>3
  <2>2. CASE plan.cond # "EQ"
    BY <1>1, <2>2
  <2> QED
    BY <2>1, <2>2
<1>4. UNCHANGED <<rel, local, pc, filepos>> /\ filepos' \in Nat
  BY <1>1, JoinTyped DEF searchVars
<1>5. SearchInv'
  BY <1>1, <1>4, SearchKept
<1>6. JoinTypeOK' /\ NotYet' /\ OuterRight' /\ Ahead'
  BY <1>1, <1>2, <1>3 DEF JoinTypeOK, NotYet, OuterRight, Ahead
<1>7. Row' = 1 /\ Column' = 0
  BY <1>1, <1>2, <1>3, <1>4 DEF Row, Column
<1>8. pairs' = SubSeq(Answer, 1, Cardinality(Passed(1, 0)))
  <2>1. Cardinality(Passed(1, 0)) = 0
    BY <1>1, PassedEnds
  <2>2. SubSeq(Answer, 1, 0) = <<>>
    BY <1>1, AnswerSeq
  <2> QED
    BY <1>1, <2>1, <2>2
<1>9. Delivered'
  BY <1>4, <1>7, <1>8, DeliveredNext
<1> QED
  BY <1>5, <1>6, <1>9 DEF JoinInv

LEMMA SetupKeeps == ASSUME JoinInv, SetupOSIJoin PROVE JoinInv'
<1>1. SearchInv /\ JoinTypeOK /\ pairs = <<>>
  BY DEF JoinInv, NotYet, SetupOSIJoin
<1>2. pairs' = SubSeq(Answer, 1, Cardinality(Passed(0 + 1, 0)))
  <2>1. Cardinality(Passed(0 + 1, 0)) = 0
    BY <1>1, PassedEnds
  <2>2. SubSeq(Answer, 1, 0) = <<>>
    BY <1>1, AnswerSeq
  <2> QED
    BY <1>1, <2>1, <2>2 DEF SetupOSIJoin
<1>3. 0 <= Len(outer)
  BY <1>1, JoinTyped
<1> QED
  BY <1>2, <1>3, LooksUp DEF SetupOSIJoin

LEMMA RewindKeepsJoin == ASSUME JoinInv, JoinRewind PROVE JoinInv'
<1> USE DEF JoinRewind
<1>1. SearchInv /\ JoinTypeOK /\ Ahead
  BY DEF JoinInv
<1>2. pairs' = SubSeq(Answer, 1, Cardinality(Passed(0 + 1, 0)))
  <2>1. Cardinality(Passed(0 + 1, 0)) = 0
    BY <1>1, PassedEnds
  <2>2. SubSeq(Answer, 1, 0) = <<>>
    BY <1>1, AnswerSeq
  <2> QED
    BY <2>1, <2>2
<1>3. 0 <= Len(outer)
  BY <1>1, JoinTyped
<1>4. CASE type = "OSIJOIN" /\ Call(ut', "tuple") /\ stage' = "find"
  BY <1>1, <1>2, <1>3, <1>4, LooksUp DEF Ahead
<1>5. CASE type = "NTJOIN" /\ filepos' = 0 /\ UNCHANGED <<rel, local, pc, stage>>
  <2>1. /\ opos' \in Nat /\ ut' \in Int /\ more' \in BOOLEAN
        /\ IF more' THEN opos' \in 1..Len(outer) /\ ut' = outer[opos'] /\ opos' = 1
                    ELSE opos' = Len(outer) /\ opos' = 0
    BY <1>1, <1>3, OuterRead
  <2>2. SearchInv'
    BY <1>1, <1>5, SearchKept
  <2>3. JoinTypeOK' /\ NotYet' /\ OuterRight' /\ Ahead'
    BY <1>1, <1>5, <2>1 DEF JoinTypeOK, NotYet, OuterRight, Ahead
  <2>4. Row' = 0 + 1 /\ Column' = 0
    <3>1. Row' = 1
      <4>1. opos' = IF more' THEN 1 ELSE 0
        BY <2>1
      <4> QED
        BY <4>1 DEF Row
    <3>2. Column' = 0
      BY <1>5 DEF Column
    <3> QED
      BY <3>1, <3>2
  <2>5. Delivered'
    BY <1>2, <1>5, <2>4, DeliveredNext
  <2> QED
    BY <2>2, <2>3, <2>5 DEF JoinInv
<1> QED
  BY <1>4, <1>5

-----------------------------------------------------------------------------
\* A round of the search.
LEMMA RoundKeeps ==
  ASSUME JoinInv, Find, SearchStep, UNCHANGED stage PROVE JoinInv'
<1> USE DEF Find
<1>1. /\ SearchInv /\ JoinTypeOK /\ NotYet /\ OuterRight /\ Delivered /\ Ahead
      /\ stage = "find" /\ stage' = "find"
      /\ UNCHANGED <<outer, plan, type, opos, ut, more, pairs, over>>
  BY DEF JoinInv
<1>2. SearchInv' /\ UNCHANGED <<rel, key, mode>>
  BY <1>1, ProbeInv, LoopEndsInv, VerifyInv DEF SearchStep, Probe, LoopEnds, Verify
<1>3. JoinTypeOK' /\ NotYet' /\ OuterRight'
  BY <1>1 DEF JoinTypeOK, NotYet, OuterRight
<1>4. Delivered'
  <2>1. Row' = Row /\ Column' = Column
    BY <1>1 DEF Row, Column
  <2>2. pairs' = SubSeq(Answer, 1, Cardinality(Passed(Row, Column)))
    BY <1>1 DEF Delivered
  <2> QED
    BY <1>1, <1>2, <2>1, <2>2, DeliveredNext
<1>5. Ahead'
  <2>1. pc' = "verify" => i' >= 0
    BY <1>2 DEF SearchInv
  <2>2. pc' = "found" /\ result' # -1 => filepos' = result'
    <3>1. CASE Verify
      BY <1>1, <3>1 DEF Verify, Ahead
    <3>2. CASE Probe \/ LoopEnds
      BY <3>2 DEF Probe, LoopEnds
    <3> QED
      BY <3>1, <3>2 DEF SearchStep
  <2> QED
    BY <1>1, <1>2, <2>1, <2>2 DEF Ahead
<1> QED
  BY <1>2, <1>3, <1>4, <1>5 DEF JoinInv

\* The search has ended: nothing has been passed over, and nothing it stands behind
\* joins.
LEMMA FoundKeeps ==
  ASSUME JoinInv, Find, pc = "found", stage' = "run", UNCHANGED searchVars
  PROVE  JoinInv'
<1> USE DEF Find
<1>1. /\ SearchInv /\ JoinTypeOK /\ NotYet /\ OuterRight /\ Delivered
      /\ stage = "find" /\ type = "OSIJOIN" /\ plan.cond = "EQ"
      /\ key = ut /\ mode = "tuple" /\ (result # -1 => filepos = result)
      /\ UNCHANGED <<outer, plan, type, opos, ut, more, pairs, over>>
  BY DEF JoinInv, Ahead
<1>2. UNCHANGED <<rel, local, pc, filepos>> /\ filepos \in Nat /\ ut \in Int
  BY <1>1, JoinTyped DEF searchVars, JoinTypeOK
<1>3. SearchInv'
  BY <1>1, <1>2, SearchKept
<1>4. JoinTypeOK' /\ NotYet' /\ OuterRight'
  BY <1>1 DEF JoinTypeOK, NotYet, OuterRight
<1>5. /\ result = -1 => \A j \in Positions : Key(j) # ut
      /\ result # -1 => \A j \in Positions : j < filepos <=> Key(j) < ut
  BY <1>1 DEF SearchInv, FirstOccurrence, LowerBound
<1>6. \A j \in Positions : j \in Int /\ Key(j) \in Int /\ Key(j) = rel[j + 1][IndexAttr]
  BY <1>1, JoinTyped DEF Positions
<1>7. Delivered'
  <2>1. CASE more
    <3>1. opos \in 1..Len(outer) /\ ut = outer[opos] /\ opos \in Int
      BY <1>1, <2>1 DEF OuterRight
    <3>2. \A m \in Positions : 0 <= m /\ m < filepos => ~On(outer[opos], rel[m + 1])
      BY <1>1, <1>2, <1>5, <1>6, <3>1 DEF On
    <3>3. Passed(opos, 0) = Passed(opos, filepos)
      BY <1>1, <1>2, <3>1, <3>2, PassedNone
    <3>4. Row = opos /\ Column = 0 /\ Row' = opos /\ Column' = filepos
      BY <1>1, <1>2, <2>1 DEF Row, Column
    <3>5. pairs' = SubSeq(Answer, 1, Cardinality(Passed(opos, filepos)))
      BY <1>1, <3>3, <3>4 DEF Delivered
    <3> QED
      BY <1>1, <1>2, <3>4, <3>5, DeliveredNext
  <2>2. CASE ~more
    <3>1. Row' = Row /\ Column = 0 /\ Column' = 0
      BY <1>1, <2>2 DEF Row, Column
    <3>2. pairs' = SubSeq(Answer, 1, Cardinality(Passed(Row, 0)))
      BY <1>1, <3>1 DEF Delivered
    <3> QED
      BY <1>1, <1>2, <3>1, <3>2, DeliveredNext
  <2> QED
    BY <2>1, <2>2
<1>8. Ahead'
  <2>1. \/ \A j \in Positions : j >= filepos => ut <= Key(j)
        \/ \A j \in Positions : Key(j) # ut
    BY <1>2, <1>5, <1>6
  <2>2. Positions' = Positions /\ \A j : Key(j)' = Key(j)
    BY <1>1, <1>2, Fixed
  <2> QED
    BY <1>1, <1>2, <2>1, <2>2 DEF Ahead
<1> QED
  BY <1>3, <1>4, <1>7, <1>8 DEF JoinInv

LEMMA FindKeeps == ASSUME JoinInv, Find PROVE JoinInv'
BY RoundKeeps, FoundKeeps DEF Find

-----------------------------------------------------------------------------
\* Where a join with a tuple of outer stands.
LEMMA Running ==
  ASSUME JoinInv, stage = "run", more
  PROVE  /\ SearchInv /\ JoinTypeOK
         /\ opos \in 1..Len(outer) /\ opos \in Nat /\ opos <= Len(outer)
         /\ ut = outer[opos] /\ filepos \in Nat
         /\ pairs = SubSeq(Answer, 1, Cardinality(Passed(opos, filepos)))
<1>1. SearchInv /\ JoinTypeOK /\ opos \in 1..Len(outer) /\ ut = outer[opos]
  BY DEF JoinInv, OuterRight
<1>2. Row = opos /\ Column = filepos
  BY DEF Row, Column
<1>3. pairs = SubSeq(Answer, 1, Cardinality(Passed(opos, filepos)))
  BY <1>2 DEF JoinInv, Delivered
<1>4. filepos \in Nat /\ Len(outer) \in Nat
  BY <1>1, JoinTyped
<1> QED
  BY <1>1, <1>3, <1>4

\* A pair is returned.
LEMMA PairGiven ==
  ASSUME JoinInv, stage = "run", more, filepos \in Positions,
         On(ut, rel[filepos + 1]),
         pairs' = Append(pairs, Pair(ut, rel[filepos + 1])),
         UNCHANGED <<rel, outer, plan, over>>
  PROVE  /\ Stream!Give
         /\ pairs' = SubSeq(Answer, 1, Cardinality(Passed(opos, filepos + 1)))
<1> DEFINE p == <<opos, filepos>>
           n == Cardinality(Passed(opos, filepos)) + 1
<1>1. p \in Joining /\ Cardinality(Passed(opos, filepos + 1)) = n
  BY Running, PassedOne
<1>2. n \in 1..Cardinality(Joining) /\ Answer[n] = PairAt(p)
  BY <1>1, Running, InAnswer
<1>3. PairAt(p) = Pair(ut, rel[filepos + 1])
  BY Running DEF PairAt
<1>4. n - 1 = Cardinality(Passed(opos, filepos))
  BY Running, PassedFinite
<1> HIDE DEF n, p
<1>5. pairs = SubSeq(Answer, 1, n - 1) /\ pairs' = Append(pairs, Answer[n])
  BY <1>2, <1>3, <1>4, Running
<1> QED
  BY <1>1, <1>2, <1>5, Running, GivesNext

\* A tuple of rel has been read.
LEMMA ReadOne ==
  ASSUME JoinInv, stage = "run", more, filepos \in Positions,
         filepos' = filepos + 1,
         UNCHANGED <<rel, local, pc, outer, plan, type, opos, ut, more, stage>>,
         pairs' = SubSeq(Answer, 1, Cardinality(Passed(opos, filepos + 1)))
  PROVE  JoinInv'
<1>1. /\ SearchInv /\ JoinTypeOK /\ NotYet /\ OuterRight /\ Ahead
      /\ filepos \in Nat
  BY Running DEF JoinInv
<1>2. SearchInv'
  BY <1>1, SearchKept
<1>3. JoinTypeOK' /\ NotYet' /\ OuterRight'
  BY <1>1 DEF JoinTypeOK, NotYet, OuterRight
<1>4. Row' = opos /\ Column' = filepos + 1
  BY DEF Row, Column
<1>5. Delivered'
  BY <1>4, DeliveredNext
<1>6. Ahead'
  <2>1. type = "OSIJOIN" =>
          \/ \A j \in Positions : j >= filepos + 1 => ut <= Key(j)
          \/ \A j \in Positions : Key(j) # ut
    <3>1. \A j \in Positions : j >= filepos + 1 => j >= filepos
      BY <1>1 DEF Positions
    <3> QED
      BY <1>1, <3>1 DEF Ahead
  <2>2. Positions' = Positions /\ \A j : Key(j)' = Key(j)
    BY Fixed
  <2> QED
    BY <1>1, <2>1, <2>2 DEF Ahead
<1> QED
  BY <1>2, <1>3, <1>5, <1>6 DEF JoinInv

LEMMA NTInnerKeeps ==
  ASSUME JoinInv, NTInner
  PROVE  /\ JoinInv'
         /\ Stream!Give \/ UNCHANGED <<rel, outer, plan, pairs, over>>
<1> USE DEF NTInner
<1>1. CASE On(ut, rel[filepos + 1])
  <2>1. pairs' = Append(pairs, Pair(ut, rel[filepos + 1]))
    BY <1>1
  <2> QED
    BY <1>1, <2>1, PairGiven, ReadOne
<1>2. CASE ~On(ut, rel[filepos + 1])
  <2>1. Passed(opos, filepos + 1) = Passed(opos, filepos)
    BY <1>2, Running, PassedOne
  <2>2. pairs' = SubSeq(Answer, 1, Cardinality(Passed(opos, filepos + 1)))
    BY <1>2, <2>1, Running
  <2> QED
    BY <1>2, <2>2, ReadOne
<1> QED
  BY <1>1, <1>2

LEMMA OSIInnerKeeps == ASSUME JoinInv, OSIInner PROVE JoinInv' /\ Stream!Give
<1> USE DEF OSIInner, OSIMatch
<1>1. /\ Stream!Give
      /\ pairs' = SubSeq(Answer, 1, Cardinality(Passed(opos, filepos + 1)))
  BY PairGiven
<1> QED
  BY <1>1, ReadOne

\* The tuples of rel that follow do not join with that of outer.
LEMMA RowEnds ==
  ASSUME JoinInv, stage = "run", more,
         \A m \in Positions : filepos <= m => ~On(ut, rel[m + 1])
  PROVE  pairs = SubSeq(Answer, 1, Cardinality(Passed(opos + 1, 0)))
<1>1. opos \in Int /\ filepos \in Int
  BY Running
<1>2. Passed(opos, filepos) = Passed(opos + 1, 0)
  BY <1>1, Running, PassedRow
<1> QED
  BY <1>2, Running

LEMMA NTOuterKeeps == ASSUME JoinInv, NTOuter PROVE JoinInv'
<1> USE DEF NTOuter, InnerStart
<1>1. /\ SearchInv /\ JoinTypeOK /\ NotYet /\ Ahead
      /\ filepos \in Nat /\ Len(rel) \in Nat
  BY Running, JoinTyped DEF JoinInv
<1>2. \A m \in Positions : filepos <= m => ~On(ut, rel[m + 1])
  BY <1>1 DEF Positions
<1>3. pairs' = SubSeq(Answer, 1, Cardinality(Passed(opos + 1, 0)))
  BY <1>2, RowEnds
<1>4. /\ opos' \in Nat /\ ut' \in Int /\ more' \in BOOLEAN
      /\ IF more' THEN opos' \in 1..Len(outer) /\ ut' = outer[opos'] /\ opos' = opos + 1
                  ELSE opos' = Len(outer) /\ opos' = opos
  BY Running, OuterRead
<1>5. SearchInv'
  BY <1>1, SearchKept
<1>6. JoinTypeOK' /\ NotYet' /\ OuterRight' /\ Ahead'
  BY <1>1, <1>4 DEF JoinTypeOK, NotYet, OuterRight, Ahead
<1>7. Row' = opos + 1 /\ Column' = 0
  <2>1. Row' = opos + 1
    <3>1. opos' = IF more' THEN opos + 1 ELSE opos
      BY <1>4
    <3> QED
      BY <3>1 DEF Row
  <2>2. Column' = 0
    BY DEF Column
  <2> QED
    BY <2>1, <2>2
<1>8. Delivered'
  BY <1>3, <1>7, DeliveredNext
<1> QED
  BY <1>5, <1>6, <1>8 DEF JoinInv

LEMMA OSIOuterKeeps == ASSUME JoinInv, OSIOuter PROVE JoinInv'
<1> USE DEF OSIOuter
<1>1. SearchInv /\ JoinTypeOK /\ Ahead /\ filepos \in Nat /\ ut \in Int
  BY Running DEF JoinInv, JoinTypeOK
<1>2. /\ plan.cond = "EQ"
      /\ \/ \A j \in Positions : j >= filepos => ut <= Key(j)
         \/ \A j \in Positions : Key(j) # ut
  BY <1>1 DEF Ahead
<1>3. /\ \A j \in Positions : j \in Nat /\ Key(j) \in Int
                              /\ Key(j) = rel[j + 1][IndexAttr]
      /\ \A j, k \in Positions : j <= k => Key(j) <= Key(k)
      /\ Len(rel) \in Nat
  BY <1>1, JoinTyped DEF Positions
<1>4. \A m \in Positions : filepos <= m => ~On(ut, rel[m + 1])
  <2> SUFFICES ASSUME NEW m \in Positions, filepos <= m, On(ut, rel[m + 1])
               PROVE  FALSE
    OBVIOUS
  <2>1. ut # NULL /\ ut = Key(m)
    BY <1>2, <1>3 DEF On
  <2>2. filepos \in Positions
    BY <1>1, <1>3 DEF Positions
  <2>3. ut <= Key(filepos) /\ Key(filepos) <= Key(m)
    BY <1>1, <1>2, <1>3, <2>1, <2>2
  <2>4. ut = Key(filepos)
    BY <1>1, <1>3, <2>1, <2>2, <2>3
  <2>5. On(ut, rel[filepos + 1])
    BY <1>2, <1>3, <2>1, <2>2, <2>4 DEF On
  <2> QED
    BY <2>2, <2>5 DEF OSIMatch
<1>5. pairs' = SubSeq(Answer, 1, Cardinality(Passed(opos + 1, 0)))
  BY <1>4, RowEnds
<1>6. type' = "OSIJOIN"
  OBVIOUS
<1> QED
  BY <1>2, <1>5, <1>6, Running, LooksUp

LEMMA NoMoreKeeps == ASSUME JoinInv, NoMore PROVE JoinInv' /\ Stream!Finish
<1> USE DEF NoMore
<1>1. /\ SearchInv /\ JoinTypeOK /\ NotYet /\ OuterRight /\ Delivered /\ Ahead
      /\ opos = Len(outer)
  BY DEF JoinInv, OuterRight
<1>2. UNCHANGED <<rel, local, pc, filepos>> /\ filepos \in Nat
  BY <1>1, JoinTyped DEF searchVars
<1>3. Row = Len(outer) + 1 /\ Column = 0 /\ Row' = Row /\ Column' = Column
  BY <1>1 DEF Row, Column
<1>4. pairs = SubSeq(Answer, 1, Cardinality(Joining))
  BY <1>1, <1>3, PassedEnds DEF Delivered
<1>5. pairs = Answer
  <2> DEFINE a == Answer
             S == {Answer[m] : m \in 1..Cardinality(Joining)}
  <2>1. a \in Seq(S) /\ Len(a) = Cardinality(Joining)
    BY <1>1, AnswerSeq
  <2>2. pairs = SubSeq(a, 1, Len(a))
    BY <1>4, <2>1
  <2> HIDE DEF a, S
  <2>3. pairs = a
    BY <2>1, <2>2
  <2> QED
    BY <2>3 DEF a
<1>6. Stream!Finish
  BY <1>2, <1>5, Fixed DEF Stream!Finish
<1>7. SearchInv'
  BY <1>1, <1>2, SearchKept
<1>8. JoinTypeOK' /\ NotYet' /\ OuterRight'
  BY <1>1, <1>2 DEF JoinTypeOK, NotYet, OuterRight
<1>9. Delivered'
  <2>1. pairs' = SubSeq(Answer, 1, Cardinality(Passed(Row, Column)))
    BY <1>1 DEF Delivered
  <2> QED
    BY <1>2, <1>3, <2>1, DeliveredNext
<1>10. Ahead'
  BY <1>1, <1>2 DEF Ahead, local
<1> QED
  BY <1>6, <1>7, <1>8, <1>9, <1>10 DEF JoinInv

LEMMA JoinStutterKeeps == ASSUME JoinInv, UNCHANGED allVars PROVE JoinInv'
<1>1. /\ SearchInv /\ JoinTypeOK /\ NotYet /\ OuterRight /\ Delivered /\ Ahead
      /\ UNCHANGED <<rel, filepos, local, pc>>
      /\ UNCHANGED <<outer, plan, type, opos, ut, more, stage, pairs, over>>
  BY DEF JoinInv, allVars, searchVars, joinVars
<1>2. SearchInv'
  <2>1. filepos' \in Nat
    BY <1>1, JoinTyped
  <2> QED
    BY <1>1, <2>1, SearchKept
<1>3. JoinTypeOK' /\ NotYet' /\ OuterRight'
  BY <1>1 DEF JoinTypeOK, NotYet, OuterRight
<1>4. Delivered'
  <2>1. Row' = Row /\ Column' = Column
    BY <1>1 DEF Row, Column
  <2>2. stage \in {"find", "run"} =>
          pairs' = SubSeq(Answer, 1, Cardinality(Passed(Row, Column)))
    BY <1>1 DEF Delivered
  <2>3. CASE stage \in {"find", "run"}
    BY <1>1, <2>1, <2>2, <2>3, DeliveredNext
  <2>4. CASE stage \notin {"find", "run"}
    BY <1>1, <2>4 DEF Delivered
  <2> QED
    BY <2>3, <2>4
<1>5. Ahead'
  BY <1>1, Fixed DEF Ahead, local
<1> QED
  BY <1>2, <1>3, <1>4, <1>5 DEF JoinInv

\* Both joins (ntjoin.c, osijoin.c) return, for every two relations, one of which is
\* sorted if it has the index, every pair of the answer once and in its order, then
\* 0, and after a rewind the same again: wherever the search lands, no cursor is left
\* behind and none goes too far.
THEOREM Implements == JoinSpec => JoinAnswers
<1>1. SoundInit => Stream!Init
  BY DEF SoundInit, JoinInit, Stream!Init
<1>2. ASSUME JoinInv, [JoinNext]_allVars
      PROVE  JoinInv' /\ [Stream!Next]_(<<{Answer}, pairs, over>>)
  <2> SUFFICES /\ JoinInv'
               /\ \/ Stream!Give \/ Stream!Finish \/ Stream!Restart
                  \/ UNCHANGED <<{Answer}, pairs, over>>
    BY DEF Stream!Next
  <2>1. CASE InitNTJoin
    BY <1>2, <2>1, InitNTJoinKeeps, Fixed DEF InitNTJoin
  <2>2. CASE NoIndex
    BY <1>2, <2>2, NoIndexKeeps, Fixed DEF NoIndex, searchVars
  <2>3. CASE SetupOSIJoin
    BY <1>2, <2>3, SetupKeeps, Fixed DEF SetupOSIJoin, Call
  <2>4. CASE Find
    <3>1. rel' = rel
      BY <2>4 DEF Find, SearchStep, Probe, LoopEnds, Verify, searchVars
    <3> QED
      BY <1>2, <2>4, <3>1, FindKeeps, Fixed DEF Find
  <2>5. CASE NTInner
    BY <1>2, <2>5, NTInnerKeeps, Fixed
  <2>6. CASE NTOuter
    BY <1>2, <2>6, NTOuterKeeps, Fixed DEF NTOuter
  <2>7. CASE OSIInner
    BY <1>2, <2>7, OSIInnerKeeps
  <2>8. CASE OSIOuter
    BY <1>2, <2>8, OSIOuterKeeps, Fixed DEF OSIOuter, Call
  <2>9. CASE NoMore
    BY <1>2, <2>9, NoMoreKeeps
  <2>10. CASE JoinRewind
    <3>1. rel' = rel
      BY <2>10 DEF JoinRewind, Call
    <3>2. Stream!Restart
      BY <2>10, <3>1, Fixed DEF JoinRewind, Stream!Restart
    <3> QED
      BY <1>2, <2>10, <3>2, RewindKeepsJoin
  <2>11. CASE UNCHANGED allVars
    BY <1>2, <2>11, JoinStutterKeeps, Fixed DEF allVars, searchVars, joinVars
  <2> QED
    BY <1>2, <2>1, <2>2, <2>3, <2>4, <2>5, <2>6, <2>7, <2>8, <2>9, <2>10, <2>11
       DEF JoinNext, JoinStep
<1> QED
  BY <1>1, <1>2, JoinInitially, PTL DEF JoinSpec, JoinAnswers, Stream!Spec
=============================================================================
