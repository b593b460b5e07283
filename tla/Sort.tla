--------------------------------- MODULE Sort ---------------------------------
(***************************************************************************)
(* The sort operator, dbops/sort.c, and what it is built on,               *)
(* dblogic/compare_tuple.c.  Nothing is stored: to find the tuple that     *)
(* follows the last one returned, next_inorder_tuple goes once through the *)
(* whole child, which it rewinds first, and looks for the least tuple that *)
(* comes after it, counting how many there are of it.                      *)
(*                                                                         *)
(* A tuple is the sequence of its attributes, each an integer or NULL.     *)
(* The order expressions are attributes.  The difference of two attributes *)
(* does not overflow a db_int.                                             *)
(***************************************************************************)
EXTENDS Integers, SequencesExt

CONSTANTS
  NumAttr,   \* num_attr: how many attributes a tuple has
  Sources,   \* what the child may return: sequences of tuples
  OrderBy,   \* positions of the attributes to sort on, most significant first
  Desc,      \* order: for each of those, whether it is descending
  NULL

Tuples == [1..NumAttr -> Int \cup {NULL}]

ASSUME SortAssumption ==
  /\ NumAttr \in Nat
  /\ \A s \in Sources : s \in Seq(Tuples)
  /\ OrderBy \in Seq(1..NumAttr)
  /\ Desc \in Seq(BOOLEAN) /\ Len(Desc) = Len(OrderBy)

VARIABLES
  src,          \* what the child returns
  pos,          \* how many tuples of it next_inorder_tuple has read
  previous,     \* previous_tp: <<>>, or <<the last tuple returned>>
  candidate,    \* next_tp, while next_inorder_tuple runs
  next_count,   \* the copies of previous still to return
  pc,           \* "idle", or "pass" while next_inorder_tuple runs
  returned,     \* what the last call of next_sort returned
  out           \* the tuples it returned since the last rewind

vars == <<src, pos, previous, candidate, next_count, pc, returned, out>>

-----------------------------------------------------------------------------
Sign(n) == IF n > 0 THEN 1 ELSE IF n < 0 THEN -1 ELSE 0

\* One order expression: a NULL comes before everything else.
CompareValues(x, y) ==
  IF x = y THEN 0
  ELSE IF x = NULL THEN -1
  ELSE IF y = NULL THEN 1
  ELSE Sign(x - y)

\* The tie-break compares the bytes of the attributes; those of a NULL are 0.
Bytes(x) == IF x = NULL THEN 0 ELSE x

\* The first comparison of a sequence that is not a tie decides.
FirstDecides(c) ==
  LET decisive == {p \in DOMAIN c : c[p] # 0}
  IN IF decisive = {} THEN 0 ELSE c[Min(decisive)]

KeyCmp(a, b) ==
  FirstDecides([k \in DOMAIN OrderBy |->
                  CompareValues(a[OrderBy[k]], b[OrderBy[k]])
                    * (IF Desc[k] THEN -1 ELSE 1)])

TieCmp(a, b) ==
  FirstDecides([p \in DOMAIN a |-> Sign(Bytes(a[p]) - Bytes(b[p]))])

\* cmp_tuple with strictComp 0
Cmp_KeysOnly(a, b) == KeyCmp(a, b)                            \* mutant
Cmp(a, b) == IF KeyCmp(a, b) # 0 THEN KeyCmp(a, b) ELSE TieCmp(a, b)

AfterPrevious(t)  == previous # <<>> => Cmp(t, previous[1]) > 0
SameAsPrevious(t) == previous # <<>> /\ Cmp(t, previous[1]) = 0

-----------------------------------------------------------------------------
SortInit ==
  /\ src \in Sources
  /\ pos = 0
  /\ previous = <<>> /\ candidate = <<>>
  /\ next_count = 0
  /\ pc = "idle"
  /\ returned = 1
  /\ out = <<>>

\* next_sort, when there are copies of the last tuple left.  It returns -1 if
\* that tuple is not known any more, as after a Rewind here.
NextCopy ==
  /\ pc = "idle" /\ next_count > 0
  /\ previous # <<>>
  /\ out' = Append(out, previous[1])
  /\ next_count' = next_count - 1
  /\ returned' = 1
  /\ UNCHANGED <<src, pos, previous, candidate, pc>>

\* next_sort calls next_inorder_tuple: the child is rewound, and its first
\* tuple is the candidate unless it comes before the last one returned.
NextBegin ==
  /\ pc = "idle" /\ next_count <= 0
  /\ src # <<>>
  /\ pos' = 1
  /\ next_count' = 1
  /\ candidate' = IF previous # <<>> /\ Cmp(src[1], previous[1]) < 0
                    THEN previous[1] ELSE src[1]
  /\ pc' = "pass"
  /\ UNCHANGED <<src, previous, returned, out>>

\* The child is empty.  next_count goes down by one with each call; nothing
\* but its sign matters, and it stays at -1 here.
NextEmpty ==
  /\ pc = "idle" /\ next_count <= 0
  /\ src = <<>>
  /\ next_count' = -1
  /\ returned' = 0
  /\ UNCHANGED <<src, pos, previous, candidate, pc, out>>

\* A round of the loop of next_inorder_tuple, for the tuple t.
CountAfter_NoReset(t) ==                                      \* mutant
  IF AfterPrevious(t) /\ Cmp(t, candidate) = 0 THEN next_count + 1
                                               ELSE next_count
CountAfter(t) ==
  IF ~AfterPrevious(t) THEN next_count
  ELSE CASE Cmp(t, candidate) = 0 -> next_count + 1
         [] Cmp(t, candidate) < 0 -> 1
         [] Cmp(t, candidate) > 0 -> next_count

Better(t) ==
  /\ AfterPrevious(t)
  /\ \/ Cmp(t, candidate) < 0
     \/ Cmp(t, candidate) > 0 /\ SameAsPrevious(candidate)

ReadOn_Again == 1                                             \* mutant
ReadOn == pos + 1

NextTuple ==
  LET t == src[pos + 1] IN
  /\ pc = "pass" /\ pos < Len(src)
  /\ pos' = ReadOn
  /\ next_count' = CountAfter(t)
  /\ candidate' = IF Better(t) THEN t ELSE candidate
  /\ UNCHANGED <<src, previous, pc, returned, out>>

\* The child is exhausted: the candidate is the answer if it comes after the
\* last tuple returned, and there is none otherwise.
NextReturn ==
  /\ pc = "pass" /\ pos = Len(src)
  /\ \/ /\ AfterPrevious(candidate)
        /\ previous' = <<candidate>>
        /\ out' = Append(out, candidate)
        /\ returned' = 1
     \/ /\ ~AfterPrevious(candidate)
        /\ returned' = 0
        /\ UNCHANGED <<previous, out>>
  /\ next_count' = next_count - 1
  /\ pc' = "idle"
  /\ UNCHANGED <<src, pos, candidate>>

\* rewind_sort, which leaves next_count as it is.
Rewind ==
  /\ pc = "idle"
  /\ previous' = <<>>
  /\ out' = <<>>
  /\ returned' = 1
  /\ UNCHANGED <<src, pos, candidate, next_count, pc>>

NextSort == NextCopy \/ NextBegin \/ NextEmpty \/ NextTuple \/ NextReturn

\* Callers do not rewind between two copies of one tuple.  (A join rewinds an
\* operator when it has returned 0.)  After that the next call would fail.
RewindWhenDone == next_count <= 0 /\ Rewind

SortNext == NextSort \/ RewindWhenDone

Fairness == WF_vars(NextSort)

SortSpec == SortInit /\ [][SortNext]_vars /\ Fairness

-----------------------------------------------------------------------------
\* The answers: the permutations of the source that are sorted.
Rearrangements(s) == {[j \in DOMAIN s |-> s[f[j]]] :
                      f \in {g \in [DOMAIN s -> DOMAIN s] :
                               \A j, k \in DOMAIN s : g[j] = g[k] => j = k}}
Answers == {s \in Rearrangements(src) :
              \A j \in 1..(Len(s) - 1) : KeyCmp(s[j], s[j + 1]) <= 0}

Stream == INSTANCE TupleStream WITH answers <- Answers, over <- (returned = 0)

\* Tuples of a source that cmp_tuple does not tell apart are the same.  (It takes
\* a NULL that only breaks a tie for a 0.)
Distinct ==
  \A s \in Sources : \A j, k \in DOMAIN s : Cmp(s[j], s[k]) = 0 => s[j] = s[k]

\* What is returned is the source, sorted: no tuple is lost, repeated or out
\* of order although only the last one is remembered, and a rewind (at the
\* end) starts again.  This needs Distinct sources.
SortsSource == Stream!Spec

\* next_count is the number of tuples still to come that are identical to the
\* last one returned (compare_tuple.h), as far as cmp_tuple tells them apart,
\* whatever the pass met on its way.
Copies(s, n, t) == Cardinality({j \in 1..n : Cmp(s[j], t) = 0})

CountsCopies ==
  pc = "idle" /\ previous # <<>> =>
    Copies(src, Len(src), previous[1]) =
    Copies(out, Len(out), previous[1]) + next_count

\* Once its callers stop rewinding it, the sort says that it is exhausted.
Exhausted == <>[][NextSort]_vars => <>(pc = "idle" /\ returned = 0)
=============================================================================
