----------------------------- MODULE IndexSearch -----------------------------
(***************************************************************************)
(* Looking a key up in an inline index, dbindex/dbindex.c: the relation's  *)
(* own file, whose tuples are sorted on the indexed attribute, is searched *)
(* by bisection for the first tuple with the key.  The file that holds the *)
(* index only says how many tuples there are.                              *)
(*                                                                         *)
(* Offsets in the file are counted in tuples from the first one; the       *)
(* arithmetic with first and total_size is left out.  A key that is NULL   *)
(* takes the place cmp_tuple gives it, before all the others, so keys are  *)
(* integers; the difference of two of them does not overflow (KeysSpan).   *)
(***************************************************************************)
EXTENDS Integers, Sequences

CONSTANTS
  Relations,   \* the relations that may be stored: sequences of tuples
  Arity,       \* attributes of a tuple
  IndexAttr,   \* position of the indexed attribute
  Keys,        \* keys looked up
  Garbage      \* what an integer of a tuple never read into may be

Tuple == [0..(Arity - 1) -> Int]

ASSUME SearchAssumption ==
  /\ Arity \in Nat /\ IndexAttr \in 0..(Arity - 1)
  /\ Keys \subseteq Int /\ Garbage \subseteq Int
  /\ \A r \in Relations :
       /\ r \in Seq(Tuple)
       /\ \A j, k \in 1..Len(r) : j <= k => r[j][IndexAttr] <= r[k][IndexAttr]

VARIABLES
  rel,                  \* the tuples in the file, in order
  filepos,              \* the tuple the file of the scan stands before
  key, mode,            \* what is looked for, and for whom
  imin, imax, i, temp,  \* locals of db_index_getoffset; temp by its key
  result,               \* what it returns
  pc                    \* "idle", "probe", "verify", or "found"

local == <<key, mode, imin, imax, i, temp, result>>
searchVars == <<rel, filepos, local, pc>>

Positions == 0..(Len(rel) - 1)
Key(j) == rel[j + 1][IndexAttr]

\* next_scan at tuple j: the key found in temp, which keeps what it had when
\* the file has no such tuple, and where the file then stands.
ReadKey(j) == IF j \in Positions THEN Key(j) ELSE temp
After(j)   == IF j \in Positions THEN j + 1 ELSE j

Init ==
  /\ rel \in Relations
  /\ filepos = 0
  /\ key = 0 /\ mode = "int"
  /\ imin = 0 /\ imax = 0 /\ i = -1 /\ temp = 0
  /\ result = -1
  /\ pc = "idle"

\* The call, up to the loop.  With mode "tuple" the key is that of another
\* tuple (scan_find, for a join); with "int" it is a constant (parse).
Call(k, m) ==
  /\ pc \in {"idle", "found"}
  /\ key' = k /\ mode' = m
  /\ imin' = 0
  /\ imax' = IF rel = <<>> THEN 0 ELSE Len(rel) - 1
  /\ i' = -1
  /\ temp' \in Garbage
  /\ filepos' = 0
  /\ pc' = "probe"
  /\ UNCHANGED <<rel, result>>

\* One round of the loop.
Middle == imin + ((imax - imin) \div 2)

GoRight_SameMin(m) == imin' = m                               \* mutant
GoRight(m) == imin' = m + 1

KeepLeft_AnyHit(m) == FALSE                                   \* mutant
KeepLeft(m) == imin # m

Probe ==
  LET m == Middle IN
  /\ pc = "probe"
  /\ imin <= imax
  /\ temp' = ReadKey(m)
  /\ filepos' = After(m)
  /\ \/ ReadKey(m) < key /\ GoRight(m) /\ UNCHANGED <<imax, i, pc>>
     \/ ReadKey(m) > key /\ imax' = m - 1 /\ UNCHANGED <<imin, i, pc>>
     \/ ReadKey(m) = key /\ KeepLeft(m) /\ imax' = m /\ UNCHANGED <<imin, i, pc>>
     \/ /\ ReadKey(m) = key /\ ~KeepLeft(m)
        /\ i' = m /\ pc' = "verify"
        /\ UNCHANGED <<imin, imax>>
  /\ UNCHANGED <<rel, key, mode, result>>

LoopEnds ==
  /\ pc = "probe"
  /\ imin > imax
  /\ i' = imin
  /\ pc' = "verify"
  /\ UNCHANGED <<rel, filepos, key, mode, imin, imax, temp, result>>

\* The tuple found is read again.  For an integer it is not compared; for a
\* tuple, -1 says that nothing was found, and otherwise scan_find puts the
\* file in front of it.
Unequal(found) == mode = "tuple" /\ found # key
Verify ==
  /\ pc = "verify"
  /\ temp' = ReadKey(i)
  /\ \/ Unequal(ReadKey(i)) /\ result' = -1 /\ filepos' = After(i)
     \/ /\ ~Unequal(ReadKey(i))
        /\ result' = i
        /\ filepos' = IF mode = "tuple" THEN i ELSE After(i)
  /\ pc' = "found"
  /\ UNCHANGED <<rel, key, mode, imin, imax, i>>

SearchStep == Probe \/ LoopEnds \/ Verify

Next == SearchStep \/ \E k \in Keys, m \in {"int", "tuple"} : Call(k, m)

Spec == Init /\ [][Next]_searchVars

FairSpec == Spec /\ WF_searchVars(SearchStep)

-----------------------------------------------------------------------------
SearchTypeOK ==
  /\ rel \in Relations
  /\ filepos \in Nat
  /\ key \in Int /\ mode \in {"int", "tuple"}
  /\ imin \in Nat /\ imax \in Int /\ i \in Int /\ temp \in Int
  /\ result \in Int
  /\ pc \in {"idle", "probe", "verify", "found"}

\* Tuple p, or the end of the file, is the first whose key is not below the
\* one looked for.
LowerBound(p) == \A j \in Positions : j < p <=> Key(j) < key

\* What db_index_getoffset returns is the first tuple to scan from.  -1 is
\* returned only when no tuple has the key, and a tuple that is returned to a
\* join has it (an empty relation aside, where uninitialised memory decides).
FirstOccurrence ==
  pc = "found" =>
    /\ result = -1 => \A j \in Positions : Key(j) # key
    /\ result # -1 => LowerBound(result)
    /\ mode = "tuple" /\ result # -1 /\ rel # <<>> =>
         result \in Positions /\ Key(result) = key

\* Every round of the loop leaves less to search, so that it ends.
Shrinks ==
  [][pc = "probe" /\ pc' = "probe" => imax' - imin' < imax - imin]_searchVars

\* The invariant of the loop.
SearchInv ==
  /\ SearchTypeOK
  /\ pc = "probe" =>
       /\ \A j \in Positions : (j < imin => Key(j) < key) /\ (j > imax => key <= Key(j))
       /\ imin <= imax + 1
       /\ rel # <<>> => imax < Len(rel) /\ (imin = Len(rel) => temp < key)
  /\ pc = "verify" =>
       /\ LowerBound(i) /\ i >= 0
       /\ rel # <<>> /\ i = Len(rel) => temp < key
       /\ rel # <<>> => i <= Len(rel)
  /\ FirstOccurrence
=============================================================================
