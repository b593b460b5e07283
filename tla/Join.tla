--------------------------------- MODULE Join ---------------------------------
(***************************************************************************)
(* The joins of two tables, dbops/ntjoin.c and dbops/osijoin.c.            *)
(*                                                                         *)
(* parse builds a nested-tuple join first (init_ntjoin, which already      *)
(* reads a tuple of the left relation) and then tries to turn it, in       *)
(* place, into a one-sided index join (setup_osijoin): the two structs lie *)
(* over each other, so that lt is ut and lvalid is bitinfo.                *)
(*                                                                         *)
(* rel is the relation that is searched (with an index) or gone through    *)
(* for every tuple of the other one, outer.  outer is the left relation    *)
(* unless the only index is on the left one.                               *)
(***************************************************************************)
EXTENDS IndexSearch, FiniteSets

CONSTANTS
  Outers,     \* what outer may hold: sequences of keys
  Plans,      \* [cond, index]: the condition, and the side with an index
  NULL        \* the key of a tuple whose attribute is NULL

\* An index is of use only if two attributes have to be equal.
ASSUME JoinAssumption ==
  /\ NULL \in Int
  /\ \A r \in Outers : r \in Seq(Int)
  /\ Plans \subseteq [cond : {"EQ", "LT"}, index : {"none", "left", "right"}]
  /\ \A p \in Plans : p.index = "left" => p.cond = "EQ"

VARIABLES
  outer, plan,
  type,         \* base.type: "NTJOIN" or "OSIJOIN"
  opos,         \* where the file of outer stands
  ut,           \* the tuple of outer (lt, ut), by its key
  more,         \* there is one (lvalid = 1, or the UMORE bit)
  stage,        \* "init", "setup", "find", "run"
  pairs, over   \* the pairs returned, and whether 0 was

joinVars == <<outer, plan, type, opos, ut, more, stage, pairs, over>>
allVars == <<searchVars, joinVars>>

\* Whether evaluate_eet makes the join condition 1 (NULL makes it 2).
On(u, t) ==
  /\ u # NULL /\ t[IndexAttr] # NULL
  /\ CASE plan.cond = "EQ" -> u = t[IndexAttr]
       [] plan.cond = "LT" -> u < t[IndexAttr]

JoinInit ==
  /\ Init
  /\ outer \in Outers
  /\ plan \in Plans
  /\ type = "NTJOIN"
  /\ opos = 0
  /\ ut \in Garbage
  /\ more = FALSE
  /\ stage = "init"
  /\ pairs = <<>>
  /\ over = FALSE

\* next on outer, into ut; the tuple stays as it was when there is none.
NextOuter_Stuck(p) ==                                         \* mutant
  \/ p < Len(outer) /\ ut' = outer[p + 1] /\ opos' = p /\ more' = TRUE
  \/ p >= Len(outer) /\ opos' = p /\ more' = FALSE /\ UNCHANGED ut
NextOuter(p) ==
  \/ p < Len(outer) /\ ut' = outer[p + 1] /\ opos' = p + 1 /\ more' = TRUE
  \/ p >= Len(outer) /\ opos' = p /\ more' = FALSE /\ UNCHANGED ut

\* init_ntjoin.  When the left relation is rel, its first tuple is read.
InitNTJoin ==
  /\ stage = "init"
  /\ \/ plan.index # "left" /\ NextOuter(0) /\ UNCHANGED filepos
     \/ /\ plan.index = "left"
        /\ filepos' = After(0)
        /\ more' = (rel # <<>>)
        /\ ut' = IF rel # <<>> THEN rel[1][IndexAttr] ELSE ut
        /\ UNCHANGED opos
  /\ stage' = "setup"
  /\ UNCHANGED <<rel, local, pc, outer, plan, type, pairs, over>>

\* setup_osijoin, when it cannot use an index.  With a condition of the right
\* form it has already written 1 to bitinfo, which is lvalid.
NoIndex ==
  /\ stage = "setup"
  /\ plan.index = "none" \/ plan.cond # "EQ"
  /\ more' = (more \/ plan.cond = "EQ")
  /\ stage' = "run"
  /\ UNCHANGED <<searchVars, outer, plan, type, opos, ut, pairs, over>>

\* setup_osijoin, when it can: outer is rewound, and the first of its tuples
\* looked up.
SetupOSIJoin ==
  /\ stage = "setup"
  /\ plan.index # "none" /\ plan.cond = "EQ"
  /\ type' = "OSIJOIN"
  /\ NextOuter(0)
  /\ Call(ut', "tuple")
  /\ stage' = "find"
  /\ UNCHANGED <<outer, plan, pairs, over>>

\* scan_find.  It returns 0 or 1 and the macro that keeps the result looks for
\* -1, so that the IVALID bit is always set.
Find ==
  /\ stage = "find"
  /\ \/ SearchStep /\ UNCHANGED stage
     \/ pc = "found" /\ stage' = "run" /\ UNCHANGED searchVars
  /\ UNCHANGED <<outer, plan, type, opos, ut, more, pairs, over>>

Pair(u, t) == IF plan.index = "left" THEN <<t[IndexAttr], u, t>>
                                     ELSE <<u, t[IndexAttr], t>>

\* next_ntjoin: a tuple of rel is read, and joined or not.
NTInner ==
  LET t == rel[filepos + 1] IN
  /\ stage = "run" /\ type = "NTJOIN" /\ more
  /\ filepos \in Positions
  /\ filepos' = filepos + 1
  /\ pairs' = IF On(ut, t) THEN Append(pairs, Pair(ut, t)) ELSE pairs
  /\ UNCHANGED <<rel, local, pc, outer, plan, type, opos, ut, more, stage, over>>

\* next_ntjoin: rel is exhausted.
InnerStart_Here == filepos                                    \* mutant
InnerStart == 0
NTOuter ==
  /\ stage = "run" /\ type = "NTJOIN" /\ more
  /\ filepos \notin Positions
  /\ NextOuter(opos)
  /\ filepos' = InnerStart
  /\ UNCHANGED <<rel, local, pc, outer, plan, type, stage, pairs, over>>

\* next_osijoin: the next tuple of rel joins, ...
OSIMatch == filepos \in Positions /\ On(ut, rel[filepos + 1])
OSIInner ==
  /\ stage = "run" /\ type = "OSIJOIN" /\ more
  /\ OSIMatch
  /\ pairs' = Append(pairs, Pair(ut, rel[filepos + 1]))
  /\ filepos' = filepos + 1
  /\ UNCHANGED <<rel, local, pc, outer, plan, type, opos, ut, more, stage, over>>

\* ... or the next tuple of outer is looked up, even when there is none.
OSIOuter ==
  /\ stage = "run" /\ type = "OSIJOIN" /\ more
  /\ ~OSIMatch
  /\ NextOuter(opos)
  /\ Call(ut', "tuple")
  /\ stage' = "find"
  /\ UNCHANGED <<outer, plan, type, pairs, over>>

\* 0 is returned, now and whenever next is called again.
NoMore ==
  /\ stage = "run" /\ ~more
  /\ over' = TRUE
  /\ UNCHANGED <<searchVars, outer, plan, type, opos, ut, more, stage, pairs>>

\* rewind_ntjoin, rewind_osijoin
JoinRewind ==
  /\ stage = "run"
  /\ NextOuter(0)
  /\ \/ /\ type = "NTJOIN"
        /\ filepos' = 0
        /\ UNCHANGED <<rel, local, pc, stage>>
     \/ /\ type = "OSIJOIN"
        /\ Call(ut', "tuple")
        /\ stage' = "find"
  /\ pairs' = <<>>
  /\ over' = FALSE
  /\ UNCHANGED <<outer, plan, type>>

JoinStep ==
  \/ InitNTJoin \/ NoIndex \/ SetupOSIJoin \/ Find
  \/ NTInner \/ NTOuter \/ OSIInner \/ OSIOuter \/ NoMore

JoinNext == JoinStep \/ JoinRewind

Fairness == WF_allVars(JoinStep)

\* An equality without an index, on an empty left relation, is left out:
\* setup_osijoin has then written over lvalid before it gives up (osijoin.c:87).
SoundInit ==
  /\ JoinInit
  /\ outer # <<>> \/ plan # [cond |-> "EQ", index |-> "none"]

JoinSpec == SoundInit /\ [][JoinNext]_allVars /\ Fairness

-----------------------------------------------------------------------------
\* The places in outer and rel of two tuples that join, and those of them before a
\* place: in the order of outer, and for one tuple of it in that of rel.
Joining == {p \in (1..Len(outer)) \X Positions : On(outer[p[1]], rel[p[2] + 1])}
Passed(k, j) == {p \in Joining : p[1] < k \/ (p[1] = k /\ p[2] < j)}

\* The answer: the n-th pair is the one that n - 1 come before.
PairAt(p) == Pair(outer[p[1]], rel[p[2] + 1])
Nth(n) == CHOOSE p \in Joining : Cardinality(Passed(p[1], p[2])) = n - 1
Answer == [n \in 1..Cardinality(Joining) |-> PairAt(Nth(n))]

Stream == INSTANCE TupleStream WITH answers <- {Answer}, out <- pairs

\* Whichever way the join is carried out, and wherever its caller rewinds it,
\* it returns the pairs of the answer one by one and then no more: an index
\* search that lands on the wrong occurrence, a cursor left behind by the
\* search or a missed rewind of rel would lose or repeat some.
JoinAnswers == Stream!Spec

\* Once its caller stops rewinding it, the join ends: neither loop goes round
\* on the same tuple for ever.
Exhausted == <>[][JoinStep]_allVars => <>[]over
=============================================================================
