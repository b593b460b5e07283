------------------------------- MODULE ExecTree -------------------------------
(***************************************************************************)
(* The plan of a query carried out: the names of the query are looked up   *)
(* (setupattribute of dbparser/dbparseexpr.c), and then next and           *)
(* rewind_dbop (dbops/db_ops.c) go down the operators and back up, through *)
(* scan.c, ntjoin.c, select.c and project.c of dbops.                      *)
(*                                                                         *)
(* A plan that parse builds is a chain: operator k has operator k - 1 as   *)
(* its only, or its left, child, and the right child of the join k is the  *)
(* scan k.  The files of the scans and the left tuples of the joins are    *)
(* state; a call that goes down the chain is on a stack until it returns.  *)
(* Indexes are in IndexScan and Join.                                      *)
(***************************************************************************)
EXTENDS Integers, Sequences, FiniteSets

CONSTANTS
  Queries,    \* [from, where, items]; where is a conjunction of equalities
  Attrs,      \* the names of the attributes of each relation
  Rows,       \* its tuples, each a sequence of values
  NULL

SE == INSTANCE SequencesExt
Concat(ss) == SE!FlattenSeq(ss)
IsSeq(s)   == s \in Seq(SE!Range(s))

ASSUME RowsAssumption ==
  \A r \in DOMAIN Rows :
    /\ IsSeq(Attrs[r]) /\ IsSeq(Rows[r])
    /\ \A k \in DOMAIN Rows[r] :
         IsSeq(Rows[r][k]) /\ Len(Rows[r][k]) = Len(Attrs[r])

\* parseFrom refuses an alias that is used twice, parseSelect the attributes of
\* a table that is not in FROM.
ASSUME QueriesAssumption ==
  \A q \in Queries :
    /\ IsSeq(q.from) /\ q.from # <<>> /\ IsSeq(q.where) /\ IsSeq(q.items)
    /\ \A s \in DOMAIN q.from : q.from[s].relation \in DOMAIN Rows
    /\ \A s, t \in DOMAIN q.from :
         q.from[s].alias = q.from[t].alias => s = t
    /\ \A i \in DOMAIN q.items :
         \/ q.items[i].kind = "*"
         \/ /\ q.items[i].kind = "T.*"
            /\ \E s \in DOMAIN q.from : q.from[s].alias = q.items[i].table
         \/ q.items[i].kind = "sum" /\ IsSeq(q.items[i].operands)

VARIABLES
  query,
  condAt, itemAt,   \* where the attributes of where and of items are found
  filepos,          \* how many tuples of each scan have been read
  lt, lvalid,       \* of each join: its left tuple, and whether it has one
  calls,            \* the calls that have not returned, the innermost first
  got,              \* what the last one to return returned
  built,            \* the operators that exist, while the plan is built
  phase,            \* "build", "look", "refused", "ready", "next", "rewind"
  out, over,        \* the tuples returned, and whether 0 was
  answers           \* history: what the query means, if it means something

tree == <<filepos, lt, lvalid>>
plan == <<query, answers, condAt, itemAt, built>>
vars == <<plan, tree, calls, got, phase, out, over>>

-----------------------------------------------------------------------------
(* The plan.                                                               *)
N           == Len(query.from)
Scans       == 1 .. N
Relation(s) == query.from[s].relation
Alias(s)    == query.from[s].alias
File(s)     == Rows[Relation(s)]
Width(k)    == Len(Concat([s \in 1 .. k |-> Attrs[Relation(s)]]))  \* num_attr

OneJoin  == N = 2          \* the condition goes into the join
Selects  == query.where # <<>> /\ ~OneJoin
OnlyStar == query.items = <<[kind |-> "*"]>>
Child    == N + (IF Selects THEN 1 ELSE 0)     \* below the projection
Top      == Child + (IF OnlyStar THEN 0 ELSE 1)
Op(k) == CASE k = 1 -> "SCAN" [] k \in 2 .. N -> "NTJOIN"
           [] k > N /\ k <= Child -> "SELECT" [] OTHER -> "PROJECT"

RefsIn(operands) == {o \in operands : o.kind = "attr"}
CondRefs == RefsIn(UNION {{query.where[c].l, query.where[c].r} :
                            c \in DOMAIN query.where})
Expressions == {i \in DOMAIN query.items : query.items[i].kind = "sum"}
ItemRefs == RefsIn(UNION {SE!Range(query.items[i].operands) : i \in Expressions})

-----------------------------------------------------------------------------
(* setupattribute: -1 or 0, or 1 with a tuple and a position in it.        *)
Has(s, name) == name \in SE!Range(Attrs[Relation(s)])
PosByName(s, name) ==
  (CHOOSE p \in DOMAIN Attrs[Relation(s)] : Attrs[Relation(s)][p] = name) - 1

Missing(ret) == [ret |-> ret, tuple |-> 0, pos |-> 0]

Ambiguous_Never(ref) == FALSE                                      \* mutant
Ambiguous(ref) ==
  ref.table = "" /\ Cardinality({s \in Scans : Has(s, ref.name)}) > 1

Leaf(ref, s) ==
  IF Ambiguous(ref) THEN Missing(-1)
  ELSE IF ref.table \notin {"", Alias(s)} THEN Missing(0)
  ELSE IF ~Has(s, ref.name) THEN Missing(-1)
  ELSE [ret |-> 1, tuple |-> 0, pos |-> PosByName(s, ref.name)]

\* Found in the right child of join k.
OnRight_NoShift(right, k, depth) ==                                \* mutant
  IF right.ret # 1 THEN right ELSE [right EXCEPT !.tuple = IF depth > 0 THEN 0 ELSE 1]
OnRight(right, k, depth) ==
  IF right.ret # 1 THEN right
  ELSE IF depth > 0 THEN [right EXCEPT !.pos = @ + Width(k - 1)]
  ELSE [right EXCEPT !.tuple = 1]

\* At operator e of the chain, which is at depth d.
SetupAttribute(ref, e, d) ==
  LET at[k \in 1 .. e] ==
        CASE Op(k) = "SCAN"   -> Leaf(ref, k)
          [] Op(k) = "NTJOIN" ->
               IF at[k - 1].ret # 0 THEN at[k - 1]
               ELSE OnRight(Leaf(ref, k), k, d + e - k)
          [] OTHER            -> [at[k - 1] EXCEPT !.tuple = 0]
  IN at[e]

\* evaluate_eet on tuples, for a sum of constants and attributes.
Value(o, at, tuples) ==
  IF o.kind = "attr" THEN tuples[at[o].tuple + 1][at[o].pos + 1] ELSE o.value
Sum(operands, at, tuples) ==
  LET v == [i \in DOMAIN operands |-> Value(operands[i], at, tuples)] IN
  IF \E i \in DOMAIN v : v[i] = NULL THEN NULL
  ELSE IF Len(v) = 1 THEN v[1] ELSE v[1] + v[2]

Passes(tuples) ==
  \A c \in DOMAIN query.where :
     LET l == Value(query.where[c].l, condAt, tuples)
         r == Value(query.where[c].r, condAt, tuples)
     IN l # NULL /\ r # NULL /\ l = r

\* next_project: what each item takes from the tuple of the child.
Firsts(alias) == Width((CHOOSE s \in Scans : Alias(s) = alias) - 1)
Take(item, tuple) ==
  CASE item.kind = "*" -> tuple
    [] item.kind = "T.*" ->
         LET s == CHOOSE s \in Scans : Alias(s) = item.table
         IN SubSeq(tuple, Firsts(item.table) + 1, Width(s))
    [] OTHER -> <<Sum(item.operands, itemAt, <<tuple>>)>>
Projected(tuple) ==
  Concat([i \in DOMAIN query.items |-> Take(query.items[i], tuple)])

-----------------------------------------------------------------------------
\* What the query means: the combinations of one tuple of each relation, in
\* the order of the relations, that satisfy where, each with the values of
\* its items; an attribute is found by its name alone.
Holders(ref) == {s \in Scans : ref.table \in {"", Alias(s)} /\ Has(s, ref.name)}
Named(ref) == Cardinality(Holders(ref)) = 1

Combinations ==
  LET upto[k \in 0 .. N] ==
        IF k = 0 THEN << <<>> >>
        ELSE LET shorter == upto[k - 1] IN
             Concat([j \in DOMAIN shorter |->
                       [i \in DOMAIN File(k) |-> Append(shorter[j], File(k)[i])]])
  IN upto[N]

Meant(o, c) ==
  IF o.kind # "attr" THEN o.value
  ELSE LET s == CHOOSE s \in Scans : s \in Holders(o)
       IN c[s][PosByName(s, o.name) + 1]
Satisfies(c) ==
  \A k \in DOMAIN query.where :
     /\ Meant(query.where[k].l, c) = Meant(query.where[k].r, c)
     /\ Meant(query.where[k].l, c) # NULL
ItemMeant(item, c) ==
  CASE item.kind = "*" -> Concat(c)
    [] item.kind = "T.*" -> c[CHOOSE s \in Scans : Alias(s) = item.table]
    [] OTHER ->
         LET v == [i \in DOMAIN item.operands |-> Meant(item.operands[i], c)] IN
         <<IF \E i \in DOMAIN v : v[i] = NULL THEN NULL
           ELSE IF Len(v) = 1 THEN v[1] ELSE v[1] + v[2]>>
Wanted(c) == Concat([i \in DOMAIN query.items |-> ItemMeant(query.items[i], c)])
Answer ==
  LET cs == Combinations IN
  Concat([j \in DOMAIN cs |-> IF Satisfies(cs[j]) THEN <<Wanted(cs[j])>> ELSE <<>>])

Refs  == CondRefs \cup ItemRefs
Legal == \A ref \in Refs : Named(ref)

-----------------------------------------------------------------------------
Init ==
  /\ query \in Queries
  /\ answers = IF Legal THEN {Answer} ELSE {}
  /\ condAt = <<>> /\ itemAt = <<>>
  /\ filepos = [s \in Scans |-> 0]
  /\ lt = [k \in Scans |-> <<>>]
  /\ lvalid = [k \in Scans |-> 0]
  /\ calls = <<>>
  /\ got = [ret |-> 0, tuple |-> <<>>]
  /\ built = 1
  /\ phase = "build"
  /\ out = <<>>
  /\ over = FALSE

Frame(k, at) == [op |-> k, at |-> at]

\* init_ntjoin reads the first tuple of the join's left child.
InitNTJoin ==
  /\ phase = "build" /\ calls = <<>> /\ built < N
  /\ calls' = <<Frame(built, "next"), Frame(built + 1, "first")>>
  /\ built' = built + 1
  /\ UNCHANGED <<query, answers, condAt, itemAt, tree, got, phase, out, over>>

\* verifysetupattributes, for the condition and then for the items.
VerifyCondition ==
  /\ phase = "build" /\ calls = <<>> /\ built = N
  /\ condAt' = [ref \in CondRefs |->
                  SetupAttribute(ref, IF Selects THEN N + 1 ELSE N, 0)]
  /\ phase' = IF \A ref \in CondRefs : condAt'[ref].ret = 1
              THEN "look" ELSE "refused"
  /\ UNCHANGED <<query, answers, itemAt, built, tree, calls, got, out, over>>

VerifyItems ==
  /\ phase = "look"
  /\ itemAt' = [ref \in ItemRefs |-> SetupAttribute(ref, Child, 1)]
  /\ phase' = IF \A ref \in ItemRefs : itemAt'[ref].ret = 1
              THEN "ready" ELSE "refused"
  /\ UNCHANGED <<query, answers, condAt, built, tree, calls, got, out, over>>

-----------------------------------------------------------------------------
(* The calls.                                                              *)
Active(op, at) == calls # <<>> /\ Op(calls[1].op) = op /\ calls[1].at = at
This == calls[1].op

Return(ret, tuple) ==
  /\ got' = [ret |-> ret, tuple |-> tuple]
  /\ calls' = Tail(calls)
Pass == calls' = Tail(calls) /\ UNCHANGED got
\* Call the child; what this operator is to do next is then at.
CallChild(what, at) ==
  /\ calls' = <<Frame(This - 1, what), Frame(This, at)>> \o Tail(calls)
  /\ UNCHANGED got
GoTo(at) == calls' = [calls EXCEPT ![1].at = at] /\ UNCHANGED got

More(s) == filepos[s] < Len(File(s))
Read(s) == File(s)[filepos[s] + 1]
Context == UNCHANGED <<plan, phase, out, over>>

NextScan ==
  /\ Active("SCAN", "next")
  /\ IF More(1)
     THEN Return(1, Read(1)) /\ filepos' = [filepos EXCEPT ![1] = @ + 1]
     ELSE Return(0, got.tuple) /\ UNCHANGED filepos
  /\ UNCHANGED <<lt, lvalid>> /\ Context

\* next_ntjoin: for a left tuple, the tuples left in the right child.
Joined(k, tuple) ==
  OneJoin /\ phase # "build" => Passes(<<lt[k], tuple>>)

NTInner ==
  /\ Active("NTJOIN", "next") /\ lvalid[This] = 1 /\ More(This)
  /\ filepos' = [filepos EXCEPT ![This] = @ + 1]
  /\ IF Joined(This, Read(This)) THEN Return(1, lt[This] \o Read(This))
                                 ELSE GoTo("next")
  /\ UNCHANGED <<lt, lvalid>> /\ Context

NTOuter ==
  /\ Active("NTJOIN", "next") /\ lvalid[This] = 1 /\ ~More(This)
  /\ CallChild("next", "left")
  /\ UNCHANGED tree /\ Context

NTDone ==
  /\ Active("NTJOIN", "next") /\ lvalid[This] = 0
  /\ Return(0, got.tuple)
  /\ UNCHANGED tree /\ Context

\* The left tuple is what next gave, or stays.
TakeLeft ==
  /\ lvalid' = [lvalid EXCEPT ![This] = got.ret]
  /\ lt' = IF got.ret = 1 THEN [lt EXCEPT ![This] = got.tuple] ELSE lt

NTLeft ==
  /\ Active("NTJOIN", "left")
  /\ TakeLeft
  /\ filepos' = [filepos EXCEPT ![This] = 0]
  /\ GoTo("next") /\ Context

\* The end of init_ntjoin and of rewind_ntjoin.
NTFirst ==
  /\ Active("NTJOIN", "first")
  /\ TakeLeft
  /\ Pass
  /\ UNCHANGED filepos /\ Context

NextOneChild ==
  /\ Active("SELECT", "next") \/ Active("PROJECT", "next")
  /\ CallChild("next", "child")
  /\ UNCHANGED tree /\ Context

SelectChild_KeepsOn ==                                             \* mutant
  /\ Active("SELECT", "child")
  /\ IF got.ret = 1 /\ Passes(<<got.tuple>>) THEN Pass ELSE GoTo("next")
  /\ UNCHANGED tree /\ Context
SelectChild ==
  /\ Active("SELECT", "child")
  /\ IF got.ret = 1 /\ ~Passes(<<got.tuple>>) THEN GoTo("next") ELSE Pass
  /\ UNCHANGED tree /\ Context

ProjectChild ==
  /\ Active("PROJECT", "child")
  /\ IF got.ret = 1 THEN Return(1, Projected(got.tuple)) ELSE Pass
  /\ UNCHANGED tree /\ Context

RewindScan ==
  /\ Active("SCAN", "rewind")
  /\ filepos' = [filepos EXCEPT ![1] = 0]
  /\ Pass
  /\ UNCHANGED <<lt, lvalid>> /\ Context

RewindChild ==
  /\ \E op \in {"NTJOIN", "SELECT", "PROJECT"} : Active(op, "rewind")
  /\ CallChild("rewind", "rewound")
  /\ UNCHANGED tree /\ Context

RewoundOneChild ==
  /\ Active("SELECT", "rewound") \/ Active("PROJECT", "rewound")
  /\ Pass
  /\ UNCHANGED tree /\ Context

RewoundNTJoin ==
  /\ Active("NTJOIN", "rewound")
  /\ filepos' = [filepos EXCEPT ![This] = 0]
  /\ CallChild("next", "first")
  /\ UNCHANGED <<lt, lvalid>> /\ Context

-----------------------------------------------------------------------------
(* The caller of the plan.                                                 *)
CallNext ==
  /\ phase = "ready"
  /\ calls' = <<Frame(Top, "next")>>
  /\ phase' = "next"
  /\ UNCHANGED <<plan, tree, got, out, over>>

Answered ==
  /\ phase = "next" /\ calls = <<>>
  /\ IF got.ret = 1 THEN out' = Append(out, got.tuple) /\ UNCHANGED over
                    ELSE over' = TRUE /\ UNCHANGED out
  /\ phase' = "ready"
  /\ UNCHANGED <<plan, tree, calls, got>>

CallRewind ==
  /\ phase = "ready"
  /\ calls' = <<Frame(Top, "rewind")>>
  /\ phase' = "rewind"
  /\ out' = <<>> /\ over' = FALSE
  /\ UNCHANGED <<plan, tree, got>>

Rewound ==
  /\ phase = "rewind" /\ calls = <<>>
  /\ phase' = "ready"
  /\ UNCHANGED <<plan, tree, calls, got, out, over>>

Advance ==
  \/ InitNTJoin \/ VerifyCondition \/ VerifyItems
  \/ NextScan \/ NTInner \/ NTOuter \/ NTDone \/ NTLeft \/ NTFirst
  \/ NextOneChild \/ SelectChild \/ ProjectChild
  \/ RewindScan \/ RewindChild \/ RewoundOneChild \/ RewoundNTJoin
  \/ CallNext \/ Answered \/ Rewound

Next == Advance \/ CallRewind

\* The caller goes on calling next until it is told that there is no more.
Spec == Init /\ [][Next]_vars /\ WF_vars(Advance)

-----------------------------------------------------------------------------
Stream == INSTANCE TupleStream

\* Whatever the plan and wherever its caller rewinds it, next returns the
\* tuples the query means, one by one and then no more: an attribute looked
\* up at another's position, a join that goes on with a stale tuple or a
\* right child that is not rewound would lose, repeat or change some
\* (dbparseexpr.c:535, ntjoin.c:120).
AnswersMeant == Stream!Spec

\* A query is refused if a name in it has no attribute or more than one, and
\* otherwise only for an attribute without its table that is not in the first
\* relation of FROM (dbparseexpr.c:581).
RefusedAsNamed ==
  /\ phase \in {"ready", "next", "rewind"} => Legal
  /\ phase = "refused" =>
       \E ref \in Refs : ~Named(ref) \/ (ref.table = "" /\ ~Has(1, ref.name))

\* Once its caller stops rewinding it, the plan of a query that is accepted
\* comes to an end: no loop of next_ntjoin or next_select goes round on the
\* same tuple for ever.
AnswerEnds == <>[][Advance]_vars => <>[](over \/ phase = "refused")
=============================================================================
