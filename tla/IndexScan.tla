------------------------------ MODULE IndexScan ------------------------------
(***************************************************************************)
(* SELECT ... FROM rel WHERE <condition>, when rel has an index: how parse *)
(* (dbparser/dbparser.c) turns the scan of rel into an indexed one, and    *)
(* what the select above the scan then returns (dbops/scan.c, select.c).   *)
(*                                                                         *)
(* The condition is known by what parse sees of it: the nodes of its       *)
(* postfix code, in which the order of the operands of a comparison and    *)
(* the unary operators do not count.                                       *)
(***************************************************************************)
EXTENDS IndexSearch

CONSTANTS
  Conditions,   \* the WHERE clauses
  WhichIndex    \* number of the index on IndexAttr among those of rel

ASSUME ScanAssumption ==
  /\ WhichIndex \in Nat
  /\ Conditions \subseteq
       [form : {"attr op val", "val op attr", "not"},
        op : {"LT", "LTE", "GT", "GTE", "EQ", "NEQ"},
        attr : 0..(Arity - 1), val : Int]

VARIABLES
  cond,                     \* the WHERE clause
  tuple_start, indexon, stopat,   \* fields of the scan_t
  phase,     \* of the query: "setup", "search", "stop", "scan", "end"
  out                       \* the tuples the select has returned

scanVars == <<cond, tuple_start, indexon, stopat, phase, out>>
vars == <<searchVars, scanVars>>

Compare(op, a, b) ==
  CASE op = "LT"  -> a < b
    [] op = "LTE" -> a <= b
    [] op = "GT"  -> a > b
    [] op = "GTE" -> a >= b
    [] op = "EQ"  -> a = b
    [] op = "NEQ" -> a # b

\* What the select evaluates for tuple t.
Holds(c, t) ==
  LET a == t[c.attr] IN
  CASE c.form = "attr op val" -> Compare(c.op, a, c.val)
    [] c.form = "val op attr" -> Compare(c.op, c.val, a)
    [] c.form = "not"         -> ~Compare(c.op, a, c.val)

\* The loop over the nodes found one integer, one attribute and one comparison
\* it knows, and findindexon an index on the attribute.
Indexable(c) == c.op # "NEQ" /\ c.attr = IndexAttr

ScanInit ==
  /\ Init
  /\ cond \in Conditions
  /\ tuple_start = 0 /\ indexon = -1 /\ stopat = 0
  /\ phase = "setup"
  /\ out = <<>>

\* The start condition: the search is called, or not needed.
StartAt_NoStep(c) == c.val                                    \* mutant
StartAt(c) ==
  IF c.op = "GT" THEN c.val + 1 ELSE c.val
SeeksStart(c) == Indexable(c) /\ c.op \in {"GTE", "EQ", "GT"}

SetStart ==
  /\ phase = "setup"
  /\ \/ SeeksStart(cond) /\ Call(StartAt(cond), "int") /\ phase' = "search"
     \/ ~SeeksStart(cond) /\ phase' = "stop" /\ UNCHANGED searchVars
  /\ UNCHANGED <<cond, tuple_start, indexon, stopat, out>>

Search ==
  /\ phase = "search"
  /\ SearchStep
  /\ UNCHANGED scanVars

\* tuple_start takes the result, and rewind_scan.
Found ==
  /\ phase = "search"
  /\ pc = "found"
  /\ tuple_start' = result
  /\ filepos' = result
  /\ phase' = "stop"
  /\ UNCHANGED <<rel, local, pc, cond, indexon, stopat, out>>

\* The end condition.
StopValue_Inclusive(c) == c.val                               \* mutant
StopValue(c) == IF c.op = "LT" THEN c.val ELSE c.val + 1
SetStop ==
  /\ phase = "stop"
  /\ \/ /\ Indexable(cond) /\ cond.op \in {"LTE", "EQ", "LT"}
        /\ stopat' = StopValue(cond)
        /\ indexon' = WhichIndex
     \/ /\ ~(Indexable(cond) /\ cond.op \in {"LTE", "EQ", "LT"})
        /\ UNCHANGED <<stopat, indexon>>
  /\ phase' = "scan"
  /\ UNCHANGED <<searchVars, cond, tuple_start, out>>

\* next_scan under next_select: one tuple is read, and kept or dropped.  The
\* user may call next again after it has returned 0.
Reading == phase \in {"scan", "end"}
AtStop(t) == indexon > -1 /\ t[indexon] >= stopat
NextTuple ==
  LET t == rel[filepos + 1] IN
  /\ Reading
  /\ filepos \in Positions
  /\ filepos' = filepos + 1
  /\ \/ AtStop(t) /\ phase' = "end" /\ UNCHANGED out
     \/ ~AtStop(t) /\ Holds(cond, t) /\ out' = Append(out, t) /\ UNCHANGED phase
     \/ ~AtStop(t) /\ ~Holds(cond, t) /\ UNCHANGED <<out, phase>>
  /\ UNCHANGED <<rel, local, pc, cond, tuple_start, indexon, stopat>>

EndOfFile ==
  /\ Reading
  /\ filepos \notin Positions
  /\ phase' = "end"
  /\ UNCHANGED <<searchVars, cond, tuple_start, indexon, stopat, out>>

\* rewind_select and rewind_scan, whenever the user of the query asks.
RewindTo == tuple_start
Rewind ==
  /\ Reading
  /\ filepos' = RewindTo
  /\ out' = <<>>
  /\ phase' = "scan"
  /\ UNCHANGED <<rel, local, pc, cond, tuple_start, indexon, stopat>>

Advance == SetStart \/ Search \/ Found \/ SetStop \/ NextTuple \/ EndOfFile

ScanNext == Advance \/ Rewind

ScanSpec == ScanInit /\ [][ScanNext]_vars

-----------------------------------------------------------------------------
Matches(j) == Holds(cond, rel[j + 1])

\* f gives the positions of the tuples o, which are in order, and all of those
\* before n that satisfy the condition.
Picks(f, o, n) ==
  /\ \A k, l \in 1..Len(o) : k < l => f[k] < f[l]
  /\ \A k \in 1..Len(o) : o[k] = rel[f[k] + 1]
  /\ \A k \in 1..Len(o) : f[k] < n /\ Matches(f[k])
  /\ \A j \in Positions : j < n /\ Matches(j) => \E k \in 1..Len(o) : f[k] = j

Selected(o, n) == \E f \in [1..Len(o) -> Positions] : Picks(f, o, n)

\* The index changes how a query is answered, never the answer: the select has
\* returned those of the first tuples that satisfy the condition, each once and
\* in the order of the relation, and at the end all of them, after a rewind as
\* before.
SameAnswer ==
  \E n \in 0..Len(rel) :
    Selected(out, n) /\ (phase = "end" => n = Len(rel))

\* An indexed scan reads no tuple before the first it can use, and none after
\* the one that stops it.
NoWaste ==
  Reading /\ Indexable(cond) =>
    /\ cond.op \in {"EQ", "GT", "GTE"} =>
         \A j \in Positions :
           j < tuple_start <=> ~Compare(IF cond.op = "GT" THEN "GT" ELSE "GTE",
                                        Key(j), cond.val)
    /\ cond.op \in {"EQ", "LT", "LTE"} =>
         \A j \in Positions : phase = "scan" /\ j < filepos =>
           Compare(IF cond.op = "LT" THEN "LT" ELSE "LTE", Key(j), cond.val)
=============================================================================
