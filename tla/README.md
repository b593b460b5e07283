# LittleD: a specification of its query engine

LittleD is a relational database for microcontrollers: a parser that turns one
SQL command into a tree of operators, operators that pull tuples through
`next`, and a memory manager that serves the whole query from one segment.
Nothing runs concurrently. What makes it hard to get right is that there is no
memory to spare: two stacks share one segment and are freed in any order, the
sort remembers a single tuple, a join is converted into another kind of join
over the same bytes, an index is the order of the relation's own file, and a
row is appended to that file byte by byte.

The modules below model that code, TLC checks them on small instances, and
TLAPS proves the main results for every value of the constants.

## 1. Inventory

| Part | Code (under `src/src/`) | State | Operations | Correct when |
|---|---|---|---|---|
| Query memory manager | `dbmm/db_query_mm.c` | `next_front`, `last_back`, `errcode`, size words and trailers in the segment | `falloc balloc ffree bfree fextend bextend fclear bclear` | blocks never overlap; a block changes only by its owner's call; what is freed is reclaimed; pop loops end |
| Index search | `dbindex/dbindex.c` | locals of a bisection, position of the relation's file | `db_index_getoffset`, `scan_find` | first occurrence of the key is found; the loop ends |
| Scan, selection | `dbops/scan.c`, `dbops/select.c` | file position, `tuple_start`, `indexon`, `stopat` | `init next rewind close` | with an index as without: same answer |
| Joins | `dbops/ntjoin.c`, `dbops/osijoin.c` | tuple of one side, position of the other, `lvalid`/`bitinfo` | `init_ntjoin`, `setup_osijoin`, `next`, `rewind` | every pair of the answer once; ends; a failed conversion changes nothing |
| Sort, tuple order | `dbops/sort.c`, `dblogic/compare_tuple.c` | `previous_tp`, `next_count` | `init next rewind`, `next_inorder_tuple`, `cmp_tuple` | a sorted permutation of the source, duplicates included |
| Projection | `dbops/project.c` | the child, the expressions | `init next rewind close` | one tuple per tuple of the child, each column from the right place |
| Aggregation | `dbops/aggregate.c` | the child, accumulators | `init next rewind close` | one tuple per group of the child |
| Operator tree | `dbops/db_ops.c` | the tree | dispatch of `next`, `rewind_dbop`, `close`, `closeexecutiontree` | the contract of `next`/`rewind_dbop`; everything closed once |
| Expression parser | `dbparser/dbparseexpr.c` | operator stack on the back stack, code on the front stack | `parseexpression`, `setupattribute` | postfix code groups as the grammar says; a name is found where its attribute is |
| Expression evaluation | `dblogic/eet.c` | value stack on the back stack | `evaluate_eet` | three-valued logic, stack left as found |
| Query parser | `dbparser/dbparser.c` | clause stack, tables, conditions, the tree so far | `parse`, `parseFrom`, `parseClauseExpression`, `parseSelect` | the tree has the tables, conditions and columns of the query; whatever is wrong with it, no file stays open |
| Tables | `dbparser/dbcreate.c`, `dbparser/dbinsert.c`, `dbobjects/` | one file per relation | CREATE, INSERT, reading headers and tuples | what was written is read back; a failed CREATE leaves no file |
| Lexer | `dbparser/dblexer.c` | offset, mode, the token so far | `lexer_next`, `gettokenat` | the longest tokens, in order, nothing lost; reading again finds the same |
| Output, storage, utilities | the rest | none; a file | | |

They interact by calls only: the parser builds operators and expressions in
blocks of the memory manager; `next` and `rewind_dbop` go down the tree;
the scan reads the storage; the parser and the index join call the index
search, which moves the file position of the scan it is given. The shared
state is therefore the segment, and the position of each relation's file.

Behaviours that are hard: frees out of order, nested pops and empty blocks in
the memory manager; duplicates, absent and extreme keys in the search; rewinds
in the middle of anything (a join rewinds its right side for every left
tuple); a statement given up half way, and a row half written; a text read two
or three times, each time by other rules; an expression
parsed in two calls onto the same code; NULL as a third truth value; cursors that one operation leaves for another; flags of one struct
lying over those of another. Every exposed line is in `PROJECT.json`,
`hazards`.

## 2. What is modelled

**QueryMM** (`db_query_mm.c`) has one action per function. Addresses are
offsets from the start of the segment. `hdr`, `trl` and `bhdr` are the words
the manager itself reads: front size words, front trailers, back size words,
each with its fragment bit; a word that no stack covers any more is dropped
from them, so that reading memory the manager never wrote would be an error in
TLC. The pop loops of `ffree` and `bfree` are steps (`pc`). `flive` and `blive`
remember what the callers have not freed. `ffree` of a `NULL` pointer, the
profiling counter `maxused` and the contents of the blocks are left out.
The callers may free any chunk through either function and free a fragment
again. They keep two rules that the functions do not check:
`TopPlain` (nothing below a chunk is freed before it is extended) and `Poppable`
(`bextend` pops no more than there is). `Spec` adds `RoomFor`: what is pushed
fits. `CallerSpec` drops it, as `eet.c` and `dbparseexpr.c` do.
`BUnwind` is `bclear` and `mmp->last_back = freeto` of `dbinsert.c`.

**ChunkPool** is what a user of the manager needs: a set of disjoint blocks,
granted, released, and resized at one end. QueryMM is shown to implement it
with `owned <- Owned`.

**IndexSearch** (`dbindex.c`) is `db_index_getoffset` round by round, and
`scan_find` around it. File offsets are counted in tuples; `temp`, read before
it is ever filled when the relation is empty, starts as any value of `Garbage`.

**IndexScan** EXTENDS it with the part of `parse` that recognises an indexable
condition and sets `tuple_start`, `indexon` and `stopat` (`SetStart`, `Search`,
`Found`, `SetStop`), and with `next` and `rewind` of the scan and selection.

**Join** EXTENDS IndexSearch with both joins. The structs lie over each other,
so one variable, `more`, is `lvalid` of the one and the UMORE bit of the other,
and `ut` is both `lt` and `ut`; `type` says which code runs. `InitNTJoin`,
`NoIndex`/`SetupOSIJoin` and then `NTInner`, `NTOuter` or `OSIInner`, `OSIOuter`
follow the code's loops. `Answer` says what a join should return without its loops: of the
pairs of places whose tuples join (`Joining`), the n-th is the one that n - 1 of them come
before (`Passed`), in the order of the outer relation and then of the inner one.

**Sort** (`sort.c`, `compare_tuple.c`) reads its child tuple by tuple
(`NextTuple`) between `NextBegin` and `NextReturn`. `Cmp` is `cmp_tuple` with
its NULL order, its descending keys and its tie-break on the attributes
themselves, for integers whose difference does not overflow.

**ParseExpr** (`dbparseexpr.c`) is `parseexpression` token by token: one action
per branch over the kinds of tokens, the operator stack (top chunk of the back
stack) and the code (end of the front stack) as sequences of nodes. `Popped`
is the run of `parseexpr_pop`, `Strung` the pass that turns string offsets
into addresses. The caller is part of it: `parseClauseExpression` calls it for
ON and for WHERE onto the same code, a rejected ON does not end the query
(`dropped`), and any allocation may be refused (`BeginRefused`,
`TokenRefused`, `EndRefused`).

**Eet** EXTENDS it with `evaluate_eet`: once to find the type, on sample
values, and then on a tuple. `PushValue` and `ApplyNode` are the two halves of
its loop, `Apply` is `eet_evaloporfunc` with NULL as a third truth value, and
`held` counts the chunks that an early return leaves on the back stack. The
samples are 1 and the empty string; `DivisorsGiven` is the condition under which
they divide by no 0.

**TableStore** (`dbcreate.c`, `dbinsert.c`, `dbobjects/`, `scan.c`) has files
of bytes. A statement is read token by token (`Bracket`, `Declare`, ...,
`CreateEnds`; `Columns`, `Column`, ..., `InsertEnds`), and what it writes is a
list of pieces (`HeaderPieces`, `RowPieces`), one for each `db_filewrite`, taken
one by one by `Write`. `Full` is a write that is cut short, after which the
statement goes on as if it had succeeded, because no result of a write is
looked at. `Crash` may lose anything written since the file was opened.
`Header` and `Tuples` are what `getrelationheader`, `init_scan` and `next_scan`
read from the bytes. `done` records the statements that were carried out,
and `spoiled` the tables for which that is no longer the whole truth.

**Lexer** (`dblexer.c`) is `lexer_next` character by character, one action per
mode of its loop, `Call` and `Return` around it. Characters are classes (`Letters`,
`Digits`, `Blanks`, ...), and the keywords of each kind are constants. `tokens`
remembers what was returned. `ReadAgain` is what the parser does next: it sets
the lexer back to behind the word of a clause, or to the beginning of a name.

**ParsePlan** and **ParseSelect** (`dbparser.c`) are `parse`: the pass over the
tokens that pushes a node per clause (`Collect`), the sort (`SortStep`), and then
the clauses one by one: `parseFrom` table by table (`From`, ..., `Table`, `On`,
`Joins`), the conditions (`Where`), the selection built after a clause
(`NoSelection`, `BuildSelection`), and `parseSelect` item by item in its two
readings (`Select`, ..., `Project`, `Alias`). Offsets are in half tokens, since
a terminator ends a clause where it begins. A condition is the set of its
tokens here; what it means is in ParseExpr and Eet. Where the code goes on to
use memory it does not own, or a plan that does not exist, the result is
`"undefined"`. `open` holds the scans with an open file.

**ExecTree** (`dbparseexpr.c`, `db_ops.c`, `scan.c`, `ntjoin.c`, `select.c`,
`project.c`) is what happens to such a plan. `SetupAttribute` looks the names up
(`VerifyCondition`, `VerifyItems`); calls of `next` and `rewind_dbop` then go down the
operators and come back one step at a time, on a stack (`calls`); the files of the
scans and the left tuples of the joins are the state they leave. What the
query means (`Answer`) is said without the tree: combinations of tuples, filtered
and named. ExecTree is shown to implement TupleStream with it.

**TupleStream** is the contract of `next` and `rewind_dbop`: tuples of an answer
one by one, then 0, and from the start after a rewind. Join, Sort and ExecTree
implement it, with the pairs of the join, every sorted permutation, and the
answer of the query.

## 3. What is checked

| Run | Question | Result |
|---|---|---|
| `query_mm` | `TypeOK`, `StacksTiled`, `FragmentMarks`, `TopReclaimed`, ChunkPool (`OwnersUndisturbed`), `PopEnds` | hold |
| `query_mm_overrun` | `NoCollision` without `RoomFor` | violated: `bextend` measures the room to the start of the segment |
| `index_scan` | `FirstOccurrence`, `Shrinks`, `SameAnswer`, `NoWaste` | hold |
| `index_scan_reversed` | `SameAnswer` with the constant on the left | violated: `5 < a` is run as `a < 5` |
| `join` | TupleStream (`JoinAnswers`), `Exhausted` | hold |
| `sort` | `CountsCopies`, TupleStream (`SortsSource`), `Exhausted` | hold |
| `expr` | `StackOrdered`, `Grouping`, `StringsBuilt`, `AsMeant`, `BackRestored`, `TypePredicts` | hold |
| `table_store` | `HeaderReadBack`, `RowsSurvive`, `NothingElse`, `TuplesKept`, `FailedLeavesNothing` | hold |
| `lexer` | `TypeOK`, `InOrder`, `LongestMatch`, `NothingLost`, `SecondReading`, `ReadingEnds` | hold |
| `parse_plan` | `SentencesParsed`, `PlanAsTold`, `ColumnsAsTold`, `NothingLeftOpen`, `ParseEnds` | hold |
| `plan_order` | `ClausesSorted` for four clauses, or SELECT behind the others | violated: the sort exchanges with the first node |
| `exec_tree` | `RefusedAsNamed`, TupleStream (`AnswersMeant`), `AnswerEnds` | hold |

Each violated run quotes what the code or its documentation says, in
`PROJECT.json`, `findings`. The passing runs exclude exactly these cases, by a
guard or an instance that is named (`RoomFor`; `MCPlain`; `MCSentences`), and
cases found by reading (section 5) in the same way (`JoinSpec`;
`RewindWhenDone`; the parentheses that `MCExpr` writes around signs and NOT), so
that everything else is still checked.

ParsePlan, ParseSelect and ExecTree were also compared with the program itself,
compiled for a PC: all 4267 texts of `MCTexts` were given to `parse`, and all 584
queries of `MCQueries` to `parse` and `next`, read to the end, rewound and read
again. The plans, the names of columns, the refusals and the tuples are those
of the models, except for eight texts of which the model says `"undefined"`.

Bounds, and why they are enough:

- `QueryMM.cfg`: 14 bytes, size words of 2, trailers of 1, requests of 0, 1
  and 15 bytes, extensions by -1, 1 and 15. Up to four front or seven back chunks: enough for
  a fragment above a fragment, one at the bottom, one under the top, and for
  both stacks to meet with every remainder. An empty chunk makes two pointers
  equal; 15 exceeds the segment. 71,510 states.
- `IndexScan.cfg`: every sorted relation of at most 4 tuples over keys 1, 3, 5,
  and constants 0, 3, 4, 6: below, equal to, between and above all keys; four
  tuples give three rounds of bisection and runs of equal keys over every
  probe. All six comparisons. The relations have no NULL keys and nothing
  overflows; the index is on the first attribute and has number 0.
- `Join.cfg`: at most 3 tuples on the searched side and 2 on the other, with
  NULL, absent and repeated keys; an index on neither side, the left or the
  right; equality or not. Children do not fail. Equality without an index
  over an empty left side is left out (section 5).
- `Sort.cfg`: at most 4 tuples of 4 kinds, in any order, with repeated tuples,
  repeated keys and NULL keys, descending. The tie-breaking attribute is never
  NULL (a NULL and a 0 there are the same bytes).

- `Expr.cfg`: the texts are written from expression trees, so that what the
  code should mean is known without parsing: `Postfix`, `TypeOf` and `Worth` in
  MCExpr define it by recursion on the tree. All trees of one operator, and
  those of two and three in which precedence, associativity, parentheses, a
  function or NULL decide the outcome; ON with WHERE; operands of clashing
  types; and texts that no tree is written as (`Odd`), for which only the
  properties that do not speak of a tree say something. Tuples with 0, 1 and
  NULL. 195,732 states.
- `TableStore.cfg`: at most 3 statements over two tables, out of 37: columns of
  both types, nine of them (two bytes of NULL bits), negative and two-byte
  integers, empty and longest strings, columns left out and reordered, and
  the statements cut short or with one token missing, so that every error
  branch is taken. Integers of 2 bytes and strings of at most 4. A table is
  less than 256 bytes wide, as the header itself assumes. A crash or a full
  storage at every byte of every write. 113,024 states.

- `Lexer.cfg`: every text of up to three characters out of 20, one or two of
  each class, and every sequence of three out of 18 fragments, each a case
  of its own: keywords of every kind, quotes around a word, a keyword, a
  blank or nothing, quotes that are not closed, numbers that touch names, a
  comment. Three fragments put every one in front of, behind and between the
  others, and at the end of the text, where the loop stops in any mode.
  246,496 states.
- `Parse.cfg`: sentences are the product of 7 lists, 7 FROMs with up to three
  relations, with and without WHERE, in two orders, with three ends, or with an
  ORDER; other texts have every sequence of up to 2, 3 or 4 tokens in place of a clause,
  from those the clause looks for. Any expression may be given up at any
  token and any allocation refused. 93,284 states. Texts with four
  clauses, or where SELECT comes after FROM and WHERE, are in `Parse_order.cfg`.
- `ExecTree.cfg`: 584 queries: 11 FROMs with up to four relations, the same one twice, an
  empty one first, last and in the middle; conditions on either side, both, or neither; names
  that are qualified, not, missing and ambiguous; `*`, `T.*` and sums. Two or three
  tuples, with NULL and repeated keys. Four relations are three joins on top of
  each other, where positions are shifted more than once. 28,304 states.

Every bound is in a `.cfg` or in an MC module; the modules themselves are
unbounded, except that `TableStore` counts its statements (`MaxStatements`)
and that `Sort` keeps `next_count` of an empty source at -1
instead of letting it run down.

Fairness. The program is sequential, so a loop that can go on does: weak
fairness on the pop loops (`FairSpec`), on the join's and on the sort's own
steps (`JoinStep`, `NextSort`), and on those of the lexer (`Step`), the parser
(`Next`) and the tree (`Advance`). The steps of the operators include that the
user of a query goes on calling `next`, which every loop over `next` in the unit
tests and utilities does, and those of the lexer that the parser reads on until
it is told that there is nothing more. Rewinds are never assumed: `Exhausted`
and `AnswerEnds` ask only what happens once they stop.

## 4. What is proved

`QueryMM_proofs` shows for every segment size, word width, set of requests and
sequence of calls that `Spec` implies `TypeOK`, `StacksTiled`, `FragmentMarks`,
`TopReclaimed` and the refinement `OwnersUndisturbed`. None of them is
inductive: that a pop loop arrives at a chunk needs to know that the trailers
of *all* words still in memory lead to chunks, also those above `next_front`
which the loop has just left. `IInv` says so: `FrontInv` (trailers and size
words enclose the same chunks; flags and trailers agree with `flive`; the
bottom chunk is never flagged; only while `ffree` runs may the top be a freed
chunk) and `BackInv` (tiling; flags agree with `blive`; only while `bfree` runs
may the top be freed). `Invariance` proves `Spec => []IInv` with one lemma per
function, and the theorems follow. The refinement adds that each action maps
to `Grant`, `Release`, `Resize` or a stutter on the owners' blocks. Only
`ConstantsAssumption` is assumed, which the code's types give.

`Join_proofs` shows first for every sorted relation and key that the search is
well typed (`SearchTyped`), right (`FindsFirst`) and shrinks its interval
every round (`Progress`). `SearchInv` is the loop invariant: all before `imin`
is below the key, all after `imax` is not, and when the search has run off the
end, `temp` is the last tuple, below the key, which is why the stale tuple that
is verified there cannot be taken for a match. `SearchAssumption` says that
relations are sorted, which whoever makes the index sees to.

It then puts the search under the scan and the selection, and shows for
every sorted relation and condition what the run checks on small ones: the query
is answered (`AnswersQuery`, of `SameAnswer`), and the scan reads nothing that it need
not (`WastesNothing`, of `NoWaste`). `SameAnswer` says that there is an increasing
sequence of positions, those of the tuples returned, which has all that satisfy the
condition among the first tuples, and in the end among all; `AnswersInOrder`, the
inductive form, says how many first tuples: those before the place of the file.
`ScanInv` carries over from one phase to the next what each has found:
the search is for the start value, all before `tuple_start` is below it
(`StartRight`), the stop value is that of the condition (`StopRight`), and nothing
the file stands behind has reached it (`PlaceRight`). The theorems hold on a
condition: the number of the index has to be the position of its attribute,
because `next_scan` takes the one for the other (dbparser.c:1515). And
`AnswersQuery` speaks of conditions that have their attribute on the left
or are equalities (`Plain`); the others are the run `index_scan_reversed`.

And it shows that both joins implement TupleStream (`Implements`, of
`JoinAnswers`), for every two relations, the searched one sorted, and wherever the
caller rewinds. What is known of the search is used for the index join (the
constants of IndexScan and their assumption are not). `JoinInv` adds to `SearchInv`
where the join stands: `OuterRight`, the tuple of the outer relation is the one its file
has just passed; `Delivered`, what has been returned is as many pairs of the answer as
there are joining pairs before that tuple and the place in the other relation; and
`Ahead`, once the search is over an index join stands before all tuples that join with
it, or none do. The last is what a search that returns -1 and leaves the file anywhere
comes to, since the code never looks at that result. `InAnswer` is the lemma about the
answer: the pair at a place is as far on in it as there are joining pairs before (`RankUnique`
says that no two have as many). Besides `SearchAssumption`, which covers the nested-tuple
join too although it does not need an order, `JoinAssumption` says that an
index on the left comes with an equality (under another condition no index is used, so
that this is the plan without one), and `SoundInit` leaves out an equality
without an index over an empty left side (section 5).

`ParseExpr_proofs` shows for every set of queries, and whatever allocation is
refused, that the parser keeps its place and its stack well typed
(`ParserTypeCorrect`) and that the operator stack is ordered by precedence
(`Ordered`, of `StackOrdered`), which is why popping until the top binds less
tightly pops all it should. The two are inductive together: `BottomOrdered`,
`PushOrdered` and `OperatorOrdered` say what popping and pushing do to the order.

It shows further that strings are built from offsets only, and all of them
(`Built`, of `StringsBuilt`), when no clause but the last has one. `StringInv` says what the
code consists of at each time: nodes that are no strings, with offsets among them only
while the last clause is read; a query with strings in an earlier clause is the exception
the property names, and goes wrong (dbparseexpr.c:480).

And it shows that the type found on samples is that of the result on every tuple
(`Predicts`, of `TypePredicts`), for every expression the parser can write, also one
that makes no sense. `Typing` gives each node of the code the types of the values
on the stack behind it, as if none were NULL. `EvalInv` ties both passes to it:
`AsTyped`, if there is a typing, then on any tuple the stack has the types it says,
or NULLs, so that the pass neither fails nor leaves anything behind; and
`SampleTyped`, the pass over the samples, which are never NULL, makes such a typing as
it goes. `ApplyBelow` and `ApplyExact` are what one operator contributes to the two.
`TypedLeavesNothing` is the corollary about the back stack. The condition `DivisorsGiven` is needed:
the property without it is false (section 5), which an attempt at this proof showed.
`RowsAssumption` says that tuples have the types of their attributes,
`OperatorsAssumption` that operators are those of the lexer's table.

`TableStore_proofs` shows for every set of statements that one which fails
leaves the files as they were (`FailureLeavesNothing`). `IInv` adds what makes
that inductive: during a CREATE the other files are those there were before,
and during an INSERT that has not begun to write all files are; an INSERT
that writes can no longer fail.

It also shows that the tuples a table held when a statement began are still found
in it, with the values they had, whatever is written since and wherever a crash or a
full storage stops it (`RowsKept`). One half is about bytes: no byte there was is lost
or changed (`BytesKept`), because CREATE's file is a new one and what INSERT found is
in front of where it writes (`Placed`); for this `KInv` also knows that what is
written are bytes (`HeaderPiecesTyped`, `RowPiecesTyped`). The other half is about what is
read: a header that is complete is the same in a file that begins with the same bytes
(`HeaderKept`), and so are the tuples behind it (`TuplesStay`). `Starts`, `Sum` and
`FlattenSeq` are recursive functions: that there is such a function (`Recursion`) and
that two which agree at 1 and step alike are the same (`Agree`) is shown by the induction
on sets described below. `TuplesKept` speaks of tables with a column whose header a crash
has not made contradictory (`Readable`). `ValuesAssumption` says that the value of a
number is a natural, that of a name or a string a text without the character 0, and what is in
memory an integer and such a text.

And it shows that the header of every table says what its CREATE says
(`HeadersReadBack`): written out as tokens again (`Text`), the attributes that
`getrelationheader` reads are the declarations of the statement, no name occurs twice, and
the offset of an attribute is the sum of the sizes before it, as far as that is below 256.
`HInv` follows the statement: the attributes so far are what the tokens so far declare
(`Said`, kept by `DeclaresFurther`), the file is the pieces that were written and `pending` those
that were not (`Written`), and a table without a record is one that a crash or a full storage
cut short (`NeverMade`). What is written is then laid out description by description (`HeaderLaid`,
`Placement`), and the reader that steps from one to the next finds each
(`HeaderBack`), its name by the first 0 and its offset and size behind the
type. `Small` is where the code's counts fit in one byte: at most 255 attributes, which the number of
tokens bounds, and names below 255 characters. After that `HeaderKept` says the
header cannot change.

On that rests what it shows last: a table that no crash and no full storage has touched, and
in which no value was left to chance, holds between two statements the rows that were inserted and no
byte of another (`NoOtherRows`), so that a scan finds as many tuples as INSERT wrote if the length
of one fits in a byte. A row takes as many bytes as its attributes have (`RowTotal`): an INT
because its size in the header is that of a `db_int`, which the header theorem says, a string
because it was only taken where it fits (`ElemsFit`) and is padded, a NULL because it is all
padding. `NInv` then counts: a table at rest is full of its rows (`AtRest`), the one that is written
to will be when all that is pending is written (`InWriting`), and was before the statement
(`BeforeFilled`), which is what a crash that loses all of the row goes back to.

`Lexer_proofs` shows for every text that the lexer never leaves it (`Typing`),
that its tokens lie in it in order and are not empty (`TokensInOrder`), on which
the offsets of every clause rest, that each is the longest there could be at its place
(`TokensLongest`, of `LongestMatch`), and that what lies between two of them is blanks
and comments (`NothingDropped`, of `NothingLost`). What makes the first two inductive is
where the token so far lies in each mode: behind the last one returned, with its
end at the offset, or just before it. For the other two, `InMode` adds what the token
so far consists of in each mode (digits, the characters of a word, an operator, a quoted
text without its end quote), `WhenDone` that a token that is done is the longest of its
type at its place, and `NothingSkipped` that all before the token so far is accounted for.
Two assumptions are about the constants: by `ClassesAssumption` no character is of two
classes (letters, digits, blanks, each quote, punctuation, and what begins an operator that
is not a word); by `OperatorsAssumption` whoever reads such an operator character by
character passes over operators only, as those of the table do (dblexer.c:173). The
lexer looks no further than one character, so that without it a longer operator would
be missed.

It shows further that a second reading, from wherever the parser starts one, finds the
tokens of the first again (`SameTokensAgain`, of `SecondReading`). A call depends on the
text and the offset only: each step of the loop is the value of one function, `Then`, of
what `lexer_next` holds (`SkipMoves` to `CommentMoves`). `Leads` is what that function gets
to from an offset, `Lands` where it ends; both are said with sets closed under `Then`, which
makes the lemmas about them short. `AInv` records for each token of the first reading that a
call at the offset the one before left behind lands at it, for a name that one at its first
character does, and for the end of the reading that a call there lands at no token. In a
second reading what is still to come is then the token recorded, whatever step is taken. A name in
quotes is read again without them and is another matter: there `InName` follows the word
up to the quote that closes it.

`ParseSelect_proofs` shows for every set of texts that `NothingLeftOpen` holds
(`FilesClosed`): every one of the places where `parse` gives up closes
what is open. `IInv` says who owns the files at each time: during FROM the array
of scans, and at any other time the tree; and that with one FROM in the text
there is one node for it, so that no tree is there when its scans become one.

`Sort_proofs` shows for every child, every choice of order expressions and
directions, and NULLs anywhere, that `cmp_tuple` is a total preorder (`Order`)
and that a sort which remembers one tuple and a count gets by with that: what it
has returned is always in order (`Sorts`), it passes over nothing
(`PassesOverNone`), `next_count` is the number of copies still to come
(`CopiesCounted`, of `CountsCopies`), and with that it implements TupleStream
(`Implements`, of `SortsSource`): each call gives the next tuple of one sorted
permutation of the child, and 0 comes when all have been given. `IInv` adds what holds in the middle of a
pass over the child (`PassInv`, `CountInv`): the candidate is the least of the
tuples read that come after the last one returned, and has been counted so far,
or none of those read comes after it. For the refinement, `Drawn` says that what has been
returned was taken from different places of the child, and that nothing at the places
that are left comes before the last of it; `Completed` shows that whatever has been taken
in this way can be taken further until no place is left, which gives the permutation
that TupleStream asks for at every step. This needs that tuples which `cmp_tuple` does not
tell apart are the same (`Distinct`; the children of the run are so): it takes a
NULL that only breaks a tie for a 0, and returns the first of the two twice. `SortAssumption` says that the child's
tuples have the attributes of its header and that the sort's expressions name
some of those; the integers are unbounded, so the theorems speak of keys whose
differences fit into a `db_int`. As in the run, the sort is not rewound between
two copies of a tuple, where it goes wrong (section 5).

`ExecTree_proofs` shows for every query that it is accepted only if each of its names
has exactly one attribute among the relations of FROM, and refused only for a name that
has not, or for an attribute without its table that is not in the first relation
(`NamesResolved`, of `RefusedAsNamed`). `SetupAttribute` is a recursive function along
the chain of operators. That there is such a function (`LookupExists`) and what it returns
(`FirstToAnswer`: what the first relation does that returns anything but 0) is shown by
induction, with a set of naturals in place of a predicate (`SetInduction`, from the
library's theorem that every set of naturals has a least element).

It shows also that ExecTree implements TupleStream (`AnswersAsMeant`, of
`AnswersMeant`): for any number of relations of any size, any condition and any items,
`next` returns what the query means, and again after a rewind at any time between two
calls. The argument has three parts.

- `Concat` is a recursive function: `UptoStep` and `UptoAt` say how long each beginning
  of a concatenation is and what lies where. From this, `ChoiceStep`: the combinations
  of k relations are those of k - 1, each as often as relation k has tuples; and `Wholes`:
  the tuple that the chain of joins makes of one.
- What the tree evaluates is what is meant. `Located` and `LocatedInJoin` say where
  `SetupAttribute` finds the one attribute of a name; with that, `PassesWhole`,
  `PassesInJoin` and `ProjectedIs`: the condition on a tuple, or on the two tuples of a
  join, and the projection are those of the combination.
- `TreeInv` is the inductive invariant: there is a p such that p[k] counts the
  combinations of the first k relations which operator k has gone past, and the files,
  left tuples, calls and the tuple that is being returned are where p says. `Settled` is
  this for an operator that is not in a call, `Acting` and `Waiting` for the innermost call and those
  that wait for it, among them a join in the middle of `rewind`, whose right file is at
  its start and whose left tuple is still to be read; `Stacked` says which
  calls may wait for which. There is one lemma per action (`NTInnerKeeps` and so on)
  and one for each way a call may go on: it returns (`Gives`, `ChildReturns`, `Unwinds`),
  turns to something else (`Turns`), or calls its child (`Descends`). `Output` ties the last
  operator to the caller: what it has been given is what the combinations gone past give
  (`Kept`). The invariant was first checked by TLC on the states of the run.

`QueriesAssumption` says that no two relations of FROM have the same alias, which
`parseFrom` sees to (dbparser.c:533), and that `T.*` names one of them, which
`parseSelect` does; `RowsAssumption` that tuples have a value for each attribute.

Only model-checked: the liveness properties (`PopEnds`, both `Exhausted`,
`ReadingEnds`, `ParseEnds`, `AnswerEnds`), for which the prover has no support;
what folds and recursive functions over sequences compute (the values of a row
in `RowsSurvive` of TableStore, `Grouping`, `AsMeant`
and `BackRestored`, which speak of trees, the plans and columns of `PlanAsTold` and
`ColumnsAsTold`), which would need an induction over data for every one of the
functions they are made of.

## 5. Where the program departs from what it should do

Three departures are the runs that expect a violation. The others were met while
modelling; the models have them, but no query of a passing run gets there,
or the property says that it does not speak of them:

- Lexer: `''` is taken for the end of the text; a blank behind a comment line is an
  invalid character; a quote or an operator that the text ends in has no type,
  and a last word that is an operator or a function is a name; a `*` at the very end is
  therefore not recognised; "no matching end quote" cannot be reached.
  A quoted name is read again without its quotes.
- Expression parser: after a name, a minus is a sign if the token before the name was
  one after which it would be (`a > b AND a - 1`, dbparseexpr.c:320); a sign or NOT is
  never popped by a binary operator, so that `a > -1 AND b` means `a > -(1 AND b)`
  (dbparseexpr.c:142).
- Expression evaluation: an integer and a string are compared without complaint when the
  sample of the integer was divided by 0 (`a / (b - 1) = 'x' OR 1` has the type of an
  integer), and evaluation then gives up on a tuple, leaving its chunks (eet.c:767).
- FROM: relations without a comma between them are written beyond the array
  that was made for those with (dbparser.c:340); the outcome of an ON is not looked at
  (613); AS without a name leaves the scans open (498), and a second FROM those of the
  first (1311); a relation that does not exist is not noticed before it is used.
- WHERE last and no SELECT: the node above the stack is read (1366).
- SELECT: behind an item that does not end in a name, an alias goes to a column too far
  left (1158); whether a name is used twice is found or not, depending on the order.
- Names: an attribute without its table is only found in the first relation of FROM, and a
  query that names one of another relation so is refused (dbparseexpr.c:581;
  `RefusedAsNamed` allows exactly that).
- Joins: `setup_osijoin` writes its flags over `lvalid` before it gives up (osijoin.c:87),
  and over an empty left side the join then pairs a tuple that was never read.
- Sort: rewound between two copies of a tuple, it forgets the tuple and not the count, and
  its next call returns -1 (sort.c:77).

## 6. What is not modelled, and the plan

Next would be:

1. **IndexFile**: the index description read by `init_scan`, an index that
   INSERT does not maintain, composed of TableStore and IndexScan.
2. The blocks of the operators over ChunkPool: the tuples each of them owns, and
   `closeexecutiontree`.
3. Proofs: that `Tuples` reads from the bytes of `RowPieces` the row they were made of
   (`RowsSurvive` of TableStore).

Left out of the modules there are: in ParseExpr and Eet the operators the lexer
never returns (`&`, `|`, `^`, `XOR`, `ISNULL`), the evaluation of aggregate
functions and integer overflow; in Lexer upper and lower case, and the
comparison of strings; in ParsePlan and ParseSelect the types of columns (an
expression without a value is given the type of what memory holds, and may be refused for it); in
ExecTree errors of `evaluate_eet` and indexes, which are in Join and IndexScan; in
TableStore the memory both commands allocate, a CREATE without a table name (it
goes on with a file that was never opened), a table without attributes (a scan of
it never ends, because reading nothing always succeeds), and what rows inserted
after a torn one look like: they are read out of step, as nothing in the file
tells where a row begins.

Left out for good: aggregation (compiled out by default, db_ctconf.h:90, and
never built by `parse`; compiled in, `init_aggregate` returns -1 for every
expression with an aggregate, because `evaluate_eet` takes the node for an
operator, so that there is nothing it does to be modelled), result output (formatting), the SD card interface, the utilities
that generate test data, the Arduino sketch, and the unit tests, which are some
27,000 of the 37,800 lines under `src/`: they drive the operations modelled here
with fixed inputs and have no behaviour of their own.

## 7. Running it

    tlc -config QueryMM.cfg MCQueryMM.tla        # likewise for the other runs
    tlapm QueryMM_proofs.tla
    tlapm Join_proofs.tla                        # and the other proof modules

`PROJECT.json` lists the runs, the lines of code each definition stands for,
the mutants that show each property can fail, the hazards and the theorems.
