------------------------------ MODULE TableStore ------------------------------
(***************************************************************************)
(* CREATE TABLE and INSERT, dbparser/dbcreate.c and dbparser/dbinsert.c,   *)
(* and what a scan then finds in the file of the relation.                 *)
(*                                                                         *)
(* A file is the sequence of its bytes.  A statement is read token by      *)
(* token, and what it has to say is then written piece by piece, one       *)
(* db_filewrite after the other.  In between the program may stop, and     *)
(* then what the storage had not yet taken since the file was opened is    *)
(* lost, from any byte on; or the storage may be full, and takes no more   *)
(* until the statement ends.  Nothing looks at what db_filewrite returns.  *)
(*                                                                         *)
(* A name, and a string, is the sequence of its characters, 1 to 255.  The *)
(* name of the table is always there: without it the code goes on with a   *)
(* file it has not opened.  Memory is not modelled.                        *)
(***************************************************************************)
EXTENDS Integers, SequencesExt

CONSTANTS
  Statements,     \* each a command, the name of a table, and its tokens
  MaxStatements,  \* bound: statements in a behaviour
  IntSize,        \* sizeof(db_int)
  MaxString,      \* DB_CTCONF_SETTING_MAXSTRINGLENGTH
  StrayInts,      \* what may be in a value
  StrayStrings    \*   that was not set

VARIABLES
  files,    \* the bytes of each file there is
  stmt,     \* the statement
  at,       \* the token of it that was read last
  attrs,    \* the attributes declared, or those of the table
  order,    \* insertorder
  elems,    \* toinsert
  given,    \* the number of values read
  pending,  \* what the statement still has to write
  pc,
  outcome,  \* what came of the last statement
  kept,     \* history: the length of the file when it was opened, ...
  before,   \* ... the files when the statement began, ...
  done,     \* ... the statements that wrote each table, CREATE first, ...
  spoiled,  \* ... the tables in which something was not, ...
  count     \* ... and the number of statements

readVars == <<at, attrs, order, elems, given>>
histVars == <<kept, before, done, spoiled, count>>
vars == <<files, stmt, readVars, pending, pc, outcome, histVars>>

ASSUME SizesAssumption == IntSize \in Nat \ {0} /\ MaxString \in 1..255

Texts == Seq(1..255)

\* A token, and one that has no value.
TokOf(type, v) == [type |-> type, val |-> v]
Tok(type)      == TokOf(type, <<>>)

\* What the values of tokens are, and what may be in memory.
ASSUME ValuesAssumption ==
  /\ \A s \in Statements :
       /\ Len(s.toks) \in Nat /\ s.toks = [i \in 1..Len(s.toks) |-> s.toks[i]]
       /\ \A i \in DOMAIN s.toks :
            LET t == s.toks[i]
            IN /\ t.type = "INT" => t.val \in Nat
               /\ t.type \in {"IDENT", "STRING"} => t.val \in Texts
               /\ t = IF t.type \in {"INT", "IDENT", "STRING"}
                      THEN TokOf(t.type, t.val) ELSE Tok(t.type)
  /\ StrayInts \subseteq Int /\ StrayStrings \subseteq Texts

-----------------------------------------------------------------------------
\* Bytes.
IntBytes(v) == [k \in 1..IntSize |-> (v \div 256^(k - 1)) % 256]

BytesInt(b) ==
  LET n == FoldLeft(LAMBDA s, k : s + b[k] * 256^(k - 1), 0, [k \in DOMAIN b |-> k])
  IN IF b[Len(b)] < 128 THEN n ELSE n - 256^Len(b)

\* A string ends where its first 0 is.
BytesString(b) ==
  SubSeq(b, 1, CHOOSE n \in 0..Len(b) :
                 /\ \A k \in 1..n : b[k] # 0
                 /\ n < Len(b) => b[n + 1] = 0)

Sum(s) ==
  IF s = <<>> THEN 0
  ELSE LET upto[n \in DOMAIN s] == IF n = 1 THEN s[1] ELSE upto[n - 1] + s[n]
       IN upto[Len(s)]

BitBytes(n) == (n + 7) \div 8

-----------------------------------------------------------------------------
\* What createTable writes for the attributes a, piece by piece.
OffsetOf_Own(a, k) == a[k].size % 256                         \* mutant
OffsetOf(a, k) == Sum([j \in 1..(k - 1) |-> a[j].size]) % 256

HeaderPieces(a) ==
  <<<<Len(a) % 256>>>>
    \o FlattenSeq([k \in DOMAIN a |->
         <<<<(Len(a[k].name) + 1) % 256>>,
           Append(a[k].name, 0),
           <<IF a[k].type = "INT" THEN 0 ELSE 1>>,
           <<OffsetOf(a, k)>>,
           <<a[k].size>>>>])

\* What insert_command writes for the elements e of a table's attributes a.
NullBits(e) ==
  [b \in 1..BitBytes(Len(e)) |->
     Sum([k \in 1..8 |-> LET i == 8 * (b - 1) + k
                         IN IF i <= Len(e) /\ e[i].type = "NULL"
                            THEN 2^(k - 1) ELSE 0]) % 256]

Padding_Short(n) == [k \in 1..(n - 1) |-> <<0>>]              \* mutant
Padding(n) == [k \in 1..n |-> <<0>>]

RowPieces(a, e) ==
  <<NullBits(e)>>
    \o FlattenSeq([k \in DOMAIN a |->
         CASE e[k].type = "NULL" -> Padding(a[k].size)
           [] e[k].type = "INT"  -> <<IntBytes(e[k].val)>>
           [] OTHER -> <<Append(e[k].val, 0)>>
                         \o Padding(a[k].size - Len(e[k].val) - 1)])

-----------------------------------------------------------------------------
\* getrelationheader: where in the file f the description of each attribute
\* begins, and where the one past the last would, which is tuple_start.
Starts(f) ==
  LET start[k \in 1..(f[1] + 1)] ==
        IF k = 1 THEN 2
        ELSE LET p == start[k - 1]
             IN IF p <= Len(f) THEN p + f[p] + 4 ELSE Len(f) + 2 \* past the end
  IN start

TupleStart(f) == Starts(f)[f[1] + 1]

HasHeader(f) == f # <<>> /\ TupleStart(f) <= Len(f) + 1

Header(f) ==
  LET starts == Starts(f)
  IN [k \in 1..f[1] |->
        LET p == starts[k]
            z == f[p]
        IN [name   |-> BytesString(SubSeq(f, p + 1, p + z)),
            type   |-> IF f[p + z + 1] = 0 THEN "INT" ELSE "STRING",
            offset |-> f[p + z + 2],
            size   |-> f[p + z + 3]]]

\* next_scan, from the first tuple to the last: the tuples the file holds, as
\* getintbypos and getstringbypos read their attributes.
TupleSize(h) == Sum([k \in DOMAIN h |-> h[k].size]) % 256

Tuples(f) ==
  LET h     == Header(f)
      start == TupleStart(f)
      bits  == BitBytes(Len(h))
      width == bits + TupleSize(h)
      value(p, k) ==
        LET bytes == SubSeq(f, p + bits + h[k].offset, p + width - 1)
        IN IF (f[p + (k - 1) \div 8] \div 2^((k - 1) % 8)) % 2 = 1
           THEN [type |-> "NULL", val |-> 0]
           ELSE IF h[k].type = "INT"
           THEN [type |-> "INT", val |-> BytesInt(SubSeq(bytes, 1, IntSize))]
           ELSE [type |-> "STRING", val |-> BytesString(bytes)]
  IN [n \in 1..((Len(f) + 1 - start) \div width) |->
        [k \in DOMAIN h |-> value(start + (n - 1) * width, k)]]

-----------------------------------------------------------------------------
NoStatement == [command |-> "NONE", table |-> "", toks |-> <<>>]

Init ==
  /\ files = <<>> /\ done = <<>> /\ before = <<>>
  /\ stmt = NoStatement
  /\ at = 0 /\ given = 0
  /\ attrs = <<>> /\ order = <<>> /\ elems = <<>> /\ pending = <<>>
  /\ pc = "idle" /\ outcome = "none"
  /\ kept = 0 /\ count = 0
  /\ spoiled = {}

table == stmt.table
toks  == stmt.toks

Is(i, type) == i \in DOMAIN toks /\ toks[i].type = type

\* lexerp->offset < end, once the token i is read.
More(i) == i < Len(toks)

\* A file after f is added to it, and all files without the statement's.
Added(f)  == [files EXCEPT ![table] = @ \o f]
Without   == [t \in DOMAIN files \ {table} |-> files[t]]

Finish(how) ==
  /\ pc' = "idle" /\ outcome' = how
  /\ at' = 0 /\ given' = 0
  /\ attrs' = <<>> /\ order' = <<>> /\ elems' = <<>> /\ pending' = <<>>
  /\ stmt' = NoStatement
  /\ UNCHANGED <<kept, before, count>>

Recorded ==
  done' = IF table \in spoiled THEN done ELSE [done EXCEPT ![table] = Append(@, stmt)]

Fail == Finish("error") /\ UNCHANGED <<files, done, spoiled>>

\* A statement begins: its table is at hand, ...
Begin(s, command) ==
  /\ pc = "idle" /\ count < MaxStatements
  /\ s.command = command
  /\ count' = count + 1
  /\ before' = files
  /\ at' = 0 /\ given' = 0
  /\ order' = <<>> /\ elems' = <<>> /\ pending' = <<>>
  /\ UNCHANGED spoiled

\* ... or it is not.
BeginFails ==
  /\ outcome' = "error"
  /\ attrs' = <<>>
  /\ UNCHANGED <<files, stmt, pc, kept, done>>

-----------------------------------------------------------------------------
\* createTable
CreateFile(s) ==
  /\ Begin(s, "CREATE")
  /\ \/ s.table \in DOMAIN files /\ BeginFails
     \/ /\ s.table \notin DOMAIN files
        /\ files' = [t \in DOMAIN files \cup {s.table} |->
                       IF t = s.table THEN <<>> ELSE files[t]]
        /\ done' = [t \in DOMAIN files' |-> IF t = s.table THEN <<>> ELSE done[t]]
        /\ attrs' = <<>>
        /\ kept' = 0
        /\ stmt' = s
        /\ pc' = "bracket" /\ outcome' = "none"

\* On an error the file is removed.
Removed_Kept == UNCHANGED <<files, done, spoiled>>            \* mutant
Removed ==
  /\ files' = Without
  /\ done' = [t \in DOMAIN Without |-> done[t]]
  /\ spoiled' = spoiled \ {table}

Discard == Removed /\ Finish("error")

Bracket ==
  /\ pc = "bracket"
  /\ IF Is(1, "LPAREN")
     THEN /\ pc' = "declare" /\ at' = 1
          /\ UNCHANGED <<files, stmt, attrs, order, elems, given, pending,
                         outcome, histVars>>
     ELSE Discard

\* The loop over the declarations goes on.
DeclaresMore == at < Len(toks) /\ toks[at + 1].type # "RPAREN"

NameAt == IF attrs = <<>> THEN at + 1 ELSE at + 2

\* The size of the type that is written after the token i.
Types(i) ==
  (IF Is(i + 1, "DBINT")
   THEN {[type |-> "INT", size |-> IntSize, end |-> i + 1]} ELSE {})
  \cup
  (IF /\ Is(i + 1, "DBSTRING") /\ Is(i + 2, "LPAREN")
      /\ Is(i + 3, "INT") /\ Is(i + 4, "RPAREN")
      /\ toks[i + 3].val \in 1..MaxString
   THEN {[type |-> "STRING", size |-> toks[i + 3].val, end |-> i + 4]} ELSE {})

Declared ==
  {t \in Types(NameAt) :
     /\ attrs # <<>> => Is(at + 1, "COMMA")
     /\ Is(NameAt, "IDENT")
     /\ \A k \in DOMAIN attrs : attrs[k].name # toks[NameAt].val}

Declare ==
  /\ pc = "declare" /\ DeclaresMore
  /\ \E t \in Declared :
       /\ attrs' = Append(attrs, [name |-> toks[NameAt].val,
                                  type |-> t.type, size |-> t.size])
       /\ at' = t.end
  /\ UNCHANGED <<files, stmt, order, elems, given, pending, pc, outcome, histVars>>

DeclareFails ==
  /\ pc = "declare" /\ DeclaresMore
  /\ Declared = {}
  /\ Discard

Declarations ==
  /\ pc = "declare" /\ ~DeclaresMore
  /\ at' = IF More(at) THEN at + 1 ELSE at
  /\ pending' = HeaderPieces(attrs)
  /\ pc' = "write"
  /\ UNCHANGED <<files, stmt, attrs, order, elems, given, outcome, histVars>>

\* The last token is looked at when the file has been written.
CreateEnds ==
  /\ pc = "write" /\ pending = <<>> /\ stmt.command = "CREATE"
  /\ IF Is(at, "RPAREN")
     THEN Finish("ok") /\ Recorded /\ UNCHANGED <<files, spoiled>>
     ELSE Discard

-----------------------------------------------------------------------------
\* insert_command
Element(type) == [type |-> type, set |-> FALSE, val |-> 0]

\* The file as it is once open: the next write goes to its end.
Opened_Emptied(t) == <<>>                                     \* mutant
Opened(t) == files[t]

InsertInto(s) ==
  /\ Begin(s, "INSERT")
  /\ \/ s.table \notin DOMAIN files /\ BeginFails
     \/ /\ s.table \in DOMAIN files /\ HasHeader(files[s.table])
        /\ attrs' = Header(files[s.table])
        /\ files' = [files EXCEPT ![s.table] = Opened(s.table)]
        /\ kept' = Len(files'[s.table])
        /\ stmt' = s
        /\ pc' = "columns?" /\ outcome' = "none"
        /\ UNCHANGED done
        \* a header that is cut short is made up from what is in memory
     \/ /\ s.table \in DOMAIN files /\ ~HasHeader(files[s.table])
        /\ \/ outcome' = "error" /\ UNCHANGED files
           \/ /\ outcome' = "ok"
              /\ \E junk \in {<<>>, <<0>>} :
                   files' = [files EXCEPT ![s.table] = @ \o junk]
        /\ attrs' = <<>>
        /\ UNCHANGED <<stmt, pc, kept, done>>

\* Columns are named, or every one is meant.
Columns ==
  /\ pc = "columns?"
  /\ IF Is(1, "LPAREN") /\ More(1)
     THEN /\ pc' = "columns" /\ at' = 1
          /\ elems' = [k \in DOMAIN attrs |-> Element("NULL")]
          /\ UNCHANGED order
     ELSE /\ pc' = "values?"
          /\ elems' = [k \in DOMAIN attrs |-> Element(attrs[k].type)]
          /\ order' = [k \in DOMAIN attrs |-> k]
          /\ UNCHANGED at
  /\ UNCHANGED <<files, stmt, attrs, given, pending, outcome, histVars>>

ListsMore == More(at + 1) /\ toks[at + 1].type # "RPAREN"

\* getposbyname
Position(name) == {k \in DOMAIN attrs : attrs[k].name = name}

ColumnAt == IF order = <<>> THEN at + 1 ELSE at + 2

Named ==
  {k \in Position(toks[ColumnAt].val) :
     order # <<>> => Is(at + 1, "COMMA") /\ Is(at + 2, "IDENT") /\ More(at + 2)}

Column ==
  /\ pc = "columns" /\ ListsMore
  /\ ColumnAt \in DOMAIN toks
  /\ \E k \in Named :
       /\ elems' = [elems EXCEPT ![k] = Element(attrs[k].type)]
       /\ order' = Append(order, k)
  /\ at' = ColumnAt
  /\ UNCHANGED <<files, stmt, attrs, given, pending, pc, outcome, histVars>>

ColumnFails ==
  /\ pc = "columns" /\ ListsMore
  /\ ColumnAt \notin DOMAIN toks \/ Named = {}
  /\ Fail

ColumnsEnd ==
  /\ pc = "columns" /\ ~ListsMore
  /\ IF Is(at + 1, "RPAREN")
     THEN /\ pc' = "values?" /\ at' = at + 1
          /\ UNCHANGED <<files, stmt, attrs, order, elems, given, pending,
                         outcome, histVars>>
     ELSE Fail

Values ==
  /\ pc = "values?"
  /\ IF /\ Is(at + 1, "VALUES") /\ More(at + 1)
        /\ Is(at + 2, "LPAREN") /\ More(at + 2)
     THEN /\ pc' = "values" /\ at' = at + 2
          /\ UNCHANGED <<files, stmt, attrs, order, elems, given, pending,
                         outcome, histVars>>
     ELSE Fail

\* The next value, if it is one, and the token it ends with.
ValueAt == IF given = 0 THEN at + 1 ELSE at + 2

Operands ==
  IF given > 0 /\ ~(Is(at + 1, "COMMA") /\ More(at + 2)) THEN {}
  ELSE IF ~Is(ValueAt, "SUB")
  THEN IF ValueAt \in DOMAIN toks /\ toks[ValueAt].type \in {"INT", "STRING"}
       THEN {[type |-> toks[ValueAt].type, val |-> toks[ValueAt].val,
              end |-> ValueAt]}
       ELSE {}
  ELSE IF Is(ValueAt + 1, "INT") /\ More(ValueAt + 1)
  THEN {[type |-> "INT", val |-> -toks[ValueAt + 1].val, end |-> ValueAt + 1]}
  ELSE {}

\* Where it goes.  The entry after the last column named is not set.
Goal ==
  IF given >= Len(attrs) \/ given > Len(order) THEN {}
  ELSE IF given < Len(order) THEN {order[given + 1]} ELSE DOMAIN attrs

Fits(k, v) ==
  /\ v.type = elems[k].type
  /\ v.type = "STRING" => attrs[k].size >= Len(v.val) + 1

Value ==
  /\ pc = "values" /\ ListsMore
  /\ \E k \in Goal, v \in Operands :
       /\ Fits(k, v)
       /\ elems' = [elems EXCEPT ![k] = [type |-> v.type, set |-> TRUE,
                                         val |-> v.val]]
       /\ at' = v.end
  /\ given' = given + 1
  /\ UNCHANGED <<files, stmt, attrs, order, pending, pc, outcome, histVars>>

\* An entry that is not set may also lead anywhere.
ValueFails ==
  /\ pc = "values" /\ ListsMore
  /\ \/ given = Len(order)
     \/ \A k \in Goal, v \in Operands : ~Fits(k, v)
  /\ Fail

\* The value of a column for which none was given is what is in memory.
ValuesEnd ==
  /\ pc = "values" /\ ~ListsMore
  /\ IF Is(at + 1, "RPAREN")
     THEN /\ \E i \in StrayInts, s \in StrayStrings :
               LET filled == [k \in DOMAIN elems |->
                     IF elems[k].set THEN elems[k]
                     ELSE [elems[k] EXCEPT !.val =
                             IF elems[k].type = "INT" THEN i ELSE s]]
               IN pending' = RowPieces(attrs, filled)
          /\ pc' = "write" /\ at' = at + 1
          /\ spoiled' = IF \E k \in DOMAIN elems :
                             ~elems[k].set /\ elems[k].type # "NULL"
                        THEN spoiled \cup {table} ELSE spoiled
          /\ UNCHANGED <<files, stmt, attrs, order, elems, given, outcome,
                         kept, before, done, count>>
     ELSE Fail

InsertEnds ==
  /\ pc = "write" /\ pending = <<>> /\ stmt.command = "INSERT"
  /\ Finish("ok") /\ Recorded
  /\ UNCHANGED <<files, spoiled>>

-----------------------------------------------------------------------------
\* db_filewrite
Write ==
  /\ pc = "write" /\ pending # <<>>
  /\ files' = Added(Head(pending))
  /\ pending' = Tail(pending)
  /\ UNCHANGED <<stmt, readVars, pc, outcome, histVars>>

Full ==
  /\ pc = "write" /\ pending # <<>>
  /\ \E k \in 0..(Len(Head(pending)) - 1) :
       files' = Added(SubSeq(Head(pending), 1, k))
  /\ pending' = <<>>
  /\ spoiled' = spoiled \cup {table}
  /\ UNCHANGED <<stmt, readVars, pc, outcome, kept, before, done, count>>

\* The program stops, and the storage may not have all it was given.
Crash ==
  /\ pc # "idle"
  /\ \E n \in kept..Len(files[table]) :
       /\ files' = [files EXCEPT ![table] = SubSeq(@, 1, n)]
       /\ spoiled' = IF n > kept \/ stmt.command = "CREATE"
                     THEN spoiled \cup {table} ELSE spoiled
  /\ Finish("crash")
  /\ UNCHANGED done

Next ==
  \/ \E s \in Statements : CreateFile(s) \/ InsertInto(s)
  \/ Bracket \/ Declare \/ DeclareFails \/ Declarations \/ CreateEnds
  \/ Columns \/ Column \/ ColumnFails \/ ColumnsEnd
  \/ Values \/ Value \/ ValueFails \/ ValuesEnd \/ InsertEnds
  \/ Write \/ Full \/ Crash

Spec == Init /\ [][Next]_vars

-----------------------------------------------------------------------------
Idle == pc = "idle"

\* A statement that fails, wherever createTable or insert_command gives up,
\* leaves the files as they were.
FailedLeavesNothing == Idle /\ outcome = "error" => files = before

\* The attributes h as CREATE declares them, up to the closing parenthesis.
TypeText(attr) ==
  IF attr.type = "INT" THEN <<Tok("DBINT")>>
  ELSE <<Tok("DBSTRING"), Tok("LPAREN"), TokOf("INT", attr.size), Tok("RPAREN")>>

Declaration(h, k) ==
  (IF k = 1 THEN <<>> ELSE <<Tok("COMMA")>>)
    \o <<TokOf("IDENT", h[k].name)>> \o TypeText(h[k])

Text(h) ==
  <<Tok("LPAREN")>> \o FlattenSeq([k \in DOMAIN h |-> Declaration(h, k)])

\* The header holds the number of attributes and the length of a name in one
\* byte each.  A declaration takes three tokens, but for the first.
Small(s) ==
  /\ Len(s) <= 3 * 255
  /\ \A i \in DOMAIN s : s[i].type = "IDENT" => Len(s[i].val) < 255

\* The header of the file f is what the tokens s declare.
ReadsBack(s, f) ==
  /\ HasHeader(f)
  /\ LET h == Header(f)
         n == Len(Text(h))
     IN /\ SubSeq(s, 1, n) = Text(h)
        /\ s[IF n < Len(s) THEN n + 1 ELSE n].type = "RPAREN"
        /\ \A j, k \in DOMAIN h : j # k => h[j].name # h[k].name
        /\ \A k \in DOMAIN h :
             LET place == Sum([j \in 1..(k - 1) |-> h[j].size])
             IN /\ h[k].type = "INT" => h[k].size = IntSize
                /\ place < 256 => h[k].offset = place

\* getrelationheader reads the names, types and sizes that CREATE was given,
\* no name twice, and where each attribute is among the bytes of a tuple,
\* from the first statement on and whatever happens to the table after it.
HeaderReadBack ==
  \A t \in DOMAIN done :
    done[t] # <<>> /\ Small(done[t][1].toks) => ReadsBack(done[t][1].toks, files[t])

\* The file f is full of n rows, of as many bytes each as INSERT writes for
\* one: its last row ends where the file does.
RowBytes(h) == BitBytes(Len(h)) + Sum([k \in DOMAIN h |-> h[k].size])

Filled(f, n) == Len(f) = TupleStart(f) - 1 + n * RowBytes(Header(f))

\* A table that no crash, full storage or missing value has touched has, at
\* the end of a statement, the rows that were inserted and no byte of another.
\* next_scan finds as many, as long as the length of one is in a byte.
NothingElse ==
  Idle => \A t \in DOMAIN done \ spoiled : Small(done[t][1].toks) =>
    LET f    == files[t]
        h    == Header(f)
        rows == Len(done[t]) - 1
    IN /\ Filled(f, rows)
       /\ h # <<>> /\ RowBytes(h) = BitBytes(Len(h)) + TupleSize(h) =>
            Len(Tuples(f)) = rows

\* The integers of a tuple are in it: a header that was torn may say otherwise.
Readable(f) ==
  /\ HasHeader(f) /\ f[1] > 0
  /\ LET h == Header(f)
     IN \A k \in DOMAIN h :
          h[k].type = "INT" => h[k].offset + IntSize <= TupleSize(h)

\* Whatever a statement writes and wherever it is stopped, the tuples that a
\* scan found in a table when it began are still found, in their places and
\* with their values.
TuplesKept ==
  \A t \in DOMAIN before : Readable(before[t]) =>
    /\ t \in DOMAIN files /\ HasHeader(files[t])
    /\ Header(files[t]) = Header(before[t])
    /\ LET old == Tuples(before[t])
           now == Tuples(files[t])
       IN /\ Len(old) <= Len(now)
          /\ \A n \in DOMAIN old : now[n] = old[n]
=============================================================================
