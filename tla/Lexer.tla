-------------------------------- MODULE Lexer --------------------------------
(***************************************************************************)
(* The lexer, dbparser/dblexer.c.  lexer_next is a state machine over the  *)
(* characters of the command; each iteration of its loops is a step here.  *)
(* The parser calls it until the answer is not 1, then sets the offset     *)
(* back and reads clauses and names a second time (parse, gettokenat).     *)
(*                                                                         *)
(* A character stands for itself and, a letter, for both of its cases.     *)
(* Offsets count from 0 as in the code.  The number a token carries along  *)
(* with its type (info, bcode) follows from its type and its characters    *)
(* and is left out.                                                        *)
(***************************************************************************)
EXTENDS Integers, Sequences

CONSTANTS
  Characters,
  Texts,                                  \* the commands
  Letters, Digits, Blanks, LineEnds,      \* classes of characters
  Clauses, ReservedWords, Operators, Functions, AggrFunctions, \* sets of words
  QT_STRING, QT_IDENT                     \* the two quotes

Words == UNION {Clauses, ReservedWords, Operators, Functions, AggrFunctions}
Marks == {"(", ")", ",", "?", ".", ";"}

ASSUME TextsAssumption == Texts \subseteq Seq(Characters)
ASSUME KeywordsAssumption == Words \subseteq Seq(Characters) \ {<<>>}

All(s, C) == \A i \in DOMAIN s : s[i] \in C
Word(s) == s[1] \in Letters /\ All(s, Letters \cup Digits)

\* The characters that begin an operator which is not a word, or mean something
\* to the lexer though they do.
Signs == {"-", "*"} \cup {w[1] : w \in {v \in Operators : ~Word(v)}}

ASSUME ClassesAssumption ==
  /\ LineEnds \subseteq Blanks
  /\ LET classes == <<Letters, Digits, Blanks, {QT_STRING}, {QT_IDENT}, Marks, Signs>>
     IN \A i, j \in DOMAIN classes : i # j => classes[i] \cap classes[j] = {}

\* Whoever reads an operator passes only over operators behind its first
\* character.
ASSUME OperatorsAssumption ==
  \A w \in Operators : Word(w) \/ \A n \in 2..Len(w) : SubSeq(w, 1, n) \in Operators

VARIABLES
  text,      \* lexerp->command
  offset,    \* lexerp->offset
  mode,      \* DB_LEXER_MODE_*, "SKIP" before the loop, "DONE", or "IDLE"
  newtoken,  \* the token under construction
  answer,    \* of the last call: "token" (1), "end" (0), "error" (-1)
  tokens,    \* history: the tokens of the first reading, each with the
             \* offset it left behind
  reading    \* history: the token of a second reading to start from (0 in the
             \* first reading), and the one that comes next

vars == <<text, offset, mode, newtoken, answer, tokens, reading>>

-----------------------------------------------------------------------------
Lexible    == offset < Len(text)
Char       == text[offset + 1]
Slice(s,e) == SubSeq(text, s + 1, e)

StartsOperator(c) == \E w \in Operators : w[1] = c

\* What GENERAL makes of a word: the order of the lookups decides.
WordType(w) ==
  IF w \in Clauses \cup ReservedWords THEN "RESERVED"
  ELSE IF w \in Operators THEN "OP"
  ELSE IF w \in Functions THEN "FUNC"
  ELSE IF w \in AggrFunctions THEN "AGGRFUNC"
  ELSE "IDENT"

\* At the end of the text only clauses and reserved words are looked up.
TypeAtEnd ==
  CASE mode = "INTEGER" -> "INT"
    [] mode = "DECIMAL" -> "DECIMAL"
    [] mode = "GENERAL" -> IF WordType(Slice(newtoken.start, newtoken.end))
                                = "RESERVED" THEN "RESERVED" ELSE "IDENT"
    [] OTHER -> "COUNT"

-----------------------------------------------------------------------------
Init ==
  /\ text \in Texts
  /\ offset = 0
  /\ mode = "IDLE"
  /\ newtoken = [type |-> "COUNT", start |-> 0, end |-> 0]
  /\ answer = "token"
  /\ tokens = <<>>
  /\ reading = [from |-> 0, next |-> 0]

\* The parser asks for the next token as long as there was one.
Call ==
  /\ mode = "IDLE" /\ answer = "token"
  /\ mode' = "SKIP"
  /\ newtoken' = [type |-> "COUNT", start |-> offset, end |-> offset]
  /\ UNCHANGED <<text, offset, answer, tokens, reading>>

\* Leaving lexer_next without a token.
Leave(a) ==
  /\ mode' = "IDLE"
  /\ answer' = a
  /\ UNCHANGED <<text, tokens, reading>>

\* A step of the loop that consumes n characters and makes the token e longer.
Advance(n, e, m) ==
  /\ offset' = offset + n
  /\ newtoken' = [newtoken EXCEPT !.end = @ + e]
  /\ mode' = m
  /\ UNCHANGED <<text, answer, tokens, reading>>

\* A step of the loop that settles the type of the token.
Settle(n, e, type) ==
  /\ offset' = offset + n
  /\ newtoken' = [newtoken EXCEPT !.end = @ + e, !.type = type]
  /\ mode' = "DONE"
  /\ UNCHANGED <<text, answer, tokens, reading>>

Skip ==
  /\ mode = "SKIP"
  /\ \/ /\ Lexible /\ Char \in Blanks
        /\ offset' = offset + 1
        /\ newtoken' = [newtoken EXCEPT !.start = @ + 1, !.end = @ + 1]
        /\ UNCHANGED <<text, mode, answer, tokens, reading>>
     \/ Lexible /\ Char \notin Blanks /\ Advance(0, 0, "NONE")
     \/ ~Lexible /\ Leave("end") /\ UNCHANGED <<offset, newtoken>>

-----------------------------------------------------------------------------
\* The character after the one under the offset, a set of at most one.
Following == IF offset + 1 < Len(text) THEN {text[offset + 2]} ELSE {}

\* An opening quote is not part of the token.
OpenQuote(m) ==
  /\ offset' = offset + 1
  /\ newtoken' = [newtoken EXCEPT !.start = offset + 1, !.end = @ + 1]
  /\ mode' = m
  /\ UNCHANGED <<text, answer, tokens, reading>>

\* DB_LEXER_MODE_NONE: the first character of a token.
First ==
  /\ mode = "NONE" /\ Lexible
  /\ \/ Char \in {"(", ")", ",", ";"} /\ Settle(1, 1, Char)
     \/ Char = "?" /\ Following \cap {"i", "s"} # {} /\ Settle(2, 1, "?")
     \/ Char \in Digits  /\ Advance(1, 1, "INTEGER")
     \/ Char \in Letters /\ Advance(1, 1, "GENERAL")
     \/ Char = "." /\ Following \cap Digits # {} /\ Advance(1, 1, "DECIMAL")
     \/ /\ Char = "." /\ Following \cap (Letters \cup {"*", QT_IDENT}) # {}
        /\ Settle(1, 1, "IDENTCONJ")
     \/ Char = QT_STRING /\ OpenQuote("STRING")
     \/ Char = QT_IDENT  /\ OpenQuote("IDENT")
     \/ Char \notin Letters /\ StartsOperator(Char) /\ Advance(1, 1, "OP")

\* The first characters with which lexer_next gives up.  A blank is one: after
\* a comment the blanks are not skipped again.
Invalid_PastEnd ==                                            \* mutant
  /\ mode = "NONE" /\ Lexible
  /\ Char = "?" /\ Following \cap {"i", "s"} = {}
  /\ Leave("error")
  /\ offset' = offset + 2
  /\ UNCHANGED newtoken
Invalid ==
  /\ mode = "NONE" /\ Lexible
  /\ \/ Char = "?" /\ Following \cap {"i", "s"} = {}
     \/ /\ Char = "."
        /\ Following \cap (Digits \cup Letters \cup {"*", QT_IDENT}) = {}
     \/ /\ Char \notin Marks \cup Digits \cup Letters \cup {QT_STRING, QT_IDENT}
        /\ ~StartsOperator(Char)
  /\ Leave("error")
  /\ offset' = offset + (IF Char = "?" /\ Following # {} THEN 2 ELSE 1)
  /\ UNCHANGED newtoken

General_DropsNext ==                                          \* mutant
  /\ mode = "GENERAL" /\ Lexible
  /\ \/ Char \in Letters \cup Digits /\ Advance(1, 1, "GENERAL")
     \/ /\ Char \notin Letters \cup Digits
        /\ Settle(1, 0, WordType(Slice(newtoken.start, newtoken.end)))
General ==
  /\ mode = "GENERAL" /\ Lexible
  /\ \/ Char \in Letters \cup Digits /\ Advance(1, 1, "GENERAL")
     \/ /\ Char \notin Letters \cup Digits
        /\ Settle(0, 0, WordType(Slice(newtoken.start, newtoken.end)))

Integer_DropsNext ==                                          \* mutant
  /\ mode = "INTEGER" /\ Lexible
  /\ \/ Char \in Digits /\ Advance(1, 1, "INTEGER")
     \/ Char = "." /\ Advance(1, 1, "DECIMAL")
     \/ Char \notin Digits \cup {"."} /\ Settle(1, 0, "INT")
Integer ==
  /\ mode = "INTEGER" /\ Lexible
  /\ \/ Char \in Digits /\ Advance(1, 1, "INTEGER")
     \/ Char = "." /\ Advance(1, 1, "DECIMAL")
     \/ Char \notin Digits \cup {"."} /\ Settle(0, 0, "INT")

Decimal ==
  /\ mode = "DECIMAL" /\ Lexible
  /\ \/ Char \in Digits /\ Advance(1, 1, "DECIMAL")
     \/ Char \notin Digits /\ Settle(0, 0, "DECIMAL")

\* The closing quote is consumed and not part of the token.
Quoted ==
  \/ /\ mode = "STRING" /\ Lexible
     /\ \/ Char # QT_STRING /\ Advance(1, 1, "STRING")
        \/ Char = QT_STRING /\ Settle(1, 0, "STRING")
  \/ /\ mode = "IDENT" /\ Lexible
     /\ \/ Char # QT_IDENT /\ Advance(1, 1, "IDENT")
        \/ Char = QT_IDENT /\ Settle(1, 0, "IDENT")

StillOperator_Single(w) == w \in Operators /\ Len(w) = 1       \* mutant
StillOperator(w) == w \in Operators

\* The operator grows as long as it is one; two minus signs open a comment.
Operator ==
  /\ mode = "OP" /\ Lexible
  /\ LET longer  == Slice(newtoken.start, newtoken.end + 1)
         shorter == Slice(newtoken.start, newtoken.end)
     IN \/ StillOperator(longer) /\ Advance(1, 1, "OP")
        \/ /\ ~StillOperator(longer)
           /\ \/ longer = <<"-", "-">> /\ Advance(1, 1, "COMMENT")
              \/ /\ longer # <<"-", "-">> /\ StillOperator(shorter)
                 /\ Settle(0, 0, "OP")
              \/ /\ longer # <<"-", "-">> /\ ~StillOperator(shorter)
                 /\ Leave("error")
                 /\ offset' = offset + 1
                 /\ UNCHANGED newtoken

\* A comment goes to the end of its line; the token starts again behind it.
Comment_Peeks ==                                              \* mutant
  mode = "COMMENT" /\ Lexible /\ Advance(0, 0, "COMMENT")
Comment ==
  /\ mode = "COMMENT" /\ Lexible
  /\ \/ Char \notin LineEnds /\ Advance(1, 0, "COMMENT")
     \/ /\ Char \in LineEnds
        /\ offset' = offset + 1
        /\ newtoken' = [newtoken EXCEPT !.start = offset + 1,
                                        !.end = offset + 1]
        /\ mode' = "NONE"
        /\ UNCHANGED <<text, answer, tokens, reading>>

\* The end of the loop: a token is there if it has a character.
LoopEnds ==
  \/ mode = "DONE"
  \/ ~Lexible /\ mode \notin {"IDLE", "SKIP", "DONE"}

HasToken_Always == TRUE                                       \* mutant
HasToken == newtoken.end # newtoken.start

Return ==
  /\ LoopEnds /\ HasToken
  /\ LET t == IF newtoken.type = "COUNT"
              THEN [newtoken EXCEPT !.type = TypeAtEnd] ELSE newtoken
     IN /\ newtoken' = t
        /\ \/ /\ reading.from = 0
              /\ tokens' = Append(tokens, [token |-> t, after |-> offset])
              /\ UNCHANGED reading
           \/ /\ reading.from > 0
              /\ reading' = [reading EXCEPT !.next = @ + 1]
              /\ UNCHANGED tokens
  /\ mode' = "IDLE"
  /\ answer' = "token"
  /\ UNCHANGED <<text, offset>>

\* An empty pair of quotes, or a comment that is the last line, is no token.
ReturnNothing ==
  /\ LoopEnds /\ ~HasToken
  /\ Leave("end")
  /\ UNCHANGED <<offset, newtoken>>

-----------------------------------------------------------------------------
(* The second reading, which the parser starts when the first is over:     *)
(* behind the word of a clause (parse), or at the name of a table or an    *)
(* attribute (gettokenat, with a copy of the lexer).                       *)
ReadAgain(i) ==
  /\ mode = "IDLE" /\ answer # "token" /\ reading.from = 0
  /\ \/ /\ tokens[i].token.type = "RESERVED"
        /\ offset' = tokens[i].token.end
        /\ reading' = [from |-> i, next |-> i + 1]
     \/ /\ tokens[i].token.type = "IDENT"
        /\ offset' = tokens[i].token.start
        /\ reading' = [from |-> i, next |-> i]
  /\ answer' = "token"
  /\ UNCHANGED <<text, mode, newtoken, tokens>>

Step ==
  \/ Call \/ Skip \/ First \/ Invalid \/ General \/ Integer \/ Decimal
  \/ Quoted \/ Operator \/ Comment \/ Return \/ ReturnNothing

Next == Step \/ \E i \in DOMAIN tokens : ReadAgain(i)

Spec == Init /\ [][Next]_vars /\ WF_vars(Step)

-----------------------------------------------------------------------------
(* Properties *)
TokenTypes ==
  {"(", ")", ",", ";", "?", "INT", "DECIMAL", "IDENTCONJ", "STRING", "IDENT",
   "OP", "RESERVED", "FUNC", "AGGRFUNC", "COUNT"}
Token == [type : TokenTypes, start : Nat, end : Nat]

\* The values the variables of lexer_next may have.
TypeOK ==
  /\ text \in Seq(Characters)
  /\ offset \in 0..Len(text)
  /\ mode \in {"IDLE", "SKIP", "NONE", "GENERAL", "INTEGER", "DECIMAL",
               "STRING", "IDENT", "OP", "COMMENT", "DONE"}
  /\ newtoken \in Token
  /\ answer \in {"token", "end", "error"}
  /\ tokens \in Seq([token : Token, after : Nat])
  /\ reading \in [from : Nat, next : Nat]

\* The tokens of a command lie in it one behind the other, each of them with
\* at least one character and none of them beyond the offset it left behind:
\* what the parser relies on when it cuts the command into clauses at the ends
\* of tokens (parse, dbparser.c:1250-1263).
InOrder ==
  \A i \in DOMAIN tokens :
    /\ tokens[i].token.start < tokens[i].token.end
    /\ tokens[i].token.end <= tokens[i].after
    /\ tokens[i].after <= Len(text)
    /\ i > 1 => tokens[i - 1].after <= tokens[i].token.start

\* The language of one token, said apart from the machine that reads it.
Number(s) == \E i \in DOMAIN s :
               /\ s[i] = "." /\ Len(s) > 1
               /\ \A j \in DOMAIN s \ {i} : s[j] \in Digits
Between(s, q) ==
  /\ Len(s) > 2 /\ s[1] = q /\ s[Len(s)] = q
  /\ \A i \in 2..(Len(s) - 1) : s[i] # q
KindOf(s) ==
  CASE s[1] \in {"(", ")", ",", ";"} /\ Len(s) = 1 -> s[1]
    [] s[1] = "?" /\ Len(s) = 2 /\ s[2] \in {"i", "s"} -> "?"
    [] Word(s)          -> WordType(s)
    [] All(s, Digits)   -> "INT"
    [] Number(s)        -> "DECIMAL"
    [] s = <<".">>      -> "IDENTCONJ"
    [] s \in Operators /\ ~Word(s) -> "OP"
    [] Between(s, QT_STRING) -> "STRING"
    [] Between(s, QT_IDENT)  -> "IDENT"
    [] OTHER            -> "none"

\* Where the text of a token begins, its opening quote included.
IsQuoted(t) ==
  \/ t.token.type \in {"STRING", "IDENT"} /\ t.token.end < t.after
  \/ /\ t.token.type = "COUNT" /\ t.token.start > 0
     /\ text[t.token.start] \in {QT_STRING, QT_IDENT}
From(t) == IF IsQuoted(t) THEN t.token.start - 1 ELSE t.token.start

\* And where it ends, its closing quote included.
To(t) == IF t.token.type \in {"STRING", "IDENT", "?"} THEN t.after
         ELSE t.token.end

HasKind(t) == KindOf(Slice(From(t), t.after)) = t.token.type
NoneLonger(t) == \A e \in (t.after + 1)..Len(text) :
                   KindOf(Slice(From(t), e)) = "none"
CutShort(t) ==
  /\ t.after = Len(text)
  /\ \/ t.token.type = "COUNT"
     \/ /\ t.token.type = "IDENT"
        /\ WordType(Slice(t.token.start, t.token.end)) \in {"OP", "FUNC", "AGGRFUNC"}

\* A token is the longest run of characters from where it begins that is a
\* token, and has its type.  The last one may be cut short: at the end of the
\* text the loop of lexer_next ends without a word about an operator, a
\* function or a quote that is not closed.
LongestMatch ==
  \A i \in DOMAIN tokens :
    NoneLonger(tokens[i]) /\ (HasKind(tokens[i]) \/ CutShort(tokens[i]))

\* Position p of the text is in a comment, or in an empty pair of quotes; at the
\* end of the text a quote alone is one, too.
InComment(p) ==
  \E c \in 0..p :
    /\ c + 1 < Len(text) /\ text[c + 1] = "-" /\ text[c + 2] = "-"
    /\ \A q \in c..(p - 1) : text[q + 1] \notin LineEnds
EmptyQuotes(p) ==
  \E c \in {p - 1, p} \cap 0..(Len(text) - 1) :
    /\ text[c + 1] \in {QT_STRING, QT_IDENT}
    /\ c + 1 < Len(text) => text[c + 2] = text[c + 1]

Accounted(p) ==
  \/ \E i \in DOMAIN tokens : p \in From(tokens[i])..(To(tokens[i]) - 1)
  \/ text[p + 1] \in Blanks
  \/ InComment(p)
  \/ EmptyQuotes(p)

\* Between two calls every character read so far is in a token or between the
\* quotes that enclose one, or it is a blank, or in a comment: nothing of the
\* command is dropped.  lexer_next says that there are no more tokens only at
\* the end of the text or behind an empty pair of quotes, which it takes for
\* the end (dblexer.c:1137, the string '' has no character).
NothingLost ==
  mode = "IDLE" /\ reading.from = 0 /\ answer # "error" =>
    /\ \A p \in 0..(offset - 1) : Accounted(p)
    /\ answer = "end" =>
         offset = Len(text) \/ EmptyQuotes(offset - 1)

\* A second reading finds the tokens of the first again, though it starts in
\* the middle of the command: whole clauses behind their word, a name at its
\* first character.  A name in quotes is read again without the quotes; it is
\* found again when it is a word, and only it, not what follows it.
SecondReading ==
  [][reading.from > 0 /\ reading'.next > reading.next =>
       LET i     == reading.next
           first == tokens[reading.from]
       IN IF IsQuoted(first)
          THEN (/\ i = reading.from
                /\ Word(Slice(first.token.start, first.token.end))) =>
                  /\ newtoken'.start = first.token.start
                  /\ newtoken'.end = first.token.end
          ELSE i \in DOMAIN tokens /\ newtoken' = tokens[i].token]_vars

\* Whoever reads until there are no more tokens comes to an end: no step of the
\* lexer, those that move the offset back included, is repeated for ever.
ReadingEnds == []<>(mode = "IDLE" /\ answer # "token")
=============================================================================
