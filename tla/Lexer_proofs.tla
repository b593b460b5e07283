----------------------------- MODULE Lexer_proofs -----------------------------
(***************************************************************************)
(* The tokens of every command, of any length and over any characters, lie *)
(* in it one behind the other; each is the longest text that is one, and   *)
(* nothing between them is dropped; a second reading finds them again.     *)
(*                                                                         *)
(* Inv keeps the offsets in order.  IInv adds what the loop knows of the   *)
(* token it is at: its mode says which characters it has gone over         *)
(* (InMode), a token that is done is the longest of its kind (WhenDone),   *)
(* and all before it is accounted for (NothingSkipped).  The lemmas        *)
(* Longest... say it of a text alone, one for each kind of token.  AInv is *)
(* for the second reading: what the loop comes to from an offset (Lands),  *)
(* for each offset a second reading may set out from.                      *)
(***************************************************************************)
EXTENDS Lexer, TLAPS

TokenModes == {"GENERAL", "INTEGER", "DECIMAL", "STRING", "IDENT", "OP",
               "COMMENT", "DONE"}
LoopModes == TokenModes \cup {"NONE"}

\* In the first reading nothing under construction begins before the offset the
\* last token left behind.
Behind(p) == Len(tokens) > 0 => tokens[Len(tokens)].after <= p

\* In a call the token under construction ends at the offset or before it, and
\* before its first character it is empty.
Inv ==
  /\ TypeOK
  /\ InOrder
  /\ mode = "IDLE" /\ reading.from = 0 => Behind(offset)
  /\ mode # "IDLE" =>
       /\ newtoken.start <= newtoken.end
       /\ newtoken.end <= offset
       /\ reading.from = 0 => Behind(newtoken.start)
  /\ mode \in {"SKIP", "NONE"} =>
       newtoken.start = offset /\ newtoken.end = offset

-----------------------------------------------------------------------------
LEMMA WordTypes ==
  \A w : WordType(w) \in {"RESERVED", "OP", "FUNC", "AGGRFUNC", "IDENT"}
  BY DEF WordType

LEMMA EndTypes == TypeAtEnd \in TokenTypes
  BY WordTypes DEF TypeAtEnd, TokenTypes

LEMMA LastToken ==
  ASSUME TypeOK, Len(tokens) > 0
  PROVE  tokens[Len(tokens)].after \in Nat
<1> DEFINE Entry == [token : Token, after : Nat]
<1>1. tokens \in Seq(Entry)
  BY DEF TypeOK
<1>2. tokens[Len(tokens)] \in Entry
  <2> HIDE DEF Entry
  <2>1. Len(tokens) \in 1..Len(tokens)
    BY <1>1
  <2>2. QED
    BY <1>1, <2>1
<1>3. QED
  BY <1>2

\* The first call.
LEMMA InitInv == Init => Inv
<1> SUFFICES ASSUME Init PROVE Inv
  OBVIOUS
<1>1. text \in Seq(Characters) /\ Len(text) \in Nat
  BY TextsAssumption DEF Init
<1>2. newtoken \in Token
  BY DEF Init, Token, TokenTypes
<1>3. TypeOK
  BY <1>1, <1>2 DEF Init, TypeOK
<1>4. Len(tokens) = 0 /\ DOMAIN tokens = {}
  BY DEF Init
<1>5. InOrder
  BY <1>4 DEF InOrder
<1>6. QED
  BY <1>3, <1>4, <1>5 DEF Init, Inv, Behind

\* A step of the loop that does not leave the text, and does not make the token
\* longer than what it consumes.
LEMMA AdvanceInv ==
  ASSUME NEW n \in Nat, NEW e \in Nat, NEW m \in TokenModes,
         Inv, mode # "IDLE", Advance(n, e, m),
         offset + n <= Len(text), e <= n
  PROVE  Inv'
<1> USE DEF Advance
<1>1. newtoken' \in Token /\ newtoken'.start = newtoken.start
      /\ newtoken'.end = newtoken.end + e
  <2>1. newtoken \in Token /\ newtoken.end + e \in Nat
    BY DEF Inv, TypeOK, Token
  <2>2. newtoken' = [newtoken EXCEPT !.end = newtoken.end + e]
    OBVIOUS
  <2>3. QED
    BY <2>1, <2>2 DEF Token
<1>2. offset' \in 0..Len(text)' /\ text' = text /\ tokens' = tokens
  BY DEF Inv, TypeOK
<1>3. TypeOK'
  BY <1>1, <1>2 DEF Inv, TypeOK, TokenModes
<1>4. InOrder'
  BY <1>2 DEF Inv, InOrder
<1>5. newtoken'.end <= offset' /\ newtoken'.start <= newtoken'.end
  BY <1>1 DEF Inv, TypeOK, Token
<1>6. mode' \notin {"IDLE", "SKIP", "NONE"}
  BY DEF TokenModes
<1>7. reading.from = 0 => Behind(newtoken.start)'
  BY <1>1, <1>2 DEF Inv, Behind
<1>8. reading' = reading
  OBVIOUS
<1>9. QED
  BY <1>3, <1>4, <1>5, <1>6, <1>7, <1>8 DEF Inv

LEMMA SettleInv ==
  ASSUME NEW n \in Nat, NEW e \in Nat, NEW type \in TokenTypes,
         Inv, mode # "IDLE", Settle(n, e, type),
         offset + n <= Len(text), e <= n
  PROVE  Inv'
<1> USE DEF Settle
<1>1. newtoken' \in Token /\ newtoken'.start = newtoken.start
      /\ newtoken'.end = newtoken.end + e
  <2>1. newtoken \in Token /\ newtoken.end + e \in Nat
    BY DEF Inv, TypeOK, Token
  <2>2. newtoken' = [newtoken EXCEPT !.end = newtoken.end + e, !.type = type]
    OBVIOUS
  <2>3. QED
    BY <2>1, <2>2 DEF Token
<1>2. offset' \in 0..Len(text)' /\ text' = text /\ tokens' = tokens
  BY DEF Inv, TypeOK
<1>3. TypeOK'
  BY <1>1, <1>2 DEF Inv, TypeOK
<1>4. InOrder'
  BY <1>2 DEF Inv, InOrder
<1>5. newtoken'.end <= offset' /\ newtoken'.start <= newtoken'.end
  BY <1>1 DEF Inv, TypeOK, Token
<1>6. mode' \notin {"IDLE", "SKIP", "NONE"}
  OBVIOUS
<1>7. reading.from = 0 => Behind(newtoken.start)'
  BY <1>1, <1>2 DEF Inv, Behind
<1>8. reading' = reading
  OBVIOUS
<1>9. QED
  BY <1>3, <1>4, <1>5, <1>6, <1>7, <1>8 DEF Inv

\* A token restarts at the offset: behind an opening quote, behind a comment.
LEMMA RestartInv ==
  ASSUME NEW m \in LoopModes, Inv, mode # "IDLE", offset < Len(text),
         offset' = offset + 1,
         newtoken' \in Token,
         newtoken'.start = offset + 1, newtoken'.end = offset + 1, mode' = m,
         UNCHANGED <<text, answer, tokens, reading>>
  PROVE  Inv'
<1>1. TypeOK'
  BY DEF Inv, TypeOK, LoopModes, TokenModes
<1>2. InOrder'
  BY DEF Inv, InOrder
<1>3. reading.from = 0 => Behind(newtoken.start)' 
  <2> SUFFICES ASSUME reading.from = 0, Len(tokens) > 0
               PROVE  tokens[Len(tokens)].after <= offset + 1
    BY DEF Behind
  <2>1. tokens[Len(tokens)].after \in Nat /\ offset \in Nat
    BY LastToken DEF Inv, TypeOK
  <2>2. tokens[Len(tokens)].after <= newtoken.start
    BY DEF Inv, Behind
  <2>3. QED
    BY <2>1, <2>2 DEF Inv, TypeOK, Token
<1>4. mode' # "IDLE" /\ offset + 1 <= offset + 1 /\ reading' = reading
  BY DEF LoopModes, TokenModes, Inv, TypeOK
<1>5. QED
  BY <1>1, <1>2, <1>3, <1>4 DEF Inv

\* Leaving without a token, with the offset somewhere behind the last token.
LEMMA LeaveInv ==
  ASSUME NEW a \in {"end", "error"}, Inv, mode # "IDLE", Leave(a),
         offset' \in offset..Len(text), UNCHANGED newtoken
  PROVE  Inv'
<1>1. TypeOK'
  BY DEF Inv, TypeOK, Leave
<1>2. InOrder'
  BY DEF Inv, InOrder, Leave
<1>3. reading.from = 0 => Behind(offset)'
  <2> SUFFICES ASSUME reading.from = 0, Len(tokens) > 0
               PROVE  tokens[Len(tokens)].after <= offset'
    BY DEF Behind, Leave
  <2>1. tokens[Len(tokens)].after \in Nat /\ offset \in Nat
    BY LastToken DEF Inv, TypeOK
  <2>2. tokens[Len(tokens)].after <= newtoken.start
    BY DEF Inv, Behind
  <2>3. QED
    BY <2>1, <2>2 DEF Inv, TypeOK, Token
<1>4. QED
  BY <1>1, <1>2, <1>3 DEF Inv, Leave

-----------------------------------------------------------------------------
\* What lies under the offset is a character of the text, and if one follows
\* it, so does that.
LEMMA Room ==
  ASSUME Inv
  PROVE  /\ Len(text) \in Nat /\ offset \in Nat
         /\ Lexible => offset + 1 <= Len(text)
         /\ Following # {} => offset + 2 <= Len(text)
  BY DEF Inv, TypeOK, Lexible, Following

\* The start of a call.
LEMMA CallInv == Inv /\ Call => Inv'
<1> SUFFICES ASSUME Inv, Call PROVE Inv'
  OBVIOUS
<1>1. newtoken' \in Token /\ newtoken'.start = offset /\ newtoken'.end = offset
  BY Room DEF Call, Token, TokenTypes
<1>2. TypeOK'
  BY <1>1 DEF Call, Inv, TypeOK
<1>3. InOrder'
  BY DEF Call, Inv, InOrder
<1>4. reading.from = 0 => Behind(newtoken.start)'
  BY <1>1 DEF Call, Inv, Behind
<1>5. offset' = offset /\ mode' # "IDLE" /\ reading' = reading /\ offset \in Nat
  BY Room DEF Call
<1>6. QED
  BY <1>1, <1>2, <1>3, <1>4, <1>5 DEF Inv

LEMMA SkipInv == Inv /\ Skip => Inv'
<1> SUFFICES ASSUME Inv, Skip PROVE Inv'
  OBVIOUS
<1>1. CASE Lexible /\ Char \in Blanks
  <2>1. /\ offset' = offset + 1 /\ offset + 1 <= Len(text)
        /\ newtoken' = [newtoken EXCEPT !.start = @ + 1, !.end = @ + 1]
        /\ UNCHANGED <<text, mode, answer, tokens, reading>>
        /\ mode = "SKIP"
    BY <1>1, Room DEF Skip, Advance, Leave
  <2>2. newtoken \in Token
    BY DEF Inv, TypeOK
  <2>3. /\ newtoken' \in Token /\ newtoken'.start = newtoken.start + 1
        /\ newtoken'.end = newtoken.end + 1
    <3>1. /\ newtoken.type \in TokenTypes
          /\ newtoken.start + 1 \in Nat /\ newtoken.end + 1 \in Nat
      BY <2>2 DEF Token
    <3>2. newtoken' = [type  |-> newtoken.type, start |-> newtoken.start + 1,
                       end   |-> newtoken.end + 1]
      BY <2>1, <2>2 DEF Token
    <3>3. QED
      BY <3>1, <3>2 DEF Token
  <2>4. TypeOK'
    BY <2>1, <2>3, Room DEF Inv, TypeOK
  <2>5. InOrder'
    BY <2>1 DEF Inv, InOrder
  <2>6. reading.from = 0 => Behind(newtoken.start)'
    <3> SUFFICES ASSUME reading.from = 0, Len(tokens) > 0
                 PROVE  tokens[Len(tokens)].after <= newtoken.start + 1
      BY <2>1, <2>3 DEF Behind
    <3>1. tokens[Len(tokens)].after \in Nat /\ newtoken.start \in Nat
      BY LastToken, <2>2 DEF Inv, Token
    <3>2. tokens[Len(tokens)].after <= newtoken.start
      BY <2>1 DEF Inv, Behind
    <3>3. QED
      BY <3>1, <3>2
  <2>7. newtoken'.start <= newtoken'.end /\ newtoken'.end <= offset'
    BY <2>1, <2>2, <2>3, Room DEF Inv, Token
  <2>8. QED
    BY <2>1, <2>4, <2>5, <2>6, <2>7 DEF Inv
<1>2. CASE Advance(0, 0, "NONE") /\ mode = "SKIP"
  <2>1. newtoken' = newtoken /\ offset' = offset /\ mode' = "NONE"
        /\ UNCHANGED <<text, answer, tokens, reading>>
    BY <1>2, Room DEF Advance, Inv, TypeOK, Token
  <2>2. TypeOK' /\ InOrder'
    BY <2>1 DEF Inv, TypeOK, InOrder
  <2>3. QED
    BY <1>2, <2>1, <2>2, Room DEF Inv, Behind
<1>3. CASE Leave("end") /\ UNCHANGED <<offset, newtoken>> /\ mode = "SKIP"
  <2>1. offset' \in offset..Len(text)
    BY <1>3 DEF Inv, TypeOK
  <2>2. QED
    BY <1>3, <2>1, LeaveInv
<1>4. QED
  BY <1>1, <1>2, <1>3 DEF Skip

\* The modes of the loop.
LEMMA FirstInv == Inv /\ First => Inv'
<1> SUFFICES ASSUME Inv, First PROVE Inv'
  OBVIOUS
<1>0. 1 \in Nat /\ 1 <= 1
  OBVIOUS
<1>1. mode # "IDLE" /\ mode = "NONE" /\ offset + 1 <= Len(text) /\ offset \in Nat
  BY Room DEF First
<1>2. ASSUME NEW m \in {"INTEGER", "GENERAL", "DECIMAL", "OP"},
             Advance(1, 1, m)
      PROVE  Inv'
  <2>1. m \in TokenModes
    BY DEF TokenModes
  <2>2. QED
    BY <1>1, <1>2, <2>1, AdvanceInv
<1>3. CASE Settle(1, 1, "IDENTCONJ")
  <2>1. "IDENTCONJ" \in TokenTypes
    BY DEF TokenTypes
  <2>2. QED
    BY <1>1, <1>3, <2>1, SettleInv
<1>4. ASSUME NEW c \in {"(", ")", ",", ";"}, c = Char, Settle(1, 1, Char)
      PROVE  Inv'
  <2>1. c \in TokenTypes /\ Settle(1, 1, c)
    BY <1>4 DEF TokenTypes, Settle
  <2>2. QED
    BY <1>0, <1>1, <2>1, SettleInv, Zenon
<1>5. CASE Settle(2, 1, "?") /\ Following \cap {"i", "s"} # {}
  <2>1. offset + 2 <= Len(text)
    BY <1>5, Room
  <2>2. "?" \in TokenTypes
    BY DEF TokenTypes
  <2>3. QED
    BY <1>1, <1>5, <2>1, <2>2, SettleInv
<1>6. ASSUME NEW m \in {"STRING", "IDENT"}, OpenQuote(m) PROVE Inv'
  <2>1. newtoken \in Token /\ newtoken.end = offset
    BY <1>1 DEF Inv, TypeOK
  <2>2. newtoken' = [newtoken EXCEPT !.start = offset + 1, !.end = @ + 1]
    BY <1>6 DEF OpenQuote
  <2>3. newtoken' \in Token /\ newtoken'.start = offset + 1
        /\ newtoken'.end = offset + 1
    <3>1. newtoken.type \in TokenTypes /\ offset + 1 \in Nat
      BY <1>1, <2>1 DEF Token
    <3>2. newtoken' = [type |-> newtoken.type, start |-> offset + 1,
                       end  |-> offset + 1]
      BY <2>1, <2>2 DEF Token
    <3>3. QED
      BY <3>1, <3>2 DEF Token
  <2>4. m \in LoopModes
    BY DEF LoopModes, TokenModes
  <2>5. QED
    BY <1>1, <1>6, <2>3, <2>4, RestartInv DEF OpenQuote, First, Lexible
<1>7. QED
  BY <1>2, <1>3, <1>4, <1>5, <1>6 DEF First

LEMMA GeneralInv == Inv /\ General => Inv'
<1> SUFFICES ASSUME Inv, General PROVE Inv'
  OBVIOUS
<1>1. mode # "IDLE" /\ offset + 1 <= Len(text) /\ offset + 0 <= Len(text)
  BY Room DEF General
<1>2. CASE Advance(1, 1, "GENERAL")
  BY <1>1, <1>2, AdvanceInv DEF TokenModes
<1>3. CASE Settle(0, 0, WordType(Slice(newtoken.start, newtoken.end)))
  <2>1. PICK type \in TokenTypes :
          type = WordType(Slice(newtoken.start, newtoken.end))
    BY WordTypes DEF TokenTypes
  <2>2. Settle(0, 0, type)
    BY <1>3, <2>1 DEF Settle
  <2>3. QED
    BY <1>1, <2>2, SettleInv
<1>4. QED
  BY <1>2, <1>3 DEF General

LEMMA NumberInv == Inv /\ (Integer \/ Decimal) => Inv'
<1> SUFFICES ASSUME Inv, Integer \/ Decimal PROVE Inv'
  OBVIOUS
<1>1. mode # "IDLE" /\ offset + 1 <= Len(text) /\ offset + 0 <= Len(text)
  BY Room DEF Integer, Decimal
<1>2. CASE Advance(1, 1, "INTEGER") \/ Advance(1, 1, "DECIMAL")
  BY <1>1, <1>2, AdvanceInv DEF TokenModes
<1>3. CASE Settle(0, 0, "INT") \/ Settle(0, 0, "DECIMAL")
  <2>1. "INT" \in TokenTypes /\ "DECIMAL" \in TokenTypes
    BY DEF TokenTypes
  <2>2. QED
    BY <1>1, <1>3, <2>1, SettleInv
<1>4. QED
  BY <1>2, <1>3 DEF Integer, Decimal

LEMMA QuotedInv == Inv /\ Quoted => Inv'
<1> SUFFICES ASSUME Inv, Quoted PROVE Inv'
  OBVIOUS
<1>1. mode # "IDLE" /\ offset + 1 <= Len(text)
  BY Room DEF Quoted
<1>2. CASE Advance(1, 1, "STRING") \/ Advance(1, 1, "IDENT")
  BY <1>1, <1>2, AdvanceInv DEF TokenModes
<1>3. CASE Settle(1, 0, "STRING") \/ Settle(1, 0, "IDENT")
  <2>1. "STRING" \in TokenTypes /\ "IDENT" \in TokenTypes
    BY DEF TokenTypes
  <2>2. QED
    BY <1>1, <1>3, <2>1, SettleInv
<1>4. QED
  BY <1>2, <1>3 DEF Quoted

LEMMA OperatorInv == Inv /\ Operator => Inv'
<1> SUFFICES ASSUME Inv, Operator PROVE Inv'
  OBVIOUS
<1>1. mode # "IDLE" /\ offset + 1 <= Len(text) /\ offset + 0 <= Len(text)
      /\ offset \in Nat
  BY Room DEF Operator
<1>2. CASE Advance(1, 1, "OP") \/ Advance(1, 1, "COMMENT")
  BY <1>1, <1>2, AdvanceInv DEF TokenModes
<1>3. CASE Settle(0, 0, "OP")
  <2>1. "OP" \in TokenTypes
    BY DEF TokenTypes
  <2>2. QED
    BY <1>1, <1>3, <2>1, SettleInv
<1>4. CASE Leave("error") /\ offset' = offset + 1 /\ UNCHANGED newtoken
  <2>1. offset' \in offset..Len(text)
    BY <1>1, <1>4, Room
  <2>2. QED
    BY <1>1, <1>4, <2>1, LeaveInv
<1>5. QED
  BY <1>2, <1>3, <1>4 DEF Operator

LEMMA InvalidInv == Inv /\ Invalid => Inv'
<1> SUFFICES ASSUME Inv, Invalid PROVE Inv'
  OBVIOUS
<1>1. offset' \in offset..Len(text) /\ mode # "IDLE"
  BY Room DEF Invalid
<1>2. QED
  BY <1>1, LeaveInv DEF Invalid

LEMMA CommentInv == Inv /\ Comment => Inv'
<1> SUFFICES ASSUME Inv, Comment PROVE Inv'
  OBVIOUS
<1>1. mode # "IDLE" /\ offset + 1 <= Len(text) /\ offset \in Nat
  BY Room DEF Comment
<1>2. CASE Advance(1, 0, "COMMENT")
  BY <1>1, <1>2, AdvanceInv DEF TokenModes
<1>3. CASE /\ offset' = offset + 1
           /\ newtoken' = [newtoken EXCEPT !.start = offset + 1,
                                           !.end = offset + 1]
           /\ mode' = "NONE"
           /\ UNCHANGED <<text, answer, tokens, reading>>
  <2>1. newtoken \in Token
    BY DEF Inv, TypeOK
  <2>2. newtoken' = [type |-> newtoken.type, start |-> offset + 1,
                     end  |-> offset + 1]
    BY <1>3, <2>1 DEF Token
  <2>3. newtoken.type \in TokenTypes /\ offset + 1 \in Nat
    BY <1>1, <2>1 DEF Token
  <2>4. newtoken' \in Token /\ newtoken'.start = offset + 1
        /\ newtoken'.end = offset + 1
    BY <2>2, <2>3 DEF Token
  <2>5. "NONE" \in LoopModes /\ offset < Len(text)
    BY <1>1, Room DEF LoopModes
  <2>6. QED
    BY <1>1, <1>3, <2>4, <2>5, RestartInv
<1>4. QED
  BY <1>2, <1>3 DEF Comment

\* The end of a call that found a token.
LEMMA ReturnInv == Inv /\ Return => Inv'
<1> SUFFICES ASSUME Inv, Return PROVE Inv'
  OBVIOUS
<1> DEFINE t == IF newtoken.type = "COUNT"
                THEN [newtoken EXCEPT !.type = TypeAtEnd] ELSE newtoken
           Entry == [token : Token, after : Nat]
<1>1. /\ mode # "IDLE" /\ mode' = "IDLE" /\ answer' = "token"
      /\ text' = text /\ offset' = offset /\ newtoken' = t
      /\ newtoken.end # newtoken.start
  BY DEF Return, LoopEnds, HasToken
<1>2. newtoken \in Token /\ offset \in Nat /\ offset <= Len(text)
      /\ newtoken.start <= newtoken.end /\ newtoken.end <= offset
      /\ tokens \in Seq(Entry) /\ reading \in [from : Nat, next : Nat]
  BY <1>1, Room DEF Inv, TypeOK
<1>3. t \in Token /\ t.start = newtoken.start /\ t.end = newtoken.end
      /\ t.start < t.end
  <2>1. CASE newtoken.type = "COUNT"
    <3>1. t = [type |-> TypeAtEnd, start |-> newtoken.start,
               end  |-> newtoken.end]
      BY <1>2, <2>1 DEF Token
    <3>2. newtoken.start \in Nat /\ newtoken.end \in Nat
      BY <1>2 DEF Token
    <3>3. QED
      BY <1>1, <1>2, <3>1, <3>2, EndTypes DEF Token
  <2>2. CASE newtoken.type # "COUNT"
    BY <1>1, <1>2, <2>2 DEF Token
  <2>3. QED
    BY <2>1, <2>2
<1> HIDE DEF t
<1>4. CASE /\ reading.from > 0
           /\ reading' = [reading EXCEPT !.next = @ + 1]
           /\ UNCHANGED tokens
  <2>1. reading' \in [from : Nat, next : Nat] /\ reading'.from # 0
    BY <1>2, <1>4
  <2>2. TypeOK'
    BY <1>1, <1>2, <1>3, <1>4, <2>1 DEF Inv, TypeOK
  <2>3. InOrder'
    BY <1>1, <1>4 DEF Inv, InOrder
  <2>4. QED
    BY <1>1, <2>1, <2>2, <2>3 DEF Inv
<1>5. CASE /\ reading.from = 0
           /\ tokens' = Append(tokens, [token |-> t, after |-> offset])
           /\ UNCHANGED reading
  <2> DEFINE new == [token |-> t, after |-> offset]
  <2>1. new \in Entry
    BY <1>2, <1>3
  <2> HIDE DEF new, Entry
  <2>2. /\ tokens' \in Seq(Entry) /\ Len(tokens') = Len(tokens) + 1
        /\ tokens'[Len(tokens) + 1] = new
        /\ \A i \in 1..Len(tokens) : tokens'[i] = tokens[i]
        /\ Len(tokens) \in Nat
    BY <1>2, <1>5, <2>1 DEF new
  <2>3. TypeOK'
    BY <1>1, <1>2, <1>3, <1>5, <2>2 DEF Inv, TypeOK, Entry
  <2>4. new.token = t /\ new.after = offset
    BY DEF new
  <2>5. Len(tokens) > 0 => tokens[Len(tokens)].after <= newtoken.start
    BY <1>1, <1>5 DEF Inv, Behind
  <2>6. InOrder'
    <3> SUFFICES ASSUME NEW i \in 1..(Len(tokens) + 1)
                 PROVE  /\ tokens'[i].token.start < tokens'[i].token.end
                        /\ tokens'[i].token.end <= tokens'[i].after
                        /\ tokens'[i].after <= Len(text)
                        /\ i > 1 => tokens'[i - 1].after <= tokens'[i].token.start
      BY <1>1, <2>2 DEF InOrder
    <3>1. CASE i = Len(tokens) + 1
      <4>1. tokens'[i] = new
        BY <2>2, <3>1
      <4>2. i > 1 => tokens'[i - 1] = tokens[Len(tokens)]
        BY <2>2, <3>1
      <4>3. QED
        BY <1>2, <1>3, <2>2, <2>4, <2>5, <3>1, <4>1, <4>2
    <3>2. CASE i # Len(tokens) + 1
      <4>1. i \in 1..Len(tokens) /\ i \in DOMAIN tokens
        BY <1>2, <2>2, <3>2
      <4>2. tokens'[i] = tokens[i]
        BY <2>2, <4>1
      <4>3. i > 1 => tokens'[i - 1] = tokens[i - 1]
        BY <2>2, <4>1
      <4>4. QED
        BY <4>1, <4>2, <4>3 DEF Inv, InOrder
    <3>3. QED
      BY <3>1, <3>2
  <2>7. Behind(offset)'
    BY <1>1, <1>2, <2>2, <2>4 DEF Behind
  <2>8. QED
    BY <1>1, <2>3, <2>6, <2>7 DEF Inv
<1>6. QED
  BY <1>4, <1>5 DEF Return, t

LEMMA ReturnNothingInv == Inv /\ ReturnNothing => Inv'
<1> SUFFICES ASSUME Inv, ReturnNothing PROVE Inv'
  OBVIOUS
<1>1. offset' \in offset..Len(text) /\ mode # "IDLE"
  BY Room DEF ReturnNothing, LoopEnds, Inv, TypeOK
<1>2. QED
  BY <1>1, LeaveInv DEF ReturnNothing

\* A second reading starts at a token, and has no tokens to add.
LEMMA ReadAgainInv ==
  ASSUME Inv, NEW i \in DOMAIN tokens, ReadAgain(i)
  PROVE  Inv'
<1> DEFINE Entry == [token : Token, after : Nat]
<1>1. i \in Nat \ {0} /\ tokens[i] \in Entry
  <2>1. tokens \in Seq(Entry)
    BY DEF Inv, TypeOK
  <2> HIDE DEF Entry
  <2>2. QED
    BY <2>1
<1>2. tokens[i].token.start \in Nat /\ tokens[i].token.end \in Nat
      /\ tokens[i].after \in Nat
  BY <1>1 DEF Token
<1>3. /\ tokens[i].token.start < tokens[i].token.end
      /\ tokens[i].token.end <= tokens[i].after
      /\ tokens[i].after <= Len(text)
  BY DEF Inv, InOrder
<1>4. offset' \in 0..Len(text) /\ UNCHANGED <<text, mode, newtoken, tokens>>
      /\ mode = "IDLE" /\ answer' = "token"
  BY <1>2, <1>3, Room DEF ReadAgain
<1>5. reading' \in [from : Nat, next : Nat] /\ reading'.from # 0
  BY <1>1 DEF ReadAgain
<1>6. TypeOK' /\ InOrder'
  BY <1>4, <1>5 DEF Inv, TypeOK, InOrder
<1>7. QED
  BY <1>4, <1>5, <1>6 DEF Inv

LEMMA NextInv == Inv /\ [Next]_vars => Inv'
<1> SUFFICES ASSUME Inv, [Next]_vars PROVE Inv'
  OBVIOUS
<1>1. CASE Step
  BY <1>1, CallInv, SkipInv, FirstInv, InvalidInv, GeneralInv, NumberInv,
     QuotedInv, OperatorInv, CommentInv, ReturnInv, ReturnNothingInv DEF Step
<1>2. ASSUME NEW i \in DOMAIN tokens, ReadAgain(i) PROVE Inv'
  BY <1>2, ReadAgainInv
<1>3. CASE UNCHANGED vars
  BY <1>3 DEF Inv, TypeOK, InOrder, Behind, vars
<1>4. QED
  BY <1>1, <1>2, <1>3 DEF Next

\* No character is in two classes.
LEMMA Apart ==
  /\ \A c \in Marks : /\ c \notin Letters /\ c \notin Digits /\ c \notin Blanks
                      /\ c \notin Signs /\ c # QT_STRING /\ c # QT_IDENT
  /\ \A c \in Letters : /\ c \notin Digits /\ c \notin Blanks /\ c \notin Signs
                        /\ c # QT_STRING /\ c # QT_IDENT
  /\ \A c \in Digits : /\ c \notin Blanks /\ c \notin Signs
                       /\ c # QT_STRING /\ c # QT_IDENT
  /\ \A c \in Signs : c \notin Blanks /\ c # QT_STRING /\ c # QT_IDENT
  /\ QT_STRING \notin Blanks /\ QT_IDENT \notin Blanks /\ QT_STRING # QT_IDENT
<1> DEFINE classes == <<Letters, Digits, Blanks, {QT_STRING}, {QT_IDENT}, Marks, Signs>>
<1>1. \A i, j \in 1..7 : i # j => classes[i] \cap classes[j] = {}
  BY ClassesAssumption
<1>2. /\ Letters \cap Digits = {} /\ Letters \cap Blanks = {}
      /\ Letters \cap {QT_STRING} = {} /\ Letters \cap {QT_IDENT} = {}
      /\ Letters \cap Marks = {} /\ Letters \cap Signs = {}
  BY <1>1
<1>3. /\ Digits \cap Blanks = {} /\ Digits \cap {QT_STRING} = {}
      /\ Digits \cap {QT_IDENT} = {} /\ Digits \cap Marks = {}
      /\ Digits \cap Signs = {}
  BY <1>1
<1>4. /\ Blanks \cap {QT_STRING} = {} /\ Blanks \cap {QT_IDENT} = {}
      /\ Blanks \cap Marks = {} /\ Blanks \cap Signs = {}
      /\ {QT_STRING} \cap {QT_IDENT} = {}
  BY <1>1
<1>5. /\ {QT_STRING} \cap Marks = {} /\ {QT_STRING} \cap Signs = {}
      /\ {QT_IDENT} \cap Marks = {} /\ {QT_IDENT} \cap Signs = {}
      /\ Marks \cap Signs = {}
  BY <1>1
<1> HIDE DEF classes
<1>6. QED
  BY <1>2, <1>3, <1>4, <1>5

\* An operator begins as a word and is one, or begins with a sign.
LEMMA OperatorFirst ==
  ASSUME NEW w \in Operators
  PROVE  /\ w \in Seq(Characters) /\ w # <<>>
         /\ w[1] \notin Marks /\ w[1] \notin Digits
         /\ w[1] # QT_STRING /\ w[1] # QT_IDENT
         /\ Word(w) <=> w[1] \in Letters
         /\ ~Word(w) => w[1] \in Signs
<1>1. w \in Seq(Characters) /\ w # <<>>
  BY KeywordsAssumption DEF Words
<1>2. CASE Word(w)
  <2>1. w[1] \in Letters
    BY <1>2 DEF Word
  <2>2. QED
    BY <1>1, <1>2, <2>1, Apart
<1>3. CASE ~Word(w)
  <2>1. w[1] \in Signs
    BY <1>3 DEF Signs
  <2>2. QED
    BY <1>1, <1>3, <2>1, Apart
<1>4. QED
  BY <1>2, <1>3

LEMMA FirstThere ==
  \A w \in Seq(Characters) : Len(w) > 0 => 1 \in DOMAIN w
OBVIOUS

LEMMA PointAlone ==
  ASSUME NEW w PROVE w = <<".">> => w[1] = "."
OBVIOUS

\* The characters that are a token by themselves.
Alone == {"(", ")", ",", ";"}

\* What KindOf says of a run of characters that begins with a given one.
LEMMA KindOfAlone ==
  ASSUME NEW w \in Seq(Characters), Len(w) > 0, w[1] \in Alone
  PROVE  KindOf(w) = IF Len(w) = 1 THEN w[1] ELSE "none"
<1>0. 1 \in DOMAIN w
  BY FirstThere
<1>1. w[1] \in Marks /\ w[1] # "?" /\ w[1] # "."
  BY DEF Marks, Alone
<1>2. /\ w[1] \notin Letters /\ w[1] \notin Digits
      /\ w[1] # QT_STRING /\ w[1] # QT_IDENT
  BY <1>1, Apart
<1>3. ~Word(w) /\ ~All(w, Digits) /\ ~Number(w) /\ w # <<".">>
  BY <1>0, <1>1, <1>2, PointAlone DEF Word, All, Number
<1>4. w \notin Operators
  BY <1>1, OperatorFirst
<1>5. ~Between(w, QT_STRING) /\ ~Between(w, QT_IDENT)
  BY <1>2 DEF Between
<1>6. QED
  BY <1>1, <1>3, <1>4, <1>5 DEF KindOf, Alone

LEMMA KindOfPlaceholder ==
  ASSUME NEW w \in Seq(Characters), Len(w) > 0, w[1] = "?"
  PROVE  KindOf(w) = IF Len(w) = 2 /\ w[2] \in {"i", "s"} THEN "?" ELSE "none"
<1>1. w[1] \in Marks /\ w[1] # "." /\ 1 \in DOMAIN w
  BY DEF Marks
<1>2. /\ w[1] \notin Letters /\ w[1] \notin Digits
      /\ w[1] # QT_STRING /\ w[1] # QT_IDENT
  BY <1>1, Apart
<1>3. ~Word(w) /\ ~All(w, Digits) /\ ~Number(w) /\ w # <<".">>
  BY <1>1, <1>2, PointAlone DEF Word, All, Number
<1>4. w \notin Operators
  BY <1>1, OperatorFirst
<1>5. ~Between(w, QT_STRING) /\ ~Between(w, QT_IDENT)
  BY <1>2 DEF Between
<1>6. w[1] \notin {"(", ")", ",", ";"}
  OBVIOUS
<1>7. QED
  BY <1>3, <1>4, <1>5, <1>6 DEF KindOf

LEMMA KindOfWord ==
  ASSUME NEW w \in Seq(Characters), Len(w) > 0, w[1] \in Letters
  PROVE  KindOf(w) = IF Word(w) THEN WordType(w) ELSE "none"
<1>1. /\ w[1] \notin Marks /\ w[1] \notin Digits
      /\ w[1] # QT_STRING /\ w[1] # QT_IDENT /\ 1 \in DOMAIN w
  BY Apart
<1>2. ~All(w, Digits) /\ ~Number(w) /\ w # <<".">>
  BY <1>1, PointAlone DEF All, Number, Marks
<1>3. ~(w \in Operators /\ ~Word(w))
  BY OperatorFirst
<1>4. ~Between(w, QT_STRING) /\ ~Between(w, QT_IDENT)
  BY <1>1 DEF Between
<1>5. w[1] \notin {"(", ")", ",", ";"} /\ w[1] # "?"
  BY <1>1 DEF Marks
<1>6. QED
  BY <1>2, <1>3, <1>4, <1>5 DEF KindOf

LEMMA KindOfDigits ==
  ASSUME NEW w \in Seq(Characters), Len(w) > 0, w[1] \in Digits
  PROVE  KindOf(w) = IF All(w, Digits) THEN "INT"
                     ELSE IF Number(w) THEN "DECIMAL" ELSE "none"
<1>1. /\ w[1] \notin Marks /\ w[1] \notin Letters
      /\ w[1] # QT_STRING /\ w[1] # QT_IDENT
  BY Apart
<1>2. ~Word(w) /\ w # <<".">>
  BY <1>1, PointAlone DEF Word, Marks
<1>3. w \notin Operators
  BY OperatorFirst
<1>4. ~Between(w, QT_STRING) /\ ~Between(w, QT_IDENT)
  BY <1>1 DEF Between
<1>5. w[1] \notin {"(", ")", ",", ";"} /\ w[1] # "?"
  BY <1>1 DEF Marks
<1>6. All(w, Digits) => ~Number(w)
  <2>1. "." \notin Digits
    BY Apart DEF Marks
  <2>2. QED
    BY <2>1 DEF All, Number
<1>7. QED
  BY <1>2, <1>3, <1>4, <1>5, <1>6 DEF KindOf

LEMMA KindOfPoint ==
  ASSUME NEW w \in Seq(Characters), Len(w) > 0, w[1] = "."
  PROVE  KindOf(w) = IF Len(w) = 1 THEN "IDENTCONJ"
                     ELSE IF Number(w) THEN "DECIMAL" ELSE "none"
<1>0. 1 \in DOMAIN w /\ w[1] \in Marks
  BY DEF Marks
<1>1. /\ w[1] \in Marks /\ w[1] \notin Letters /\ w[1] \notin Digits
      /\ w[1] # QT_STRING /\ w[1] # QT_IDENT
  BY <1>0, Apart
<1>2. ~Word(w) /\ ~All(w, Digits) /\ (Number(w) => Len(w) > 1)
  BY <1>0, <1>1 DEF Word, All, Number
<1>3. w = <<".">> <=> Len(w) = 1
  OBVIOUS
<1>4. w \notin Operators
  BY <1>1, OperatorFirst
<1>5. ~Between(w, QT_STRING) /\ ~Between(w, QT_IDENT)
  BY <1>1 DEF Between
<1>6. w[1] \notin {"(", ")", ",", ";"} /\ w[1] # "?"
  OBVIOUS
<1>7. QED
  BY <1>2, <1>3, <1>4, <1>5, <1>6 DEF KindOf

LEMMA KindOfSign ==
  ASSUME NEW w \in Seq(Characters), Len(w) > 0, w[1] \in Signs
  PROVE  KindOf(w) = IF w \in Operators THEN "OP" ELSE "none"
<1>1. /\ w[1] \notin Marks /\ w[1] \notin Letters /\ w[1] \notin Digits
      /\ w[1] # QT_STRING /\ w[1] # QT_IDENT /\ 1 \in DOMAIN w
  BY Apart
<1>2. ~Word(w) /\ ~All(w, Digits) /\ ~Number(w) /\ w # <<".">>
  BY <1>1, PointAlone DEF Word, All, Number, Marks
<1>3. ~Between(w, QT_STRING) /\ ~Between(w, QT_IDENT)
  BY <1>1 DEF Between
<1>4. w[1] \notin {"(", ")", ",", ";"} /\ w[1] # "?"
  BY <1>1 DEF Marks
<1>5. QED
  BY <1>2, <1>3, <1>4 DEF KindOf

LEMMA KindOfQuotes ==
  ASSUME NEW w \in Seq(Characters), Len(w) > 0
  PROVE  /\ w[1] = QT_STRING =>
              KindOf(w) = IF Between(w, QT_STRING) THEN "STRING" ELSE "none"
         /\ w[1] = QT_IDENT =>
              KindOf(w) = IF Between(w, QT_IDENT) THEN "IDENT" ELSE "none"
<1> SUFFICES ASSUME w[1] \in {QT_STRING, QT_IDENT}
             PROVE  /\ w[1] = QT_STRING =>
                      KindOf(w) =
                        IF Between(w, QT_STRING) THEN "STRING" ELSE "none"
                    /\ w[1] = QT_IDENT =>
                      KindOf(w) =
                        IF Between(w, QT_IDENT) THEN "IDENT" ELSE "none"
  OBVIOUS
<1>1. /\ w[1] \notin Marks /\ w[1] \notin Letters /\ w[1] \notin Digits
      /\ 1 \in DOMAIN w
  BY Apart
<1>2. ~Word(w) /\ ~All(w, Digits) /\ ~Number(w) /\ w # <<".">>
  BY <1>1, PointAlone DEF Word, All, Number, Marks
<1>3. w \notin Operators
  BY OperatorFirst
<1>4. /\ w[1] = QT_STRING => ~Between(w, QT_IDENT)
      /\ w[1] = QT_IDENT => ~Between(w, QT_STRING)
  BY Apart DEF Between
<1>5. w[1] \notin {"(", ")", ",", ";"} /\ w[1] # "?"
  BY <1>1 DEF Marks
<1>6. QED
  BY <1>2, <1>3, <1>4, <1>5 DEF KindOf

-----------------------------------------------------------------------------
\* The text from one offset to another, as Slice has it.
Part(x, s, e) == SubSeq(x, s + 1, e)

\* Positions of the text that are all, or none of them, in a set.
Run(x, a, b, C) == \A p \in a..(b - 1) : x[p + 1] \in C
NoneOf(x, a, b, C) == \A p \in a..(b - 1) : x[p + 1] \notin C

LEMMA PartFacts ==
  ASSUME NEW x \in Seq(Characters), NEW s \in Nat, NEW e \in Nat,
         s < e, e <= Len(x)
  PROVE  /\ Part(x, s, e) \in Seq(Characters)
         /\ Len(Part(x, s, e)) = e - s
         /\ DOMAIN Part(x, s, e) = 1..(e - s)
         /\ \A k \in 1..(e - s) : Part(x, s, e)[k] = x[s + k]
         /\ Part(x, s, e)[1] = x[s + 1]
<1>1. s + 1 \in 1..(Len(x) + 1) /\ e \in 0..Len(x) /\ Len(x) \in Nat
  OBVIOUS
<1>2. Part(x, s, e) = [k \in 1..(e - s) |-> x[s + k]]
  BY <1>1 DEF Part
<1>3. \A k \in 1..(e - s) : x[s + k] \in Characters
  BY <1>1
<1>4. Part(x, s, e) \in [1..(e - s) -> Characters] /\ e - s \in Nat
  BY <1>2, <1>3
<1>5. Part(x, s, e) \in Seq(Characters)
  BY <1>4
<1>6. 1 \in 1..(e - s)
  BY <1>1
<1>7. QED
  BY <1>2, <1>4, <1>5, <1>6

LEMMA AllAt ==
  ASSUME NEW x \in Seq(Characters), NEW s \in Nat, NEW e \in Nat, NEW C,
         s < e, e <= Len(x)
  PROVE  All(Part(x, s, e), C) <=> Run(x, s, e, C)
<1>1. ASSUME All(Part(x, s, e), C), NEW p \in s..(e - 1) PROVE x[p + 1] \in C
  <2>1. p + 1 - s \in 1..(e - s) /\ s + (p + 1 - s) = p + 1
    OBVIOUS
  <2>2. Part(x, s, e)[p + 1 - s] \in C
    BY <1>1, <2>1, PartFacts DEF All
  <2>3. Part(x, s, e)[p + 1 - s] = x[s + (p + 1 - s)]
    BY <2>1, PartFacts
  <2>4. QED
    BY <2>1, <2>2, <2>3
<1>2. ASSUME Run(x, s, e, C), NEW k \in 1..(e - s) PROVE Part(x, s, e)[k] \in C
  <2>1. s + k - 1 \in s..(e - 1) /\ s + k - 1 + 1 = s + k
    OBVIOUS
  <2>2. x[s + k] \in C
    BY <1>2, <2>1 DEF Run
  <2>3. QED
    BY <2>2, PartFacts
<1>3. QED
  BY <1>1, <1>2, PartFacts DEF All, Run

\* A number: a point somewhere in it, and otherwise digits.
PointAt(x, s, e, d) ==
  /\ d \in s..(e - 1) /\ x[d + 1] = "."
  /\ \A p \in s..(e - 1) : p # d => x[p + 1] \in Digits

LEMMA NumberAt ==
  ASSUME NEW x \in Seq(Characters), NEW s \in Nat, NEW e \in Nat,
         s < e, e <= Len(x)
  PROVE  Number(Part(x, s, e)) <=> e > s + 1 /\ \E d : PointAt(x, s, e, d)
<1>1. ASSUME Number(Part(x, s, e))
      PROVE  e > s + 1 /\ \E d : PointAt(x, s, e, d)
  <2>1. PICK i \in 1..(e - s) :
          /\ Part(x, s, e)[i] = "." /\ e - s > 1
          /\ \A j \in (1..(e - s)) \ {i} : Part(x, s, e)[j] \in Digits
    <3>1. DOMAIN Part(x, s, e) = 1..(e - s) /\ Len(Part(x, s, e)) = e - s
      BY PartFacts
    <3>2. QED
      BY <1>1, <3>1 DEF Number
  <2>2. s + i - 1 \in s..(e - 1) /\ s + i - 1 + 1 = s + i
    OBVIOUS
  <2>3. x[s + i] = "."
    BY <2>1, PartFacts
  <2>4. ASSUME NEW p \in s..(e - 1), p # s + i - 1 PROVE x[p + 1] \in Digits
    <3>1. p + 1 - s \in (1..(e - s)) \ {i} /\ s + (p + 1 - s) = p + 1
      BY <2>4
    <3>2. Part(x, s, e)[p + 1 - s] \in Digits
      BY <2>1, <3>1
    <3>3. Part(x, s, e)[p + 1 - s] = x[s + (p + 1 - s)]
      BY <3>1, PartFacts
    <3>4. QED
      BY <3>1, <3>2, <3>3
  <2>5. PointAt(x, s, e, s + i - 1)
    BY <2>2, <2>3, <2>4 DEF PointAt
  <2>6. QED
    BY <2>1, <2>5
<1>2. ASSUME e > s + 1, NEW d, PointAt(x, s, e, d)
      PROVE  Number(Part(x, s, e))
  <2>1. d \in s..(e - 1)
    BY <1>2 DEF PointAt
  <2>2. d + 1 - s \in 1..(e - s) /\ s + (d + 1 - s) = d + 1
    BY <2>1
  <2>3. Part(x, s, e)[d + 1 - s] = x[d + 1]
    BY <2>2, PartFacts
  <2>4. Part(x, s, e)[d + 1 - s] = "."
    BY <1>2, <2>3 DEF PointAt
  <2>5. ASSUME NEW j \in (1..(e - s)) \ {d + 1 - s}
        PROVE  Part(x, s, e)[j] \in Digits
    <3>1. s + j - 1 \in s..(e - 1) /\ s + j - 1 # d /\ s + j - 1 + 1 = s + j
      BY <2>1
    <3>2. x[s + j] \in Digits
      BY <1>2, <3>1 DEF PointAt
    <3>3. Part(x, s, e)[j] = x[s + j]
      BY PartFacts
    <3>4. QED
      BY <3>2, <3>3
  <2>6. Len(Part(x, s, e)) > 1 /\ DOMAIN Part(x, s, e) = 1..(e - s)
    BY <1>2, PartFacts
  <2>7. QED
    BY <2>2, <2>4, <2>5, <2>6 DEF Number
<1>3. QED
  BY <1>1, <1>2

LEMMA BetweenAt ==
  ASSUME NEW x \in Seq(Characters), NEW s \in Nat, NEW e \in Nat, NEW q,
         s < e, e <= Len(x)
  PROVE  Between(Part(x, s, e), q) <=>
           /\ e > s + 2 /\ x[s + 1] = q /\ x[e] = q
           /\ NoneOf(x, s + 1, e - 1, {q})
<1>1. e - s \in 1..(e - s) /\ s + (e - s) = e
  OBVIOUS
<1>2. /\ Len(Part(x, s, e)) = e - s /\ Part(x, s, e)[1] = x[s + 1]
      /\ Part(x, s, e)[e - s] = x[e]
  BY <1>1, PartFacts
<1>3. ASSUME \A i \in 2..(e - s - 1) : Part(x, s, e)[i] # q,
             NEW p \in (s + 1)..(e - 1 - 1)
      PROVE  x[p + 1] # q
  <2>1. p + 1 - s \in 2..(e - s - 1) /\ p + 1 - s \in 1..(e - s)
        /\ s + (p + 1 - s) = p + 1
    OBVIOUS
  <2>2. Part(x, s, e)[p + 1 - s] = x[s + (p + 1 - s)]
    BY <2>1, PartFacts
  <2>3. QED
    BY <1>3, <2>1, <2>2
<1>4. ASSUME NoneOf(x, s + 1, e - 1, {q}), NEW i \in 2..(e - s - 1)
      PROVE  Part(x, s, e)[i] # q
  <2>1. s + i - 1 \in (s + 1)..(e - 1 - 1) /\ s + i - 1 + 1 = s + i
        /\ i \in 1..(e - s)
    OBVIOUS
  <2>2. x[s + i] # q
    BY <1>4, <2>1 DEF NoneOf
  <2>3. QED
    BY <2>1, <2>2, PartFacts
<1>5. QED
  BY <1>2, <1>3, <1>4 DEF Between, NoneOf

-----------------------------------------------------------------------------
\* From s on, the text up to o is a token of kind k and no longer text is one.
Longest(x, s, o, k) ==
  /\ KindOf(Part(x, s, o)) = k
  /\ \A e \in (o + 1)..Len(x) : KindOf(Part(x, s, e)) = "none"

LEMMA LongestAlone ==
  ASSUME NEW x \in Seq(Characters), NEW s \in Nat, s < Len(x),
         x[s + 1] \in Alone
  PROVE  Longest(x, s, s + 1, x[s + 1])
<1>1. ASSUME NEW e \in (s + 1)..Len(x)
      PROVE  KindOf(Part(x, s, e)) = IF e - s = 1 THEN x[s + 1] ELSE "none"
  <2>0. e \in Nat /\ s < e /\ e <= Len(x)
    OBVIOUS
  <2>1. /\ Part(x, s, e) \in Seq(Characters) /\ Len(Part(x, s, e)) = e - s
        /\ Part(x, s, e)[1] = x[s + 1]
    BY <2>0, PartFacts
  <2>2. Len(Part(x, s, e)) > 0 /\ Part(x, s, e)[1] \in Alone
    BY <2>0, <2>1
  <2>3. KindOf(Part(x, s, e)) =
          IF Len(Part(x, s, e)) = 1 THEN Part(x, s, e)[1] ELSE "none"
    BY <2>1, <2>2, KindOfAlone
  <2>4. QED
    BY <2>1, <2>3
<1>2. QED
  BY <1>1 DEF Longest

LEMMA LongestPlaceholder ==
  ASSUME NEW x \in Seq(Characters), NEW s \in Nat, s + 2 <= Len(x),
         x[s + 1] = "?", x[s + 2] \in {"i", "s"}
  PROVE  Longest(x, s, s + 2, "?")
<1>1. ASSUME NEW e \in (s + 2)..Len(x)
      PROVE  KindOf(Part(x, s, e)) = IF e - s = 2 THEN "?" ELSE "none"
  <2>0. e \in Nat /\ s < e /\ e <= Len(x)
    OBVIOUS
  <2>1. /\ Part(x, s, e) \in Seq(Characters) /\ Len(Part(x, s, e)) = e - s
        /\ Part(x, s, e)[1] = x[s + 1]
    BY <2>0, PartFacts
  <2>2. Part(x, s, e)[2] = x[s + 2]
    <3>1. 2 \in 1..(e - s)
      OBVIOUS
    <3>2. QED
      BY <2>0, <3>1, PartFacts
  <2>3. KindOf(Part(x, s, e)) =
          IF Len(Part(x, s, e)) = 2 /\ Part(x, s, e)[2] \in {"i", "s"} THEN "?" ELSE "none"
    <3>1. Len(Part(x, s, e)) > 0 /\ Part(x, s, e)[1] = "?"
      BY <2>0, <2>1
    <3>2. QED
      BY <2>1, <3>1, KindOfPlaceholder
  <2>4. QED
    BY <2>0, <2>1, <2>2, <2>3
<1>2. QED
  BY <1>1 DEF Longest

\* What has been read of a token in each mode of the loop.
WordSoFar(x, s, e) ==
  s < e /\ x[s + 1] \in Letters /\ Run(x, s, e, Letters \cup Digits)
IntegerSoFar(x, s, e) == s < e /\ Run(x, s, e, Digits)
DecimalSoFar(x, s, e) ==
  /\ s < e /\ \E d : PointAt(x, s, e, d)
  /\ e = s + 1 => e < Len(x) /\ x[e + 1] \in Digits
QuotedSoFar(x, s, e, q) == s > 0 /\ x[s] = q /\ NoneOf(x, s, e, {q})
OperatorSoFar(x, s, e) ==
  /\ s < e /\ x[s + 1] \in Signs
  /\ e > s + 1 => Part(x, s, e) \in Operators

LEMMA LongestWord ==
  ASSUME NEW x \in Seq(Characters), NEW s \in Nat, NEW o \in Nat, o <= Len(x),
         WordSoFar(x, s, o),
         o < Len(x) => x[o + 1] \notin Letters \cup Digits
  PROVE  Longest(x, s, o, WordType(Part(x, s, o)))
<1>1. ASSUME NEW e \in o..Len(x)
      PROVE  KindOf(Part(x, s, e)) =
               IF Word(Part(x, s, e)) THEN WordType(Part(x, s, e)) ELSE "none"
  <2>1. s < e /\ x[s + 1] \in Letters
    BY DEF WordSoFar
  <2>2. /\ Part(x, s, e) \in Seq(Characters) /\ Len(Part(x, s, e)) > 0
        /\ Part(x, s, e)[1] \in Letters
    <3>1. e \in Nat /\ s < e /\ e <= Len(x) /\ x[s + 1] \in Letters
      BY <2>1
    <3>2. /\ Part(x, s, e) \in Seq(Characters) /\ Len(Part(x, s, e)) = e - s
          /\ Part(x, s, e)[1] = x[s + 1]
      BY <3>1, PartFacts
    <3>3. QED
      BY <3>1, <3>2
  <2>3. QED
    BY <2>2, KindOfWord
<1>2. Word(Part(x, s, o))
  BY AllAt, PartFacts DEF Word, WordSoFar
<1>3. ASSUME NEW e \in (o + 1)..Len(x) PROVE ~Word(Part(x, s, e))
  <2>1. o \in s..(e - 1) /\ s < e
    BY DEF WordSoFar
  <2>2. ~Run(x, s, e, Letters \cup Digits)
    BY <2>1 DEF Run
  <2>3. QED
    BY <2>1, <2>2, AllAt DEF Word
<1>4. QED
  BY <1>1, <1>2, <1>3 DEF Longest

LEMMA LongestInteger ==
  ASSUME NEW x \in Seq(Characters), NEW s \in Nat, NEW o \in Nat, o <= Len(x),
         IntegerSoFar(x, s, o),
         o < Len(x) => x[o + 1] \notin Digits \cup {"."}
  PROVE  Longest(x, s, o, "INT")
<1>1. x[s + 1] \in Digits /\ s < o
  BY DEF IntegerSoFar, Run
<1>2. ASSUME NEW e \in o..Len(x)
      PROVE  KindOf(Part(x, s, e)) =
               IF All(Part(x, s, e), Digits) THEN "INT"
               ELSE IF Number(Part(x, s, e)) THEN "DECIMAL" ELSE "none"
  <2>0. e \in Nat /\ s < e /\ e <= Len(x)
    BY <1>1
  <2>1. /\ Part(x, s, e) \in Seq(Characters) /\ Len(Part(x, s, e)) > 0
        /\ Part(x, s, e)[1] \in Digits
    <3>1. e \in Nat /\ s < e /\ e <= Len(x) /\ x[s + 1] \in Digits
      BY <2>0, <1>1
    <3>2. /\ Part(x, s, e) \in Seq(Characters) /\ Len(Part(x, s, e)) = e - s
          /\ Part(x, s, e)[1] = x[s + 1]
      BY <3>1, PartFacts
    <3>3. QED
      BY <3>1, <3>2
  <2>2. QED
    BY <2>1, KindOfDigits
<1>3. All(Part(x, s, o), Digits)
  BY AllAt DEF IntegerSoFar
<1>4. ASSUME NEW e \in (o + 1)..Len(x)
      PROVE  ~All(Part(x, s, e), Digits) /\ ~Number(Part(x, s, e))
  <2>1. o \in s..(e - 1) /\ s < e /\ x[o + 1] \notin Digits
        /\ x[o + 1] # "."
    BY <1>1
  <2>2. ~Run(x, s, e, Digits)
    BY <2>1 DEF Run
  <2>3. ASSUME NEW d, PointAt(x, s, e, d) PROVE FALSE
    BY <2>1, <2>3 DEF PointAt
  <2>4. QED
    BY <2>1, <2>2, <2>3, AllAt, NumberAt
<1>5. QED
  BY <1>2, <1>3, <1>4 DEF Longest

LEMMA LongestDecimal ==
  ASSUME NEW x \in Seq(Characters), NEW s \in Nat, NEW o \in Nat, o <= Len(x),
         DecimalSoFar(x, s, o),
         o < Len(x) => x[o + 1] \notin Digits
  PROVE  Longest(x, s, o, "DECIMAL")
<1>1. PICK d : PointAt(x, s, o, d)
  BY DEF DecimalSoFar
<1>2. s < o /\ o > s + 1 /\ d \in s..(o - 1) /\ x[d + 1] = "."
  BY <1>1 DEF DecimalSoFar, PointAt
<1>3. "." \notin Digits
  BY Apart DEF Marks
<1>4. ASSUME NEW e \in o..Len(x)
      PROVE  KindOf(Part(x, s, e)) =
               IF Number(Part(x, s, e)) THEN "DECIMAL" ELSE "none"
  <2>0. e \in Nat /\ s < e /\ e <= Len(x)
    BY <1>2
  <2>1. /\ Part(x, s, e) \in Seq(Characters)
        /\ Len(Part(x, s, e)) > 0 /\ Len(Part(x, s, e)) # 1
        /\ Part(x, s, e)[1] = x[s + 1]
    <3>1. /\ Part(x, s, e) \in Seq(Characters) /\ Len(Part(x, s, e)) = e - s
          /\ Part(x, s, e)[1] = x[s + 1]
      BY <2>0, PartFacts
    <3>2. e - s > 0 /\ e - s # 1
      BY <1>2
    <3>3. QED
      BY <3>1, <3>2
  <2>2. x[s + 1] = "." \/ x[s + 1] \in Digits
    BY <1>1, <1>2 DEF PointAt
  <2>3. CASE x[s + 1] = "."
    <3>1. Part(x, s, e)[1] = "."
      BY <2>1, <2>3
    <3>2. QED
      BY <2>1, <3>1, KindOfPoint
  <2>4. CASE x[s + 1] \in Digits
    <3>1. d \in s..(e - 1) /\ s < e
      BY <1>2
    <3>2. ~All(Part(x, s, e), Digits)
      BY <1>2, <1>3, <3>1, AllAt DEF Run
    <3>3. QED
      BY <2>1, <2>4, <3>2, KindOfDigits
  <2>5. QED
    BY <2>2, <2>3, <2>4
<1>5. Number(Part(x, s, o))
  BY <1>1, <1>2, NumberAt
<1>6. ASSUME NEW e \in (o + 1)..Len(x) PROVE ~Number(Part(x, s, e))
  <2>1. o \in s..(e - 1) /\ s < e /\ x[o + 1] \notin Digits /\ d \in s..(e - 1)
        /\ d # o
    BY <1>2
  <2>2. ASSUME NEW f, PointAt(x, s, e, f) PROVE FALSE
    <3>1. f = o
      BY <2>1, <2>2 DEF PointAt
    <3>2. f = d
      BY <1>2, <1>3, <2>1, <2>2 DEF PointAt
    <3>3. QED
      BY <2>1, <3>1, <3>2
  <2>3. QED
    BY <2>1, <2>2, NumberAt
<1>7. QED
  BY <1>4, <1>5, <1>6 DEF Longest

LEMMA LongestPoint ==
  ASSUME NEW x \in Seq(Characters), NEW s \in Nat, s + 1 < Len(x),
         x[s + 1] = ".", x[s + 2] \in Letters \cup {"*", QT_IDENT}
  PROVE  Longest(x, s, s + 1, "IDENTCONJ")
<1>1. x[s + 2] \notin Digits /\ x[s + 2] # "."
  <2>1. "*" \in Signs
    BY DEF Signs
  <2>2. "." \in Marks
    BY DEF Marks
  <2>3. QED
    BY <2>1, <2>2, Apart
<1>2. ASSUME NEW e \in (s + 1)..Len(x)
      PROVE  KindOf(Part(x, s, e)) =
               IF e = s + 1 THEN "IDENTCONJ"
               ELSE IF Number(Part(x, s, e)) THEN "DECIMAL" ELSE "none"
  <2>0. e \in Nat /\ s < e /\ e <= Len(x)
    OBVIOUS
  <2>1. /\ Part(x, s, e) \in Seq(Characters) /\ Len(Part(x, s, e)) = e - s
        /\ Part(x, s, e)[1] = x[s + 1]
    BY <2>0, PartFacts
  <2>2. Len(Part(x, s, e)) > 0 /\ Part(x, s, e)[1] = "."
    BY <2>0, <2>1
  <2>3. KindOf(Part(x, s, e)) =
          IF Len(Part(x, s, e)) = 1 THEN "IDENTCONJ"
          ELSE IF Number(Part(x, s, e)) THEN "DECIMAL" ELSE "none"
    BY <2>1, <2>2, KindOfPoint
  <2>4. QED
    BY <2>0, <2>1, <2>3
<1>3. ASSUME NEW e \in (s + 2)..Len(x) PROVE ~Number(Part(x, s, e))
  <2>1. s + 1 \in s..(e - 1) /\ s < e /\ s + 1 + 1 = s + 2
    OBVIOUS
  <2>2. ASSUME NEW f, PointAt(x, s, e, f) PROVE FALSE
    BY <1>1, <2>1, <2>2 DEF PointAt
  <2>3. QED
    BY <2>1, <2>2, NumberAt
<1>4. QED
  BY <1>2, <1>3 DEF Longest

LEMMA LongestQuoted ==
  ASSUME NEW x \in Seq(Characters), NEW s \in Nat, NEW e \in Nat, e < Len(x),
         s < e, NEW q, QuotedSoFar(x, s, e, q), x[e + 1] = q
  PROVE  /\ q = QT_STRING => Longest(x, s - 1, e + 1, "STRING")
         /\ q = QT_IDENT => Longest(x, s - 1, e + 1, "IDENT")
<1>1. s - 1 \in Nat /\ s - 1 + 1 = s /\ x[s] = q
  BY DEF QuotedSoFar
<1>2. ASSUME NEW f \in (e + 1)..Len(x)
      PROVE  /\ q = QT_STRING =>
                  KindOf(Part(x, s - 1, f)) =
                    IF Between(Part(x, s - 1, f), QT_STRING) THEN "STRING" ELSE "none"
             /\ q = QT_IDENT =>
                  KindOf(Part(x, s - 1, f)) =
                    IF Between(Part(x, s - 1, f), QT_IDENT) THEN "IDENT" ELSE "none"
  <2>1. s - 1 < f
    OBVIOUS
  <2>2. /\ Part(x, s - 1, f) \in Seq(Characters) /\ Len(Part(x, s - 1, f)) > 0
        /\ Part(x, s - 1, f)[1] = x[s]
    <3>1. f \in Nat /\ f <= Len(x)
      OBVIOUS
    <3>2. /\ Part(x, s - 1, f) \in Seq(Characters)
          /\ Len(Part(x, s - 1, f)) = f - (s - 1)
          /\ Part(x, s - 1, f)[1] = x[s - 1 + 1]
      BY <1>1, <2>1, <3>1, PartFacts
    <3>3. QED
      BY <1>1, <2>1, <3>2
  <2>3. QED
    BY <1>1, <2>2, KindOfQuotes
<1>3. Between(Part(x, s - 1, e + 1), q)
  <2>1. e + 1 > s - 1 + 2 /\ s - 1 < e + 1 /\ e + 1 - 1 = e
    OBVIOUS
  <2>2. NoneOf(x, s - 1 + 1, e + 1 - 1, {q})
    BY <1>1, <2>1 DEF QuotedSoFar
  <2>3. QED
    BY <1>1, <2>1, <2>2, BetweenAt
<1>4. ASSUME NEW f \in (e + 2)..Len(x) PROVE ~Between(Part(x, s - 1, f), q)
  <2>1. e \in (s - 1 + 1)..(f - 1 - 1) /\ s - 1 < f
    OBVIOUS
  <2>2. ~NoneOf(x, s - 1 + 1, f - 1, {q})
    BY <2>1 DEF NoneOf
  <2>3. QED
    BY <1>1, <2>1, <2>2, BetweenAt
<1>5. QED
  BY <1>2, <1>3, <1>4 DEF Longest

LEMMA LongestOperator ==
  ASSUME NEW x \in Seq(Characters), NEW s \in Nat, NEW o \in Nat, o < Len(x),
         s < o, x[s + 1] \in Signs,
         Part(x, s, o) \in Operators, Part(x, s, o + 1) \notin Operators
  PROVE  Longest(x, s, o, "OP")
<1>1. ASSUME NEW e \in o..Len(x)
      PROVE  KindOf(Part(x, s, e)) = IF Part(x, s, e) \in Operators THEN "OP" ELSE "none"
  <2>0. e \in Nat /\ s < e /\ e <= Len(x)
    OBVIOUS
  <2>1. /\ Part(x, s, e) \in Seq(Characters) /\ Len(Part(x, s, e)) > 0
        /\ Part(x, s, e)[1] \in Signs
    BY <2>0, PartFacts
  <2>2. QED
    BY <2>1, KindOfSign
<1>2. ASSUME NEW e \in (o + 1)..Len(x), Part(x, s, e) \in Operators
      PROVE  FALSE
  <2>0. e \in Nat /\ s < e /\ e <= Len(x)
    OBVIOUS
  <2>1. /\ Part(x, s, e) \in Seq(Characters) /\ Len(Part(x, s, e)) = e - s
        /\ Part(x, s, e)[1] = x[s + 1] /\ s < e
    BY <2>0, PartFacts
  <2>2. x[s + 1] \notin Letters
    BY Apart
  <2>3. ~Word(Part(x, s, e))
    BY <2>1, <2>2 DEF Word
  <2>4. o + 1 - s \in 2..(e - s)
    OBVIOUS
  <2>5. SubSeq(Part(x, s, e), 1, o + 1 - s) \in Operators
    BY <1>2, <2>1, <2>3, <2>4, OperatorsAssumption
  <2>6. SubSeq(Part(x, s, e), 1, o + 1 - s) = Part(x, s, o + 1)
    <3> DEFINE y == Part(x, s, e)
               n == o + 1 - s
    <3>1. /\ n \in Nat /\ n \in 2..Len(y) /\ y \in Seq(Characters)
          /\ \A k \in 1..n : y[k] = x[s + k]
      <4>1. \A k \in 1..(e - s) : y[k] = x[s + k]
        BY <2>1, PartFacts
      <4>2. n \in Nat /\ n \in 2..(e - s)
        BY <2>4
      <4>3. \A k \in 1..n : k \in 1..(e - s)
        BY <4>2
      <4> HIDE DEF y, n
      <4>4. Len(y) = e - s /\ y \in Seq(Characters)
        BY <2>1 DEF y
      <4>5. QED
        BY <4>1, <4>2, <4>3, <4>4
    <3>2. Part(x, s, o + 1) = [k \in 1..n |-> x[s + k]]
      BY DEF Part
    <3> HIDE DEF y, n
    <3>3. SubSeq(y, 1, n) = [k \in 1..n |-> x[s + k]]
      <4>1. SubSeq(y, 1, n) = [k \in 1..n |-> y[k]]
        BY <3>1
      <4>2. QED
        BY <3>1, <4>1
    <3>4. SubSeq(y, 1, n) = Part(x, s, o + 1)
      BY <3>2, <3>3
    <3>5. QED
      BY <3>4 DEF y, n
  <2>7. QED
    BY <2>5, <2>6
<1>3. QED
  BY <1>1, <1>2 DEF Longest

-----------------------------------------------------------------------------
\* A comment, from the offset it begins at to the one reached in it.
CommentSoFar(x, s, e, o) ==
  /\ e = s + 2 /\ e <= o
  /\ x[s + 1] = "-" /\ x[s + 2] = "-"
  /\ NoneOf(x, s, o, LineEnds)

\* What is known of the token so far in each mode of the loop.
SoFar(x, m, s, e, o) ==
  /\ m \in {"GENERAL", "INTEGER", "DECIMAL", "STRING", "IDENT", "OP"} => e = o
  /\ m = "GENERAL" => WordSoFar(x, s, e)
  /\ m = "INTEGER" => IntegerSoFar(x, s, e)
  /\ m = "DECIMAL" => DecimalSoFar(x, s, e)
  /\ m = "STRING" => QuotedSoFar(x, s, e, QT_STRING)
  /\ m = "IDENT" => QuotedSoFar(x, s, e, QT_IDENT)
  /\ m = "OP" => OperatorSoFar(x, s, e)
  /\ m = "COMMENT" => CommentSoFar(x, s, e, o)

\* The type of a token is settled only with the token.
InMode ==
  /\ mode # "IDLE" => answer = "token"
  /\ mode \notin {"IDLE", "DONE"} => newtoken.type = "COUNT"
  /\ SoFar(text, mode, newtoken.start, newtoken.end, offset)

\* Where a token begins, its opening quote included.
Opening(m, type, s, e, o) ==
  IF m \in {"STRING", "IDENT"} \/ (m = "DONE" /\ e < o /\ type # "?")
  THEN s - 1 ELSE s
Begin == Opening(mode, newtoken.type, newtoken.start, newtoken.end, offset)

Closed(x, s, e, o, q) == o = e + 1 /\ QuotedSoFar(x, s, e, q) /\ x[o] = q

\* A token that is done, of the type given, between these offsets.
Done(x, type, s, e, o) ==
  /\ type # "COUNT"
  /\ \/ s < e /\ e = o
     \/ s < e /\ type = "?"
     \/ type = "STRING" /\ Closed(x, s, e, o, QT_STRING)
     \/ type = "IDENT" /\ Closed(x, s, e, o, QT_IDENT)
  /\ s < e => Longest(x, Opening("DONE", type, s, e, o), o, type)

WhenDone ==
  mode = "DONE" =>
    Done(text, newtoken.type, newtoken.start, newtoken.end, offset)

\* In the first reading all before the token so far has been accounted for.
NothingSkipped ==
  reading.from = 0 /\ mode # "IDLE" => \A p \in 0..(Begin - 1) : Accounted(p)

IInv == Inv /\ InMode /\ WhenDone /\ NothingSkipped /\ LongestMatch /\ NothingLost

-----------------------------------------------------------------------------
\* What only depends on the text and the tokens stays with them.
LEMMA KeptMatch ==
  ASSUME LongestMatch, UNCHANGED <<text, tokens>>
  PROVE  LongestMatch'
BY DEF LongestMatch, NoneLonger, HasKind, CutShort, From, IsQuoted, Slice

LEMMA KeptAccount ==
  ASSUME UNCHANGED <<text, tokens>>
  PROVE  \A p : Accounted(p) => Accounted(p)'
BY DEF Accounted, From, To, IsQuoted, InComment, EmptyQuotes

LEMMA AdvanceFacts ==
  ASSUME newtoken \in Token, NEW n, NEW e, NEW m, Advance(n, e, m)
  PROVE  /\ newtoken'.start = newtoken.start /\ newtoken'.end = newtoken.end + e
         /\ newtoken'.type = newtoken.type
         /\ offset' = offset + n /\ mode' = m
         /\ UNCHANGED <<text, answer, tokens, reading>>
BY DEF Advance, Token

LEMMA SettleFacts ==
  ASSUME newtoken \in Token, NEW n, NEW e, NEW type, Settle(n, e, type)
  PROVE  /\ newtoken'.start = newtoken.start /\ newtoken'.end = newtoken.end + e
         /\ newtoken'.type = type
         /\ offset' = offset + n /\ mode' = "DONE"
         /\ UNCHANGED <<text, answer, tokens, reading>>
BY DEF Settle, Token

\* Types of what the steps look at.
LEMMA Kinds ==
  ASSUME Inv
  PROVE  /\ text \in Seq(Characters) /\ Len(text) \in Nat
         /\ offset \in Nat /\ offset <= Len(text)
         /\ newtoken \in Token
         /\ newtoken.start \in Nat /\ newtoken.end \in Nat
         /\ mode # "IDLE" => newtoken.start <= newtoken.end /\ newtoken.end <= offset
         /\ mode \in {"SKIP", "NONE"} => newtoken.start = offset /\ newtoken.end = offset
  BY DEF Inv, TypeOK, Token

\* A step in the loop that leaves the beginning of the token where it was.
LEMMA LoopKeeps ==
  ASSUME IInv, mode # "IDLE", mode' # "IDLE",
         UNCHANGED <<text, answer, tokens, reading>>,
         Begin' = Begin
  PROVE  NothingSkipped' /\ LongestMatch' /\ NothingLost' /\ answer' = "token"
<1>1. LongestMatch'
  BY KeptMatch DEF IInv
<1>2. answer' = "token"
  BY DEF IInv, InMode
<1>3. NothingLost'
  BY DEF NothingLost
<1>4. NothingSkipped'
  <2> SUFFICES ASSUME reading.from = 0, NEW p \in 0..(Begin - 1)
               PROVE  Accounted(p)'
    BY DEF NothingSkipped
  <2>1. Accounted(p)
    BY DEF IInv, NothingSkipped
  <2>2. QED
    BY <2>1, KeptAccount
<1>5. QED
  BY <1>1, <1>2, <1>3, <1>4

\* A step of the loop that makes the token so far longer.
LEMMA AdvanceKeeps ==
  ASSUME IInv, NEW n \in Nat, NEW e \in Nat, NEW m \in TokenModes \cup {"NONE"},
         m # "DONE", mode \notin {"IDLE", "DONE"}, Advance(n, e, m),
         m \in {"STRING", "IDENT"} <=> mode \in {"STRING", "IDENT"},
         SoFar(text, m, newtoken.start, newtoken.end + e, offset + n),
         Inv'
  PROVE  IInv'
<1>1. /\ newtoken'.start = newtoken.start /\ newtoken'.end = newtoken.end + e
      /\ newtoken'.type = newtoken.type
      /\ offset' = offset + n /\ mode' = m
      /\ UNCHANGED <<text, answer, tokens, reading>>
  BY Kinds, AdvanceFacts DEF IInv
<1>2. mode' # "IDLE" /\ mode' # "DONE"
  BY <1>1 DEF TokenModes
<1>3. Begin' = Begin
  BY <1>1, <1>2 DEF Begin, Opening
<1>4. NothingSkipped' /\ LongestMatch' /\ NothingLost' /\ answer' = "token"
  BY <1>1, <1>2, <1>3, LoopKeeps
<1>5. InMode'
  BY <1>1, <1>2, <1>4 DEF InMode, IInv
<1>6. WhenDone'
  BY <1>2 DEF WhenDone
<1>7. QED
  BY <1>4, <1>5, <1>6 DEF IInv

\* A step of the loop that settles the token.
LEMMA SettleKeeps ==
  ASSUME IInv, NEW n \in Nat, NEW e \in Nat, NEW type,
         mode \notin {"IDLE", "DONE"}, Settle(n, e, type),
         Done(text, type, newtoken.start, newtoken.end + e, offset + n),
         Begin = Opening("DONE", type, newtoken.start, newtoken.end + e, offset + n),
         Inv'
  PROVE  IInv'
<1>1. /\ newtoken'.start = newtoken.start /\ newtoken'.end = newtoken.end + e
      /\ newtoken'.type = type
      /\ offset' = offset + n /\ mode' = "DONE"
      /\ UNCHANGED <<text, answer, tokens, reading>>
  BY Kinds, SettleFacts DEF IInv
<1>2. mode' # "IDLE"
  BY <1>1
<1>3. Begin' = Begin
  BY <1>1 DEF Begin
<1>4. NothingSkipped' /\ LongestMatch' /\ NothingLost' /\ answer' = "token"
  BY <1>1, <1>2, <1>3, LoopKeeps
<1>5. InMode'
  BY <1>1, <1>4 DEF InMode, SoFar
<1>6. WhenDone'
  BY <1>1 DEF WhenDone
<1>7. QED
  BY <1>4, <1>5, <1>6 DEF IInv

\* The first call.
LEMMA InitKeeps == Init => IInv
<1> SUFFICES ASSUME Init PROVE IInv
  OBVIOUS
<1>1. Inv
  BY InitInv
<1>2. mode = "IDLE" /\ offset = 0 /\ answer = "token" /\ DOMAIN tokens = {}
  BY DEF Init
<1>3. InMode /\ WhenDone /\ NothingSkipped
  BY <1>2 DEF InMode, SoFar, WhenDone, NothingSkipped
<1>4. LongestMatch
  BY <1>2 DEF LongestMatch
<1>5. NothingLost
  BY <1>2 DEF NothingLost
<1>6. QED
  BY <1>1, <1>3, <1>4, <1>5 DEF IInv

LEMMA CallKeeps == IInv /\ Call => IInv'
<1> SUFFICES ASSUME IInv, Call PROVE IInv'
  OBVIOUS
<1>1. Inv'
  BY CallInv DEF IInv
<1>2. /\ mode = "IDLE" /\ answer = "token" /\ mode' = "SKIP"
      /\ newtoken'.type = "COUNT" /\ newtoken'.start = offset
      /\ UNCHANGED <<text, offset, answer, tokens, reading>>
  BY DEF Call
<1>3. InMode' /\ WhenDone'
  BY <1>2 DEF InMode, SoFar, WhenDone
<1>4. NothingSkipped'
  <2> SUFFICES ASSUME reading.from = 0, NEW p \in 0..(offset - 1)
               PROVE  Accounted(p)'
    BY <1>2 DEF NothingSkipped, Begin, Opening
  <2>1. Accounted(p)
    BY <1>2 DEF IInv, NothingLost
  <2>2. QED
    BY <1>2, <2>1, KeptAccount
<1>5. LongestMatch' /\ NothingLost'
  BY <1>2, KeptMatch DEF NothingLost, IInv
<1>6. QED
  BY <1>1, <1>3, <1>4, <1>5 DEF IInv

\* Leaving with an error, of which nothing is said.
LEMMA ErrorKeeps ==
  ASSUME IInv, Inv', Leave("error") PROVE IInv'
<1>1. /\ mode' = "IDLE" /\ answer' = "error"
      /\ UNCHANGED <<text, tokens, reading>>
  BY DEF Leave
<1>2. LongestMatch'
  BY <1>1, KeptMatch DEF IInv
<1>3. QED
  BY <1>1, <1>2 DEF IInv, InMode, SoFar, WhenDone, NothingSkipped, NothingLost

\* Leaving without a token: there is nothing before the offset that is not
\* accounted for.
LEMMA EndKeeps ==
  ASSUME IInv, Inv', mode # "IDLE", Leave("end"), UNCHANGED offset,
         offset = Len(text) \/ EmptyQuotes(offset - 1),
         \A p \in Begin..(offset - 1) : EmptyQuotes(p)
  PROVE  IInv'
<1>1. /\ mode' = "IDLE" /\ answer' = "end"
      /\ UNCHANGED <<text, tokens, reading>>
  BY DEF Leave
<1>2. LongestMatch'
  BY <1>1, KeptMatch DEF IInv
<1>3. NothingLost'
  <2> SUFFICES ASSUME reading.from = 0
               PROVE  /\ \A p \in 0..(offset - 1) : Accounted(p)'
                      /\ (offset = Len(text) \/ EmptyQuotes(offset - 1))'
    BY <1>1 DEF NothingLost
  <2>1. ASSUME NEW p \in 0..(offset - 1) PROVE Accounted(p)'
    <3>1. Begin \in Int
      BY Kinds DEF IInv, Begin, Opening
    <3>2. ASSUME p \in 0..(Begin - 1) PROVE Accounted(p)
      BY <3>2 DEF IInv, NothingSkipped
    <3>3. ASSUME p \in Begin..(offset - 1) PROVE Accounted(p)
      <4>1. EmptyQuotes(p)
        BY <3>3
      <4>2. QED
        BY <4>1 DEF Accounted
    <3>4. Accounted(p)
      BY <3>1, <3>2, <3>3
    <3>5. QED
      BY <1>1, <3>4, KeptAccount
  <2>2. (offset = Len(text) \/ EmptyQuotes(offset - 1))'
    BY <1>1 DEF EmptyQuotes
  <2>3. QED
    BY <2>1, <2>2
<1>4. QED
  BY <1>1, <1>2, <1>3 DEF IInv, InMode, SoFar, WhenDone, NothingSkipped

LEMMA SkipKeeps == IInv /\ Skip => IInv'
<1> SUFFICES ASSUME IInv, Skip PROVE IInv'
  OBVIOUS
<1>1. Inv' /\ mode = "SKIP"
  BY SkipInv DEF IInv, Skip
<1>2. newtoken.start = offset /\ newtoken.end = offset /\ offset \in Nat
      /\ newtoken \in Token /\ newtoken.type = "COUNT"
  BY <1>1, Kinds DEF IInv, InMode
<1>3. Begin = offset
  BY <1>1, <1>2 DEF Begin, Opening
<1>4. CASE Lexible /\ Char \in Blanks
  <2>1. /\ offset' = offset + 1
        /\ newtoken' = [newtoken EXCEPT !.start = @ + 1, !.end = @ + 1]
        /\ UNCHANGED <<text, mode, answer, tokens, reading>>
    BY <1>4 DEF Skip
  <2>2. newtoken'.start = offset + 1 /\ newtoken'.type = "COUNT"
    BY <1>2, <2>1 DEF Token
  <2>3. InMode' /\ WhenDone'
    BY <1>1, <2>1, <2>2 DEF InMode, SoFar, WhenDone, IInv
  <2>4. NothingSkipped'
    <3> SUFFICES ASSUME reading.from = 0, NEW p \in 0..offset
                 PROVE  Accounted(p)'
      <4>1. Begin' = offset + 1
        BY <1>1, <2>1, <2>2 DEF Begin, Opening
      <4>2. QED
        BY <1>2, <2>1, <4>1 DEF NothingSkipped
    <3>1. ASSUME p = offset PROVE Accounted(p)
      BY <1>4, <3>1 DEF Accounted, Char
    <3>2. ASSUME p # offset PROVE Accounted(p)
      <4>1. p \in 0..(Begin - 1)
        BY <1>2, <1>3, <3>2
      <4>2. QED
        BY <1>1, <3>2, <4>1 DEF IInv, NothingSkipped
    <3>3. QED
      BY <2>1, <3>1, <3>2, KeptAccount
  <2>5. LongestMatch' /\ NothingLost'
    BY <1>1, <2>1, KeptMatch DEF NothingLost, IInv
  <2>6. QED
    BY <1>1, <2>3, <2>4, <2>5 DEF IInv
<1>5. CASE Advance(0, 0, "NONE")
  <2>1. SoFar(text, "NONE", newtoken.start, newtoken.end + 0, offset + 0)
    BY DEF SoFar
  <2>2. QED
    BY <1>1, <1>5, <2>1, AdvanceKeeps
<1>6. CASE ~Lexible /\ Leave("end") /\ UNCHANGED <<offset, newtoken>>
  <2>1. offset = Len(text)
    BY <1>2, <1>6, Kinds DEF Lexible, IInv
  <2>2. \A p \in Begin..(offset - 1) : EmptyQuotes(p)
    BY <1>2, <1>3
  <2>3. QED
    BY <1>1, <1>6, <2>1, <2>2, EndKeeps
<1>7. QED
  BY <1>4, <1>5, <1>6 DEF Skip

\* One position more.
LEMMA PointFurther ==
  ASSUME NEW x, NEW s \in Nat, NEW e \in Nat, NEW d, PointAt(x, s, e, d),
         x[e + 1] \in Digits, NEW f, f = e + 1
  PROVE  PointAt(x, s, f, d)
<1>1. /\ d \in s..(e - 1) /\ x[d + 1] = "."
      /\ \A p \in s..(e - 1) : p # d => x[p + 1] \in Digits
  BY DEF PointAt
<1>2. \A p \in s..(f - 1) : p = e \/ p \in s..(e - 1)
  OBVIOUS
<1>3. d \in s..(f - 1)
  BY <1>1
<1>4. \A p \in s..(f - 1) : p # d => x[p + 1] \in Digits
  BY <1>1, <1>2
<1>5. QED
  BY <1>1, <1>3, <1>4 DEF PointAt

LEMMA NoneFurther ==
  ASSUME NEW x, NEW s \in Nat, NEW e \in Nat, NEW C, NoneOf(x, s, e, C),
         x[e + 1] \notin C, NEW f, f = e + 1
  PROVE  NoneOf(x, s, f, C)
<1>1. \A p \in s..(f - 1) : p = e \/ p \in s..(e - 1)
  OBVIOUS
<1>2. \A p \in s..(f - 1) : x[p + 1] \notin C
  BY <1>1 DEF NoneOf
<1>3. QED
  BY <1>2 DEF NoneOf

\* Two characters that are minus signs.
LEMMA TwoSigns ==
  ASSUME NEW x \in Seq(Characters), NEW s \in Nat, NEW f \in Nat, s < f,
         f <= Len(x), Part(x, s, f) = <<"-", "-">>
  PROVE  f = s + 2 /\ x[s + 1] = "-" /\ x[s + 2] = "-"
<1>1. /\ Len(Part(x, s, f)) = f - s
      /\ \A k \in 1..(f - s) : Part(x, s, f)[k] = x[s + k]
  BY PartFacts
<1>2. Len(Part(x, s, f)) = 2 /\ Part(x, s, f)[1] = "-" /\ Part(x, s, f)[2] = "-"
  OBVIOUS
<1>3. f - s = 2
  BY <1>1, <1>2
<1>4. 1 \in 1..(f - s) /\ 2 \in 1..(f - s)
  BY <1>3
<1>5. QED
  BY <1>1, <1>2, <1>3, <1>4

\* What lies at the offset when there is more to read.
LEMMA AtOffset ==
  ASSUME IInv, Lexible
  PROVE  /\ text \in Seq(Characters) /\ offset \in Nat /\ offset < Len(text)
         /\ Len(text) \in Nat
         /\ Char = text[offset + 1]
         /\ Following # {} =>
              offset + 2 <= Len(text) /\ Following = {text[offset + 2]}
  BY Kinds DEF IInv, Lexible, Char, Following

LEMMA FirstKeeps == IInv /\ First => IInv'
<1> SUFFICES ASSUME IInv, First PROVE IInv'
  OBVIOUS
<1> DEFINE s == newtoken.start
<1>1. Inv' /\ mode = "NONE" /\ Lexible
  BY FirstInv DEF IInv, First
<1>2. /\ s = offset /\ newtoken.end = offset /\ s \in Nat
      /\ newtoken \in Token /\ newtoken.type = "COUNT"
  BY <1>1, Kinds DEF IInv, InMode
<1>3. Begin = s
  BY <1>1 DEF Begin, Opening
<1>4. /\ text \in Seq(Characters) /\ s < Len(text) /\ Char = text[s + 1]
      /\ Len(text) \in Nat
      /\ Following # {} => s + 2 <= Len(text) /\ Following = {text[s + 2]}
  BY <1>1, <1>2, AtOffset
<1>5. ASSUME NEW m \in {"INTEGER", "GENERAL", "DECIMAL", "OP"}, Advance(1, 1, m),
             SoFar(text, m, s, s + 1, s + 1)
      PROVE  IInv'
  <2>1. m \in TokenModes \cup {"NONE"} /\ m # "DONE"
    BY DEF TokenModes
  <2>2. SoFar(text, m, newtoken.start, newtoken.end + 1, offset + 1)
    BY <1>2, <1>5
  <2>3. QED
    BY <1>1, <1>5, <2>1, <2>2, AdvanceKeeps
<1>6. ASSUME NEW n \in {1, 2}, NEW type, Settle(n, 1, type),
             type # "COUNT", n = 1 \/ type = "?",
             Longest(text, s, s + n, type)
      PROVE  IInv'
  <2>1. /\ s < s + 1 /\ newtoken.end + 1 = s + 1 /\ offset + n = s + n
        /\ n = 1 => s + n = s + 1
    BY <1>2
  <2>2. Opening("DONE", type, s, s + 1, s + n) = s
    <3>1. CASE type = "?"
      BY <3>1 DEF Opening
    <3>2. CASE n = 1
      <4>1. s + n = s + 1 /\ ~(s + 1 < s + n)
        BY <1>2, <3>2
      <4>2. QED
        BY <4>1 DEF Opening
    <3>3. QED
      BY <1>6, <3>1, <3>2
  <2>3. Done(text, type, s, s + 1, s + n)
    BY <1>6, <2>1, <2>2 DEF Done
  <2>4. n \in Nat /\ mode \notin {"IDLE", "DONE"}
    BY <1>1
  <2>5. QED
    BY <1>1, <1>3, <1>6, <2>1, <2>2, <2>3, <2>4, SettleKeeps
<1>7. CASE Char \in {"(", ")", ",", ";"} /\ Settle(1, 1, Char)
  <2>1. text[s + 1] \in Alone
    BY <1>4, <1>7 DEF Alone
  <2>2. Longest(text, s, s + 1, text[s + 1])
    BY <1>2, <1>4, <2>1, LongestAlone
  <2>3. Char # "COUNT"
    BY <1>7
  <2>4. QED
    BY <1>4, <1>6, <1>7, <2>2, <2>3
<1>8. CASE Char = "?" /\ Following \cap {"i", "s"} # {} /\ Settle(2, 1, "?")
  <2>1. s + 2 <= Len(text) /\ text[s + 2] \in {"i", "s"}
    BY <1>4, <1>8
  <2>2. Longest(text, s, s + 2, "?")
    BY <1>2, <1>4, <1>8, <2>1, LongestPlaceholder
  <2>3. QED
    BY <1>6, <1>8, <2>2
<1>9. CASE Char \in Digits /\ Advance(1, 1, "INTEGER")
  <2>1. IntegerSoFar(text, s, s + 1)
    BY <1>2, <1>4, <1>9 DEF IntegerSoFar, Run
  <2>2. QED
    BY <1>5, <1>9, <2>1 DEF SoFar
<1>10. CASE Char \in Letters /\ Advance(1, 1, "GENERAL")
  <2>1. WordSoFar(text, s, s + 1)
    BY <1>2, <1>4, <1>10 DEF WordSoFar, Run
  <2>2. QED
    BY <1>5, <1>10, <2>1 DEF SoFar
<1>11. CASE Char = "." /\ Following \cap Digits # {} /\ Advance(1, 1, "DECIMAL")
  <2>1. s + 2 <= Len(text) /\ text[s + 2] \in Digits
    BY <1>4, <1>11
  <2>2. PointAt(text, s, s + 1, s)
    BY <1>2, <1>4, <1>11 DEF PointAt
  <2>3. DecimalSoFar(text, s, s + 1)
    <3>1. s + 1 + 1 = s + 2 /\ s + 1 < Len(text) /\ s < s + 1
      BY <1>2, <1>4, <2>1
    <3>2. QED
      BY <2>1, <2>2, <3>1 DEF DecimalSoFar
  <2>4. QED
    BY <1>5, <1>11, <2>3 DEF SoFar
<1>12. CASE /\ Char = "." /\ Following \cap (Letters \cup {"*", QT_IDENT}) # {}
            /\ Settle(1, 1, "IDENTCONJ")
  <2>1. s + 2 <= Len(text) /\ text[s + 2] \in Letters \cup {"*", QT_IDENT}
    BY <1>4, <1>12
  <2>2. s + 1 < Len(text)
    BY <1>2, <1>4, <2>1
  <2>3. Longest(text, s, s + 1, "IDENTCONJ")
    BY <1>2, <1>4, <1>12, <2>1, <2>2, LongestPoint
  <2>4. QED
    BY <1>6, <1>12, <2>3
<1>13. ASSUME NEW m, NEW q,
              (m = "STRING" /\ q = QT_STRING) \/ (m = "IDENT" /\ q = QT_IDENT),
              Char = q, OpenQuote(m)
       PROVE  IInv'
  <2>1. /\ offset' = offset + 1 /\ mode' = m
        /\ newtoken' = [newtoken EXCEPT !.start = offset + 1, !.end = @ + 1]
        /\ UNCHANGED <<text, answer, tokens, reading>>
    BY <1>13 DEF OpenQuote
  <2>2. newtoken'.start = s + 1 /\ newtoken'.end = s + 1
        /\ newtoken'.type = "COUNT" /\ offset' = s + 1
    BY <1>2, <2>1 DEF Token
  <2>3. QuotedSoFar(text, s + 1, s + 1, q)
    BY <1>2, <1>4, <1>13 DEF QuotedSoFar, NoneOf
  <2>4. SoFar(text, m, s + 1, s + 1, s + 1)
    BY <1>13, <2>3 DEF SoFar
  <2>5. Begin' = Begin
    BY <1>2, <1>3, <1>13, <2>1, <2>2 DEF Begin, Opening
  <2>6. mode' # "IDLE" /\ mode' # "DONE"
    BY <1>13, <2>1
  <2>7. NothingSkipped' /\ LongestMatch' /\ NothingLost' /\ answer' = "token"
    BY <1>1, <2>1, <2>5, <2>6, LoopKeeps
  <2>8. InMode' /\ WhenDone'
    BY <2>1, <2>2, <2>4, <2>6, <2>7 DEF InMode, WhenDone
  <2>9. QED
    BY <1>1, <2>7, <2>8 DEF IInv
<1>14. CASE Char \notin Letters /\ StartsOperator(Char) /\ Advance(1, 1, "OP")
  <2>1. PICK w \in Operators : w[1] = Char
    BY <1>14 DEF StartsOperator
  <2>2. text[s + 1] \in Signs
    BY <1>4, <1>14, <2>1, OperatorFirst
  <2>3. OperatorSoFar(text, s, s + 1)
    BY <1>2, <2>2 DEF OperatorSoFar
  <2>4. QED
    BY <1>5, <1>14, <2>3 DEF SoFar
<1>15. QED
  BY <1>7, <1>8, <1>9, <1>10, <1>11, <1>12, <1>13, <1>14 DEF First

LEMMA InvalidKeeps == IInv /\ Invalid => IInv'
  BY InvalidInv, ErrorKeeps DEF IInv, Invalid

LEMMA GeneralKeeps == IInv /\ General => IInv'
<1> SUFFICES ASSUME IInv, General PROVE IInv'
  OBVIOUS
<1> DEFINE s == newtoken.start
           e == newtoken.end
<1>1. Inv' /\ mode = "GENERAL" /\ Lexible
  BY GeneralInv DEF IInv, General
<1>2. e = offset /\ WordSoFar(text, s, e) /\ s \in Nat /\ e \in Nat
  BY <1>1, Kinds DEF IInv, InMode, SoFar
<1>3. text \in Seq(Characters) /\ Char = text[e + 1] /\ e <= Len(text)
  BY <1>1, <1>2, AtOffset
<1>4. CASE Char \in Letters \cup Digits /\ Advance(1, 1, "GENERAL")
  <2>1. WordSoFar(text, s, e + 1)
    BY <1>2, <1>3, <1>4 DEF WordSoFar, Run
  <2>2. SoFar(text, "GENERAL", s, e + 1, offset + 1)
    BY <1>2, <2>1 DEF SoFar
  <2>3. QED
    BY <1>1, <1>4, <2>2, AdvanceKeeps DEF TokenModes
<1>5. CASE Char \notin Letters \cup Digits /\ Settle(0, 0, WordType(Slice(s, e)))
  <2> DEFINE type == WordType(Slice(s, e))
  <2>1. Longest(text, s, e, type)
    <3>1. Longest(text, s, e, WordType(Part(text, s, e)))
      BY <1>2, <1>3, <1>5, LongestWord
    <3>2. QED
      BY <3>1 DEF Part, Slice
  <2>2. type # "COUNT"
    BY WordTypes
  <2>3. Opening("DONE", type, s, e, e) = s
    BY <1>2 DEF Opening
  <2>4. Begin = s
    BY <1>1 DEF Begin, Opening
  <2>5. s < e
    BY <1>2 DEF WordSoFar
  <2> HIDE DEF type
  <2>6. Done(text, type, s, e, e)
    BY <2>1, <2>2, <2>3, <2>5 DEF Done
  <2>7. e + 0 = e /\ offset + 0 = e
    BY <1>2
  <2>8. Settle(0, 0, type)
    BY <1>5 DEF type
  <2>9. QED
    BY <1>1, <2>3, <2>4, <2>6, <2>7, <2>8, SettleKeeps
<1>6. QED
  BY <1>4, <1>5 DEF General

\* A number that is not followed by what would make it longer.
LEMMA NumberSettles ==
  ASSUME IInv, Inv', mode \in {"INTEGER", "DECIMAL"}, NEW type,
         type \in {"INT", "DECIMAL"}, Settle(0, 0, type),
         newtoken.start < newtoken.end, newtoken.end = offset,
         Longest(text, newtoken.start, newtoken.end, type)
  PROVE  IInv'
<1> DEFINE s == newtoken.start
           e == newtoken.end
<1>1. s \in Nat /\ e \in Nat
  BY Kinds DEF IInv
<1>2. Opening("DONE", type, s, e, e) = s
  BY <1>1 DEF Opening
<1>3. Begin = s
  BY DEF Begin, Opening
<1>4. Done(text, type, s, e, e)
  BY <1>2 DEF Done
<1>5. e + 0 = e /\ offset + 0 = e
  BY <1>1
<1>6. QED
  BY <1>2, <1>3, <1>4, <1>5, SettleKeeps

LEMMA IntegerKeeps == IInv /\ Integer => IInv'
<1> SUFFICES ASSUME IInv, Integer PROVE IInv'
  OBVIOUS
<1> DEFINE s == newtoken.start
           e == newtoken.end
<1>1. Inv' /\ mode = "INTEGER" /\ Lexible
  BY NumberInv DEF IInv, Integer
<1>2. e = offset /\ IntegerSoFar(text, s, e) /\ s \in Nat /\ e \in Nat
  BY <1>1, Kinds DEF IInv, InMode, SoFar
<1>3. text \in Seq(Characters) /\ Char = text[e + 1] /\ e <= Len(text)
  BY <1>1, <1>2, AtOffset
<1>4. CASE Char \in Digits /\ Advance(1, 1, "INTEGER")
  <2>1. IntegerSoFar(text, s, e + 1)
    BY <1>2, <1>3, <1>4 DEF IntegerSoFar, Run
  <2>2. SoFar(text, "INTEGER", s, e + 1, offset + 1)
    BY <1>2, <2>1 DEF SoFar
  <2>3. QED
    BY <1>1, <1>4, <2>2, AdvanceKeeps DEF TokenModes
<1>5. CASE Char = "." /\ Advance(1, 1, "DECIMAL")
  <2>1. PointAt(text, s, e + 1, e)
    BY <1>2, <1>3, <1>5 DEF PointAt, IntegerSoFar, Run
  <2>2. DecimalSoFar(text, s, e + 1)
    BY <1>2, <2>1 DEF DecimalSoFar, IntegerSoFar
  <2>3. SoFar(text, "DECIMAL", s, e + 1, offset + 1)
    BY <1>2, <2>2 DEF SoFar
  <2>4. QED
    BY <1>1, <1>5, <2>3, AdvanceKeeps DEF TokenModes
<1>6. CASE Char \notin Digits \cup {"."} /\ Settle(0, 0, "INT")
  <2>1. Longest(text, s, e, "INT")
    BY <1>2, <1>3, <1>6, LongestInteger
  <2>2. s < e
    BY <1>2 DEF IntegerSoFar
  <2>3. QED
    BY <1>1, <1>2, <1>6, <2>1, <2>2, NumberSettles
<1>7. QED
  BY <1>4, <1>5, <1>6 DEF Integer

LEMMA DecimalKeeps == IInv /\ Decimal => IInv'
<1> SUFFICES ASSUME IInv, Decimal PROVE IInv'
  OBVIOUS
<1> DEFINE s == newtoken.start
           e == newtoken.end
<1>1. Inv' /\ mode = "DECIMAL" /\ Lexible
  BY NumberInv DEF IInv, Decimal
<1>2. e = offset /\ DecimalSoFar(text, s, e) /\ s \in Nat /\ e \in Nat
  BY <1>1, Kinds DEF IInv, InMode, SoFar
<1>3. text \in Seq(Characters) /\ Char = text[e + 1] /\ e <= Len(text)
  BY <1>1, <1>2, AtOffset
<1>4. CASE Char \in Digits /\ Advance(1, 1, "DECIMAL")
  <2>1. PICK d : PointAt(text, s, e, d)
    BY <1>2 DEF DecimalSoFar
  <2>2. PointAt(text, s, e + 1, d)
    BY <1>2, <1>3, <1>4, <2>1, PointFurther
  <2>3. DecimalSoFar(text, s, e + 1)
    BY <1>2, <2>2 DEF DecimalSoFar
  <2>4. SoFar(text, "DECIMAL", s, e + 1, offset + 1)
    BY <1>2, <2>3 DEF SoFar
  <2>5. QED
    BY <1>1, <1>4, <2>4, AdvanceKeeps DEF TokenModes
<1>5. CASE Char \notin Digits /\ Settle(0, 0, "DECIMAL")
  <2>1. Longest(text, s, e, "DECIMAL")
    BY <1>2, <1>3, <1>5, LongestDecimal
  <2>2. s < e
    BY <1>2 DEF DecimalSoFar
  <2>3. QED
    BY <1>1, <1>2, <1>5, <2>1, <2>2, NumberSettles
<1>6. QED
  BY <1>4, <1>5 DEF Decimal

LEMMA QuotedKeeps == IInv /\ Quoted => IInv'
<1> SUFFICES ASSUME IInv, Quoted PROVE IInv'
  OBVIOUS
<1> DEFINE s == newtoken.start
           e == newtoken.end
<1>1. Inv' /\ Lexible /\ mode \in {"STRING", "IDENT"}
  BY QuotedInv DEF IInv, Quoted
<1>2. PICK q : (mode = "STRING" /\ q = QT_STRING) \/ (mode = "IDENT" /\ q = QT_IDENT)
  BY <1>1
<1>3. /\ e = offset /\ QuotedSoFar(text, s, e, q) /\ s \in Nat /\ e \in Nat
      /\ s <= e
  BY <1>1, <1>2, Kinds DEF IInv, InMode, SoFar
<1>4. /\ text \in Seq(Characters) /\ Char = text[e + 1] /\ e < Len(text)
  BY <1>1, <1>3, AtOffset
<1>5. \/ Char # q /\ Advance(1, 1, mode)
      \/ Char = q /\ Settle(1, 0, mode)
  BY <1>2 DEF Quoted
<1>6. CASE Char # q /\ Advance(1, 1, mode)
  <2>1. QuotedSoFar(text, s, e + 1, q)
    BY <1>3, <1>4, <1>6 DEF QuotedSoFar, NoneOf
  <2>2. SoFar(text, mode, s, e + 1, offset + 1)
    BY <1>2, <1>3, <2>1 DEF SoFar
  <2>3. mode \in TokenModes \cup {"NONE"} /\ mode # "DONE" /\ mode # "IDLE"
    BY <1>1 DEF TokenModes
  <2>4. QED
    BY <1>1, <1>6, <2>2, <2>3, AdvanceKeeps
<1>7. CASE Char = q /\ Settle(1, 0, mode)
  <2>1. Closed(text, s, e, e + 1, q)
    BY <1>3, <1>4, <1>7 DEF Closed
  <2>2. Opening("DONE", mode, s, e, e + 1) = s - 1 /\ Begin = s - 1
    BY <1>1, <1>3 DEF Opening, Begin
  <2>3. s < e => Longest(text, s - 1, e + 1, mode)
    BY <1>2, <1>3, <1>4, <1>7, LongestQuoted
  <2>4. Done(text, mode, s, e, e + 1)
    BY <1>1, <1>2, <2>1, <2>2, <2>3 DEF Done
  <2>5. e + 0 = e /\ offset + 1 = e + 1 /\ mode \notin {"IDLE", "DONE"}
    BY <1>1, <1>3
  <2>6. QED
    BY <1>1, <1>7, <2>2, <2>4, <2>5, SettleKeeps
<1>8. QED
  BY <1>5, <1>6, <1>7

LEMMA OperatorKeeps == IInv /\ Operator => IInv'
<1> SUFFICES ASSUME IInv, Operator PROVE IInv'
  OBVIOUS
<1> DEFINE s == newtoken.start
           e == newtoken.end
<1>1. Inv' /\ mode = "OP" /\ Lexible
  BY OperatorInv DEF IInv, Operator
<1>2. e = offset /\ OperatorSoFar(text, s, e) /\ s \in Nat /\ e \in Nat
  BY <1>1, Kinds DEF IInv, InMode, SoFar
<1>3. text \in Seq(Characters) /\ e < Len(text) /\ Len(text) \in Nat
  BY <1>1, <1>2, AtOffset
<1>4. s < e /\ text[s + 1] \in Signs
  BY <1>2 DEF OperatorSoFar
<1>5. CASE Part(text, s, e + 1) \in Operators /\ Advance(1, 1, "OP")
  <2>1. OperatorSoFar(text, s, e + 1)
    BY <1>2, <1>4, <1>5 DEF OperatorSoFar
  <2>2. SoFar(text, "OP", s, e + 1, offset + 1)
    BY <1>2, <2>1 DEF SoFar
  <2>3. QED
    BY <1>1, <1>5, <2>2, AdvanceKeeps DEF TokenModes
<1>6. CASE Part(text, s, e + 1) = <<"-", "-">> /\ Advance(1, 1, "COMMENT")
  <2>1. s < e + 1 /\ e + 1 \in Nat /\ e + 1 <= Len(text)
    BY <1>2, <1>3, <1>4
  <2>2. e + 1 = s + 2 /\ text[s + 1] = "-" /\ text[s + 2] = "-"
    BY <1>2, <1>3, <1>6, <2>1, TwoSigns
  <2>3. "-" \notin LineEnds
    BY Apart, ClassesAssumption DEF Signs
  <2>4. NoneOf(text, s, s, LineEnds)
    BY <1>2 DEF NoneOf
  <2>5. NoneOf(text, s, s + 2, LineEnds)
    <3>1. NoneOf(text, s, s + 1, LineEnds)
      BY <1>2, <2>2, <2>3, <2>4, NoneFurther
    <3>2. s + 1 \in Nat /\ s + 1 + 1 = s + 2
      BY <1>2
    <3>3. NoneOf(text, s, s + 1 + 1, LineEnds)
      BY <1>2, <2>2, <2>3, <3>1, <3>2, NoneFurther
    <3>4. QED
      BY <3>2, <3>3
  <2>6. CommentSoFar(text, s, e + 1, offset + 1)
    BY <1>2, <2>2, <2>5 DEF CommentSoFar
  <2>7. SoFar(text, "COMMENT", s, e + 1, offset + 1)
    BY <2>6 DEF SoFar
  <2>8. QED
    BY <1>1, <1>6, <2>7, AdvanceKeeps DEF TokenModes
<1>7. CASE /\ Part(text, s, e + 1) \notin Operators
           /\ Part(text, s, e) \in Operators
           /\ Settle(0, 0, "OP")
  <2>1. Longest(text, s, e, "OP")
    BY <1>2, <1>3, <1>4, <1>7, LongestOperator
  <2>2. Opening("DONE", "OP", s, e, e) = s /\ Begin = s
    BY <1>1, <1>2 DEF Opening, Begin
  <2>3. Done(text, "OP", s, e, e)
    BY <1>4, <2>1, <2>2 DEF Done
  <2>4. e + 0 = e /\ offset + 0 = e
    BY <1>2
  <2>5. QED
    BY <1>1, <1>7, <2>2, <2>3, <2>4, SettleKeeps
<1>8. CASE Leave("error")
  BY <1>1, <1>8, ErrorKeeps
<1>9. QED
  BY <1>5, <1>6, <1>7, <1>8 DEF Operator, StillOperator, Part, Slice

LEMMA CommentKeeps == IInv /\ Comment => IInv'
<1> SUFFICES ASSUME IInv, Comment PROVE IInv'
  OBVIOUS
<1> DEFINE s == newtoken.start
           e == newtoken.end
<1>1. Inv' /\ mode = "COMMENT" /\ Lexible
  BY CommentInv DEF IInv, Comment
<1>2. /\ CommentSoFar(text, s, e, offset) /\ s \in Nat /\ e \in Nat
      /\ newtoken \in Token
  BY <1>1, Kinds DEF IInv, InMode, SoFar
<1>3. /\ text \in Seq(Characters) /\ offset \in Nat /\ Char = text[offset + 1]
      /\ offset < Len(text) /\ Len(text) \in Nat
  BY <1>1, AtOffset
<1>4. CASE Char \notin LineEnds /\ Advance(1, 0, "COMMENT")
  <2>1. CommentSoFar(text, s, e + 0, offset + 1)
    <3>1. NoneOf(text, s, offset + 1, LineEnds)
      <4>1. NoneOf(text, s, offset, LineEnds)
        BY <1>2 DEF CommentSoFar
      <4>2. QED
        BY <1>2, <1>3, <1>4, <4>1, NoneFurther
    <3>2. QED
      BY <1>2, <1>3, <3>1 DEF CommentSoFar
  <2>2. SoFar(text, "COMMENT", s, e + 0, offset + 1)
    BY <2>1 DEF SoFar
  <2>3. QED
    BY <1>1, <1>4, <2>2, AdvanceKeeps DEF TokenModes
<1>5. CASE /\ offset' = offset + 1
           /\ newtoken' = [newtoken EXCEPT !.start = offset + 1,
                                           !.end = offset + 1]
           /\ mode' = "NONE"
           /\ UNCHANGED <<text, answer, tokens, reading>>
  <2>1. newtoken'.start = offset + 1 /\ newtoken'.type = newtoken.type
    BY <1>2, <1>5 DEF Token
  <2>2. InMode' /\ WhenDone'
    BY <1>1, <1>5, <2>1 DEF InMode, SoFar, WhenDone, IInv
  <2>3. NothingSkipped'
    <3> SUFFICES ASSUME reading.from = 0, NEW p \in 0..offset
                 PROVE  Accounted(p)'
      <4>1. Begin' = offset + 1
        BY <1>5, <2>1 DEF Begin, Opening
      <4>2. QED
        BY <1>3, <1>5, <4>1 DEF NothingSkipped
    <3>1. ASSUME p \in s..offset PROVE Accounted(p)
      <4>1. InComment(p)
        <5>1. s \in 0..p /\ s + 1 < Len(text)
          BY <1>2, <1>3, <3>1 DEF CommentSoFar
        <5>2. text[s + 1] = "-" /\ text[s + 2] = "-"
          BY <1>2 DEF CommentSoFar
        <5>3. \A q \in s..(p - 1) : text[q + 1] \notin LineEnds
          BY <1>2, <1>3, <3>1 DEF CommentSoFar, NoneOf
        <5>4. QED
          BY <5>1, <5>2, <5>3 DEF InComment
      <4>2. QED
        BY <4>1 DEF Accounted
    <3>2. ASSUME p \notin s..offset PROVE Accounted(p)
      <4>1. Begin = s
        BY <1>1 DEF Begin, Opening
      <4>2. p \in 0..(Begin - 1)
        BY <1>2, <1>3, <3>2, <4>1
      <4>3. QED
        BY <1>1, <4>2 DEF IInv, NothingSkipped
    <3>3. QED
      BY <1>5, <3>1, <3>2, KeptAccount
  <2>4. LongestMatch' /\ NothingLost'
    BY <1>5, KeptMatch DEF NothingLost, IInv
  <2>5. QED
    BY <1>1, <2>2, <2>3, <2>4 DEF IInv
<1>6. QED
  BY <1>4, <1>5 DEF Comment

LEMMA ReturnNothingKeeps == IInv /\ ReturnNothing => IInv'
<1> SUFFICES ASSUME IInv, ReturnNothing PROVE IInv'
  OBVIOUS
<1> DEFINE s == newtoken.start
           e == newtoken.end
<1>1. /\ Inv' /\ LoopEnds /\ mode # "IDLE" /\ e = s
      /\ Leave("end") /\ UNCHANGED offset
  BY ReturnNothingInv DEF IInv, ReturnNothing, LoopEnds, HasToken
<1>2. /\ text \in Seq(Characters) /\ offset \in Nat /\ offset <= Len(text)
      /\ s \in Nat /\ Len(text) \in Nat
  BY Kinds DEF IInv
<1>3. CASE mode = "DONE"
  <2>1. PICK q \in {QT_STRING, QT_IDENT} :
          Closed(text, s, e, offset, q) /\ newtoken.type \in {"STRING", "IDENT"}
    BY <1>1, <1>2, <1>3 DEF IInv, WhenDone, Done
  <2>2. offset = s + 1 /\ s > 0 /\ text[s] = q /\ text[s + 1] = q
    BY <1>1, <2>1 DEF Closed, QuotedSoFar
  <2>3. Begin = s - 1
    BY <1>1, <1>2, <1>3, <2>1, <2>2 DEF Begin, Opening
  <2>4. ASSUME NEW p \in (s - 1)..s PROVE EmptyQuotes(p)
    <3>1. s - 1 \in {p - 1, p} \cap 0..(Len(text) - 1)
      BY <1>2, <2>2
    <3>2. s - 1 + 1 = s /\ s - 1 + 2 = s + 1
      BY <1>2
    <3>3. QED
      BY <2>2, <3>1, <3>2 DEF EmptyQuotes
  <2>5. s \in (s - 1)..s /\ offset - 1 = s
    BY <1>2, <2>2
  <2>6. QED
    BY <1>1, <2>3, <2>4, <2>5, EndKeeps
<1>4. CASE mode # "DONE"
  <2>1. ~Lexible /\ mode \notin {"IDLE", "SKIP", "DONE"}
    BY <1>1, <1>4 DEF LoopEnds
  <2>2. offset = Len(text)
    BY <1>2, <2>1 DEF Lexible
  <2>3. SoFar(text, mode, s, e, offset)
    BY DEF IInv, InMode
  <2>4. mode \in {"NONE", "STRING", "IDENT"}
    <3>1. mode \in {"NONE", "GENERAL", "INTEGER", "DECIMAL", "STRING", "IDENT",
                    "OP", "COMMENT"}
      BY <2>1 DEF IInv, Inv, TypeOK
    <3>2. ~(s < e) /\ e # s + 2
      BY <1>1, <1>2
    <3>3. QED
      BY <2>3, <3>1, <3>2 DEF SoFar, WordSoFar, IntegerSoFar, DecimalSoFar,
                              OperatorSoFar, CommentSoFar
  <2>5. CASE mode = "NONE"
    <3>1. Begin = offset
      BY <2>5, Kinds DEF IInv, Begin, Opening
    <3>2. \A p \in Begin..(offset - 1) : EmptyQuotes(p)
      BY <1>2, <3>1
    <3>3. QED
      BY <1>1, <2>2, <3>2, EndKeeps
  <2>6. CASE mode \in {"STRING", "IDENT"}
    <3>1. PICK q \in {QT_STRING, QT_IDENT} : QuotedSoFar(text, s, e, q)
      BY <2>3, <2>6 DEF SoFar
    <3>2. s = offset /\ s > 0 /\ text[s] = q
      BY <1>1, <2>3, <2>6, <3>1 DEF SoFar, QuotedSoFar
    <3>3. Begin = s - 1
      BY <2>6 DEF Begin, Opening
    <3>4. ASSUME NEW p \in (s - 1)..(offset - 1) PROVE EmptyQuotes(p)
      <4>1. p = s - 1 /\ p \in {p - 1, p} \cap 0..(Len(text) - 1)
        BY <1>2, <2>2, <3>2
      <4>2. p + 1 = s /\ ~(p + 1 < Len(text))
        BY <1>2, <2>2, <3>2, <4>1
      <4>3. QED
        BY <3>2, <4>1, <4>2 DEF EmptyQuotes
    <3>5. QED
      BY <1>1, <2>2, <3>3, <3>4, EndKeeps
  <2>7. QED
    BY <2>4, <2>5, <2>6
<1>5. QED
  BY <1>3, <1>4

\* The token a call returns, with the offset it leaves behind.
Entry(u) ==
  /\ u.token.start = newtoken.start /\ u.token.end = newtoken.end
  /\ u.token.type = IF newtoken.type = "COUNT" THEN TypeAtEnd ELSE newtoken.type
  /\ u.after = offset

\* The modes a call may end in with a token.
LEMMA EndModes ==
  ASSUME IInv, LoopEnds, mode # "DONE"
  PROVE  /\ offset = Len(text) /\ newtoken.type = "COUNT"
         /\ mode \in {"NONE", "GENERAL", "INTEGER", "DECIMAL", "STRING",
                      "IDENT", "OP", "COMMENT"}
         /\ mode \notin {"NONE", "COMMENT"} => newtoken.end = offset
         /\ SoFar(text, mode, newtoken.start, newtoken.end, offset)
<1>1. ~Lexible /\ mode \notin {"IDLE", "SKIP", "DONE"}
  BY DEF LoopEnds
<1>2. offset = Len(text)
  BY <1>1, Kinds DEF IInv, Lexible
<1>3. mode \in {"NONE", "GENERAL", "INTEGER", "DECIMAL", "STRING", "IDENT",
                "OP", "COMMENT"}
  BY <1>1 DEF IInv, Inv, TypeOK
<1>4. /\ newtoken.type = "COUNT"
      /\ SoFar(text, mode, newtoken.start, newtoken.end, offset)
  BY <1>1 DEF IInv, InMode
<1>5. QED
  BY <1>2, <1>3, <1>4 DEF SoFar

\* A token that is done begins where the loop began it.
LEMMA DoneEntry ==
  ASSUME IInv, LoopEnds, HasToken, mode = "DONE", NEW u, Entry(u)
  PROVE  /\ From(u) = Begin
         /\ To(u) = offset
         /\ HasKind(u) /\ NoneLonger(u)
<1> DEFINE s == newtoken.start
           e == newtoken.end
           type == newtoken.type
<1>1. /\ s \in Nat /\ e \in Nat /\ offset \in Nat /\ s < e /\ e <= offset
      /\ Len(text) \in Nat
  BY Kinds DEF IInv, HasToken
<1>2. Done(text, type, s, e, offset)
  BY DEF IInv, WhenDone
<1>3. u.token.start = s /\ u.token.end = e /\ u.after = offset
      /\ u.token.type = type /\ type # "COUNT"
  BY <1>2 DEF Entry, Done
<1>4. e = offset \/ type \in {"?", "STRING", "IDENT"}
  BY <1>2 DEF Done
<1>5. From(u) = Begin
  BY <1>1, <1>3, <1>4 DEF From, IsQuoted, Begin, Opening
<1>6. To(u) = offset
  BY <1>3, <1>4 DEF To
<1>7. Longest(text, Begin, offset, type)
  BY <1>1, <1>2 DEF Done, Begin, Opening
<1>8. KindOf(Part(text, Begin, offset)) = type
      /\ \A f \in (offset + 1)..Len(text) : KindOf(Part(text, Begin, f)) = "none"
  BY <1>7 DEF Longest
<1>9. HasKind(u) /\ NoneLonger(u)
  BY <1>3, <1>5, <1>8 DEF HasKind, NoneLonger, Slice, Part
<1>10. QED
  BY <1>5, <1>6, <1>9

\* A token the end of the text ends.
LEMMA LastEntry ==
  ASSUME IInv, LoopEnds, HasToken, mode # "DONE", NEW u, Entry(u)
  PROVE  /\ From(u) <= Begin /\ From(u) \in Int
         /\ mode # "COMMENT" => To(u) = offset
         /\ NoneLonger(u) /\ (HasKind(u) \/ CutShort(u))
<1> DEFINE s == newtoken.start
           e == newtoken.end
<1>1. /\ s \in Nat /\ e \in Nat /\ offset \in Nat /\ s < e /\ e <= offset
      /\ Len(text) \in Nat /\ text \in Seq(Characters)
  BY Kinds DEF IInv, HasToken, LoopEnds
<1>2. /\ offset = Len(text)
      /\ mode \in {"NONE", "GENERAL", "INTEGER", "DECIMAL", "STRING", "IDENT",
                   "OP", "COMMENT"}
      /\ mode \notin {"NONE", "COMMENT"} => e = offset
      /\ SoFar(text, mode, s, e, offset)
  BY EndModes
<1>3. mode # "NONE"
  BY <1>1, Kinds DEF IInv
<1>4. u.token.start = s /\ u.token.end = e /\ u.after = offset
      /\ u.token.type = TypeAtEnd
  BY EndModes DEF Entry
<1>5. NoneLonger(u)
  BY <1>1, <1>2, <1>4 DEF NoneLonger
<1>6. CASE mode = "GENERAL"
  <2> DEFINE word == WordType(Part(text, s, e))
  <2>1. TypeAtEnd = IF word = "RESERVED" THEN "RESERVED" ELSE "IDENT"
    BY <1>6 DEF TypeAtEnd, Slice, Part
  <2>2. From(u) = s
    BY <1>1, <1>2, <1>4, <1>6, <2>1 DEF From, IsQuoted
  <2>3. Begin = s /\ To(u) = offset
    BY <1>2, <1>4, <1>6 DEF Begin, Opening, To
  <2>4. KindOf(Part(text, s, e)) = word
    <3>1. WordSoFar(text, s, e)
      BY <1>2, <1>6 DEF SoFar
    <3>2. QED
      BY <1>1, <1>2, <1>6, <3>1, LongestWord DEF Longest
  <2>5. word \in {"RESERVED", "OP", "FUNC", "AGGRFUNC", "IDENT"}
    BY WordTypes
  <2> HIDE DEF word
  <2>6. CASE word \in {"RESERVED", "IDENT"}
    <3>1. TypeAtEnd = word /\ e = offset
      BY <1>2, <1>6, <2>1, <2>6
    <3>2. HasKind(u)
      BY <1>4, <2>2, <2>4, <3>1 DEF HasKind, Slice, Part
    <3>3. QED
      BY <1>1, <1>5, <2>2, <2>3, <3>2
  <2>7. CASE word \in {"OP", "FUNC", "AGGRFUNC"}
    <3>1. TypeAtEnd = "IDENT"
      BY <2>1, <2>7
    <3>2. CutShort(u)
      BY <1>2, <1>4, <2>7, <3>1 DEF CutShort, Slice, Part, word
    <3>3. QED
      BY <1>1, <1>5, <2>2, <2>3, <3>2
  <2>8. QED
    BY <2>5, <2>6, <2>7
<1>7. CASE mode \in {"INTEGER", "DECIMAL"}
  <2>1. TypeAtEnd = IF mode = "INTEGER" THEN "INT" ELSE "DECIMAL"
    BY <1>7 DEF TypeAtEnd
  <2>2. From(u) = s
    BY <1>4, <1>7, <2>1 DEF From, IsQuoted
  <2>3. Begin = s /\ To(u) = offset /\ e = offset
    BY <1>2, <1>4, <1>7 DEF Begin, Opening, To
  <2>4. KindOf(Part(text, s, e)) = TypeAtEnd
    <3>1. CASE mode = "INTEGER"
      <4>1. IntegerSoFar(text, s, e)
        BY <1>2, <3>1 DEF SoFar
      <4>2. QED
        BY <1>1, <1>2, <2>1, <2>3, <3>1, <4>1, LongestInteger DEF Longest
    <3>2. CASE mode = "DECIMAL"
      <4>1. DecimalSoFar(text, s, e)
        BY <1>2, <3>2 DEF SoFar
      <4>2. QED
        BY <1>1, <1>2, <2>1, <2>3, <3>2, <4>1, LongestDecimal DEF Longest
    <3>3. QED
      BY <1>7, <3>1, <3>2
  <2>5. HasKind(u)
    BY <1>4, <2>2, <2>3, <2>4 DEF HasKind, Slice, Part
  <2>6. QED
    BY <1>1, <1>5, <2>2, <2>3, <2>5
<1>8. CASE mode \in {"STRING", "IDENT", "OP", "COMMENT"}
  <2>1. TypeAtEnd = "COUNT"
    BY <1>8 DEF TypeAtEnd
  <2>2. CutShort(u)
    BY <1>2, <1>4, <2>1 DEF CutShort
  <2>3. mode # "COMMENT" => To(u) = offset
    BY <1>2, <1>4, <1>8, <2>1 DEF To
  <2>4. From(u) \in {s - 1, s}
    BY <1>4 DEF From
  <2>5. CASE mode \in {"STRING", "IDENT"}
    <3>1. s > 0 /\ text[s] \in {QT_STRING, QT_IDENT}
      BY <1>2, <2>5 DEF SoFar, QuotedSoFar
    <3>2. From(u) = s - 1
      BY <1>4, <2>1, <3>1 DEF From, IsQuoted
    <3>3. Begin = s - 1
      BY <2>5 DEF Begin, Opening
    <3>4. QED
      BY <1>1, <1>5, <2>2, <2>3, <3>2, <3>3
  <2>6. CASE mode \in {"OP", "COMMENT"}
    <3>1. Begin = s
      BY <2>6 DEF Begin, Opening
    <3>2. QED
      BY <1>1, <1>5, <2>2, <2>3, <2>4, <3>1
  <2>7. QED
    BY <1>8, <2>5, <2>6
<1>9. QED
  BY <1>2, <1>3, <1>6, <1>7, <1>8

\* Whatever a call has read behind the beginning of its token.
LEMMA EntryAccounts ==
  ASSUME IInv, LoopEnds, HasToken, NEW u, Entry(u), NEW p \in Begin..(offset - 1)
  PROVE  p \in From(u)..(To(u) - 1) \/ InComment(p)
<1>1. CASE mode = "DONE"
  <2>1. From(u) = Begin /\ To(u) = offset
    BY <1>1, DoneEntry
  <2>2. QED
    BY <2>1
<1>2. CASE mode # "DONE" /\ mode # "COMMENT"
  <2>1. /\ From(u) <= Begin /\ From(u) \in Int /\ To(u) = offset
    BY <1>2, LastEntry
  <2>2. Begin \in Int /\ offset \in Nat
    BY Kinds DEF IInv, Begin, Opening
  <2>3. QED
    BY <2>1, <2>2
<1>3. CASE mode = "COMMENT"
  <2> DEFINE s == newtoken.start
  <2>1. Begin = s /\ s \in Nat /\ offset \in Nat /\ offset = Len(text)
    BY <1>3, EndModes, Kinds DEF IInv, Begin, Opening
  <2>2. CommentSoFar(text, s, newtoken.end, offset)
    BY <1>3 DEF IInv, InMode, SoFar
  <2>3. s \in 0..p /\ s + 1 < Len(text)
    BY <2>1, <2>2 DEF CommentSoFar
  <2>4. text[s + 1] = "-" /\ text[s + 2] = "-"
    BY <2>2 DEF CommentSoFar
  <2>5. \A q \in s..(p - 1) : text[q + 1] \notin LineEnds
    BY <2>1, <2>2 DEF CommentSoFar, NoneOf
  <2>6. QED
    BY <2>1, <2>3, <2>4, <2>5 DEF InComment
<1>4. QED
  BY <1>1, <1>2, <1>3

LEMMA ReturnKeeps == IInv /\ Return => IInv'
<1> SUFFICES ASSUME IInv, Return PROVE IInv'
  OBVIOUS
<1> DEFINE t == IF newtoken.type = "COUNT"
                THEN [newtoken EXCEPT !.type = TypeAtEnd] ELSE newtoken
           u == [token |-> t, after |-> offset]
<1>1. /\ Inv' /\ LoopEnds /\ HasToken /\ mode # "IDLE"
      /\ mode' = "IDLE" /\ answer' = "token" /\ UNCHANGED <<text, offset>>
  BY ReturnInv DEF IInv, Return, LoopEnds
<1>2. InMode' /\ WhenDone' /\ NothingSkipped'
  BY <1>1 DEF InMode, SoFar, WhenDone, NothingSkipped
<1>3. CASE /\ reading.from > 0
           /\ reading' = [reading EXCEPT !.next = @ + 1]
           /\ UNCHANGED tokens
  <2>1. reading'.from # 0
    BY <1>3 DEF IInv, Inv, TypeOK
  <2>2. LongestMatch' /\ NothingLost'
    BY <1>1, <1>3, <2>1, KeptMatch DEF NothingLost, IInv
  <2>3. QED
    BY <1>1, <1>2, <2>2 DEF IInv
<1>4. CASE /\ reading.from = 0
           /\ tokens' = Append(tokens, [token |-> t, after |-> offset])
           /\ UNCHANGED reading
  <2>1. Entry(u)
    <3>1. newtoken \in Token
      BY Kinds DEF IInv
    <3>2. /\ t.start = newtoken.start /\ t.end = newtoken.end
          /\ t.type = IF newtoken.type = "COUNT" THEN TypeAtEnd ELSE newtoken.type
      BY <3>1 DEF Token
    <3>3. u.token = t /\ u.after = offset
      OBVIOUS
    <3> HIDE DEF t, u
    <3>4. QED
      BY <3>2, <3>3 DEF Entry
  <2> HIDE DEF u, t
  <2>2. /\ tokens' = Append(tokens, u) /\ Len(tokens) \in Nat
        /\ tokens \in Seq([token : Token, after : Nat])
    BY <1>4 DEF u, IInv, Inv, TypeOK
  <2>3. /\ DOMAIN tokens = 1..Len(tokens)
        /\ DOMAIN tokens' = 1..(Len(tokens) + 1)
        /\ tokens'[Len(tokens) + 1] = u
        /\ \A i \in 1..Len(tokens) : tokens'[i] = tokens[i]
    BY <2>2
  <2>4. NoneLonger(u) /\ (HasKind(u) \/ CutShort(u))
    BY <1>1, <2>1, DoneEntry, LastEntry
  <2>5. LongestMatch'
    <3> SUFFICES ASSUME NEW i \in 1..(Len(tokens) + 1)
                 PROVE  (NoneLonger(tokens[i]) /\ (HasKind(tokens[i]) \/ CutShort(tokens[i])))'
      BY <2>3 DEF LongestMatch
    <3>1. CASE i = Len(tokens) + 1
      BY <1>1, <2>3, <2>4, <3>1
         DEF NoneLonger, HasKind, CutShort, From, IsQuoted, Slice
    <3>2. CASE i \in 1..Len(tokens)
      <4>1. NoneLonger(tokens[i]) /\ (HasKind(tokens[i]) \/ CutShort(tokens[i]))
        BY <2>3, <3>2 DEF IInv, LongestMatch
      <4>2. QED
        BY <1>1, <2>3, <3>2, <4>1
           DEF NoneLonger, HasKind, CutShort, From, IsQuoted, Slice
    <3>3. QED
      BY <2>2, <3>1, <3>2
  <2>6. ASSUME NEW p \in 0..(offset - 1) PROVE Accounted(p)'
    <3>1. Len(tokens) + 1 \in DOMAIN tokens' /\ \A i \in DOMAIN tokens : i \in DOMAIN tokens'
      BY <2>2, <2>3
    <3>2. (\E i \in DOMAIN tokens : p \in From(tokens[i])..(To(tokens[i]) - 1))
          => Accounted(p)'
      BY <1>1, <2>3, <3>1 DEF Accounted, From, To, IsQuoted
    <3>3. p \in From(u)..(To(u) - 1) => Accounted(p)'
      BY <1>1, <2>3, <3>1 DEF Accounted, From, To, IsQuoted
    <3>4. text[p + 1] \in Blanks \/ InComment(p) \/ EmptyQuotes(p) => Accounted(p)'
      BY <1>1 DEF Accounted, InComment, EmptyQuotes
    <3>5. CASE p \in 0..(Begin - 1)
      <4>1. Accounted(p)
        BY <1>1, <1>4, <3>5 DEF IInv, NothingSkipped
      <4>2. QED
        BY <3>2, <3>4, <4>1 DEF Accounted
    <3>6. CASE p \in Begin..(offset - 1)
      BY <1>1, <2>1, <3>3, <3>4, <3>6, EntryAccounts
    <3>7. QED
      <4>1. Begin \in Int
        BY Kinds DEF IInv, Begin, Opening
      <4>2. QED
        BY <3>5, <3>6, <4>1
  <2>7. NothingLost'
    BY <1>1, <2>6 DEF NothingLost
  <2>8. QED
    BY <1>1, <1>2, <2>5, <2>7 DEF IInv
<1>5. QED
  BY <1>1, <1>3, <1>4 DEF Return

\* A second reading adds nothing to the tokens.
LEMMA ReadAgainKeeps ==
  ASSUME IInv, NEW i \in DOMAIN tokens, ReadAgain(i)
  PROVE  IInv'
<1>1. Inv' /\ reading'.from # 0
  <2>1. i \in Nat \ {0}
    BY DEF IInv, Inv, TypeOK
  <2>2. QED
    BY <2>1, ReadAgainInv DEF IInv, ReadAgain
<1>2. mode' = "IDLE" /\ UNCHANGED <<text, tokens>>
  BY DEF ReadAgain
<1>3. LongestMatch'
  BY <1>2, KeptMatch DEF IInv
<1>4. QED
  BY <1>1, <1>2, <1>3
     DEF IInv, InMode, SoFar, WhenDone, NothingSkipped, NothingLost

LEMMA NextKeeps == IInv /\ [Next]_vars => IInv'
<1> SUFFICES ASSUME IInv, [Next]_vars PROVE IInv'
  OBVIOUS
<1>1. CASE Step
  BY <1>1, CallKeeps, SkipKeeps, FirstKeeps, InvalidKeeps, GeneralKeeps,
     IntegerKeeps, DecimalKeeps, QuotedKeeps, OperatorKeeps, CommentKeeps,
     ReturnKeeps, ReturnNothingKeeps DEF Step
<1>2. ASSUME NEW i \in DOMAIN tokens, ReadAgain(i) PROVE IInv'
  BY <1>2, ReadAgainKeeps
<1>3. CASE UNCHANGED vars
  <2>1. Inv'
    BY <1>3, NextInv DEF IInv
  <2>2. /\ UNCHANGED <<text, offset, mode, newtoken, answer, tokens, reading>>
        /\ Begin' = Begin
    BY <1>3 DEF vars, Begin
  <2>3. InMode' /\ WhenDone'
    BY <2>2 DEF IInv, InMode, WhenDone
  <2>4. NothingSkipped' /\ NothingLost'
    <3>1. \A p : Accounted(p) => Accounted(p)'
      BY <2>2, KeptAccount
    <3>2. \A p : EmptyQuotes(p) => EmptyQuotes(p)'
      BY <2>2 DEF EmptyQuotes
    <3>3. QED
      BY <2>2, <3>1, <3>2 DEF IInv, NothingSkipped, NothingLost
  <2>5. LongestMatch'
    BY <2>2, KeptMatch DEF IInv
  <2>6. QED
    BY <2>1, <2>3, <2>4, <2>5 DEF IInv
<1>4. QED
  BY <1>1, <1>2, <1>3 DEF Next

-----------------------------------------------------------------------------
(* The second reading.  A call of lexer_next depends on the text and the   *)
(* offset only: its loop is a function, Then, from what lexer_next holds   *)
(* to what it holds next.  What one reading went through from an offset,   *)
(* another one goes through again.                                         *)
Here == [offset |-> offset, mode |-> mode, token |-> newtoken]

At(x, c) == x[c.offset + 1]
After(x, c) == IF c.offset + 1 < Len(x) THEN {x[c.offset + 2]} ELSE {}

Fresh(o, type, m) ==
  [offset |-> o, mode |-> m, token |-> [type |-> type, start |-> o, end |-> o]]
Longer(c, n, e, m) ==
  [offset |-> c.offset + n, mode |-> m,
   token  |-> [type |-> c.token.type, start |-> c.token.start, end |-> c.token.end + e]]
Ended(c, n, e, type) ==
  [offset |-> c.offset + n, mode |-> "DONE",
   token  |-> [type |-> type, start |-> c.token.start, end |-> c.token.end + e]]

\* Where lexer_next gives up: at the first character, in an operator.
Refused(x, c) ==
  \/ At(x, c) = "?" /\ After(x, c) \cap {"i", "s"} = {}
  \/ At(x, c) = "." /\ After(x, c) \cap (Digits \cup Letters \cup {"*", QT_IDENT}) = {}
  \/ /\ At(x, c) \notin Marks \cup Digits \cup Letters \cup {QT_STRING, QT_IDENT}
     /\ ~StartsOperator(At(x, c))
Read(x, c)     == Part(x, c.token.start, c.token.end)
ReadMore(x, c) == Part(x, c.token.start, c.token.end + 1)
Broken(x, c) ==
  /\ ReadMore(x, c) \notin Operators \cup {<<"-", "-">>}
  /\ Read(x, c) \notin Operators

Going(x, c) ==
  /\ c.mode \notin {"IDLE", "DONE"} /\ c.offset < Len(x)
  /\ c.mode = "NONE" => ~Refused(x, c)
  /\ c.mode = "OP" => ~Broken(x, c)

ThenFirst(x, c) ==
  IF At(x, c) \in Alone THEN Ended(c, 1, 1, At(x, c))
  ELSE IF At(x, c) = "?" THEN Ended(c, 2, 1, "?")
  ELSE IF At(x, c) \in Digits THEN Longer(c, 1, 1, "INTEGER")
  ELSE IF At(x, c) \in Letters THEN Longer(c, 1, 1, "GENERAL")
  ELSE IF At(x, c) = "." THEN
    IF After(x, c) \cap Digits # {} THEN Longer(c, 1, 1, "DECIMAL")
    ELSE Ended(c, 1, 1, "IDENTCONJ")
  ELSE IF At(x, c) = QT_STRING THEN Fresh(c.offset + 1, c.token.type, "STRING")
  ELSE IF At(x, c) = QT_IDENT THEN Fresh(c.offset + 1, c.token.type, "IDENT")
  ELSE Longer(c, 1, 1, "OP")
ThenSkip(x, c) ==
  IF At(x, c) \in Blanks THEN Fresh(c.offset + 1, c.token.type, "SKIP")
  ELSE Longer(c, 0, 0, "NONE")
ThenGeneral(x, c) ==
  IF At(x, c) \in Letters \cup Digits THEN Longer(c, 1, 1, "GENERAL")
  ELSE Ended(c, 0, 0, WordType(Read(x, c)))
ThenInteger(x, c) ==
  IF At(x, c) \in Digits THEN Longer(c, 1, 1, "INTEGER")
  ELSE IF At(x, c) = "." THEN Longer(c, 1, 1, "DECIMAL")
  ELSE Ended(c, 0, 0, "INT")
ThenDecimal(x, c) ==
  IF At(x, c) \in Digits THEN Longer(c, 1, 1, "DECIMAL")
  ELSE Ended(c, 0, 0, "DECIMAL")
ThenQuoted(x, c, q) ==
  IF At(x, c) # q THEN Longer(c, 1, 1, c.mode) ELSE Ended(c, 1, 0, c.mode)
ThenOperator(x, c) ==
  IF ReadMore(x, c) \in Operators THEN Longer(c, 1, 1, "OP")
  ELSE IF ReadMore(x, c) = <<"-", "-">> THEN Longer(c, 1, 1, "COMMENT")
  ELSE Ended(c, 0, 0, "OP")
ThenComment(x, c) ==
  IF At(x, c) \notin LineEnds THEN Longer(c, 1, 0, "COMMENT")
  ELSE Fresh(c.offset + 1, c.token.type, "NONE")

Then(x, c) ==
  CASE c.mode = "SKIP"    -> ThenSkip(x, c)
    [] c.mode = "NONE"    -> ThenFirst(x, c)
    [] c.mode = "GENERAL" -> ThenGeneral(x, c)
    [] c.mode = "INTEGER" -> ThenInteger(x, c)
    [] c.mode = "DECIMAL" -> ThenDecimal(x, c)
    [] c.mode = "STRING"  -> ThenQuoted(x, c, QT_STRING)
    [] c.mode = "IDENT"   -> ThenQuoted(x, c, QT_IDENT)
    [] c.mode = "OP"      -> ThenOperator(x, c)
    [] OTHER              -> ThenComment(x, c)

\* The loop gets from c to f: f is in every set that holds c and is closed
\* under the steps of the loop.
Leads(x, c, f) ==
  \A S : /\ c \in S
         /\ \A d \in S : Going(x, d) => Then(x, d) \in S
         => f \in S

\* And ends there.
Lands(x, c, f) == Leads(x, c, f) /\ ~Going(x, f)

LEMMA LeadsSelf == ASSUME NEW x, NEW c PROVE Leads(x, c, c)
BY DEF Leads

LEMMA LeadsFurther ==
  ASSUME NEW x, NEW c, NEW d, Leads(x, c, d), Going(x, d)
  PROVE  Leads(x, c, Then(x, d))
BY DEF Leads

LEMMA LandsBefore ==
  ASSUME NEW x, NEW c, NEW f, Going(x, c), Lands(x, Then(x, c), f)
  PROVE  Lands(x, c, f)
BY DEF Leads, Lands

LEMMA LandsStopped ==
  ASSUME NEW x, NEW c, NEW f, ~Going(x, c), Lands(x, c, f)
  PROVE  f = c
<1>1. f \in {c}
  <2>1. \A d \in {c} : Going(x, d) => Then(x, d) \in {c}
    OBVIOUS
  <2>2. QED
    BY <2>1 DEF Leads, Lands
<1>2. QED
  BY <1>1

LEMMA LandsFurther ==
  ASSUME NEW x, NEW c, NEW f, Going(x, c), Lands(x, c, f)
  PROVE  Lands(x, Then(x, c), f)
<1>1. f # c
  BY DEF Lands
<1>2. ASSUME NEW S, Then(x, c) \in S,
             \A d \in S : Going(x, d) => Then(x, d) \in S
      PROVE  f \in S
  <2>1. \A d \in S \cup {c} : Going(x, d) => Then(x, d) \in S \cup {c}
    BY <1>2
  <2>2. f \in S \cup {c}
    BY <2>1 DEF Leads, Lands
  <2>3. QED
    BY <1>1, <2>2
<1>3. QED
  BY <1>2 DEF Leads, Lands

-----------------------------------------------------------------------------
\* Each step of the loop is the one Then has.
LEMMA HereLonger ==
  ASSUME newtoken \in Token, NEW n, NEW e, NEW m, Advance(n, e, m)
  PROVE  Here' = Longer(Here, n, e, m)
<1>1. newtoken' = [type |-> newtoken.type, start |-> newtoken.start,
                   end  |-> newtoken.end + e]
  BY DEF Advance, Token
<1>2. QED
  BY <1>1 DEF Advance, Here, Longer

LEMMA HereEnded ==
  ASSUME newtoken \in Token, NEW n, NEW e, NEW type, Settle(n, e, type)
  PROVE  Here' = Ended(Here, n, e, type)
<1>1. newtoken' = [type |-> type, start |-> newtoken.start,
                   end  |-> newtoken.end + e]
  BY DEF Settle, Token
<1>2. QED
  BY <1>1 DEF Settle, Here, Ended

\* What the steps look at, as Then has it.
LEMMA Looks ==
  ASSUME IInv
  PROVE  /\ Here.offset = offset /\ Here.mode = mode /\ Here.token = newtoken
         /\ newtoken \in Token /\ offset \in Nat
         /\ At(text, Here) = Char /\ After(text, Here) = Following
         /\ Lexible <=> Here.offset < Len(text)
         /\ Read(text, Here) = Slice(newtoken.start, newtoken.end)
         /\ ReadMore(text, Here) = Slice(newtoken.start, newtoken.end + 1)
BY Kinds DEF IInv, Here, At, After, Char, Following, Lexible, Read, ReadMore,
             Slice, Part

\* One step of the loop.
Moved ==
  /\ Going(text, Here) /\ Here' = Then(text, Here)
  /\ mode # "IDLE" /\ UNCHANGED <<text, answer, tokens, reading>>

LEMMA SkipMoves ==
  ASSUME IInv, Skip, mode' # "IDLE"
  PROVE  Moved
<1>1. mode = "SKIP" /\ Lexible /\ UNCHANGED <<text, answer, tokens, reading>>
  BY DEF Skip, Advance, Leave
<1>2. Going(text, Here)
  BY <1>1, Looks DEF Going
<1>3. Then(text, Here) = ThenSkip(text, Here)
  BY <1>1, Looks DEF Then
<1>4. CASE Char \in Blanks
  <2>1. /\ offset' = offset + 1 /\ mode' = mode
        /\ newtoken' = [newtoken EXCEPT !.start = @ + 1, !.end = @ + 1]
    BY <1>1, <1>4 DEF Skip, Leave
  <2>2. newtoken \in Token /\ newtoken.start = offset /\ newtoken.end = offset
    BY <1>1, Kinds DEF IInv
  <2>3. newtoken' = [type |-> newtoken.type, start |-> offset + 1, end |-> offset + 1]
    BY <2>1, <2>2 DEF Token
  <2>4. Here' = Fresh(Here.offset + 1, Here.token.type, "SKIP")
    BY <1>1, <2>1, <2>3 DEF Here, Fresh
  <2>5. QED
    BY <1>1, <1>2, <1>3, <1>4, <2>4, Looks DEF ThenSkip, Moved
<1>5. CASE Char \notin Blanks
  <2>1. Advance(0, 0, "NONE")
    BY <1>1, <1>5 DEF Skip
  <2>2. Here' = Longer(Here, 0, 0, "NONE")
    BY <2>1, Looks, HereLonger
  <2>3. QED
    BY <1>1, <1>2, <1>3, <1>5, <2>2, Looks DEF ThenSkip, Moved
<1>6. QED
  BY <1>4, <1>5

LEMMA FirstMoves == IInv /\ First => Moved
<1> SUFFICES ASSUME IInv, First PROVE Moved
  OBVIOUS
<1>1. /\ mode = "NONE" /\ Lexible /\ newtoken \in Token
      /\ newtoken.start = offset /\ newtoken.end = offset
  BY Kinds DEF First, IInv
<1>2. Then(text, Here) = ThenFirst(text, Here)
  BY <1>1, Looks DEF Then
<1>3. /\ UNCHANGED <<text, answer, tokens, reading>>
      /\ ~Refused(text, Here) /\ Here' = ThenFirst(text, Here)
  <2>1. ASSUME NEW m, OpenQuote(m)
        PROVE  /\ Here' = Fresh(Here.offset + 1, Here.token.type, m)
               /\ UNCHANGED <<text, answer, tokens, reading>>
    <3>1. newtoken' = [type |-> newtoken.type, start |-> offset + 1, end |-> offset + 1]
      BY <1>1, <2>1 DEF OpenQuote, Token
    <3>2. QED
      BY <2>1, <3>1 DEF Here, Fresh, OpenQuote
  <2>2. CASE Char \in Alone /\ Settle(1, 1, Char)
    <3>1. Here' = Ended(Here, 1, 1, Char)
      BY <1>1, <2>2, HereEnded
    <3>2. Char \in Marks /\ Char # "?" /\ Char # "."
      BY <2>2 DEF Alone, Marks
    <3>3. ~Refused(text, Here)
      BY <3>2, Looks DEF Refused
    <3>4. QED
      BY <2>2, <3>1, <3>3, Looks DEF ThenFirst, Settle
  <2>3. CASE Char = "?" /\ Following \cap {"i", "s"} # {} /\ Settle(2, 1, "?")
    <3>1. Here' = Ended(Here, 2, 1, "?")
      BY <1>1, <2>3, HereEnded
    <3>2. Char \in Marks /\ Char \notin Alone
      BY <2>3 DEF Alone, Marks
    <3>3. ~Refused(text, Here)
      BY <2>3, <3>2, Looks DEF Refused
    <3>4. QED
      BY <2>3, <3>1, <3>2, <3>3, Looks DEF ThenFirst, Settle
  <2>4. CASE Char \in Digits /\ Advance(1, 1, "INTEGER")
    <3>1. Here' = Longer(Here, 1, 1, "INTEGER")
      BY <1>1, <2>4, HereLonger
    <3>2. Char \notin Marks
      BY <2>4, Apart
    <3>3. Char \notin Alone /\ Char # "?" /\ Char # "."
      BY <3>2 DEF Alone, Marks
    <3>4. ~Refused(text, Here)
      BY <2>4, <3>3, Looks DEF Refused
    <3>5. QED
      BY <2>4, <3>1, <3>3, <3>4, Looks DEF ThenFirst, Advance
  <2>5. CASE Char \in Letters /\ Advance(1, 1, "GENERAL")
    <3>1. Here' = Longer(Here, 1, 1, "GENERAL")
      BY <1>1, <2>5, HereLonger
    <3>2. Char \notin Marks /\ Char \notin Digits
      BY <2>5, Apart
    <3>3. Char \notin Alone /\ Char # "?" /\ Char # "."
      BY <3>2 DEF Alone, Marks
    <3>4. ~Refused(text, Here)
      BY <2>5, <3>3, Looks DEF Refused
    <3>5. QED
      BY <2>5, <3>1, <3>2, <3>3, <3>4, Looks DEF ThenFirst, Advance
  <2>6. ASSUME Char = "."
        PROVE  /\ Char \in Marks /\ Char \notin Alone /\ Char # "?"
               /\ Char \notin Letters /\ Char \notin Digits
    <3>1. Char \in Marks /\ Char \notin Alone /\ Char # "?"
      BY <2>6 DEF Alone, Marks
    <3>2. QED
      BY <3>1, Apart
  <2>7. CASE Char = "." /\ Following \cap Digits # {} /\ Advance(1, 1, "DECIMAL")
    <3>1. Here' = Longer(Here, 1, 1, "DECIMAL")
      BY <1>1, <2>7, HereLonger
    <3>2. ~Refused(text, Here)
      BY <2>6, <2>7, Looks DEF Refused
    <3>3. QED
      BY <2>6, <2>7, <3>1, <3>2, Looks DEF ThenFirst, Advance
  <2>8. CASE /\ Char = "." /\ Following \cap (Letters \cup {"*", QT_IDENT}) # {}
             /\ Settle(1, 1, "IDENTCONJ")
    <3>1. Here' = Ended(Here, 1, 1, "IDENTCONJ")
      BY <1>1, <2>8, HereEnded
    <3>2. ~Refused(text, Here)
      BY <2>6, <2>8, Looks DEF Refused
    <3>3. Following \cap Digits = {}
      <4>1. Lexible
        BY <1>1
      <4>2. "*" \in Signs
        BY DEF Signs
      <4>3. \A d \in Digits : d \notin Letters \cup {"*", QT_IDENT}
        BY <4>2, Apart
      <4>4. \A d, e \in Following : d = e
        BY DEF Following
      <4>5. QED
        BY <2>8, <4>3, <4>4
    <3>4. QED
      BY <2>6, <2>8, <3>1, <3>2, <3>3, Looks DEF ThenFirst, Settle
  <2>9. ASSUME Char \in {QT_STRING, QT_IDENT}
        PROVE  /\ Char \notin Marks /\ Char \notin Letters /\ Char \notin Digits
               /\ Char \notin Alone /\ Char # "?" /\ Char # "."
    <3>1. Char \notin Marks /\ Char \notin Letters /\ Char \notin Digits
      BY <2>9, Apart
    <3>2. QED
      BY <3>1 DEF Alone, Marks
  <2>10. CASE Char = QT_STRING /\ OpenQuote("STRING")
    <3>1. ~Refused(text, Here)
      BY <2>9, <2>10, Looks DEF Refused
    <3>2. QED
      BY <2>1, <2>9, <2>10, <3>1, Looks DEF ThenFirst
  <2>11. CASE Char = QT_IDENT /\ OpenQuote("IDENT")
    <3>1. ~Refused(text, Here)
      BY <2>9, <2>11, Looks DEF Refused
    <3>2. QED
      BY <2>1, <2>9, <2>11, <3>1, Apart, Looks DEF ThenFirst
  <2>12. CASE Char \notin Letters /\ StartsOperator(Char) /\ Advance(1, 1, "OP")
    <3>1. Here' = Longer(Here, 1, 1, "OP")
      BY <1>1, <2>12, HereLonger
    <3>2. PICK w \in Operators : w[1] = Char
      BY <2>12 DEF StartsOperator
    <3>3. /\ Char \notin Marks /\ Char \notin Digits
          /\ Char # QT_STRING /\ Char # QT_IDENT
      BY <3>2, OperatorFirst
    <3>4. Char \notin Alone /\ Char # "?" /\ Char # "."
      BY <3>3 DEF Alone, Marks
    <3>5. ~Refused(text, Here)
      BY <2>12, <3>4, Looks DEF Refused
    <3>6. QED
      BY <2>12, <3>1, <3>3, <3>4, <3>5, Looks DEF ThenFirst, Advance
  <2>13. QED
    BY <2>2, <2>3, <2>4, <2>5, <2>7, <2>8, <2>10, <2>11, <2>12 DEF First, Alone
<1>4. Going(text, Here)
  BY <1>1, <1>3, Looks DEF Going
<1>5. QED
  BY <1>1, <1>2, <1>3, <1>4 DEF Moved

LEMMA GeneralMoves == IInv /\ General => Moved
<1> SUFFICES ASSUME IInv, General PROVE Moved
  OBVIOUS
<1>1. mode = "GENERAL" /\ Lexible
  BY DEF General
<1>2. Then(text, Here) = ThenGeneral(text, Here) /\ Going(text, Here)
  BY <1>1, Looks DEF Then, Going
<1>3. CASE Char \in Letters \cup Digits /\ Advance(1, 1, "GENERAL")
  <2>1. Here' = Longer(Here, 1, 1, "GENERAL")
    BY <1>3, Looks, HereLonger
  <2>2. QED
    BY <1>1, <1>2, <1>3, <2>1, Looks DEF ThenGeneral, Moved, Advance
<1>4. CASE /\ Char \notin Letters \cup Digits
           /\ Settle(0, 0, WordType(Slice(newtoken.start, newtoken.end)))
  <2>1. Here' = Ended(Here, 0, 0, WordType(Read(text, Here)))
    BY <1>4, Looks, HereEnded
  <2>2. QED
    BY <1>1, <1>2, <1>4, <2>1, Looks DEF ThenGeneral, Moved, Settle
<1>5. QED
  BY <1>3, <1>4 DEF General

LEMMA NumberMoves == IInv /\ (Integer \/ Decimal) => Moved
<1> SUFFICES ASSUME IInv, Integer \/ Decimal PROVE Moved
  OBVIOUS
<1>1. mode \in {"INTEGER", "DECIMAL"} /\ Lexible
  BY DEF Integer, Decimal
<1>2. Going(text, Here) /\ "." \notin Digits
  BY <1>1, Looks, Apart DEF Going, Marks
<1>3. ASSUME NEW m, Advance(1, 1, m)
      PROVE  /\ Here' = Longer(Here, 1, 1, m)
             /\ UNCHANGED <<text, answer, tokens, reading>>
  BY <1>3, Looks, HereLonger DEF Advance
<1>4. ASSUME NEW type, Settle(0, 0, type)
      PROVE  /\ Here' = Ended(Here, 0, 0, type)
             /\ UNCHANGED <<text, answer, tokens, reading>>
  BY <1>4, Looks, HereEnded DEF Settle
<1>5. CASE Integer
  <2>1. Then(text, Here) = ThenInteger(text, Here) /\ mode # "IDLE"
    BY <1>5, Looks DEF Then, Integer
  <2>2. QED
    BY <1>2, <1>3, <1>4, <1>5, <2>1, Looks DEF ThenInteger, Moved, Integer
<1>6. CASE Decimal
  <2>1. Then(text, Here) = ThenDecimal(text, Here) /\ mode # "IDLE"
    BY <1>6, Looks DEF Then, Decimal
  <2>2. QED
    BY <1>2, <1>3, <1>4, <1>6, <2>1, Looks DEF ThenDecimal, Moved, Decimal
<1>7. QED
  BY <1>5, <1>6

LEMMA QuotedMoves == IInv /\ Quoted => Moved
<1> SUFFICES ASSUME IInv, Quoted PROVE Moved
  OBVIOUS
<1>1. mode \in {"STRING", "IDENT"} /\ Lexible
  BY DEF Quoted
<1>2. Going(text, Here)
  BY <1>1, Looks DEF Going
<1>3. ASSUME Advance(1, 1, mode)
      PROVE  /\ Here' = Longer(Here, 1, 1, mode)
             /\ UNCHANGED <<text, answer, tokens, reading>>
  BY <1>3, Looks, HereLonger DEF Advance
<1>4. ASSUME Settle(1, 0, mode)
      PROVE  /\ Here' = Ended(Here, 1, 0, mode)
             /\ UNCHANGED <<text, answer, tokens, reading>>
  BY <1>4, Looks, HereEnded DEF Settle
<1>5. CASE mode = "STRING"
  <2>1. Then(text, Here) = ThenQuoted(text, Here, QT_STRING)
    BY <1>5, Looks DEF Then
  <2>2. QED
    BY <1>2, <1>3, <1>4, <1>5, <2>1, Looks DEF ThenQuoted, Moved, Quoted
<1>6. CASE mode = "IDENT"
  <2>1. Then(text, Here) = ThenQuoted(text, Here, QT_IDENT)
    BY <1>6, Looks DEF Then
  <2>2. QED
    BY <1>2, <1>3, <1>4, <1>6, <2>1, Looks DEF ThenQuoted, Moved, Quoted
<1>7. QED
  BY <1>1, <1>5, <1>6

LEMMA OperatorMoves ==
  ASSUME IInv, Operator, mode' # "IDLE"
  PROVE  Moved
<1> DEFINE longer  == Slice(newtoken.start, newtoken.end + 1)
           shorter == Slice(newtoken.start, newtoken.end)
<1>1. mode = "OP" /\ Lexible
  BY DEF Operator
<1>2. Then(text, Here) = ThenOperator(text, Here)
  BY <1>1, Looks DEF Then
<1>3. longer = ReadMore(text, Here) /\ shorter = Read(text, Here)
  BY Looks
<1>4. ~Broken(text, Here) => Going(text, Here)
  BY <1>1, Looks DEF Going
<1>5. CASE longer \in Operators /\ Advance(1, 1, "OP")
  <2>1. Here' = Longer(Here, 1, 1, "OP")
    BY <1>5, Looks, HereLonger
  <2>2. QED
    BY <1>1, <1>2, <1>3, <1>4, <1>5, <2>1 DEF ThenOperator, Broken, Moved, Advance
<1>6. CASE longer \notin Operators /\ longer = <<"-", "-">> /\ Advance(1, 1, "COMMENT")
  <2>1. Here' = Longer(Here, 1, 1, "COMMENT")
    BY <1>6, Looks, HereLonger
  <2>2. QED
    BY <1>1, <1>2, <1>3, <1>4, <1>6, <2>1 DEF ThenOperator, Broken, Moved, Advance
<1>7. CASE /\ longer \notin Operators /\ longer # <<"-", "-">>
           /\ shorter \in Operators /\ Settle(0, 0, "OP")
  <2>1. Here' = Ended(Here, 0, 0, "OP")
    BY <1>7, Looks, HereEnded
  <2>2. QED
    BY <1>1, <1>2, <1>3, <1>4, <1>7, <2>1 DEF ThenOperator, Broken, Moved, Settle
<1>8. ~Leave("error")
  BY DEF Leave
<1>9. QED
  BY <1>5, <1>6, <1>7, <1>8 DEF Operator, StillOperator

LEMMA CommentMoves == IInv /\ Comment => Moved
<1> SUFFICES ASSUME IInv, Comment PROVE Moved
  OBVIOUS
<1>1. mode = "COMMENT" /\ Lexible
  BY DEF Comment
<1>2. Then(text, Here) = ThenComment(text, Here) /\ Going(text, Here)
  BY <1>1, Looks DEF Then, Going
<1>3. CASE Char \notin LineEnds /\ Advance(1, 0, "COMMENT")
  <2>1. Here' = Longer(Here, 1, 0, "COMMENT")
    BY <1>3, Looks, HereLonger
  <2>2. QED
    BY <1>1, <1>2, <1>3, <2>1, Looks DEF ThenComment, Moved, Advance
<1>4. CASE Char \in LineEnds
  <2>1. /\ offset' = offset + 1 /\ mode' = "NONE"
        /\ newtoken' = [newtoken EXCEPT !.start = offset + 1, !.end = offset + 1]
        /\ UNCHANGED <<text, answer, tokens, reading>>
    BY <1>4 DEF Comment
  <2>2. newtoken' = [type |-> newtoken.type, start |-> offset + 1, end |-> offset + 1]
    BY <2>1, Looks DEF Token
  <2>3. Here' = Fresh(Here.offset + 1, Here.token.type, "NONE")
    BY <2>1, <2>2 DEF Here, Fresh
  <2>4. QED
    BY <1>1, <1>2, <1>4, <2>1, <2>3, Looks DEF ThenComment, Moved
<1>5. QED
  BY <1>3, <1>4 DEF Comment

-----------------------------------------------------------------------------
\* How the loop ends, and the token it ends with.
Gives(x, f) ==
  /\ \/ f.mode = "DONE"
     \/ ~(f.offset < Len(x)) /\ f.mode \notin {"IDLE", "SKIP", "DONE"}
  /\ f.token.end # f.token.start
EndType(x, f) ==
  CASE f.mode = "INTEGER" -> "INT"
    [] f.mode = "DECIMAL" -> "DECIMAL"
    [] f.mode = "GENERAL" -> IF WordType(Read(x, f)) = "RESERVED" THEN "RESERVED"
                             ELSE "IDENT"
    [] OTHER -> "COUNT"
Closing(x, f) ==
  IF f.token.type = "COUNT" THEN [f.token EXCEPT !.type = EndType(x, f)]
  ELSE f.token

LEMMA Leaving ==
  ASSUME IInv, mode # "IDLE", mode' = "IDLE", Step, ~Return
  PROVE  /\ ~Going(text, Here) /\ ~Gives(text, Here)
         /\ answer' # "token" /\ UNCHANGED <<text, tokens, reading>>
<1>1. CASE Skip
  <2>1. mode = "SKIP" /\ ~Lexible /\ Leave("end")
    BY <1>1 DEF Skip, Advance
  <2>2. QED
    BY <2>1, Looks DEF Going, Gives, Leave
<1>2. CASE Invalid
  <2>1. /\ mode = "NONE" /\ Lexible /\ Leave("error")
        /\ Refused(text, Here)
    BY <1>2, Looks DEF Invalid, Refused
  <2>2. QED
    BY <2>1, Looks DEF Going, Gives, Leave
<1>3. CASE Operator
  <2>1. /\ mode = "OP" /\ Lexible /\ Leave("error")
        /\ Slice(newtoken.start, newtoken.end + 1) \notin Operators
        /\ Slice(newtoken.start, newtoken.end + 1) # <<"-", "-">>
        /\ Slice(newtoken.start, newtoken.end) \notin Operators
    BY <1>3 DEF Operator, StillOperator, Advance, Settle
  <2>2. Broken(text, Here)
    BY <2>1, Looks DEF Broken
  <2>3. QED
    BY <2>1, <2>2, Looks DEF Going, Gives, Leave
<1>4. CASE ReturnNothing
  <2>1. LoopEnds /\ newtoken.end = newtoken.start /\ Leave("end")
    BY <1>4 DEF ReturnNothing, HasToken
  <2>2. QED
    BY <2>1, Looks DEF LoopEnds, Going, Gives, Leave
<1>5. CASE First \/ General \/ Integer \/ Decimal \/ Quoted \/ Comment \/ Call
  BY <1>5 DEF First, General, Integer, Decimal, Quoted, Comment, Call, Advance,
              Settle, OpenQuote
<1>6. QED
  BY <1>1, <1>2, <1>3, <1>4, <1>5 DEF Step

LEMMA Returning ==
  ASSUME IInv, Return
  PROVE  /\ ~Going(text, Here) /\ Gives(text, Here)
         /\ newtoken' = Closing(text, Here)
         /\ mode' = "IDLE" /\ answer' = "token" /\ UNCHANGED <<text, offset>>
         /\ mode # "IDLE"
<1>1. /\ LoopEnds /\ newtoken.end # newtoken.start
      /\ mode' = "IDLE" /\ answer' = "token" /\ UNCHANGED <<text, offset>>
  BY DEF Return, HasToken
<1>2. ~Going(text, Here) /\ Gives(text, Here) /\ mode # "IDLE"
  BY <1>1, Looks DEF LoopEnds, Going, Gives
<1>3. EndType(text, Here) = TypeAtEnd
  BY Looks DEF EndType, TypeAtEnd
<1>4. newtoken' = Closing(text, Here)
  BY <1>3, Looks DEF Return, Closing
<1>5. QED
  BY <1>1, <1>2, <1>4

-----------------------------------------------------------------------------
\* The offset a token left behind, and where a call sets out from one.
Before(i) == IF i = 0 THEN 0 ELSE tokens[i].after
Start(o)  == Fresh(o, "COUNT", "SKIP")
NameAt(o) == Fresh(o, "COUNT", "NONE")

\* From c the loop comes to the i-th token, or behind the last to none.
Fetches(i, f) ==
  IF i \in DOMAIN tokens
  THEN /\ Gives(text, f) /\ f.offset = tokens[i].after
       /\ Closing(text, f) = tokens[i].token
  ELSE ~Gives(text, f)
Found(i, c) == \E f : Lands(text, c, f) /\ Fetches(i, f)

\* A name that is not in quotes.  What is known of the tokens a second reading
\* starts from.
Name(t) == t.token.type = "IDENT" /\ t.token.end = t.after
Shape(t) ==
  /\ t.token.type = "RESERVED" => t.token.end = t.after
  /\ Name(t) => t.token.start < Len(text) /\ text[t.token.start + 1] \in Letters
  /\ t.token.type = "IDENT" /\ ~Name(t) =>
       t.after = t.token.end + 1 /\ text[t.after] = QT_IDENT

Recorded ==
  \A i \in DOMAIN tokens :
    /\ Found(i, Start(Before(i - 1)))
    /\ Shape(tokens[i])
    /\ Name(tokens[i]) => Found(i, NameAt(tokens[i].token.start))

\* What the first reading goes through, it goes through from the offset it was
\* called at, and in a word from its first character.
Plain ==
  mode = "GENERAL" \/ (mode = "DONE" /\ newtoken.type = "IDENT" /\ newtoken.end = offset)
FirstTime ==
  reading.from = 0 =>
    /\ mode = "IDLE" /\ answer = "token" => offset = Before(Len(tokens))
    /\ mode # "IDLE" => Leads(text, Start(Before(Len(tokens))), Here)
    /\ Plain => /\ Leads(text, NameAt(newtoken.start), Here)
                /\ WordSoFar(text, newtoken.start, newtoken.end)

AllRead ==
  reading.from > 0 \/ (mode = "IDLE" /\ answer # "token") =>
    Found(Len(tokens) + 1, Start(Before(Len(tokens))))

\* A second reading is at a token of the first, or at the name it starts from.
Placed ==
  LET i == reading.next
  IN \/ /\ i = reading.from /\ Name(tokens[i])
        /\ offset = tokens[i].token.start
     \/ i \in 2..(Len(tokens) + 1) /\ offset = tokens[i - 1].after
Coming ==
  /\ mode = "IDLE" /\ answer = "token" => Placed
  /\ mode # "IDLE" => /\ reading.next \in 1..(Len(tokens) + 1)
                      /\ Found(reading.next, Here)

\* At a name in quotes it goes over the word between them.
InName(t) ==
  /\ mode = "IDLE" /\ answer = "token" => offset = t.start
  /\ mode # "IDLE" =>
       \/ mode \in {"SKIP", "NONE"} /\ offset = t.start
       \/ mode = "GENERAL" /\ newtoken.start = t.start /\ offset <= t.end
       \/ mode = "DONE" /\ newtoken.start = t.start /\ newtoken.end = t.end

SecondTime ==
  reading.from > 0 =>
    LET first == tokens[reading.from]
    IN /\ reading.from \in DOMAIN tokens /\ reading.next >= reading.from
       /\ first.token.type \in {"RESERVED", "IDENT"}
       /\ ~IsQuoted(first) => Coming
       /\ /\ IsQuoted(first) /\ reading.next = reading.from
          /\ Word(Slice(first.token.start, first.token.end))
          => InName(first.token)

AInv == Recorded /\ FirstTime /\ AllRead /\ SecondTime

\* Tokens and offsets.
LEMMA TokensThere ==
  ASSUME IInv
  PROVE  /\ Len(tokens) \in Nat /\ DOMAIN tokens = 1..Len(tokens)
         /\ \A i \in DOMAIN tokens :
              /\ tokens[i].token \in Token /\ tokens[i].after \in Nat
              /\ tokens[i].token.start \in Nat /\ tokens[i].token.end \in Nat
              /\ tokens[i].token.start < tokens[i].token.end
              /\ tokens[i].token.end <= tokens[i].after
              /\ tokens[i].after <= Len(text)
<1> DEFINE E == [token : Token, after : Nat]
<1>1. tokens \in Seq(E)
  BY DEF IInv, Inv, TypeOK
<1>2. Len(tokens) \in Nat /\ DOMAIN tokens = 1..Len(tokens)
  BY <1>1
<1>3. \A i \in DOMAIN tokens : tokens[i] \in E
  <2> HIDE DEF E
  <2>1. QED
    BY <1>1, <1>2
<1>4. \A i \in DOMAIN tokens : 
        /\ tokens[i].token \in Token /\ tokens[i].after \in Nat
        /\ tokens[i].token.start \in Nat /\ tokens[i].token.end \in Nat
  BY <1>3 DEF Token
<1>5. QED
  BY <1>2, <1>4 DEF IInv, Inv, InOrder

LEMMA NameInQuotes ==
  ASSUME IInv, NEW i \in DOMAIN tokens, Shape(tokens[i]),
         tokens[i].token.type \in {"RESERVED", "IDENT"}
  PROVE  IsQuoted(tokens[i]) <=>
           tokens[i].token.type = "IDENT" /\ ~Name(tokens[i])
BY TokensThere DEF IsQuoted, Name, Shape

\* What has been found stays so with the text and the tokens.
LEMMA RecordedKept ==
  ASSUME UNCHANGED <<text, tokens>>
  PROVE  /\ Recorded => Recorded'
         /\ \A i, c : Found(i, c) => Found(i, c)'
         /\ \A i : Before(i)' = Before(i)
BY DEF Recorded, Found, Fetches, Before, Shape, Name

\* The first call, and the start of every other.
LEMMA InitAgain == Init => AInv
<1> SUFFICES ASSUME Init PROVE AInv
  OBVIOUS
<1>1. Len(tokens) = 0 /\ DOMAIN tokens = {} /\ ~(reading.from > 0)
  BY DEF Init
<1>2. mode = "IDLE" /\ answer = "token" /\ offset = Before(Len(tokens))
  BY <1>1 DEF Init, Before
<1>3. QED
  BY <1>1, <1>2 DEF AInv, Recorded, FirstTime, AllRead, SecondTime, Plain

LEMMA CallAgain == IInv /\ AInv /\ Call => AInv'
<1> SUFFICES ASSUME IInv, AInv, Call PROVE AInv'
  OBVIOUS
<1>1. /\ mode = "IDLE" /\ answer = "token" /\ mode' = "SKIP"
      /\ UNCHANGED <<text, offset, answer, tokens, reading>>
      /\ Here' = Start(offset) /\ ~Plain'
  BY DEF Call, Here, Start, Fresh, Plain
<1>2. Recorded' /\ (\A i, c : Found(i, c) => Found(i, c)')
      /\ \A i : Before(i)' = Before(i)
  BY <1>1, RecordedKept DEF AInv
<1>3. FirstTime'
  <2>1. reading.from = 0 => Here' = Start(Before(Len(tokens)))
    BY <1>1 DEF AInv, FirstTime
  <2>2. QED
    BY <1>1, <1>2, <2>1, LeadsSelf DEF FirstTime
<1>4. AllRead'
  BY <1>1, <1>2 DEF AInv, AllRead
<1>5. SecondTime'
  <2> SUFFICES ASSUME reading.from > 0 PROVE SecondTime'
    BY <1>1 DEF SecondTime
  <2> DEFINE i == reading.next
             first == tokens[reading.from]
  <2>1. /\ reading.from \in DOMAIN tokens /\ i >= reading.from
        /\ first.token.type \in {"RESERVED", "IDENT"}
        /\ ~IsQuoted(first) => Placed
        /\ /\ IsQuoted(first) /\ i = reading.from
           /\ Word(Slice(first.token.start, first.token.end))
           => offset = first.token.start
    BY <1>1 DEF AInv, SecondTime, Coming, InName
  <2>2. \A t : IsQuoted(t)' <=> IsQuoted(t)
    BY <1>1 DEF IsQuoted
  <2>3. ASSUME ~IsQuoted(first)
        PROVE  i \in 1..(Len(tokens) + 1) /\ Found(i, Start(offset))
    <3>1. CASE i = reading.from /\ Name(tokens[i]) /\ offset = tokens[i].token.start
      <4>1. /\ i \in DOMAIN tokens /\ Found(i, NameAt(offset))
            /\ offset < Len(text) /\ text[offset + 1] \in Letters /\ offset \in Nat
        BY <2>1, <3>1, TokensThere DEF AInv, Recorded, Shape
      <4>2. Start(offset).offset = offset /\ Start(offset).mode = "SKIP"
            /\ Start(offset).token = [type |-> "COUNT", start |-> offset, end |-> offset]
        BY DEF Start, Fresh
      <4>3. Going(text, Start(offset))
        BY <4>1, <4>2 DEF Going
      <4>4. text[offset + 1] \notin Blanks
        BY <4>1, Apart
      <4>5. Then(text, Start(offset)) = Longer(Start(offset), 0, 0, "NONE")
        BY <4>2, <4>4 DEF Then, ThenSkip, At
      <4>6. Longer(Start(offset), 0, 0, "NONE") = NameAt(offset)
        BY <4>1, <4>2 DEF Longer, NameAt, Fresh
      <4>7. Found(i, Start(offset))
        BY <4>1, <4>3, <4>5, <4>6, LandsBefore DEF Found
      <4>8. QED
        BY <4>1, <4>7, TokensThere
    <3>2. CASE i \in 2..(Len(tokens) + 1) /\ offset = tokens[i - 1].after
      <4>1. i - 1 # 0 /\ i \in 1..(Len(tokens) + 1) /\ Before(i - 1) = offset
            /\ (i \in DOMAIN tokens \/ i = Len(tokens) + 1)
        BY <3>2, TokensThere DEF Before
      <4>2. CASE i \in DOMAIN tokens
        BY <4>1, <4>2 DEF AInv, Recorded
      <4>3. CASE i = Len(tokens) + 1
        <5>1. i - 1 = Len(tokens)
          BY <4>3, TokensThere
        <5>2. Found(Len(tokens) + 1, Start(Before(Len(tokens))))
          BY DEF AInv, AllRead
        <5>3. QED
          BY <4>1, <4>3, <5>1, <5>2
      <4>4. QED
        BY <4>1, <4>2, <4>3
    <3>3. QED
      BY <2>1, <2>3, <3>1, <3>2 DEF Placed
  <2>4. ~IsQuoted(first) => Coming'
    BY <1>1, <1>2, <2>3 DEF Coming
  <2>5. ASSUME IsQuoted(first), i = reading.from,
               Word(Slice(first.token.start, first.token.end))
        PROVE  InName(first.token)'
    BY <1>1, <2>1, <2>5 DEF InName
  <2>6. Slice(first.token.start, first.token.end)' =
          Slice(first.token.start, first.token.end)
    BY <1>1 DEF Slice
  <2>7. QED
    BY <1>1, <2>1, <2>2, <2>4, <2>5, <2>6 DEF SecondTime
<1>6. QED
  BY <1>2, <1>3, <1>4, <1>5 DEF AInv

-----------------------------------------------------------------------------
\* A step of the loop.  A word is only reached from its first character.
LEMMA PlainBefore ==
  ASSUME IInv, Moved, Plain'
  PROVE  /\ mode \in {"NONE", "GENERAL"} /\ newtoken'.start = newtoken.start
         /\ mode' = "DONE" => mode = "GENERAL" /\ newtoken'.end = newtoken.end
<1>1. /\ Here' = Then(text, Here)
      /\ mode' = Then(text, Here).mode /\ newtoken' = Then(text, Here).token
      /\ offset' = Then(text, Here).offset
  BY DEF Moved, Here
<1>2. /\ newtoken.end \in Nat /\ offset \in Nat
      /\ mode \in {"STRING", "IDENT"} => newtoken.end = offset
  BY Kinds DEF IInv, InMode, SoFar
<1>3. mode' = "GENERAL" \/ (mode' = "DONE" /\ newtoken'.type = "IDENT"
                              /\ newtoken'.end = offset')
  BY DEF Plain
<1>4. mode # "SKIP"
  <2> SUFFICES ASSUME mode = "SKIP" PROVE FALSE
    OBVIOUS
  <2>1. Then(text, Here) = ThenSkip(text, Here)
    BY Looks DEF Then
  <2>2. QED
    BY <1>1, <1>3, <2>1 DEF ThenSkip, Fresh, Longer
<1>5. mode \notin {"INTEGER", "DECIMAL"}
  <2> SUFFICES ASSUME mode \in {"INTEGER", "DECIMAL"} PROVE FALSE
    OBVIOUS
  <2>1. Then(text, Here) \in {ThenInteger(text, Here), ThenDecimal(text, Here)}
    BY Looks DEF Then
  <2>2. QED
    BY <1>1, <1>3, <2>1 DEF ThenInteger, ThenDecimal, Ended, Longer
<1>6. mode \notin {"STRING", "IDENT"}
  <2> SUFFICES ASSUME mode \in {"STRING", "IDENT"} PROVE FALSE
    OBVIOUS
  <2>1. PICK q : Then(text, Here) = ThenQuoted(text, Here, q)
    BY Looks DEF Then
  <2>2. QED
    BY <1>1, <1>2, <1>3, <2>1, Looks DEF ThenQuoted, Ended, Longer
<1>7. mode # "OP"
  <2> SUFFICES ASSUME mode = "OP" PROVE FALSE
    OBVIOUS
  <2>1. Then(text, Here) = ThenOperator(text, Here)
    BY Looks DEF Then
  <2>2. QED
    BY <1>1, <1>3, <2>1 DEF ThenOperator, Ended, Longer
<1>8. mode # "COMMENT"
  <2> SUFFICES ASSUME mode = "COMMENT" PROVE FALSE
    OBVIOUS
  <2>1. Then(text, Here) = ThenComment(text, Here)
    BY Looks DEF Then
  <2>2. QED
    BY <1>1, <1>3, <2>1 DEF ThenComment, Fresh, Longer
<1>9. mode \in {"NONE", "GENERAL"}
  <2>1. mode \notin {"IDLE", "DONE"}
    BY Looks DEF Moved, Going
  <2>2. QED
    BY <1>4, <1>5, <1>6, <1>7, <1>8, <2>1 DEF IInv, Inv, TypeOK
<1>10. CASE mode = "NONE"
  <2>1. Then(text, Here) = ThenFirst(text, Here)
    BY <1>10, Looks DEF Then
  <2>2. \/ \E t \in Alone \cup {"?", "IDENTCONJ"} : \E n :
             Then(text, Here) = Ended(Here, n, 1, t)
        \/ \E m \in {"INTEGER", "GENERAL", "DECIMAL", "OP"} :
             Then(text, Here) = Longer(Here, 1, 1, m)
        \/ \E m \in {"STRING", "IDENT"} :
             Then(text, Here) = Fresh(Here.offset + 1, Here.token.type, m)
    BY <2>1 DEF ThenFirst
  <2>3. ASSUME NEW t \in Alone \cup {"?", "IDENTCONJ"}, NEW n,
               Then(text, Here) = Ended(Here, n, 1, t)
        PROVE  FALSE
    <3>1. mode' = "DONE" /\ newtoken'.type = t
      BY <1>1, <2>3 DEF Ended
    <3>2. QED
      BY <1>3, <3>1 DEF Alone
  <2>4. ASSUME NEW m \in {"STRING", "IDENT"},
               Then(text, Here) = Fresh(Here.offset + 1, Here.token.type, m)
        PROVE  FALSE
    <3>1. mode' = m
      BY <1>1, <2>4 DEF Fresh
    <3>2. QED
      BY <1>3, <3>1
  <2>5. PICK m \in {"INTEGER", "GENERAL", "DECIMAL", "OP"} :
          Then(text, Here) = Longer(Here, 1, 1, m)
    BY <2>2, <2>3, <2>4
  <2>6. newtoken'.start = newtoken.start /\ newtoken'.end = newtoken.end + 1
        /\ offset' = offset + 1 /\ mode' = m
    BY <1>1, <2>5, Looks DEF Longer
  <2>7. mode' # "DONE"
    BY <2>6
  <2>8. QED
    BY <1>10, <2>6, <2>7
<1>11. CASE mode = "GENERAL"
  <2>1. Then(text, Here) = ThenGeneral(text, Here)
    BY <1>11, Looks DEF Then
  <2>2. newtoken'.start = newtoken.start
        /\ (mode' = "DONE" => newtoken'.end = newtoken.end)
    BY <1>1, <1>2, <2>1, Looks DEF ThenGeneral, Ended, Longer
  <2>3. QED
    BY <1>11, <2>2
<1>12. QED
  BY <1>9, <1>10, <1>11

LEMMA FirstTimeMoves ==
  ASSUME IInv, IInv', FirstTime, Moved, mode' # "IDLE"
  PROVE  FirstTime'
<1> SUFFICES ASSUME reading.from = 0 PROVE FirstTime'
  BY DEF FirstTime, Moved
<1>1. /\ Going(text, Here) /\ Here' = Then(text, Here)
      /\ mode # "IDLE" /\ UNCHANGED <<text, answer, tokens, reading>>
  BY DEF Moved
<1>2. Leads(text, Start(Before(Len(tokens))), Here')
  BY <1>1, LeadsFurther DEF FirstTime
<1>3. ASSUME Plain'
      PROVE  /\ Leads(text, NameAt(newtoken'.start), Here')
             /\ WordSoFar(text, newtoken'.start, newtoken'.end)
  <2>1. /\ mode \in {"NONE", "GENERAL"} /\ newtoken'.start = newtoken.start
        /\ mode' = "DONE" => mode = "GENERAL" /\ newtoken'.end = newtoken.end
    BY <1>3, PlainBefore
  <2>2. Leads(text, NameAt(newtoken.start), Here)
    <3>1. CASE mode = "GENERAL"
      BY <3>1 DEF FirstTime, Plain
    <3>2. CASE mode = "NONE"
      <4>1. newtoken \in Token /\ newtoken.start = offset /\ newtoken.end = offset
            /\ newtoken.type = "COUNT"
        BY <3>2, Kinds DEF IInv, InMode
      <4>2. newtoken = [type |-> "COUNT", start |-> offset, end |-> offset]
        BY <4>1 DEF Token
      <4>3. Here = NameAt(newtoken.start)
        BY <3>2, <4>1, <4>2 DEF Here, NameAt, Fresh
      <4>4. QED
        BY <4>3, LeadsSelf
    <3>3. QED
      BY <2>1, <3>1, <3>2
  <2>3. Leads(text, NameAt(newtoken'.start), Here')
    BY <1>1, <2>1, <2>2, LeadsFurther
  <2>4. WordSoFar(text, newtoken'.start, newtoken'.end)
    <3>1. CASE mode' = "GENERAL"
      BY <1>1, <3>1 DEF IInv, InMode, SoFar
    <3>2. CASE mode' = "DONE"
      BY <2>1, <3>2 DEF IInv, InMode, SoFar
    <3>3. QED
      BY <1>3, <3>1, <3>2 DEF Plain
  <2>5. QED
    BY <2>3, <2>4
<1>4. Before(Len(tokens))' = Before(Len(tokens))
  BY <1>1 DEF Before
<1>5. QED
  BY <1>1, <1>2, <1>3, <1>4 DEF FirstTime

\* The word between the quotes of a name, and the quote that follows it.
LEMMA WordInQuotes ==
  ASSUME IInv, Recorded, NEW i \in DOMAIN tokens,
         tokens[i].token.type = "IDENT", IsQuoted(tokens[i]),
         Word(Slice(tokens[i].token.start, tokens[i].token.end))
  PROVE  LET s == tokens[i].token.start
             e == tokens[i].token.end
         IN /\ s \in Nat /\ e \in Nat /\ s < e /\ e < Len(text) /\ Len(text) \in Nat
            /\ text[s + 1] \in Letters
            /\ \A p \in s..(e - 1) : text[p + 1] \in Letters \cup Digits
            /\ text[e + 1] = QT_IDENT
<1> DEFINE s == tokens[i].token.start
           e == tokens[i].token.end
<1>1. /\ s \in Nat /\ e \in Nat /\ s < e /\ tokens[i].after <= Len(text)
      /\ tokens[i].after \in Nat /\ text \in Seq(Characters) /\ Len(text) \in Nat
  BY TokensThere, Kinds DEF IInv
<1>2. Shape(tokens[i])
  BY DEF Recorded
<1>3. ~Name(tokens[i])
  BY <1>2, NameInQuotes
<1>4. tokens[i].after = e + 1 /\ text[e + 1] = QT_IDENT
  BY <1>2, <1>3 DEF Shape
<1>5. e < Len(text)
  BY <1>1, <1>4
<1>6. Part(text, s, e)[1] \in Letters /\ All(Part(text, s, e), Letters \cup Digits)
  BY DEF Slice, Part, Word
<1>7. Part(text, s, e)[1] = text[s + 1]
  <2> HIDE DEF s, e
  <2>1. e <= Len(text)
    BY <1>1, <1>5
  <2>2. QED
    BY <1>1, <2>1, PartFacts
<1>8. Run(text, s, e, Letters \cup Digits)
  BY <1>1, <1>5, <1>6, AllAt
<1>9. QED
  BY <1>1, <1>4, <1>5, <1>6, <1>7, <1>8 DEF Run

LEMMA InNameMoves ==
  ASSUME IInv, Recorded, Moved, mode' # "IDLE", NEW i \in DOMAIN tokens,
         tokens[i].token.type = "IDENT", IsQuoted(tokens[i]),
         Word(Slice(tokens[i].token.start, tokens[i].token.end)),
         InName(tokens[i].token)
  PROVE  InName(tokens[i].token)'
<1> DEFINE t == tokens[i].token
           s == t.start
           e == t.end
<1>1. /\ Here' = Then(text, Here)
      /\ mode' = Then(text, Here).mode /\ newtoken' = Then(text, Here).token
      /\ offset' = Then(text, Here).offset
      /\ UNCHANGED <<text, tokens>> /\ mode \notin {"IDLE", "DONE"}
  BY Looks DEF Moved, Here, Going
<1>2. /\ s \in Nat /\ e \in Nat /\ s < e /\ e < Len(text) /\ Len(text) \in Nat
      /\ text[s + 1] \in Letters
      /\ \A p \in s..(e - 1) : text[p + 1] \in Letters \cup Digits
      /\ text[e + 1] = QT_IDENT
  BY WordInQuotes
<1>3. \/ mode \in {"SKIP", "NONE"} /\ offset = s
      \/ mode = "GENERAL" /\ newtoken.start = s /\ offset <= e
  BY <1>1 DEF InName
<1>4. /\ offset \in Nat /\ At(text, Here) = text[offset + 1]
      /\ Here.offset = offset /\ Here.mode = mode /\ Here.token = newtoken
      /\ newtoken.start \in Nat /\ newtoken.end \in Nat
      /\ mode \in {"SKIP", "NONE"} => newtoken.start = offset /\ newtoken.end = offset
  BY Looks, Kinds DEF Char, IInv
<1> HIDE DEF s, e
<1>5. \/ mode' \in {"SKIP", "NONE"} /\ offset' = s
      \/ mode' = "GENERAL" /\ newtoken'.start = s /\ offset' <= e
      \/ mode' = "DONE" /\ newtoken'.start = s /\ newtoken'.end = e
  <2>1. CASE mode = "SKIP"
    <3>1. Then(text, Here) = ThenSkip(text, Here)
      BY <2>1, <1>4 DEF Then
    <3>2. At(text, Here) \notin Blanks
      BY <1>2, <1>3, <1>4, <2>1, Apart
    <3>3. Then(text, Here) = Longer(Here, 0, 0, "NONE")
      BY <3>1, <3>2 DEF ThenSkip
    <3>4. mode' = "NONE" /\ offset' = offset + 0
      BY <1>1, <1>4, <3>3 DEF Longer
    <3>5. QED
      BY <1>3, <1>4, <2>1, <3>4
  <2>2. CASE mode = "NONE"
    <3>1. Then(text, Here) = ThenFirst(text, Here)
      BY <2>2, <1>4 DEF Then
    <3>2. At(text, Here) \in Letters
      BY <1>2, <1>3, <1>4, <2>2
    <3>3. At(text, Here) \notin Marks /\ At(text, Here) \notin Digits
      BY <3>2, Apart
    <3>4. At(text, Here) \notin Alone /\ At(text, Here) # "?"
      BY <3>3 DEF Alone, Marks
    <3>5. Then(text, Here) = Longer(Here, 1, 1, "GENERAL")
      BY <3>1, <3>2, <3>3, <3>4 DEF ThenFirst
    <3>6. mode' = "GENERAL" /\ offset' = offset + 1 /\ newtoken'.start = newtoken.start
      BY <1>1, <1>4, <3>5 DEF Longer
    <3>7. QED
      BY <1>2, <1>3, <1>4, <2>2, <3>6
  <2>3. CASE mode = "GENERAL"
    <3>1. Then(text, Here) = ThenGeneral(text, Here)
      BY <2>3, <1>4 DEF Then
    <3>2. newtoken.end = offset /\ newtoken.start = s /\ offset <= e
          /\ newtoken.start < newtoken.end
      BY <1>3, <2>3 DEF IInv, InMode, SoFar, WordSoFar
    <3>3. CASE offset < e
      <4>1. offset \in s..(e - 1)
        BY <1>2, <1>4, <3>2, <3>3
      <4>2. At(text, Here) \in Letters \cup Digits
        BY <1>2, <1>4, <4>1
      <4>3. Then(text, Here) = Longer(Here, 1, 1, "GENERAL")
        BY <3>1, <4>2 DEF ThenGeneral
      <4>4. mode' = "GENERAL" /\ offset' = offset + 1 /\ newtoken'.start = newtoken.start
        BY <1>1, <1>4, <4>3 DEF Longer
      <4>5. QED
        BY <1>2, <1>4, <3>2, <3>3, <4>4
    <3>4. CASE offset = e
      <4>1. At(text, Here) = QT_IDENT
        BY <1>2, <1>4, <3>4
      <4>2. At(text, Here) \notin Letters \cup Digits
        BY <4>1, Apart
      <4>3. Then(text, Here) = Ended(Here, 0, 0, WordType(Read(text, Here)))
        BY <3>1, <4>2 DEF ThenGeneral
      <4>4. /\ mode' = "DONE" /\ newtoken'.start = newtoken.start
            /\ newtoken'.end = newtoken.end + 0
        BY <1>1, <1>4, <4>3 DEF Ended
      <4>5. QED
        BY <1>4, <3>2, <3>4, <4>4
    <3>5. QED
      BY <1>2, <1>4, <3>2, <3>3, <3>4
  <2>4. QED
    BY <1>3, <2>1, <2>2, <2>3
<1>6. t' = t
  BY <1>1
<1>7. QED
  BY <1>5, <1>6 DEF InName, s, e

LEMMA SecondTimeMoves ==
  ASSUME IInv, Recorded, SecondTime, Moved, mode' # "IDLE"
  PROVE  SecondTime'
<1> SUFFICES ASSUME reading.from > 0 PROVE SecondTime'
  BY DEF SecondTime, Moved
<1> DEFINE first == tokens[reading.from]
<1>1. /\ Going(text, Here) /\ Here' = Then(text, Here)
      /\ mode # "IDLE" /\ UNCHANGED <<text, answer, tokens, reading>>
  BY DEF Moved
<1>2. /\ reading.from \in DOMAIN tokens /\ reading.next >= reading.from
      /\ first.token.type \in {"RESERVED", "IDENT"}
      /\ ~IsQuoted(first) => Coming
      /\ /\ IsQuoted(first) /\ reading.next = reading.from
         /\ Word(Slice(first.token.start, first.token.end))
         => InName(first.token)
  BY DEF SecondTime
<1>3. \A t : IsQuoted(t)' <=> IsQuoted(t)
  BY <1>1 DEF IsQuoted
<1>4. Slice(first.token.start, first.token.end)' =
        Slice(first.token.start, first.token.end)
  BY <1>1 DEF Slice
<1>5. ASSUME Coming PROVE Coming'
  <2>1. reading.next \in 1..(Len(tokens) + 1) /\ Found(reading.next, Here)
    BY <1>1, <1>5 DEF Coming
  <2>2. Found(reading.next, Here')
    BY <1>1, <2>1, LandsFurther DEF Found
  <2>3. Found(reading.next, Here)'
    BY <1>1, <2>2, RecordedKept
  <2>4. QED
    BY <1>1, <2>1, <2>3 DEF Coming
<1>6. ASSUME IsQuoted(first), Word(Slice(first.token.start, first.token.end)),
             InName(first.token)
      PROVE  InName(first.token)'
  <2>1. first.token.type = "IDENT"
    BY <1>2, <1>6, NameInQuotes DEF Recorded
  <2>2. QED
    BY <1>1, <1>2, <1>6, <2>1, InNameMoves
<1>7. QED
  BY <1>1, <1>2, <1>3, <1>4, <1>5, <1>6 DEF SecondTime

LEMMA MovesAgain ==
  ASSUME IInv, IInv', AInv, Moved, mode' # "IDLE"
  PROVE  AInv'
<1>1. UNCHANGED <<text, answer, tokens, reading>>
  BY DEF Moved
<1>2. Recorded'
  BY <1>1, RecordedKept DEF AInv
<1>3. FirstTime' /\ SecondTime'
  BY FirstTimeMoves, SecondTimeMoves DEF AInv
<1>4. AllRead'
  <2>1. reading.from > 0 => Found(Len(tokens) + 1, Start(Before(Len(tokens))))
    BY DEF AInv, AllRead
  <2>2. Before(Len(tokens))' = Before(Len(tokens))
    BY <1>1 DEF Before
  <2>3. QED
    BY <1>1, <2>1, <2>2, RecordedKept DEF AllRead
<1>5. QED
  BY <1>2, <1>3, <1>4 DEF AInv

-----------------------------------------------------------------------------
\* A call that finds no token leaves the others as they were found.
LEMMA LeaveAgain ==
  ASSUME IInv, AInv, mode # "IDLE", mode' = "IDLE", Step, ~Return
  PROVE  AInv'
<1>1. /\ ~Going(text, Here) /\ ~Gives(text, Here)
      /\ answer' # "token" /\ UNCHANGED <<text, tokens, reading>>
  BY Leaving
<1>2. /\ Recorded' /\ (\A i, c : Found(i, c) => Found(i, c)')
      /\ \A i : Before(i)' = Before(i)
  BY <1>1, RecordedKept DEF AInv
<1>3. FirstTime'
  BY <1>1 DEF FirstTime, Plain
<1>4. AllRead'
  <2>1. Found(Len(tokens) + 1, Start(Before(Len(tokens))))
    <3>1. CASE reading.from > 0
      BY <3>1 DEF AInv, AllRead
    <3>2. CASE ~(reading.from > 0)
      <4>1. reading.from = 0
        BY <3>2 DEF IInv, Inv, TypeOK
      <4>2. Lands(text, Start(Before(Len(tokens))), Here)
        BY <4>1, <1>1 DEF AInv, FirstTime, Lands
      <4>3. Len(tokens) + 1 \notin DOMAIN tokens
        BY TokensThere
      <4>4. QED
        BY <1>1, <4>2, <4>3 DEF Found, Fetches
    <3>3. QED
      BY <3>1, <3>2
  <2>2. QED
    BY <1>1, <1>2, <2>1 DEF AllRead
<1>5. SecondTime'
  <2> SUFFICES ASSUME reading.from > 0 PROVE SecondTime'
    BY <1>1 DEF SecondTime
  <2>1. /\ reading.from \in DOMAIN tokens /\ reading.next >= reading.from
        /\ tokens[reading.from].token.type \in {"RESERVED", "IDENT"}
    BY DEF AInv, SecondTime
  <2>2. Coming' /\ \A t : InName(t)'
    BY <1>1 DEF Coming, InName
  <2>3. QED
    BY <1>1, <2>1, <2>2 DEF SecondTime
<1>6. QED
  BY <1>2, <1>3, <1>4, <1>5 DEF AInv

\* The token that ends a call of the first reading: what a second reading has
\* to know of it.
LEMMA EntryShape ==
  ASSUME IInv, FirstTime, reading.from = 0, Return, NEW u, Entry(u)
  PROVE  /\ Shape(u)
         /\ Name(u) => Leads(text, NameAt(u.token.start), Here)
<1>1. /\ LoopEnds /\ newtoken.end # newtoken.start /\ mode # "IDLE"
      /\ newtoken.start \in Nat /\ newtoken.end \in Nat /\ offset \in Nat
      /\ newtoken.start < newtoken.end /\ newtoken.end <= offset
      /\ offset <= Len(text) /\ Len(text) \in Nat
  BY Kinds DEF Return, IInv, HasToken, LoopEnds
<1>2. /\ u.token.start = newtoken.start /\ u.token.end = newtoken.end
      /\ u.token.type = IF newtoken.type = "COUNT" THEN TypeAtEnd ELSE newtoken.type
      /\ u.after = offset
  BY DEF Entry
<1>3. CASE mode = "DONE"
  <2>1. Done(text, newtoken.type, newtoken.start, newtoken.end, offset)
    BY <1>3 DEF IInv, WhenDone
  <2>2. u.token.type = newtoken.type
    BY <1>2, <2>1 DEF Done
  <2>3. u.token.type = "RESERVED" => u.token.end = u.after
    BY <1>2, <2>1, <2>2 DEF Done
  <2>4. u.token.type = "IDENT" /\ ~Name(u) =>
          u.after = u.token.end + 1 /\ text[u.after] = QT_IDENT
    BY <1>2, <2>1, <2>2 DEF Done, Closed, Name
  <2>5. Name(u) => Plain
    BY <1>2, <1>3, <2>2 DEF Name, Plain
  <2>6. QED
    BY <1>1, <1>2, <2>3, <2>4, <2>5 DEF Shape, FirstTime, WordSoFar
<1>4. CASE mode # "DONE"
  <2>1. newtoken.type = "COUNT" /\ u.token.type = TypeAtEnd
    BY <1>1, <1>2, <1>4, EndModes
  <2>2. u.token.type \in {"RESERVED", "IDENT"} => mode = "GENERAL"
    BY <2>1 DEF TypeAtEnd
  <2>3. u.token.type \in {"RESERVED", "IDENT"} =>
          mode = "GENERAL" /\ newtoken.end = offset
    BY <1>1, <1>4, <2>2, EndModes
  <2>4. Name(u) => Plain
    BY <2>3 DEF Name, Plain
  <2>5. QED
    BY <1>1, <1>2, <2>3, <2>4 DEF Shape, FirstTime, WordSoFar, Name
<1>5. QED
  BY <1>3, <1>4

LEMMA ReturnFirst ==
  ASSUME IInv, IInv', AInv, Return, reading.from = 0
  PROVE  AInv'
<1> DEFINE n == Len(tokens)
           u == [token |-> Closing(text, Here), after |-> offset]
<1>1. /\ ~Going(text, Here) /\ Gives(text, Here)
      /\ newtoken' = Closing(text, Here)
      /\ mode' = "IDLE" /\ answer' = "token" /\ UNCHANGED <<text, offset>>
      /\ mode # "IDLE" /\ Here.offset = offset
  BY Returning, Looks
<1>2. tokens' = Append(tokens, u) /\ reading' = reading
  BY <1>1 DEF Return
<1>3. n \in Nat /\ DOMAIN tokens = 1..n /\ n + 1 # 0 /\ n + 1 \notin DOMAIN tokens
  BY TokensThere
<1>4. /\ Len(tokens') = n + 1 /\ DOMAIN tokens' = 1..(n + 1)
      /\ tokens'[n + 1] = u /\ \A i \in DOMAIN tokens : tokens'[i] = tokens[i]
  <2>1. tokens \in Seq([token : Token, after : Nat])
    BY DEF IInv, Inv, TypeOK
  <2> HIDE DEF u
  <2>2. QED
    BY <1>2, <1>3, <2>1
<1>5. Entry(u)
  <2>1. newtoken \in Token /\ EndType(text, Here) = TypeAtEnd
    BY Looks DEF EndType, TypeAtEnd
  <2>2. QED
    BY <2>1, Looks DEF Entry, Closing, Token
<1> HIDE DEF u
<1>6. u.after = offset /\ u.token = Closing(text, Here)
  BY DEF u
<1>7. Shape(u) /\ (Name(u) => Leads(text, NameAt(u.token.start), Here))
  BY <1>5, EntryShape DEF AInv
<1>8. \A i \in 0..n : Before(i)' = Before(i)
  BY <1>3, <1>4 DEF Before
<1>9. ASSUME NEW i \in DOMAIN tokens'
       PROVE  /\ Found(i, Start(Before(i - 1)))'
              /\ Shape(tokens[i])'
              /\ (Name(tokens[i]) => Found(i, NameAt(tokens[i].token.start)))'
  <2>1. CASE i \in DOMAIN tokens
    <3>1. tokens'[i] = tokens[i] /\ i - 1 \in 0..n
      BY <1>3, <1>4, <2>1
    <3>2. \A f : Fetches(i, f) => Fetches(i, f)'
      BY <1>1, <2>1, <3>1, <1>9 DEF Fetches
    <3>3. \A c : Found(i, c) => Found(i, c)'
      BY <1>1, <3>2 DEF Found
    <3>4. Before(i - 1)' = Before(i - 1)
      BY <1>8, <3>1
    <3>5. QED
      BY <1>1, <2>1, <3>1, <3>3, <3>4 DEF AInv, Recorded, Shape, Name
  <2>2. CASE i = n + 1
    <3>1. tokens'[i] = u /\ i - 1 = n
      BY <1>3, <1>4, <2>2
    <3>2. \A f : f = Here => Fetches(i, f)'
      BY <1>1, <1>6, <1>9, <3>1 DEF Fetches
    <3>3. \A c : Leads(text, c, Here) => Found(i, c)'
      BY <1>1, <3>2 DEF Found, Lands
    <3>4. Leads(text, Start(Before(n)), Here)
      BY <1>1 DEF AInv, FirstTime
    <3>5. Before(i - 1)' = Before(n)
      BY <1>3, <1>8, <3>1
    <3>6. Found(i, Start(Before(i - 1)))'
      BY <3>3, <3>4, <3>5
    <3>7. Shape(tokens[i])'
      BY <1>1, <1>7, <3>1 DEF Shape, Name
    <3>8. (Name(tokens[i]) => Found(i, NameAt(tokens[i].token.start)))'
      BY <1>1, <1>7, <3>1, <3>3 DEF Name
    <3>9. QED
      BY <3>6, <3>7, <3>8
  <2>3. QED
    BY <1>3, <1>4, <2>1, <2>2
<1>10. Recorded'
  BY <1>9 DEF Recorded
<1>11. Before(Len(tokens))' = offset
  BY <1>3, <1>4, <1>6 DEF Before
<1>12. FirstTime'
  BY <1>1, <1>11 DEF FirstTime, Plain
<1>13. AllRead' /\ SecondTime'
  BY <1>1, <1>2 DEF AllRead, SecondTime
<1>14. QED
  BY <1>10, <1>12, <1>13 DEF AInv

\* The token that ends a call of the second reading is the one that came then.
LEMMA SecondToken ==
  ASSUME IInv, AInv, Return, reading.from > 0
  PROVE  LET i == reading.next
             first == tokens[reading.from]
         IN /\ ~IsQuoted(first) =>
                 /\ i \in DOMAIN tokens /\ newtoken' = tokens[i].token
                 /\ offset = tokens[i].after
            /\ /\ IsQuoted(first) /\ i = reading.from
               /\ Word(Slice(first.token.start, first.token.end))
               => newtoken'.start = first.token.start /\ newtoken'.end = first.token.end
<1> DEFINE i == reading.next
           first == tokens[reading.from]
<1>1. /\ ~Going(text, Here) /\ Gives(text, Here)
      /\ newtoken' = Closing(text, Here) /\ mode # "IDLE"
      /\ Here.offset = offset /\ Here.token = newtoken /\ newtoken \in Token
  BY Returning, Looks
<1>2. /\ reading.from \in DOMAIN tokens
      /\ first.token.type \in {"RESERVED", "IDENT"}
      /\ ~IsQuoted(first) => Coming
      /\ /\ IsQuoted(first) /\ i = reading.from
         /\ Word(Slice(first.token.start, first.token.end))
         => InName(first.token)
  BY DEF AInv, SecondTime
<1>3. ASSUME ~IsQuoted(first)
      PROVE  /\ i \in DOMAIN tokens /\ newtoken' = tokens[i].token
             /\ offset = tokens[i].after
  <2>1. PICK f : Lands(text, Here, f) /\ Fetches(i, f)
    BY <1>1, <1>2, <1>3 DEF Coming, Found
  <2>2. f = Here
    BY <1>1, <2>1, LandsStopped
  <2>3. QED
    BY <1>1, <2>1, <2>2 DEF Fetches
<1>4. ASSUME IsQuoted(first), i = reading.from,
             Word(Slice(first.token.start, first.token.end))
      PROVE  newtoken'.start = first.token.start /\ newtoken'.end = first.token.end
  <2>1. first.token.type = "IDENT"
    BY <1>2, <1>4, NameInQuotes DEF AInv, Recorded
  <2>2. /\ first.token.start \in Nat /\ first.token.end \in Nat /\ Len(text) \in Nat
        /\ first.token.start < first.token.end /\ first.token.end < Len(text)
    BY <1>2, <1>4, <2>1, WordInQuotes DEF AInv
  <2>3. LoopEnds /\ offset \in Nat
    BY Looks DEF Return
  <2>4. mode = "DONE"
    <3> SUFFICES ASSUME mode # "DONE" PROVE FALSE
      OBVIOUS
    <3>1. offset = Len(text) /\ mode # "SKIP"
      BY <2>3, EndModes
    <3>2. offset <= first.token.end
      BY <1>1, <1>2, <1>4, <2>2 DEF InName
    <3>3. QED
      BY <2>2, <3>1, <3>2
  <2>5. newtoken.start = first.token.start /\ newtoken.end = first.token.end
    BY <1>2, <1>4, <2>4 DEF InName
  <2>6. newtoken'.start = newtoken.start /\ newtoken'.end = newtoken.end
    BY <1>1 DEF Closing, Token
  <2>7. QED
    BY <2>5, <2>6
<1>5. QED
  BY <1>3, <1>4

LEMMA ReturnSecond ==
  ASSUME IInv, AInv, Return, reading.from > 0
  PROVE  AInv'
<1> DEFINE i == reading.next
           first == tokens[reading.from]
<1>1. /\ mode' = "IDLE" /\ answer' = "token" /\ UNCHANGED <<text, offset, tokens>>
      /\ reading' = [reading EXCEPT !.next = @ + 1]
  BY Returning DEF Return
<1>2. reading.from \in Nat /\ i \in Nat
      /\ reading'.from = reading.from /\ reading'.next = i + 1
  BY <1>1 DEF IInv, Inv, TypeOK
<1>3. /\ Recorded' /\ (\A j, c : Found(j, c) => Found(j, c)')
      /\ \A j : Before(j)' = Before(j)
  BY <1>1, RecordedKept DEF AInv
<1>4. FirstTime'
  BY <1>2 DEF FirstTime
<1>5. AllRead'
  <2>1. Found(Len(tokens) + 1, Start(Before(Len(tokens))))
    BY DEF AInv, AllRead
  <2>2. QED
    BY <1>1, <1>3, <2>1 DEF AllRead
<1>6. SecondTime'
  <2>1. /\ reading.from \in DOMAIN tokens /\ i >= reading.from
        /\ first.token.type \in {"RESERVED", "IDENT"}
    BY DEF AInv, SecondTime
  <2>2. \A t : IsQuoted(t)' <=> IsQuoted(t)
    BY <1>1 DEF IsQuoted
  <2>3. ASSUME ~IsQuoted(first) PROVE Coming'
    <3>1. i \in DOMAIN tokens /\ offset = tokens[i].after
      BY <2>3, SecondToken
    <3>2. i + 1 \in 2..(Len(tokens) + 1) /\ i + 1 - 1 = i
      BY <1>2, <3>1, TokensThere
    <3>3. Placed'
      BY <1>1, <1>2, <3>1, <3>2 DEF Placed
    <3>4. QED
      BY <1>1, <3>3 DEF Coming
  <2>4. i + 1 # reading.from /\ i + 1 >= reading.from
    BY <1>2, <2>1
  <2>5. QED
    BY <1>1, <1>2, <2>1, <2>2, <2>3, <2>4 DEF SecondTime
<1>7. QED
  BY <1>3, <1>4, <1>5, <1>6 DEF AInv

\* The start of a second reading.
LEMMA SecondStart ==
  ASSUME IInv, AInv, NEW i \in DOMAIN tokens, ReadAgain(i)
  PROVE  AInv'
<1>1. /\ mode = "IDLE" /\ mode' = "IDLE" /\ answer # "token" /\ answer' = "token"
      /\ reading.from = 0 /\ UNCHANGED <<text, tokens>>
      /\ tokens[i].token.type \in {"RESERVED", "IDENT"}
      /\ \/ /\ tokens[i].token.type = "RESERVED"
            /\ offset' = tokens[i].token.end
            /\ reading' = [from |-> i, next |-> i + 1]
         \/ /\ tokens[i].token.type = "IDENT"
            /\ offset' = tokens[i].token.start
            /\ reading' = [from |-> i, next |-> i]
  BY DEF ReadAgain
<1>2. i \in 1..Len(tokens) /\ i \in Nat /\ Len(tokens) \in Nat
  BY TokensThere
<1>3. /\ reading'.from = i /\ reading'.next \in {i, i + 1}
  BY <1>1
<1>4. /\ Recorded' /\ (\A j, c : Found(j, c) => Found(j, c)')
      /\ \A j : Before(j)' = Before(j)
  BY <1>1, RecordedKept DEF AInv
<1>5. FirstTime'
  BY <1>2, <1>3 DEF FirstTime
<1>6. AllRead'
  <2>1. Found(Len(tokens) + 1, Start(Before(Len(tokens))))
    BY <1>1 DEF AInv, AllRead
  <2>2. QED
    BY <1>1, <1>4, <2>1 DEF AllRead
<1>7. SecondTime'
  <2>1. \A t : IsQuoted(t)' <=> IsQuoted(t)
    BY <1>1 DEF IsQuoted
  <2>2. Shape(tokens[i]) /\ (IsQuoted(tokens[i]) <=>
          tokens[i].token.type = "IDENT" /\ ~Name(tokens[i]))
    BY <1>1, NameInQuotes DEF AInv, Recorded
  <2>3. ASSUME ~IsQuoted(tokens[i]) PROVE Coming'
    <3>1. CASE tokens[i].token.type = "RESERVED"
      <4>1. offset' = tokens[i].after /\ reading'.next = i + 1
        BY <1>1, <2>2, <3>1 DEF Shape
      <4>2. i + 1 \in 2..(Len(tokens) + 1) /\ i + 1 - 1 = i
        BY <1>2
      <4>3. /\ reading'.next - 1 = i /\ tokens' = tokens
            /\ reading'.next \in 2..(Len(tokens) + 1)
        BY <1>1, <4>1, <4>2
      <4>4. Placed'
        BY <4>1, <4>3 DEF Placed
      <4>5. QED
        BY <1>1, <4>4 DEF Coming
    <3>2. CASE tokens[i].token.type = "IDENT"
      <4>1. offset' = tokens[i].token.start /\ reading'.next = i
        BY <1>1, <3>2
      <4>2. Name(tokens[i])
        BY <2>2, <2>3, <3>2
      <4>3. Placed'
        BY <1>1, <1>3, <4>1, <4>2 DEF Placed, Name
      <4>4. QED
        BY <1>1, <4>3 DEF Coming
    <3>3. QED
      BY <1>1, <3>1, <3>2
  <2>4. ASSUME IsQuoted(tokens[i]) PROVE InName(tokens[i].token)'
    <3>1. offset' = tokens[i].token.start
      BY <1>1, <2>2, <2>4
    <3>2. QED
      BY <1>1, <3>1 DEF InName
  <2>5. reading'.from \in DOMAIN tokens' /\ reading'.next >= reading'.from
    BY <1>1, <1>2, <1>3
  <2>6. QED
    BY <1>1, <1>3, <2>1, <2>3, <2>4, <2>5 DEF SecondTime
<1>8. QED
  BY <1>4, <1>5, <1>6, <1>7 DEF AInv

LEMMA NextAgain == IInv /\ AInv /\ [Next]_vars => AInv'
<1> SUFFICES ASSUME IInv, AInv, [Next]_vars PROVE AInv'
  OBVIOUS
<1>0. IInv'
  BY NextKeeps
<1>1. CASE Call
  BY <1>1, CallAgain
<1>2. CASE Return
  BY <1>0, <1>2, ReturnFirst, ReturnSecond DEF IInv, Inv, TypeOK
<1>3. CASE Step /\ ~Call /\ ~Return /\ mode' # "IDLE"
  <2>1. Moved
    BY <1>3, SkipMoves, FirstMoves, GeneralMoves, NumberMoves, QuotedMoves,
       OperatorMoves, CommentMoves DEF Step, Invalid, ReturnNothing, Leave
  <2>2. QED
    BY <1>0, <1>3, <2>1, MovesAgain
<1>4. CASE Step /\ ~Call /\ ~Return /\ mode' = "IDLE"
  <2>1. mode # "IDLE"
    BY <1>4 DEF Step, Skip, First, Invalid, General, Integer, Decimal, Quoted,
                Operator, Comment, ReturnNothing, LoopEnds
  <2>2. QED
    BY <1>4, <2>1, LeaveAgain
<1>5. ASSUME NEW i \in DOMAIN tokens, ReadAgain(i) PROVE AInv'
  BY <1>5, SecondStart
<1>6. CASE UNCHANGED vars
  <2>1. /\ UNCHANGED <<text, offset, mode, newtoken, answer, tokens, reading>>
        /\ Here' = Here
    BY <1>6 DEF vars, Here
  <2>2. /\ Recorded' /\ (\A j, c : Found(j, c) => Found(j, c)')
        /\ \A j : Before(j)' = Before(j)
    BY <2>1, RecordedKept DEF AInv
  <2>3. FirstTime' /\ AllRead'
    BY <2>1, <2>2 DEF AInv, FirstTime, AllRead, Plain
  <2>4. Coming => Coming'
    BY <2>1, <2>2 DEF Coming, Placed, Name
  <2>5. (\A t : IsQuoted(t)' <=> IsQuoted(t)) /\ (\A t : InName(t) => InName(t)')
    BY <2>1 DEF IsQuoted, InName
  <2>6. \A s, e : Slice(s, e)' = Slice(s, e)
    BY <2>1 DEF Slice
  <2>7. SecondTime'
    BY <2>1, <2>4, <2>5, <2>6 DEF AInv, SecondTime
  <2>8. QED
    BY <2>2, <2>3, <2>7 DEF AInv
<1>7. QED
  BY <1>1, <1>2, <1>3, <1>4, <1>5, <1>6 DEF Next

\* Only the end of a call goes on to the next token.
LEMMA NextSecond ==
  ASSUME IInv, AInv, [Next]_vars, reading.from > 0, reading'.next > reading.next
  PROVE  Return
<1>1. reading' # reading
  BY DEF IInv, Inv, TypeOK
<1>2. ~UNCHANGED vars
  BY <1>1 DEF vars
<1>3. \A i : ~ReadAgain(i)
  BY DEF ReadAgain
<1>4. Step
  BY <1>2, <1>3 DEF Next
<1>5. QED
  BY <1>1, <1>4 DEF Step, Call, Skip, First, Invalid, General, Integer, Decimal,
     Quoted, Operator, Comment, ReturnNothing, Leave, Advance, Settle, OpenQuote

-----------------------------------------------------------------------------
(* Results *)

\* The variables of lexer_next keep their types whatever the command.
THEOREM Typing == Spec => []TypeOK
<1>1. Inv => TypeOK
  BY DEF Inv
<1>2. QED
  BY InitInv, NextInv, <1>1, PTL DEF Spec

\* The tokens lie in the command one behind the other, none of them empty.
THEOREM TokensInOrder == Spec => []InOrder
<1>1. Inv => InOrder
  BY DEF Inv
<1>2. QED
  BY InitInv, NextInv, <1>1, PTL DEF Spec

\* Every token is the longest run of characters that is one and has the type of
\* it, but for a last one the end of the text cuts short: lexer_next never ends
\* a token early, nor takes one for another, whatever the command and the
\* words of the language.
THEOREM TokensLongest == Spec => []LongestMatch
<1>1. IInv => LongestMatch
  BY DEF IInv
<1>2. QED
  BY InitKeeps, NextKeeps, <1>1, PTL DEF Spec

\* Nothing of the command is dropped: what lexer_next has gone over is in a
\* token, a blank, in a comment or an empty pair of quotes, and it stops asking
\* for more only at the end of the text or behind such a pair.
THEOREM NothingDropped == Spec => []NothingLost
<1>1. IInv => NothingLost
  BY DEF IInv
<1>2. QED
  BY InitKeeps, NextKeeps, <1>1, PTL DEF Spec

\* A second reading finds the tokens of the first again, wherever the parser
\* starts it: behind the word of a clause all that follow, and at a name that
\* name; a name in quotes without them when it is a word.
THEOREM SameTokensAgain == Spec => SecondReading
<1>1. Init => IInv /\ AInv
  BY InitKeeps, InitAgain
<1>2. IInv /\ AInv /\ [Next]_vars => (IInv /\ AInv)'
  BY NextKeeps, NextAgain
<1>3. IInv /\ AInv /\ [Next]_vars =>
        [reading.from > 0 /\ reading'.next > reading.next =>
          LET i     == reading.next
              first == tokens[reading.from]
          IN IF IsQuoted(first)
             THEN (/\ i = reading.from
                   /\ Word(Slice(first.token.start, first.token.end))) =>
                     /\ newtoken'.start = first.token.start
                     /\ newtoken'.end = first.token.end
             ELSE i \in DOMAIN tokens /\ newtoken' = tokens[i].token]_vars
  BY NextSecond, SecondToken
<1>4. QED
  BY <1>1, <1>2, <1>3, PTL DEF Spec, SecondReading
=============================================================================
