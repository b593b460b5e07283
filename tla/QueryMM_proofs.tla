--------------------------- MODULE QueryMM_proofs ---------------------------
(***************************************************************************)
(* The memory manager's bookkeeping is right for every segment size, every *)
(* width of its words and every sequence of calls.                         *)
(***************************************************************************)
EXTENDS QueryMM, TLAPS

-----------------------------------------------------------------------------
(* Memory writes *)

LEMMA PutDom ==
  ASSUME NEW m, NEW a, NEW v
  PROVE  /\ DOMAIN Put(m, a, v) = DOMAIN m \cup {a}
         /\ Put(m, a, v)[a] = v
         /\ \A x \in DOMAIN m : x # a => Put(m, a, v)[x] = m[x]
         /\ Put(m, a, v) = [x \in DOMAIN Put(m, a, v) |-> Put(m, a, v)[x]]
  BY DEF Put

LEMMA KeepDom ==
  ASSUME NEW m, NEW S
  PROVE  /\ DOMAIN Keep(m, S) = DOMAIN m \cap S
         /\ \A x \in DOMAIN m \cap S : Keep(m, S)[x] = m[x]
         /\ Keep(m, S) = [x \in DOMAIN Keep(m, S) |-> Keep(m, S)[x]]
  BY DEF Keep

\* A word written with a value of the right type, or memory forgotten, leaves
\* memory well typed.
LEMMA PutType ==
  ASSUME NEW T, NEW m, m \in [DOMAIN m -> T], NEW a, NEW v \in T
  PROVE  Put(m, a, v) \in [DOMAIN Put(m, a, v) -> T]
  BY DEF Put

LEMMA KeepType ==
  ASSUME NEW T, NEW m, m \in [DOMAIN m -> T], NEW S
  PROVE  Keep(m, S) \in [DOMAIN Keep(m, S) -> T]
  BY DEF Keep

-----------------------------------------------------------------------------
(* A stack no action touches keeps its half of the invariant *)

LEMMA FrontUnchanged ==
  ASSUME FrontInv, UNCHANGED front, pc # "fpop", pc' # "fpop"
  PROVE  FrontInv'
  BY DEF FrontInv, front, End

LEMMA BackUnchanged ==
  ASSUME BackInv, UNCHANGED back, pc # "bpop", pc' # "bpop"
  PROVE  BackInv'
  BY DEF BackInv, BackTiled, back, BEnd

LEMMA RefuseInv ==
  ASSUME IInv, pc = "idle", NEW c \in -7..0, Refuse(c)
  PROVE  IInv'
<1>1. FrontInv'
  BY FrontUnchanged DEF IInv, Refuse
<1>2. BackInv'
  BY BackUnchanged DEF IInv, Refuse
<1>3. TypeOK' /\ NoCollision'
  BY DEF IInv, Refuse, TypeOK, NoCollision, front, back
<1> QED
  BY <1>1, <1>2, <1>3 DEF IInv

LEMMA InitInv == Init => IInv
  BY ConstantsAssumption
  DEF Init, IInv, TypeOK, NoCollision, FrontInv, BackInv, BackTiled, Word

-----------------------------------------------------------------------------
(* Each call preserves the invariant *)

LEMMA FAllocInv ==
  ASSUME IInv, NEW n \in Requests, FAlloc(n)
  PROVE  IInv'
<1> DEFINE top == next_front + HDR + n + PTR
<1> USE ConstantsAssumption
<1>1. CASE n > Size /\ Refuse(-2)
  BY <1>1, RefuseInv DEF FAlloc
<1>2. CASE n <= Size /\ NoRoomFront(n) /\ Refuse(-1)
  BY <1>2, RefuseInv DEF FAlloc
<1>3. CASE /\ n <= Size
           /\ top <= last_back
           /\ hdr' = Put(hdr, next_front, [size |-> n, frag |-> FALSE])
           /\ trl' = Put(trl, top, next_front)
           /\ next_front' = top
           /\ flive' = flive \cup {next_front}
           /\ UNCHANGED <<back, errcode, pc>>
  <2>1. pc = "idle" /\ pc' = "idle"
    BY <1>3 DEF FAlloc
  <2>2. BackInv'
    BY <1>3, <2>1, BackUnchanged DEF IInv
  <2> DEFINE w == [size |-> n, frag |-> FALSE]
  <2>3. w \in Word /\ top \in 0..Size
    BY <1>3 DEF Word, IInv, TypeOK
  <2>4. /\ hdr' \in [DOMAIN hdr' -> Word]
        /\ trl' \in [DOMAIN trl' -> 0..Size]
    BY <1>3, <2>3, PutType DEF IInv, TypeOK
  <2>5. \A x \in DOMAIN hdr : x < next_front /\ x \in Int
    BY <2>1 DEF IInv, FrontInv, TypeOK
  <2>5a. /\ DOMAIN hdr' = DOMAIN hdr \cup {next_front}
         /\ hdr'[next_front] = w
         /\ \A x \in DOMAIN hdr : hdr'[x] = hdr[x]
    BY <1>3, <2>5 DEF Put
  <2>6. \A x \in DOMAIN hdr : End(x)' = End(x) /\ End(x) <= next_front
                               /\ End(x) \in Int
    BY <2>5a, <2>5, <2>1 DEF End, IInv, FrontInv, TypeOK, Word
  <2>7. \A x : x = next_front => End(x)' = top
    BY <2>5a DEF End
  <2>7a. /\ DOMAIN trl' = DOMAIN trl \cup {top}
         /\ trl'[top] = next_front
         /\ \A x \in DOMAIN hdr : trl'[End(x)] = trl[End(x)]
    <3>1. \A x \in DOMAIN hdr : End(x) # top
      BY <2>6 DEF IInv, TypeOK
    <3> QED
      BY <1>3, <3>1 DEF IInv, FrontInv, Put
  <2>8. TypeOK' /\ NoCollision'
    BY <1>3, <2>3, <2>4, <2>5a, <2>7a DEF IInv, TypeOK, NoCollision, back
  <2>9. FrontInv'
    <3> DEFINE D == DOMAIN hdr
    <3>0. /\ next_front < top /\ next_front \in Int /\ top \in Int
          /\ next_front \notin D /\ next_front' = top
          /\ w.frag = FALSE
      BY <1>3, <2>5, <2>3 DEF IInv, TypeOK
    <3>1. (DOMAIN trl = {End(a) : a \in DOMAIN hdr})'
      BY <2>5a, <2>6, <2>7, <2>7a DEF IInv, FrontInv
    <3>2. (\A a \in DOMAIN hdr \cup {next_front} :
             a = 0 \/ \E b \in DOMAIN hdr : End(b) = a)'
      BY <2>5a, <2>6, <2>7, <3>0 DEF IInv, FrontInv
    <3>3. (\A a \in DOMAIN hdr : a < next_front =>
            End(a) = next_front \/ (End(a) \in DOMAIN hdr /\ End(a) < next_front))'
      BY <2>5, <2>5a, <2>6, <2>7, <3>0 DEF IInv, FrontInv
    <3>4. (\A a \in DOMAIN hdr, b \in DOMAIN hdr : a < b => End(a) <= b)'
      BY <2>5, <2>5a, <2>6, <2>7, <3>0 DEF IInv, FrontInv
    <3>5. (\A a \in DOMAIN hdr, b \in DOMAIN hdr :
             End(a) = b => /\ hdr[b].frag <=> a \notin flive
                           /\ trl[End(b)] = IF hdr[b].frag THEN a ELSE b)'
      <4> SUFFICES ASSUME NEW a \in DOMAIN hdr', NEW b \in DOMAIN hdr', End(a)' = b
                   PROVE  /\ hdr'[b].frag <=> a \notin flive'
                          /\ trl'[End(b)'] = IF hdr'[b].frag THEN a ELSE b
        OBVIOUS
      <4>1. a \in D
        BY <2>5, <2>5a, <2>7, <3>0
      <4>2. CASE b = next_front
        BY <4>1, <4>2, <1>3, <2>1, <2>5a, <2>6, <2>7, <2>7a, <3>0
        DEF IInv, FrontInv
      <4>3. CASE b \in D
        <5>1. /\ End(a) = b /\ End(b)' = End(b)
              /\ hdr'[b] = hdr[b] /\ trl'[End(b)] = trl[End(b)]
          BY <4>1, <4>3, <2>5a, <2>6, <2>7a
        <5>2. /\ hdr[b].frag <=> a \notin flive
              /\ trl[End(b)] = IF hdr[b].frag THEN a ELSE b
          BY <4>1, <4>3, <5>1 DEF IInv, FrontInv
        <5>3. a \in flive' <=> a \in flive
          BY <4>1, <1>3, <3>0
        <5> QED
          BY <5>1, <5>2, <5>3
      <4> QED
        BY <4>2, <4>3, <2>5a
    <3>6. (DOMAIN hdr # {} => 0 \in DOMAIN hdr /\ ~hdr[0].frag /\ trl[End(0)] = 0)'
      BY <2>5a, <2>6, <2>7, <2>7a, <3>0 DEF IInv, FrontInv
    <3>7. (\A a \in flive : a < next_front)'
      BY <1>3, <3>0, <2>5 DEF IInv, TypeOK
    <3>8. (\A a \in DOMAIN hdr :
             a < next_front /\ (End(a) = next_front => a \in flive))'
      BY <1>3, <2>5, <2>5a, <2>6, <2>7, <3>0
    <3> QED
      BY <2>1, <3>1, <3>2, <3>3, <3>4, <3>5, <3>6, <3>7, <3>8 DEF FrontInv
  <2> QED
    BY <2>2, <2>8, <2>9 DEF IInv
<1>4. ~NoRoomFront(n) => top <= last_back
  BY DEF NoRoomFront, IInv, TypeOK
<1> QED
  BY <1>1, <1>2, <1>3, <1>4 DEF FAlloc

\* Two front chunks do not end at the same address, and no chunk is empty.
LEMMA Ends ==
  ASSUME IInv
  PROVE  /\ \A x \in DOMAIN hdr : /\ x \in Nat /\ End(x) \in Nat
                                   /\ x < End(x) /\ End(x) <= Size
         /\ \A x \in DOMAIN hdr, y \in DOMAIN hdr : End(x) = End(y) => x = y
<1> USE ConstantsAssumption
<1>1. \A x \in DOMAIN hdr : x \in Nat /\ End(x) \in Nat /\ x < End(x)
  <2>1. \A x \in DOMAIN hdr : x \in Nat /\ hdr[x] \in Word
    BY DEF IInv, TypeOK
  <2> QED
    BY <2>1 DEF Word, End
<1>2. \A x \in DOMAIN hdr : End(x) <= Size
  BY <1>1 DEF IInv, TypeOK, FrontInv
<1>3. \A x \in DOMAIN hdr, y \in DOMAIN hdr : End(x) = End(y) => x = y
  BY <1>1 DEF IInv, FrontInv
<1> QED
  BY <1>1, <1>2, <1>3

\* The trailer below next_front leads to the start of the chunk that ends
\* there or, if that chunk is flagged, of the freed chunk below it.
LEMMA TrailerLeadsDown ==
  ASSUME IInv, NEW a \in DOMAIN hdr, End(a) = next_front
  PROVE  /\ trl[next_front] \in DOMAIN hdr
         /\ next_front \in DOMAIN trl
         /\ \/ trl[next_front] = a
            \/ /\ End(trl[next_front]) = a
               /\ trl[next_front] \notin flive
<1>1. next_front \in DOMAIN trl
  BY DEF IInv, FrontInv
<1>2. CASE a = 0
  BY <1>1, <1>2 DEF IInv, FrontInv
<1>3. CASE a # 0
  <2>1. PICK b \in DOMAIN hdr : End(b) = a
    BY <1>3 DEF IInv, FrontInv
  <2>2. /\ hdr[a].frag <=> b \notin flive
        /\ trl[next_front] = IF hdr[a].frag THEN b ELSE a
    BY <2>1 DEF IInv, FrontInv
  <2>3. CASE hdr[a].frag
    BY <1>1, <2>1, <2>2, <2>3
  <2>4. CASE ~hdr[a].frag
    BY <1>1, <2>2, <2>4
  <2> QED
    BY <2>3, <2>4
<1> QED
  BY <1>2, <1>3

\* Popping the chunk at a: by ffree itself, or by a round of its loop.
LEMMA FrontPopInv ==
  ASSUME IInv, NEW a \in DOMAIN hdr, End(a) = next_front,
         a \in flive => next_front \notin DOMAIN hdr,
         pc # "bpop", pc' = "fpop",
         next_front' = trl[next_front],
         flive' = flive \ {a},
         UNCHANGED <<hdr, trl, last_back, bhdr, blive, errcode>>
  PROVE  IInv'
<1> DEFINE m == trl[next_front]
<1>1. /\ m \in DOMAIN hdr /\ m <= a /\ a < next_front
      /\ m \in Nat /\ m <= Size
      /\ m = a \/ (End(m) = a /\ m \notin flive)
  BY TrailerLeadsDown, Ends DEF IInv, TypeOK
<1>2. BackInv'
  BY BackUnchanged DEF IInv, back
<1>3. TypeOK' /\ NoCollision'
  BY <1>1 DEF IInv, TypeOK, NoCollision
<1>4. \A x : End(x)' = End(x)
  BY DEF End
<1>5. (\A x \in DOMAIN hdr \cup {next_front} :
         x = 0 \/ \E y \in DOMAIN hdr : End(y) = x)'
  BY <1>1, <1>4 DEF IInv, FrontInv
<1>6. (\A x \in DOMAIN hdr : x < next_front =>
        End(x) = next_front \/ (End(x) \in DOMAIN hdr /\ End(x) < next_front))'
  <2> SUFFICES ASSUME NEW x \in DOMAIN hdr, x < m
               PROVE  End(x) = m \/ (End(x) \in DOMAIN hdr /\ End(x) < m)
    BY <1>4
  <2>1. End(x) <= m /\ x < next_front /\ End(x) \in Nat
    BY <1>1, Ends DEF IInv, FrontInv, TypeOK
  <2>2. End(x) # next_front
    BY <1>1, <2>1 DEF IInv, TypeOK
  <2>3. End(x) \in DOMAIN hdr
    BY <2>1, <2>2 DEF IInv, FrontInv
  <2> QED
    BY <1>1, <2>1, <2>3
<1>7. (\A x \in DOMAIN hdr, y \in DOMAIN hdr :
         End(x) = y => /\ hdr[y].frag <=> x \notin flive
                       /\ trl[End(y)] = IF hdr[y].frag THEN x ELSE y)'
  <2> SUFFICES ASSUME NEW x \in DOMAIN hdr, NEW y \in DOMAIN hdr, End(x) = y
               PROVE  /\ hdr[y].frag <=> x \notin flive'
                      /\ trl[End(y)] = IF hdr[y].frag THEN x ELSE y
    BY <1>4
  <2>1. /\ hdr[y].frag <=> x \notin flive
        /\ trl[End(y)] = IF hdr[y].frag THEN x ELSE y
    BY DEF IInv, FrontInv
  <2>2. x \in flive' <=> x \in flive
    OBVIOUS
  <2> QED
    BY <2>1, <2>2
<1>8. (\A x \in flive : x < next_front)'
  <2> SUFFICES ASSUME NEW x \in flive, x # a
               PROVE  x < m
    OBVIOUS
  <2>1. x \in DOMAIN hdr /\ x < next_front /\ x \in Nat
    BY Ends DEF IInv, FrontInv, TypeOK
  <2>2. ~(a < x)
    BY <2>1, <1>1, Ends DEF IInv, FrontInv, TypeOK
  <2>3. ~(m <= x)
    BY <2>1, <2>2, <1>1, Ends DEF IInv, FrontInv
  <2> QED
    BY <2>1, <2>3, <1>1
<1> QED
  BY <1>1, <1>2, <1>3, <1>4, <1>5, <1>6, <1>7, <1>8 DEF IInv, FrontInv

\* The pointer given to a free function decides by its place which stack it
\* is of: next_front lies between the front chunks and the back chunks.
LEMMA FreeEndOfFront ==
  ASSUME IInv, NEW a \in Chunks
  PROVE  /\ FreeEnd(a) \in Nat
         /\ FreeEnd(a) <= next_front => a \in DOMAIN hdr /\ FreeEnd(a) = End(a)
<1> USE ConstantsAssumption
<1>1. CASE a \in DOMAIN hdr
  BY <1>1, Ends DEF FreeEnd, End
<1>2. CASE a \notin DOMAIN hdr
  <2>1. a \in DOMAIN bhdr /\ last_back <= a /\ a \in Nat /\ bhdr[a] \in Word
    BY <1>2 DEF Chunks, IInv, BackInv, TypeOK
  <2>2. bhdr[a].size \in Nat /\ next_front <= last_back
        /\ next_front \in Nat /\ last_back \in Nat
    BY <2>1 DEF Word, IInv, NoCollision, TypeOK
  <2>3. FreeEnd(a) = a + HDR + bhdr[a].size + PTR
    BY <1>2 DEF FreeEnd
  <2> QED
    BY <2>1, <2>2, <2>3
<1> QED
  BY <1>1, <1>2

LEMMA FFreeInv ==
  ASSUME IInv, NEW a \in Chunks, FFree(a)
  PROVE  IInv'
<1> DEFINE above == FreeEnd(a)
<1>0. pc = "idle"
  BY DEF FFree
<1>1. CASE Refuse(-6) \/ Refuse(-5)
  BY <1>0, <1>1, RefuseInv
<1>2. CASE /\ above = next_front
           /\ next_front' = trl[above]
           /\ pc' = "fpop"
           /\ flive' = flive \ {a}
           /\ UNCHANGED <<hdr, trl, back, errcode>>
  <2>1. a \in DOMAIN hdr /\ End(a) = next_front
    BY <1>2, FreeEndOfFront DEF IInv, TypeOK
  <2>2. next_front \notin DOMAIN hdr
    BY <1>0 DEF IInv, FrontInv, TypeOK
  <2> QED
    BY <1>0, <1>2, <2>1, <2>2, FrontPopInv DEF back
<1>3. CASE /\ above < next_front
           /\ ~hdr[above].frag
           /\ hdr' = [hdr EXCEPT ![above].frag = TRUE]
           /\ trl' = [trl EXCEPT ![End(above)] = a]
           /\ errcode' = -3
           /\ flive' = flive \ {a}
           /\ UNCHANGED <<next_front, back, pc>>
  <2>1. a \in DOMAIN hdr /\ above = End(a) /\ above \in DOMAIN hdr
    <3>1. a \in DOMAIN hdr /\ above = End(a)
      BY <1>3, FreeEndOfFront DEF IInv, TypeOK
    <3> QED
      BY <1>0, <1>3, <3>1, Ends DEF IInv, FrontInv, TypeOK
  <2>2. /\ DOMAIN hdr' = DOMAIN hdr
        /\ \A x \in DOMAIN hdr : x # above => hdr'[x] = hdr[x]
        /\ hdr'[above] = [hdr[above] EXCEPT !.frag = TRUE]
        /\ \A x \in DOMAIN hdr : hdr[x] \in Word
        /\ \A x \in DOMAIN hdr : hdr'[x] \in Word
        /\ hdr'[above].frag = TRUE /\ hdr'[above].size = hdr[above].size
    BY <1>3, <2>1 DEF IInv, TypeOK, Word
  <2>3. \A x \in DOMAIN hdr : End(x)' = End(x)
    BY <2>2 DEF End
  <2>4. /\ DOMAIN trl' = DOMAIN trl
        /\ trl'[End(above)] = a
        /\ \A x \in DOMAIN hdr : x # above => trl'[End(x)] = trl[End(x)]
    BY <1>3, <2>1, Ends DEF IInv, FrontInv
  <2>5. BackInv'
    BY <1>0, <1>3, BackUnchanged DEF IInv
  <2>6. TypeOK' /\ NoCollision'
    <3>1. trl' \in [DOMAIN trl' -> 0..Size]
      BY <1>3, <2>1 DEF IInv, TypeOK
    <3>2. hdr' \in [DOMAIN hdr' -> Word]
      BY <1>3, <2>2
    <3> QED
      BY <1>3, <2>2, <2>4, <3>1, <3>2 DEF IInv, TypeOK, NoCollision, back
  <2>7. FrontInv'
    <3>1. (DOMAIN trl = {End(x) : x \in DOMAIN hdr})'
      BY <2>2, <2>3, <2>4 DEF IInv, FrontInv
    <3>2. (\A x \in DOMAIN hdr \cup {next_front} :
             x = 0 \/ \E y \in DOMAIN hdr : End(y) = x)'
      BY <1>3, <2>2, <2>3 DEF IInv, FrontInv
    <3>3. (\A x \in DOMAIN hdr : x < next_front => End(x) = next_front
             \/ (End(x) \in DOMAIN hdr /\ End(x) < next_front))'
      BY <1>3, <2>2, <2>3 DEF IInv, FrontInv
    <3>4. (\A x \in DOMAIN hdr, y \in DOMAIN hdr : x < y => End(x) <= y)'
      BY <2>2, <2>3 DEF IInv, FrontInv
    <3>5. (\A x \in DOMAIN hdr, y \in DOMAIN hdr :
             End(x) = y => /\ hdr[y].frag <=> x \notin flive
                           /\ trl[End(y)] = IF hdr[y].frag THEN x ELSE y)'
      <4> SUFFICES ASSUME NEW x \in DOMAIN hdr, NEW y \in DOMAIN hdr, End(x) = y
                   PROVE  /\ hdr'[y].frag <=> x \notin flive'
                          /\ trl'[End(y)] = IF hdr'[y].frag THEN x ELSE y
        BY <2>2, <2>3
      <4>1. CASE y = above
        BY <1>3, <2>1, <2>2, <2>4, <4>1, Ends
      <4>2. CASE y # above
        <5>1. hdr[y].frag <=> x \notin flive
          BY DEF IInv, FrontInv
        <5>2. trl[End(y)] = IF hdr[y].frag THEN x ELSE y
          BY DEF IInv, FrontInv
        <5>3. /\ hdr'[y] = hdr[y] /\ trl'[End(y)] = trl[End(y)]
              /\ x \in flive' <=> x \in flive
          BY <1>3, <2>1, <2>2, <2>4, <4>2
        <5> QED
          BY <5>1, <5>2, <5>3
      <4> QED
        BY <4>1, <4>2
    <3>6. (DOMAIN hdr # {} => 0 \in DOMAIN hdr /\ ~hdr[0].frag /\ trl[End(0)] = 0)'
      BY <2>1, <2>2, <2>3, <2>4, Ends DEF IInv, FrontInv
    <3>7. (\A x \in flive : x < next_front)'
      BY <1>3 DEF IInv, FrontInv
    <3>8. (\A x \in DOMAIN hdr :
             x < next_front /\ (End(x) = next_front => x \in flive))'
      <4> SUFFICES ASSUME NEW x \in DOMAIN hdr
                   PROVE  x < next_front /\ (End(x) = next_front => x \in flive')
        BY <1>3, <2>2, <2>3
      <4>1. End(a) # next_front
        BY <1>3, <2>1, Ends DEF IInv, TypeOK
      <4> QED
        BY <1>0, <1>3, <4>1 DEF IInv, FrontInv
    <3> QED
      BY <1>0, <1>3, <3>1, <3>2, <3>3, <3>4, <3>5, <3>6, <3>7, <3>8 DEF FrontInv
  <2> QED
    BY <2>5, <2>6, <2>7 DEF IInv
<1> QED
  BY <1>1, <1>2, <1>3 DEF FFree, Fragment

LEMMA FPopInv ==
  ASSUME IInv, FPop
  PROVE  IInv'
<1>0. pc = "fpop" /\ next_front \in DOMAIN hdr /\ next_front \in Nat
  BY DEF FPop, IInv, FrontInv, TypeOK
<1>1. CASE /\ FMore
           /\ next_front' = trl[next_front]
           /\ UNCHANGED <<hdr, trl, flive, back, errcode, pc>>
  <2>1. PICK a \in DOMAIN hdr : End(a) = next_front
    BY <1>0, <1>1 DEF FMore, IInv, FrontInv
  <2>2. a \notin flive
    BY <1>0, <1>1, <2>1 DEF FMore, IInv, FrontInv
  <2> QED
    BY <1>0, <1>1, <2>1, <2>2, FrontPopInv DEF back
<1>2. CASE /\ ~FMore
           /\ pc' = "idle"
           /\ hdr' = Keep(hdr, 0..(next_front - 1))
           /\ trl' = Keep(trl, 0..next_front)
           /\ UNCHANGED <<next_front, flive, back, errcode>>
  <2>1. /\ DOMAIN hdr' = {x \in DOMAIN hdr : x < next_front}
        /\ \A x \in DOMAIN hdr' : hdr'[x] = hdr[x]
        /\ DOMAIN trl' = {x \in DOMAIN trl : x <= next_front}
        /\ \A x \in DOMAIN trl' : trl'[x] = trl[x]
    BY <1>0, <1>2 DEF Keep, IInv, TypeOK
  <2>2. \A x \in DOMAIN hdr' : /\ x \in DOMAIN hdr /\ x < next_front
                              /\ End(x)' = End(x) /\ End(x) <= next_front
    <3>1. \A x \in DOMAIN hdr : x < next_front => End(x) <= next_front
      BY <1>0, Ends DEF IInv, FrontInv
    <3> QED
      BY <2>1, <3>1 DEF End
  <2>3. BackInv'
    BY <1>0, <1>2, BackUnchanged DEF IInv
  <2>4. TypeOK' /\ NoCollision'
    <3>1. /\ hdr' \in [DOMAIN hdr' -> Word]
          /\ trl' \in [DOMAIN trl' -> 0..Size]
      BY <1>2, KeepType DEF IInv, TypeOK
    <3>2. flive' \subseteq DOMAIN hdr'
      BY <1>2, <2>1 DEF IInv, TypeOK, FrontInv
    <3> QED
      BY <1>2, <2>1, <3>1, <3>2 DEF IInv, TypeOK, NoCollision, back
  <2>5. FrontInv'
    <3>1. (DOMAIN trl = {End(x) : x \in DOMAIN hdr})'
      <4>1. \A x \in DOMAIN hdr : End(x) <= next_front => x < next_front
        BY <1>0, Ends
      <4> QED
        BY <2>1, <2>2, <4>1 DEF IInv, FrontInv
    <3>2. (\A x \in DOMAIN hdr \cup {next_front} :
             x = 0 \/ \E y \in DOMAIN hdr : End(y) = x)'
      <4> SUFFICES ASSUME NEW x \in DOMAIN hdr, x <= next_front, x # 0
                   PROVE  \E y \in DOMAIN hdr' : End(y)' = x
        BY <1>0, <1>2, <2>2, Ends
      <4>1. PICK y \in DOMAIN hdr : End(y) = x
        BY DEF IInv, FrontInv
      <4>2. y \in DOMAIN hdr'
        BY <1>0, <2>1, <4>1, Ends
      <4> QED
        BY <2>2, <4>1, <4>2
    <3>3. (\A x \in DOMAIN hdr : x < next_front => End(x) = next_front
             \/ (End(x) \in DOMAIN hdr /\ End(x) < next_front))'
      BY <1>2, <2>1, <2>2 DEF IInv, FrontInv
    <3>4. (\A x \in DOMAIN hdr, y \in DOMAIN hdr : x < y => End(x) <= y)'
      BY <2>2 DEF IInv, FrontInv
    <3>5. (\A x \in DOMAIN hdr, y \in DOMAIN hdr :
             End(x) = y => /\ hdr[y].frag <=> x \notin flive
                           /\ trl[End(y)] = IF hdr[y].frag THEN x ELSE y)'
      <4> SUFFICES ASSUME NEW x \in DOMAIN hdr', NEW y \in DOMAIN hdr', End(x) = y
                   PROVE  /\ hdr'[y].frag <=> x \notin flive
                          /\ trl'[End(y)] = IF hdr'[y].frag THEN x ELSE y
        BY <1>2, <2>2
      <4>1. hdr[y].frag <=> x \notin flive
        BY <2>2 DEF IInv, FrontInv
      <4>2. trl[End(y)] = IF hdr[y].frag THEN x ELSE y
        BY <2>2 DEF IInv, FrontInv
      <4>3. hdr'[y] = hdr[y] /\ trl'[End(y)] = trl[End(y)]
        BY <2>1, <2>2, <3>1
      <4> QED
        BY <4>1, <4>2, <4>3
    <3>6. (DOMAIN hdr # {} => 0 \in DOMAIN hdr /\ ~hdr[0].frag /\ trl[End(0)] = 0)'
      <4> SUFFICES ASSUME DOMAIN hdr' # {}
                   PROVE  0 \in DOMAIN hdr' /\ ~hdr'[0].frag /\ trl'[End(0)'] = 0
        OBVIOUS
      <4>1. 0 \in DOMAIN hdr /\ ~hdr[0].frag /\ trl[End(0)] = 0
        BY <2>1 DEF IInv, FrontInv
      <4>2. 0 \in DOMAIN hdr'
        BY <1>0, <2>1, <4>1, Ends
      <4> QED
        BY <2>1, <2>2, <3>1, <4>1, <4>2
    <3>7. (\A x \in flive : x < next_front)'
      BY <1>2 DEF IInv, FrontInv
    <3>8. (\A x \in DOMAIN hdr :
             x < next_front /\ (End(x) = next_front => x \in flive))'
      <4> SUFFICES ASSUME NEW x \in DOMAIN hdr', End(x) = next_front
                   PROVE  x \in flive
        BY <1>2, <2>2
      <4>1. next_front > 0
        BY <1>0, <2>2, Ends
      <4>2. ~hdr[next_front].frag
        BY <1>2, <4>1 DEF FMore
      <4> QED
        BY <1>0, <2>2, <4>2 DEF IInv, FrontInv
    <3> QED
      BY <1>2, <3>1, <3>2, <3>3, <3>4, <3>5, <3>6, <3>7, <3>8 DEF FrontInv
  <2> QED
    BY <2>3, <2>4, <2>5 DEF IInv
<1> QED
  BY <1>1, <1>2 DEF FPop, Below

LEMMA FClearInv ==
  ASSUME IInv, FClear
  PROVE  IInv'
<1>1. /\ DOMAIN hdr' = {} /\ DOMAIN trl' = {} /\ flive' = {}
      /\ hdr' \in [DOMAIN hdr' -> Word] /\ trl' \in [DOMAIN trl' -> 0..Size]
  BY DEF FClear, Keep
<1>2. BackInv'
  BY BackUnchanged DEF IInv, FClear
<1>3. TypeOK' /\ NoCollision'
  BY <1>1, ConstantsAssumption DEF IInv, TypeOK, NoCollision, FClear, back
<1>4. FrontInv'
  BY <1>1 DEF FrontInv, FClear
<1> QED
  BY <1>2, <1>3, <1>4 DEF IInv

LEMMA FExtendInv ==
  ASSUME IInv, NEW n \in Requests, TopPlain, FExtend(n)
  PROVE  IInv'
<1> DEFINE new == next_front + n
<1> USE ConstantsAssumption
<1>0. pc = "idle"
  BY DEF FExtend
<1>1. CASE Refuse(-2) \/ Refuse(-7) \/ Refuse(-4)
  BY <1>0, <1>1, RefuseInv
<1>2. CASE /\ n <= Size
           /\ next_front # 0
           /\ new <= last_back
           /\ hdr' = [hdr EXCEPT ![trl[next_front]].size = @ + n]
           /\ trl' = Put(Keep(trl, 0..(next_front - 1)), new,
                         new - (hdr[trl[next_front]].size + n + HDR + PTR))
           /\ next_front' = new
           /\ UNCHANGED <<flive, back, errcode, pc>>
  <2>1. PICK t \in DOMAIN hdr : End(t) = next_front
    BY <1>2 DEF IInv, FrontInv
  <2>2. ~hdr[t].frag /\ trl[next_front] = t
    <3>1. ~hdr[t].frag
      BY <2>1 DEF TopPlain
    <3>2. CASE t = 0
      BY <2>1, <3>1, <3>2 DEF IInv, FrontInv
    <3>3. CASE t # 0
      <4>1. PICK b \in DOMAIN hdr : End(b) = t
        BY <3>3 DEF IInv, FrontInv
      <4> QED
        BY <2>1, <3>1, <4>1 DEF IInv, FrontInv
    <3> QED
      BY <3>1, <3>2, <3>3
  <2>3. /\ \A x \in DOMAIN hdr : hdr[x] \in Word /\ hdr[x].size \in Nat
        /\ n \in Nat /\ next_front \in Nat /\ new \in 0..Size
        /\ next_front <= new
    <3>1. \A x \in DOMAIN hdr : hdr[x] \in Word
      BY DEF IInv, TypeOK
    <3>2. n \in Nat /\ next_front \in Nat /\ last_back \in 0..Size
      BY DEF IInv, TypeOK
    <3> QED
      BY <1>2, <3>1, <3>2 DEF Word
  <2>4. /\ DOMAIN hdr' = DOMAIN hdr
        /\ \A x \in DOMAIN hdr : x # t => hdr'[x] = hdr[x]
        /\ hdr'[t].size = hdr[t].size + n
        /\ \A x \in DOMAIN hdr : hdr'[x].frag = hdr[x].frag
        /\ \A x \in DOMAIN hdr : hdr'[x] \in Word
    <3>1. hdr' = [hdr EXCEPT ![t].size = hdr[t].size + n]
      BY <1>2, <2>1, <2>2
    <3>2. hdr[t].size + n \in Nat /\ hdr[t].frag \in BOOLEAN
      BY <2>1, <2>3 DEF Word
    <3>3. hdr'[t] = [hdr[t] EXCEPT !.size = hdr[t].size + n]
      BY <2>1, <3>1
    <3>4. hdr'[t] = [size |-> hdr[t].size + n, frag |-> hdr[t].frag]
      BY <2>1, <2>3, <3>3 DEF Word
    <3> QED
      BY <2>1, <2>3, <3>1, <3>2, <3>4 DEF Word
  <2>5. /\ \A x \in DOMAIN hdr : x # t => End(x)' = End(x) /\ End(x) < next_front
        /\ End(t)' = new
    <3>1. \A x \in DOMAIN hdr : x # t => End(x)' = End(x)
      BY <2>4 DEF End
    <3>2. \A x \in DOMAIN hdr : x # t => End(x) < next_front
      BY <1>0, <2>1, Ends DEF IInv, FrontInv
    <3>3. End(t)' = new
      BY <2>1, <2>3, <2>4, Ends DEF End
    <3> QED
      BY <3>1, <3>2, <3>3
  <2>6. new - (hdr[t].size + n + HDR + PTR) = t
    BY <2>1, <2>3, Ends DEF End
  <2>7. /\ DOMAIN trl' = {x \in DOMAIN trl : x < next_front} \cup {new}
        /\ \A x \in DOMAIN trl : x < next_front => trl'[x] = trl[x]
        /\ trl'[new] = t
    BY <1>2, <2>2, <2>3, <2>6 DEF Put, Keep, IInv, TypeOK
  <2>8. BackInv'
    BY <1>0, <1>2, BackUnchanged DEF IInv
  <2>9. TypeOK' /\ NoCollision'
    <3>1. hdr' \in [DOMAIN hdr' -> Word]
      BY <1>2, <2>4
    <3>2. trl' \in [DOMAIN trl' -> 0..Size]
      <4>1. t \in 0..Size
        BY <2>1 DEF IInv, TypeOK
      <4> QED
        BY <1>2, <2>2, <2>6, <4>1, PutType, KeepType DEF IInv, TypeOK
    <3> QED
      BY <1>2, <2>3, <2>4, <2>7, <3>1, <3>2 DEF IInv, TypeOK, NoCollision, back
  <2>10. FrontInv'
    <3>1. (DOMAIN trl = {End(x) : x \in DOMAIN hdr})'
      <4>1. DOMAIN trl = {End(x) : x \in DOMAIN hdr}
        BY DEF IInv, FrontInv
      <4> QED
        BY <2>1, <2>3, <2>4, <2>5, <2>7, <4>1
    <3>2. (\A x \in DOMAIN hdr \cup {next_front} :
             x = 0 \/ \E y \in DOMAIN hdr : End(y) = x)'
      <4> SUFFICES ASSUME NEW x \in DOMAIN hdr, x # 0
                   PROVE  \E y \in DOMAIN hdr : End(y)' = x
        BY <1>2, <2>4, <2>5
      <4>1. PICK y \in DOMAIN hdr : End(y) = x
        BY DEF IInv, FrontInv
      <4>2. y # t
        BY <1>0, <2>1, <4>1 DEF IInv, FrontInv, TypeOK
      <4> QED
        BY <2>5, <4>1, <4>2
    <3>3. (\A x \in DOMAIN hdr : x < next_front => End(x) = next_front
             \/ (End(x) \in DOMAIN hdr /\ End(x) < next_front))'
      <4> SUFFICES ASSUME NEW x \in DOMAIN hdr, x # t
                   PROVE  End(x) \in DOMAIN hdr /\ End(x) < new
        BY <1>2, <2>4, <2>5
      <4>1. x < next_front /\ End(x) < next_front /\ End(x) \in Nat
        BY <1>0, <2>5, Ends DEF IInv, FrontInv
      <4> QED
        BY <2>3, <4>1 DEF IInv, FrontInv
    <3>4. (\A x \in DOMAIN hdr, y \in DOMAIN hdr : x < y => End(x) <= y)'
      <4>1. \A y \in DOMAIN hdr : ~(t < y)
        BY <1>0, <2>1, Ends DEF IInv, FrontInv, TypeOK
      <4> QED
        BY <2>4, <2>5, <4>1 DEF IInv, FrontInv
    <3>5. (\A x \in DOMAIN hdr, y \in DOMAIN hdr :
             End(x) = y => /\ hdr[y].frag <=> x \notin flive
                           /\ trl[End(y)] = IF hdr[y].frag THEN x ELSE y)'
      <4> SUFFICES ASSUME NEW x \in DOMAIN hdr, NEW y \in DOMAIN hdr, End(x)' = y
                   PROVE  /\ hdr'[y].frag <=> x \notin flive
                          /\ trl'[End(y)'] = IF hdr'[y].frag THEN x ELSE y
        BY <1>2, <2>4
      <4>1. x # t
        BY <1>0, <2>3, <2>5 DEF IInv, FrontInv, TypeOK
      <4>2. End(x) = y
        BY <2>5, <4>1
      <4>3. hdr[y].frag <=> x \notin flive
        BY <4>2 DEF IInv, FrontInv
      <4>4. trl[End(y)] = IF hdr[y].frag THEN x ELSE y
        BY <4>2 DEF IInv, FrontInv
      <4>5. hdr'[y].frag = hdr[y].frag
        BY <2>4
      <4>6. CASE y = t
        BY <2>2, <2>5, <2>7, <4>3, <4>5, <4>6
      <4>7. CASE y # t
        <5>1. trl'[End(y)'] = trl[End(y)]
          BY <2>5, <2>7, <4>7 DEF IInv, FrontInv
        <5> QED
          BY <4>3, <4>4, <4>5, <5>1
      <4> QED
        BY <4>6, <4>7
    <3>6. (DOMAIN hdr # {} => 0 \in DOMAIN hdr /\ ~hdr[0].frag /\ trl[End(0)] = 0)'
      <4> SUFFICES ASSUME DOMAIN hdr # {}
                   PROVE  0 \in DOMAIN hdr /\ ~hdr'[0].frag /\ trl'[End(0)'] = 0
        BY <2>4
      <4>1. 0 \in DOMAIN hdr /\ ~hdr[0].frag /\ trl[End(0)] = 0 /\ End(0) \in DOMAIN trl
        BY DEF IInv, FrontInv
      <4> QED
        BY <2>4, <2>5, <2>7, <4>1
    <3>7. (\A x \in flive : x < next_front)'
      BY <1>2, <2>3 DEF IInv, FrontInv, TypeOK
    <3>8. (\A x \in DOMAIN hdr :
             x < next_front /\ (End(x) = next_front => x \in flive))'
      <4> SUFFICES ASSUME NEW x \in DOMAIN hdr
                   PROVE  x < new /\ (End(x)' = new => x \in flive)
        BY <1>2, <2>4
      <4>1. x < next_front /\ (End(x) = next_front => x \in flive)
        BY <1>0 DEF IInv, FrontInv
      <4> QED
        BY <2>1, <2>3, <2>5, <4>1, Ends
    <3> QED
      BY <1>0, <1>2, <3>1, <3>2, <3>3, <3>4, <3>5, <3>6, <3>7, <3>8 DEF FrontInv
  <2> QED
    BY <2>8, <2>9, <2>10 DEF IInv
<1> QED
  BY <1>1, <1>2 DEF FExtend

-----------------------------------------------------------------------------
(* The back stack *)

LEMMA BEnds ==
  ASSUME IInv
  PROVE  \A x \in DOMAIN bhdr : /\ x \in Nat /\ BEnd(x) \in Nat
                                /\ x < BEnd(x) /\ BEnd(x) <= Size
                                /\ last_back <= x /\ bhdr[x] \in Word
<1> USE ConstantsAssumption
<1>1. \A x \in DOMAIN bhdr : x \in 0..Size /\ last_back <= x /\ bhdr[x] \in Word
  BY DEF IInv, TypeOK, BackInv
<1>2. \A x \in DOMAIN bhdr : BEnd(x) = Size \/ BEnd(x) \in DOMAIN bhdr
  BY DEF IInv, BackInv, BackTiled
<1>3. \A x \in DOMAIN bhdr : BEnd(x) \in Nat /\ x < BEnd(x)
  BY <1>1 DEF BEnd, Word
<1> QED
  BY <1>1, <1>2, <1>3

LEMMA BAllocInv ==
  ASSUME IInv, NEW n \in Requests, BAlloc(n)
  PROVE  IInv'
<1> DEFINE at == last_back - (n + HDR)
<1> USE ConstantsAssumption
<1>0. pc = "idle"
  BY DEF BAlloc
<1>1. CASE Refuse(-2) \/ Refuse(-1)
  BY <1>0, <1>1, RefuseInv
<1>2. CASE /\ n <= Size
           /\ next_front + n + HDR <= last_back
           /\ last_back' = at
           /\ bhdr' = Put(bhdr, at, [size |-> n, frag |-> FALSE])
           /\ blive' = blive \cup {at}
           /\ UNCHANGED <<front, errcode, pc>>
  <2> DEFINE w == [size |-> n, frag |-> FALSE]
  <2>1. /\ at \in 0..Size /\ at < last_back /\ next_front <= at
        /\ last_back \in 0..Size /\ n \in Nat /\ w \in Word
    <3>1. n \in Nat /\ next_front \in Nat /\ last_back \in 0..Size
      BY DEF IInv, TypeOK
    <3> QED
      BY <1>2, <3>1 DEF Word
  <2>2. \A x \in DOMAIN bhdr : last_back <= x /\ x # at /\ x \in Nat
    BY <2>1, BEnds
  <2>3. /\ DOMAIN bhdr' = DOMAIN bhdr \cup {at}
        /\ bhdr'[at] = w
        /\ \A x \in DOMAIN bhdr : bhdr'[x] = bhdr[x]
    BY <1>2, <2>2 DEF Put
  <2>4. /\ \A x \in DOMAIN bhdr : BEnd(x)' = BEnd(x)
        /\ \A x : x = at => BEnd(x)' = last_back
    BY <2>1, <2>3 DEF BEnd
  <2>5. FrontInv'
    BY <1>0, <1>2, FrontUnchanged DEF IInv
  <2>6. TypeOK' /\ NoCollision'
    <3>1. bhdr' \in [DOMAIN bhdr' -> Word]
      BY <1>2, <2>1, PutType DEF IInv, TypeOK
    <3> QED
      BY <1>2, <2>1, <2>3, <3>1 DEF IInv, TypeOK, NoCollision, front
  <2>7. BackInv'
    <3>1. last_back = Size \/ last_back \in blive
      BY <1>0 DEF IInv, BackInv
    <3>2. BackTiled'
      <4>1. last_back = Size \/ last_back \in DOMAIN bhdr
        BY <3>1 DEF IInv, TypeOK
      <4>2. (last_back = Size \/ last_back \in DOMAIN bhdr)'
        BY <1>2, <2>3
      <4>3. (\A x \in DOMAIN bhdr : BEnd(x) = Size \/ BEnd(x) \in DOMAIN bhdr)'
        BY <2>3, <2>4, <4>1 DEF IInv, BackInv, BackTiled
      <4>4. (\A x \in DOMAIN bhdr, y \in DOMAIN bhdr : x < y => BEnd(x) <= y)'
        BY <2>1, <2>2, <2>3, <2>4 DEF IInv, BackInv, BackTiled
      <4> QED
        BY <4>2, <4>3, <4>4 DEF BackTiled
    <3>3. (\A x \in DOMAIN bhdr : last_back <= x)'
      BY <1>2, <2>1, <2>2, <2>3
    <3>4. (\A x \in DOMAIN bhdr : bhdr[x].frag <=> x \notin blive)'
      <4> SUFFICES ASSUME NEW x \in DOMAIN bhdr'
                   PROVE  bhdr'[x].frag <=> x \notin blive'
        OBVIOUS
      <4>1. CASE x = at
        BY <1>2, <2>3, <4>1
      <4>2. CASE x \in DOMAIN bhdr
        <5>1. bhdr[x].frag <=> x \notin blive
          BY <4>2 DEF IInv, BackInv
        <5>2. bhdr'[x] = bhdr[x] /\ (x \in blive' <=> x \in blive)
          BY <1>2, <2>2, <2>3, <4>2
        <5> QED
          BY <5>1, <5>2
      <4> QED
        BY <2>3, <4>1, <4>2
    <3> QED
      BY <1>2, <3>2, <3>3, <3>4 DEF BackInv
  <2> QED
    BY <2>5, <2>6, <2>7 DEF IInv
<1>3. ~NoRoomBack(n) => next_front + n + HDR <= last_back
  BY DEF NoRoomBack, IInv, TypeOK
<1> QED
  BY <1>1, <1>2, <1>3 DEF BAlloc

\* The back stack cut down to the chunk at m, or emptied.
LEMMA BackCutInv ==
  ASSUME IInv, pc # "fpop", pc' # "fpop",
         NEW m \in DOMAIN bhdr \cup {Size}, m >= last_back,
         last_back' = m,
         bhdr' = Keep(bhdr, m..Size),
         blive' = blive \cap (m..Size),
         pc' \in {"idle", "bpop"},
         pc' = "idle" => m = Size \/ m \in blive,
         UNCHANGED <<front, errcode>>
  PROVE  IInv'
<1> USE ConstantsAssumption
<1>1. /\ DOMAIN bhdr' = {x \in DOMAIN bhdr : m <= x}
      /\ \A x \in DOMAIN bhdr' : bhdr'[x] = bhdr[x]
      /\ m \in 0..Size
  BY BEnds DEF Keep, IInv, TypeOK
<1>2. \A x \in DOMAIN bhdr' : BEnd(x)' = BEnd(x)
  BY <1>1 DEF BEnd
<1>3. FrontInv'
  BY FrontUnchanged DEF IInv
<1>4. TypeOK' /\ NoCollision'
  <2>1. bhdr' \in [DOMAIN bhdr' -> Word]
    BY KeepType DEF IInv, TypeOK
  <2> QED
    BY <1>1, <2>1 DEF IInv, TypeOK, NoCollision, front
<1>5. BackTiled'
  <2>1. last_back' = Size \/ last_back' \in DOMAIN bhdr'
    BY <1>1
  <2>2. \A x \in DOMAIN bhdr' : BEnd(x) = Size \/ BEnd(x) \in DOMAIN bhdr'
    BY <1>1, BEnds DEF IInv, BackInv, BackTiled
  <2> QED
    BY <1>1, <1>2, <2>1, <2>2 DEF IInv, BackInv, BackTiled
<1>6. (\A x \in DOMAIN bhdr : bhdr[x].frag <=> x \notin blive)'
  <2> SUFFICES ASSUME NEW x \in DOMAIN bhdr'
               PROVE  bhdr'[x].frag <=> x \notin blive'
    OBVIOUS
  <2>1. bhdr[x].frag <=> x \notin blive
    BY <1>1 DEF IInv, BackInv
  <2>2. x \in blive' <=> x \in blive
    BY <1>1 DEF IInv, TypeOK
  <2> QED
    BY <1>1, <2>1, <2>2
<1>7. (pc # "bpop" => last_back = Size \/ last_back \in blive)'
  BY <1>1
<1> QED
  BY <1>1, <1>3, <1>4, <1>5, <1>6, <1>7 DEF IInv, BackInv

\* Popping the top chunk: by bfree itself, or by a round of its loop.
LEMMA BackPopInv ==
  ASSUME IInv, pc # "fpop", pc' = "bpop",
         last_back \in DOMAIN bhdr,
         last_back' = BEnd(last_back),
         bhdr' = Keep(bhdr, BEnd(last_back)..Size),
         blive' = blive \ {last_back},
         UNCHANGED <<front, errcode>>
  PROVE  IInv'
<1> DEFINE m == BEnd(last_back)
<1>1. m \in DOMAIN bhdr \cup {Size} /\ m >= last_back
  BY BEnds DEF IInv, BackInv, BackTiled
<1>2. blive' = blive \cap (m..Size)
  <2>1. \A x \in blive : x # last_back => m <= x /\ x <= Size
    BY BEnds DEF IInv, BackInv, BackTiled, TypeOK
  <2>2. last_back \notin m..Size
    BY BEnds
  <2>3. \A x \in blive : x \in Nat /\ m \in Nat /\ Size \in Nat
    BY BEnds, ConstantsAssumption DEF IInv, TypeOK
  <2> QED
    BY <2>1, <2>2, <2>3
<1> QED
  BY <1>1, <1>2, BackCutInv

LEMMA BFreeInv ==
  ASSUME IInv, NEW a \in Chunks, BFree(a)
  PROVE  IInv'
<1>0. pc = "idle"
  BY DEF BFree
<1>1. CASE Refuse(-6)
  BY <1>0, <1>1, RefuseInv
\* a front chunk lies below last_back
<1>2. ASSUME a >= last_back
      PROVE  a \in DOMAIN bhdr
  <2>1. \A x \in DOMAIN hdr : x < next_front /\ x \in Nat
    BY <1>0, Ends DEF IInv, FrontInv
  <2>2. next_front <= last_back /\ next_front \in Nat /\ last_back \in Nat
    BY DEF IInv, NoCollision, TypeOK
  <2> QED
    BY <1>2, <2>1, <2>2 DEF Chunks
<1>3. CASE /\ a = last_back
           /\ last_back' = BEnd(a)
           /\ bhdr' = Keep(bhdr, BEnd(a)..Size)
           /\ blive' = blive \ {a}
           /\ pc' = "bpop"
           /\ UNCHANGED <<front, errcode>>
  <2>1. a \in DOMAIN bhdr
    BY <1>2, <1>3 DEF IInv, TypeOK
  <2> QED
    BY <1>0, <1>3, <2>1, BackPopInv
<1>4. CASE /\ a > last_back
           /\ bhdr' = [bhdr EXCEPT ![a].frag = TRUE]
           /\ blive' = blive \ {a}
           /\ errcode' = -4
           /\ UNCHANGED <<front, last_back, pc>>
  <2>1. a \in DOMAIN bhdr
    <3>1. a \in Int /\ last_back \in Int
      BY DEF Chunks, IInv, TypeOK
    <3> QED
      BY <1>2, <1>4, <3>1
  <2>2. /\ DOMAIN bhdr' = DOMAIN bhdr
        /\ \A x \in DOMAIN bhdr : x # a => bhdr'[x] = bhdr[x]
        /\ bhdr'[a] = [bhdr[a] EXCEPT !.frag = TRUE]
        /\ \A x \in DOMAIN bhdr : bhdr[x] \in Word
    BY <1>4, <2>1, BEnds
  <2>3. /\ bhdr'[a].frag = TRUE /\ bhdr'[a].size = bhdr[a].size
        /\ \A x \in DOMAIN bhdr : bhdr'[x] \in Word
    BY <2>1, <2>2 DEF Word
  <2>4. \A x \in DOMAIN bhdr : BEnd(x)' = BEnd(x)
    BY <2>2, <2>3 DEF BEnd
  <2>5. FrontInv'
    BY <1>0, <1>4, FrontUnchanged DEF IInv
  <2>6. TypeOK' /\ NoCollision'
    <3>1. bhdr' \in [DOMAIN bhdr' -> Word]
      BY <1>4, <2>2, <2>3
    <3> QED
      BY <1>4, <2>2, <3>1 DEF IInv, TypeOK, NoCollision, front
  <2>7. BackInv'
    <3>1. BackTiled'
      BY <1>4, <2>2, <2>4 DEF IInv, BackInv, BackTiled
    <3>2. (\A x \in DOMAIN bhdr : bhdr[x].frag <=> x \notin blive)'
      <4> SUFFICES ASSUME NEW x \in DOMAIN bhdr
                   PROVE  bhdr'[x].frag <=> x \notin blive'
        BY <2>2
      <4>1. CASE x = a
        BY <1>4, <2>3, <4>1
      <4>2. CASE x # a
        <5>1. bhdr[x].frag <=> x \notin blive
          BY DEF IInv, BackInv
        <5>2. bhdr'[x] = bhdr[x] /\ (x \in blive' <=> x \in blive)
          BY <1>4, <2>2, <4>2
        <5> QED
          BY <5>1, <5>2
      <4> QED
        BY <4>1, <4>2
    <3>3. (\A x \in DOMAIN bhdr : last_back <= x)'
      BY <1>4, <2>2 DEF IInv, BackInv
    <3>4. last_back = Size \/ last_back \in blive'
      BY <1>0, <1>4, <2>1, BEnds DEF IInv, BackInv, TypeOK
    <3> QED
      BY <1>4, <3>1, <3>2, <3>3, <3>4 DEF BackInv
  <2> QED
    BY <2>5, <2>6, <2>7 DEF IInv
<1> QED
  BY <1>1, <1>3, <1>4 DEF BFree

LEMMA BPopInv ==
  ASSUME IInv, BPop
  PROVE  IInv'
<1>0. pc = "bpop" /\ (last_back = Size \/ last_back \in DOMAIN bhdr)
  BY DEF BPop, IInv, BackInv, BackTiled
<1>1. CASE /\ BMore
           /\ last_back' = BEnd(last_back)
           /\ bhdr' = Keep(bhdr, BEnd(last_back)..Size)
           /\ UNCHANGED <<front, blive, errcode, pc>>
  <2>1. last_back \in DOMAIN bhdr
    BY <1>0, <1>1 DEF BMore, IInv, TypeOK
  <2>2. last_back \notin blive
    BY <1>1, <2>1 DEF BMore, IInv, BackInv
  <2> QED
    BY <1>0, <1>1, <2>1, <2>2, BackPopInv
<1>2. CASE /\ ~BMore
           /\ pc' = "idle"
           /\ UNCHANGED <<front, back, errcode>>
  <2>1. last_back = Size \/ last_back \in blive
    <3>1. CASE last_back = Size
      BY <3>1
    <3>2. CASE last_back # Size
      <4>1. last_back \in DOMAIN bhdr /\ last_back < Size
        BY <1>0, <3>2, ConstantsAssumption DEF IInv, TypeOK
      <4>2. ~bhdr[last_back].frag
        BY <1>2, <4>1 DEF BMore
      <4> QED
        BY <4>1, <4>2 DEF IInv, BackInv
    <3> QED
      BY <3>1, <3>2
  <2>2. FrontInv'
    BY <1>0, <1>2, FrontUnchanged DEF IInv
  <2>3. TypeOK' /\ NoCollision'
    BY <1>2 DEF IInv, TypeOK, NoCollision, front, back
  <2>4. BackInv'
    BY <1>2, <2>1 DEF IInv, BackInv, BackTiled, BEnd, back
  <2> QED
    BY <2>2, <2>3, <2>4 DEF IInv
<1> QED
  BY <1>1, <1>2 DEF BPop

LEMMA BUnwindInv ==
  ASSUME IInv, NEW m \in blive \cup {Size}, BUnwind(m)
  PROVE  IInv'
<1>1. m \in DOMAIN bhdr \cup {Size} /\ m >= last_back
  BY BEnds, ConstantsAssumption DEF IInv, TypeOK
<1> QED
  BY <1>1, BackCutInv DEF BUnwind

LEMMA BExtendInv ==
  ASSUME IInv, NEW d \in Deltas, Poppable(d), RoomFor(d), BExtend(d)
  PROVE  IInv'
<1> DEFINE at == last_back - d
<1> USE ConstantsAssumption
<1>0. pc = "idle"
  BY DEF BExtend
<1>1. CASE Refuse(-2) \/ Refuse(-1) \/ Refuse(-7)
  BY <1>0, <1>1, RefuseInv
<1>2. CASE /\ last_back >= d
           /\ last_back # Size
           /\ last_back' = at
           /\ bhdr' = Put(Keep(bhdr, (last_back + 1)..Size), at,
                          [bhdr[last_back] EXCEPT !.size = @ + d])
           /\ blive' = (blive \ {last_back}) \cup {at}
           /\ UNCHANGED <<front, errcode, pc>>
  <2>1. last_back \in DOMAIN bhdr /\ last_back \in blive /\ bhdr[last_back] \in Word
    BY <1>0, <1>2, BEnds DEF IInv, BackInv, TypeOK
  <2> DEFINE w == [size |-> bhdr[last_back].size + d, frag |-> bhdr[last_back].frag]
  <2>2. /\ bhdr[last_back].size \in Nat /\ bhdr[last_back].frag \in BOOLEAN
        /\ d \in Int /\ bhdr[last_back].size + d >= 0
        /\ [bhdr[last_back] EXCEPT !.size = @ + d] = w
        /\ w \in Word /\ w.frag = bhdr[last_back].frag
    <3>1. bhdr[last_back].size \in Nat /\ bhdr[last_back].frag \in BOOLEAN
      BY <2>1 DEF Word
    <3>2. d \in Int /\ bhdr[last_back].size + d >= 0
      BY <1>2 DEF Poppable
    <3>3. [bhdr[last_back] EXCEPT !.size = @ + d] = w
      BY <2>1 DEF Word
    <3> QED
      BY <3>1, <3>2, <3>3 DEF Word
  <2>3. /\ last_back \in Nat /\ at \in 0..Size /\ next_front <= at
        /\ at < BEnd(last_back)
    <3>1. last_back \in 0..Size /\ next_front \in 0..Size
      BY DEF IInv, TypeOK
    <3>2. next_front <= at
      BY <1>2 DEF RoomFor
    <3>3. at < BEnd(last_back) /\ BEnd(last_back) <= Size /\ BEnd(last_back) \in Nat
      BY <2>1, <2>2, <3>1, BEnds DEF BEnd
    <3> QED
      BY <2>2, <3>1, <3>2, <3>3
  <2>4. \A x \in DOMAIN bhdr : x # last_back =>
          /\ last_back < x /\ BEnd(last_back) <= x /\ at < x
          /\ x \in (last_back + 1)..Size
    <3>1. \A x \in DOMAIN bhdr : x # last_back => last_back < x
      BY <2>3, BEnds
    <3> QED
      BY <2>1, <2>3, <3>1, BEnds DEF IInv, BackInv, BackTiled
  <2>5. /\ DOMAIN bhdr' = (DOMAIN bhdr \ {last_back}) \cup {at}
        /\ bhdr'[at] = w
        /\ \A x \in DOMAIN bhdr : x # last_back => bhdr'[x] = bhdr[x]
    <3>1. DOMAIN bhdr \cap ((last_back + 1)..Size) = DOMAIN bhdr \ {last_back}
      BY <2>3, <2>4
    <3> QED
      BY <1>2, <2>2, <2>3, <2>4, <3>1 DEF Put, Keep
  <2>6. /\ \A x \in DOMAIN bhdr : x # last_back => BEnd(x)' = BEnd(x)
        /\ \A x : x = at => BEnd(x)' = BEnd(last_back)
    <3>1. \A x : x = at => BEnd(x)' = BEnd(last_back)
      BY <2>2, <2>3, <2>5 DEF BEnd
    <3> QED
      BY <2>5, <3>1 DEF BEnd
  <2>7. FrontInv'
    BY <1>0, <1>2, FrontUnchanged DEF IInv
  <2>8. TypeOK' /\ NoCollision'
    <3>1. bhdr' \in [DOMAIN bhdr' -> Word]
      BY <1>2, <2>2, PutType, KeepType DEF IInv, TypeOK
    <3> QED
      BY <1>2, <2>3, <2>5, <3>1 DEF IInv, TypeOK, NoCollision, front
  <2>9. BackInv'
    <3>1. BackTiled'
      <4>1. (last_back = Size \/ last_back \in DOMAIN bhdr)'
        BY <1>2, <2>5
      <4>2. \A x \in DOMAIN bhdr : BEnd(x) # last_back
        BY BEnds, <2>3
      <4>3. (\A x \in DOMAIN bhdr : BEnd(x) = Size \/ BEnd(x) \in DOMAIN bhdr)'
        <5>1. \A x \in DOMAIN bhdr : BEnd(x) = Size \/ BEnd(x) \in DOMAIN bhdr'
          BY <2>5, <4>2 DEF IInv, BackInv, BackTiled
        <5> QED
          BY <2>1, <2>5, <2>6, <5>1
      <4>4. (\A x \in DOMAIN bhdr, y \in DOMAIN bhdr : x < y => BEnd(x) <= y)'
        <5> SUFFICES ASSUME NEW x \in DOMAIN bhdr', NEW y \in DOMAIN bhdr', x < y
                     PROVE  BEnd(x)' <= y
          OBVIOUS
        <5>1. y \in DOMAIN bhdr /\ y # last_back
          BY <2>3, <2>4, <2>5
        <5>2. CASE x = at
          BY <2>4, <2>6, <5>1, <5>2
        <5>3. CASE x # at
          BY <2>5, <2>6, <5>1, <5>3 DEF IInv, BackInv, BackTiled
        <5> QED
          BY <5>2, <5>3
      <4> QED
        BY <4>1, <4>3, <4>4 DEF BackTiled
    <3>2. (\A x \in DOMAIN bhdr : last_back <= x)'
      BY <1>2, <2>3, <2>4, <2>5
    <3>3. (\A x \in DOMAIN bhdr : bhdr[x].frag <=> x \notin blive)'
      <4> SUFFICES ASSUME NEW x \in DOMAIN bhdr'
                   PROVE  bhdr'[x].frag <=> x \notin blive'
        OBVIOUS
      <4>1. CASE x = at
        <5>1. ~bhdr[last_back].frag
          BY <2>1 DEF IInv, BackInv
        <5> QED
          BY <1>2, <2>2, <2>5, <4>1, <5>1
      <4>2. CASE x # at
        <5>1. x \in DOMAIN bhdr /\ x # last_back
          BY <2>5, <4>2
        <5>2. bhdr[x].frag <=> x \notin blive
          BY <5>1 DEF IInv, BackInv
        <5>3. bhdr'[x] = bhdr[x] /\ (x \in blive' <=> x \in blive)
          BY <1>2, <2>5, <4>2, <5>1
        <5> QED
          BY <5>2, <5>3
      <4> QED
        BY <4>1, <4>2
    <3>4. last_back' \in blive'
      BY <1>2
    <3> QED
      BY <3>1, <3>2, <3>3, <3>4 DEF BackInv
  <2> QED
    BY <2>7, <2>8, <2>9 DEF IInv
<1> QED
  BY <1>1, <1>2 DEF BExtend

-----------------------------------------------------------------------------
(* The invariant, and what it says *)

LEMMA NextInv ==
  ASSUME IInv, [Next]_vars
  PROVE  IInv'
<1>1. CASE UNCHANGED vars
  <2>1. TypeOK' /\ NoCollision'
    BY <1>1 DEF IInv, TypeOK, NoCollision, vars
  <2>2. FrontInv'
    BY <1>1 DEF IInv, FrontInv, End, vars
  <2>3. BackInv'
    BY <1>1 DEF IInv, BackInv, BackTiled, BEnd, vars
  <2> QED
    BY <2>1, <2>2, <2>3 DEF IInv
<1>2. ASSUME NEW n \in Requests, FAlloc(n) \/ BAlloc(n)
      PROVE  IInv'
  BY <1>2, FAllocInv, BAllocInv
<1>3. ASSUME NEW a \in Chunks, FFree(a) \/ BFree(a)
      PROVE  IInv'
  BY <1>3, FFreeInv, BFreeInv
<1>4. CASE FPop \/ BPop \/ FClear
  BY <1>4, FPopInv, BPopInv, FClearInv
<1>5. ASSUME NEW n \in Requests, TopPlain, FExtend(n)
      PROVE  IInv'
  BY <1>5, FExtendInv
<1>6. ASSUME NEW m \in blive \cup {Size}, BUnwind(m)
      PROVE  IInv'
  BY <1>6, BUnwindInv
<1>7. ASSUME NEW d \in Deltas, Poppable(d), RoomFor(d), BExtend(d)
      PROVE  IInv'
  BY <1>7, BExtendInv
<1> QED
  BY <1>1, <1>2, <1>3, <1>4, <1>5, <1>6, <1>7 DEF Next, Calls

\* The inductive invariant holds in every reachable state.
LEMMA Invariance == Spec => []IInv
<1>1. Init => IInv
  BY InitInv
<1>2. IInv /\ [Next]_vars => IInv'
  BY NextInv
<1> QED
  BY <1>1, <1>2, PTL DEF Spec

\* Stack pointers, words and error codes stay in range, and no word is read
\* or owned outside the memory the manager wrote.
THEOREM TypeCorrect == Spec => []TypeOK
<1>1. IInv => TypeOK
  BY DEF IInv
<1> QED
  BY <1>1, Invariance, PTL

\* The two stacks never collide and each is tiled exactly by its chunks.
THEOREM Tiled == Spec => []StacksTiled
<1>1. ASSUME IInv
      PROVE  FrontTiled
  <2>1. \A a \in FChunks : End(a) = next_front \/ End(a) \in FChunks
    BY <1>1 DEF IInv, FrontInv, FChunks
  <2>2. \A a \in FChunks, b \in FChunks : a < b => End(a) <= b
    BY <1>1 DEF IInv, FrontInv, FChunks
  <2>3. FChunks # {} => 0 \in FChunks
    BY <1>1, Ends DEF IInv, FrontInv, FChunks, TypeOK
  <2> QED
    BY <2>1, <2>2, <2>3 DEF FrontTiled
<1>2. IInv => StacksTiled
  BY <1>1 DEF IInv, BackInv, StacksTiled
<1> QED
  BY <1>2, Invariance, PTL

\* The fragment bits are exactly the chunks whose owners freed them.
THEOREM MarksTruthful == Spec => []FragmentMarks
<1>1. IInv => FragmentMarks
  BY DEF IInv, FrontInv, BackInv, FChunks, FragmentMarks
<1> QED
  BY <1>1, Invariance, PTL

\* Between calls no freed chunk is left on top of either stack.
THEOREM Reclaimed == Spec => []TopReclaimed
<1>1. IInv => TopReclaimed
  BY DEF IInv, FrontInv, BackInv, FChunks, TopReclaimed
<1> QED
  BY <1>1, Invariance, PTL

-----------------------------------------------------------------------------
(* The manager implements a pool of blocks *)

\* Where the blocks of the callers lie.
LEMMA BlockPlaces ==
  ASSUME IInv
  PROVE  /\ \A x \in flive : /\ x \in DOMAIN hdr /\ hdr[x].size \in Nat
                             /\ FBlock(x).lo = x + HDR
                             /\ FBlock(x).hi = x + HDR + hdr[x].size
                             /\ FBlock(x).hi < End(x) /\ End(x) <= next_front
         /\ \A x \in blive : /\ x \in DOMAIN bhdr /\ bhdr[x].size \in Nat
                             /\ BBlock(x).lo = x + HDR
                             /\ BBlock(x).hi = BEnd(x) /\ BEnd(x) <= Size
                             /\ last_back <= x
<1> USE ConstantsAssumption
<1>1. ASSUME NEW x \in flive
      PROVE  /\ x \in DOMAIN hdr /\ hdr[x].size \in Nat
             /\ FBlock(x).hi < End(x) /\ End(x) <= next_front
  <2>1. x \in DOMAIN hdr /\ x \in Nat /\ hdr[x] \in Word /\ x < next_front
    BY Ends DEF IInv, TypeOK, FrontInv
  <2>2. End(x) <= next_front
    BY <2>1, Ends DEF IInv, FrontInv, TypeOK
  <2> QED
    BY <2>1, <2>2 DEF Word, FBlock, End
<1>2. ASSUME NEW x \in blive
      PROVE  /\ x \in DOMAIN bhdr /\ bhdr[x].size \in Nat
             /\ BBlock(x).hi = BEnd(x)
  BY BEnds DEF IInv, TypeOK, Word, BBlock, BEnd
<1> QED
  BY <1>1, <1>2, BEnds DEF FBlock, BBlock

\* Two chunks that are owned give blocks that do not overlap.
LEMMA BlocksApart ==
  ASSUME IInv
  PROVE  /\ \A x \in flive, y \in flive : x # y => Pool!Apart(FBlock(x), FBlock(y))
         /\ \A x \in blive, y \in blive : x # y => Pool!Apart(BBlock(x), BBlock(y))
         /\ \A x \in flive, y \in blive : Pool!Apart(FBlock(x), BBlock(y))
<1> USE ConstantsAssumption
<1>1. /\ \A x \in DOMAIN hdr, y \in DOMAIN hdr : x < y => End(x) <= y
      /\ \A x \in DOMAIN bhdr, y \in DOMAIN bhdr : x < y => BEnd(x) <= y
      /\ next_front <= last_back /\ next_front \in Nat /\ last_back \in Nat
  BY DEF IInv, FrontInv, BackInv, BackTiled, NoCollision, TypeOK
<1>2. ASSUME NEW x \in flive, NEW y \in flive, x < y
      PROVE  FBlock(x).hi <= FBlock(y).lo
  BY <1>1, <1>2, BlockPlaces, Ends
<1>3. ASSUME NEW x \in blive, NEW y \in blive, x < y
      PROVE  BBlock(x).hi <= BBlock(y).lo
  BY <1>1, <1>3, BlockPlaces, BEnds
<1>4. ASSUME NEW x \in flive, NEW y \in blive
      PROVE  FBlock(x).hi <= BBlock(y).lo
  BY <1>1, BlockPlaces, Ends, BEnds
<1>5. /\ \A x \in flive : x \in Nat
      /\ \A x \in blive : x \in Nat
  BY BlockPlaces, Ends, BEnds
<1> QED
  BY <1>2, <1>3, <1>4, <1>5 DEF Pool!Apart

\* A step that keeps every size word and only gives up chunks is a release.
LEMMA Releases ==
  ASSUME flive' \subseteq flive, blive' \subseteq blive,
         \A x \in flive' : hdr'[x].size = hdr[x].size,
         \A x \in blive' : bhdr'[x].size = bhdr[x].size
  PROVE  Pool!Release
  BY DEF Pool!Release, Owned, FBlock, BBlock

LEMMA FAllocGrants ==
  ASSUME IInv, NEW n \in Requests, FAlloc(n)
  PROVE  Pool!Next \/ UNCHANGED Owned
<1> USE ConstantsAssumption
<1> DEFINE top == next_front + HDR + n + PTR
<1>0. pc = "idle"
  BY DEF FAlloc
<1>1. CASE Refuse(-2) \/ Refuse(-1)
  BY <1>1 DEF Refuse, Owned, FBlock, BBlock, front, back
<1>2. CASE /\ top <= last_back
           /\ hdr' = Put(hdr, next_front, [size |-> n, frag |-> FALSE])
           /\ flive' = flive \cup {next_front}
           /\ UNCHANGED back
  <2> DEFINE b == [lo |-> next_front + HDR, hi |-> next_front + HDR + n]
  <2>1. /\ next_front \in Nat /\ last_back \in 0..Size /\ n \in Nat
        /\ next_front \notin DOMAIN hdr
    BY <1>0 DEF IInv, FrontInv, TypeOK
  <2>2. b \in Pool!Block
    BY <1>2, <2>1 DEF Pool!Block
  <2>3. \A x \in flive : Pool!Apart(b, FBlock(x))
    BY <2>1, BlockPlaces, Ends DEF Pool!Apart
  <2>4. \A x \in blive : Pool!Apart(b, BBlock(x))
    BY <1>2, <2>1, BlockPlaces, BEnds DEF Pool!Apart
  <2>5. Owned' = Owned \cup {b}
    <3>1. /\ \A x \in flive : hdr'[x] = hdr[x]
          /\ hdr'[next_front].size = n
      BY <1>2, <2>1, BlockPlaces DEF Put
    <3> QED
      BY <1>2, <3>1 DEF Owned, FBlock, BBlock, back
  <2> QED
    BY <2>2, <2>3, <2>4, <2>5 DEF Pool!Grant, Pool!Next, Owned
<1>3. ~NoRoomFront(n) => top <= last_back
  BY DEF NoRoomFront, IInv, TypeOK
<1> QED
  BY <1>1, <1>2, <1>3 DEF FAlloc

LEMMA BAllocGrants ==
  ASSUME IInv, NEW n \in Requests, BAlloc(n)
  PROVE  Pool!Next \/ UNCHANGED Owned
<1> USE ConstantsAssumption
<1> DEFINE at == last_back - (n + HDR)
<1>1. CASE Refuse(-2) \/ Refuse(-1)
  BY <1>1 DEF Refuse, Owned, FBlock, BBlock, front, back
<1>2. CASE /\ next_front + n + HDR <= last_back
           /\ bhdr' = Put(bhdr, at, [size |-> n, frag |-> FALSE])
           /\ blive' = blive \cup {at}
           /\ UNCHANGED front
  <2> DEFINE b == [lo |-> at + HDR, hi |-> at + HDR + n]
  <2>1. /\ next_front \in Nat /\ last_back \in 0..Size /\ n \in Nat
        /\ at \in Nat /\ at < last_back /\ next_front <= at
        /\ at + HDR + n = last_back
    BY <1>2 DEF IInv, TypeOK
  <2>2. b \in Pool!Block
    BY <1>2, <2>1 DEF Pool!Block
  <2>3. \A x \in flive : Pool!Apart(b, FBlock(x))
    BY <2>1, BlockPlaces, Ends DEF Pool!Apart
  <2>4. \A x \in blive : Pool!Apart(b, BBlock(x))
    BY <1>2, <2>1, BlockPlaces, BEnds DEF Pool!Apart
  <2>5. Owned' = Owned \cup {b}
    <3>1. /\ \A x \in blive : bhdr'[x] = bhdr[x]
          /\ bhdr'[at].size = n
      BY <1>2, <2>1, BlockPlaces, BEnds DEF Put
    <3> QED
      BY <1>2, <3>1 DEF Owned, FBlock, BBlock, front
  <2> QED
    BY <2>2, <2>3, <2>4, <2>5 DEF Pool!Grant, Pool!Next, Owned
<1>3. ~NoRoomBack(n) => next_front + n + HDR <= last_back
  BY DEF NoRoomBack, IInv, TypeOK
<1> QED
  BY <1>1, <1>2, <1>3 DEF BAlloc

\* A free, a round of a pop loop, a clear and an unwind only give up chunks.
LEMMA FreeReleases ==
  ASSUME IInv,
         \/ \E a \in Chunks : FFree(a) \/ BFree(a)
         \/ FPop \/ BPop \/ FClear
         \/ \E m \in blive \cup {Size} : BUnwind(m)
  PROVE  Pool!Next \/ UNCHANGED Owned
<1>0. /\ \A x \in flive : x \in DOMAIN hdr /\ x < next_front /\ hdr[x] \in Word
      /\ \A x \in blive : x \in DOMAIN bhdr /\ x \in 0..Size /\ bhdr[x] \in Word
  BY DEF IInv, TypeOK, FrontInv
<1>1. ASSUME NEW a \in Chunks, FFree(a)
      PROVE  Pool!Release
  <2>1. CASE UNCHANGED front /\ UNCHANGED back
    BY <2>1, Releases DEF front, back
  <2>2. CASE flive' = flive \ {a} /\ UNCHANGED hdr /\ UNCHANGED back
    BY <2>2, Releases DEF back
  <2>3. CASE /\ hdr' = [hdr EXCEPT ![FreeEnd(a)].frag = TRUE]
             /\ flive' = flive \ {a} /\ UNCHANGED back
    <3>1. \A x \in flive : hdr'[x].size = hdr[x].size
      BY <1>0, <2>3 DEF Word
    <3> QED
      BY <2>3, <3>1, Releases DEF back
  <2> QED
    BY <1>1, <2>1, <2>2, <2>3 DEF FFree, Fragment, Refuse
<1>2. ASSUME NEW a \in Chunks, BFree(a)
      PROVE  Pool!Release
  <2>1. CASE UNCHANGED front /\ UNCHANGED back
    BY <2>1, Releases DEF front, back
  <2>2. CASE /\ a = last_back /\ blive' = blive \ {a} /\ UNCHANGED front
             /\ bhdr' = Keep(bhdr, BEnd(a)..Size)
    <3>1. \A x \in blive' : x \in DOMAIN bhdr /\ x \in BEnd(a)..Size
      <4> SUFFICES ASSUME NEW x \in blive, x # a
                   PROVE  x \in DOMAIN bhdr /\ BEnd(a) <= x /\ x \in BEnd(a)..Size
        BY <2>2
      <4>1. a \in DOMAIN bhdr /\ x \in DOMAIN bhdr /\ a < x
        BY <1>0, <2>2, BEnds DEF IInv, BackInv, BackTiled, TypeOK
      <4>2. BEnd(a) <= x
        BY <4>1 DEF IInv, BackInv, BackTiled
      <4> QED
        BY <1>0, <4>1, <4>2, BEnds
    <3>2. \A x \in blive' : bhdr'[x] = bhdr[x]
      BY <2>2, <3>1 DEF Keep
    <3> QED
      BY <2>2, <3>2, Releases DEF front
  <2>3. CASE /\ bhdr' = [bhdr EXCEPT ![a].frag = TRUE]
             /\ blive' = blive \ {a} /\ UNCHANGED front
    <3>1. \A x \in blive : bhdr'[x].size = bhdr[x].size
      BY <1>0, <2>3 DEF Word
    <3> QED
      BY <2>3, <3>1, Releases DEF front
  <2> QED
    BY <1>2, <2>1, <2>2, <2>3 DEF BFree, Refuse
<1>3. ASSUME FPop
      PROVE  Pool!Release
  <2>1. CASE UNCHANGED hdr /\ UNCHANGED flive /\ UNCHANGED back
    BY <2>1, Releases DEF back
  <2>2. CASE /\ hdr' = Keep(hdr, 0..(next_front - 1))
             /\ UNCHANGED flive /\ UNCHANGED back
    <3>1. \A x \in flive : x \in 0..(next_front - 1)
      BY <1>0 DEF IInv, TypeOK
    <3>2. \A x \in flive : hdr'[x] = hdr[x]
      BY <1>0, <2>2, <3>1 DEF Keep
    <3> QED
      BY <2>2, <3>2, Releases DEF back
  <2> QED
    BY <1>3, <2>1, <2>2 DEF FPop
<1>4. ASSUME BPop
      PROVE  Pool!Release
  <2>1. CASE UNCHANGED front /\ UNCHANGED back
    BY <2>1, Releases DEF front, back
  <2>2. CASE /\ BMore /\ UNCHANGED blive /\ UNCHANGED front
             /\ bhdr' = Keep(bhdr, BEnd(last_back)..Size)
    <3>1. last_back \in DOMAIN bhdr /\ last_back \notin blive
      BY <2>2 DEF BMore, IInv, BackInv, BackTiled, TypeOK
    <3>2. \A x \in blive : x \in BEnd(last_back)..Size
      <4> SUFFICES ASSUME NEW x \in blive
                   PROVE  x \in BEnd(last_back)..Size
        OBVIOUS
      <4>1. x \in DOMAIN bhdr /\ last_back < x
        BY <1>0, <3>1, BEnds DEF IInv, TypeOK
      <4>2. BEnd(last_back) <= x
        BY <3>1, <4>1 DEF IInv, BackInv, BackTiled
      <4> QED
        BY <1>0, <3>1, <4>2, BEnds
    <3>3. \A x \in blive : bhdr'[x] = bhdr[x]
      BY <1>0, <2>2, <3>2 DEF Keep
    <3> QED
      BY <2>2, <3>3, Releases DEF front
  <2> QED
    BY <1>4, <2>1, <2>2 DEF BPop
<1>5. ASSUME FClear
      PROVE  Pool!Release
  BY <1>5, Releases DEF FClear, back
<1>6. ASSUME NEW m \in blive \cup {Size}, BUnwind(m)
      PROVE  Pool!Release
  <2>1. \A x \in blive' : bhdr'[x] = bhdr[x]
    BY <1>0, <1>6 DEF BUnwind, Keep
  <2> QED
    BY <1>6, <2>1, Releases DEF BUnwind, front
<1> QED
  BY <1>1, <1>2, <1>3, <1>4, <1>5, <1>6 DEF Pool!Next

LEMMA FExtendResizes ==
  ASSUME IInv, NEW n \in Requests, TopPlain, FExtend(n)
  PROVE  Pool!Next \/ UNCHANGED Owned
<1> USE ConstantsAssumption
<1>0. pc = "idle"
  BY DEF FExtend
<1>1. CASE Refuse(-2) \/ Refuse(-7) \/ Refuse(-4)
  BY <1>1 DEF Refuse, Owned, FBlock, BBlock, front, back
<1>2. CASE /\ next_front # 0
           /\ next_front + n <= last_back
           /\ hdr' = [hdr EXCEPT ![trl[next_front]].size = @ + n]
           /\ UNCHANGED <<flive, back>>
  <2>1. PICK t \in DOMAIN hdr : End(t) = next_front
    BY <1>2 DEF IInv, FrontInv
  <2>2. t \in flive /\ trl[next_front] = t
    <3>1. ~hdr[t].frag /\ t \in flive
      BY <1>0, <2>1 DEF TopPlain, IInv, FrontInv
    <3>2. CASE t = 0
      BY <2>1, <3>1, <3>2 DEF IInv, FrontInv
    <3>3. CASE t # 0
      <4>1. PICK y \in DOMAIN hdr : End(y) = t
        BY <3>3 DEF IInv, FrontInv
      <4> QED
        BY <2>1, <3>1, <4>1 DEF IInv, FrontInv
    <3> QED
      BY <3>1, <3>2, <3>3
  <2> DEFINE b == FBlock(t)
             c == [lo |-> t + HDR, hi |-> t + HDR + hdr[t].size + n]
  <2>3. /\ t \in Nat /\ n \in Nat /\ hdr[t].size \in Nat
        /\ last_back \in 0..Size /\ next_front \in Nat
        /\ t + HDR + hdr[t].size + PTR = next_front
    BY <2>1, <2>2, BlockPlaces, Ends DEF IInv, TypeOK, End
  <2>4. b \in Owned /\ c \in Pool!Block /\ b.lo = c.lo
    BY <1>2, <2>2, <2>3, BlockPlaces DEF Pool!Block, Owned
  <2>5. \A x \in flive : x # t => Pool!Apart(c, FBlock(x)) /\ FBlock(x) # b
    <3> SUFFICES ASSUME NEW x \in flive, x # t
                 PROVE  Pool!Apart(c, FBlock(x)) /\ FBlock(x) # b
      OBVIOUS
    <3>1. x \in DOMAIN hdr /\ x \in Nat /\ x < next_front
          /\ FBlock(x).lo = x + HDR /\ FBlock(x).hi < End(x) /\ FBlock(x).hi \in Nat
      BY BlockPlaces, Ends, <2>3
    <3>2. End(x) <= t
      BY <2>1, <2>3, <3>1, Ends DEF IInv, FrontInv
    <3> QED
      BY <2>2, <2>3, <3>1, <3>2, Ends, BlockPlaces DEF Pool!Apart
  <2>6. \A x \in blive : Pool!Apart(c, BBlock(x)) /\ BBlock(x) # b
    BY <1>2, <2>2, <2>3, BlockPlaces, BEnds DEF Pool!Apart
  <2>7. Owned' = (Owned \ {b}) \cup {c}
    <3>1. /\ \A x \in flive : x # t => FBlock(x)' = FBlock(x)
          /\ FBlock(t)' = c
      <4>1. /\ \A x \in flive : x # t => hdr'[x] = hdr[x]
            /\ hdr'[t].size = hdr[t].size + n
        <5>1. hdr[t] \in Word
          BY <2>1 DEF IInv, TypeOK
        <5> QED
          BY <1>2, <2>1, <2>2, <5>1, BlockPlaces DEF Word
      <4> QED
        BY <2>3, <4>1 DEF FBlock
    <3>2. \A x \in blive : BBlock(x)' = BBlock(x)
      BY <1>2 DEF BBlock, back
    <3> QED
      BY <1>2, <2>2, <2>5, <2>6, <3>1, <3>2 DEF Owned, back
  <2>8. \A z \in Owned \ {b} : Pool!Apart(c, z)
    BY <2>5, <2>6 DEF Owned
  <2> QED
    BY <2>4, <2>7, <2>8 DEF Pool!Resize, Pool!Next
<1> QED
  BY <1>1, <1>2 DEF FExtend

LEMMA BExtendResizes ==
  ASSUME IInv, NEW d \in Deltas, Poppable(d), RoomFor(d), BExtend(d)
  PROVE  Pool!Next \/ UNCHANGED Owned
<1> USE ConstantsAssumption
<1> DEFINE at == last_back - d
<1>0. pc = "idle"
  BY DEF BExtend
<1>1. CASE Refuse(-2) \/ Refuse(-1) \/ Refuse(-7)
  BY <1>1 DEF Refuse, Owned, FBlock, BBlock, front, back
<1>2. CASE /\ last_back >= d
           /\ last_back # Size
           /\ bhdr' = Put(Keep(bhdr, (last_back + 1)..Size), at,
                          [bhdr[last_back] EXCEPT !.size = @ + d])
           /\ blive' = (blive \ {last_back}) \cup {at}
           /\ UNCHANGED front
  <2>1. /\ last_back \in DOMAIN bhdr /\ last_back \in blive
        /\ bhdr[last_back] \in Word /\ last_back \in Nat /\ next_front \in Nat
    BY <1>0, <1>2, BEnds DEF IInv, BackInv, TypeOK
  <2>2. /\ bhdr[last_back].size \in Nat /\ d \in Int
        /\ bhdr[last_back].size + d >= 0
        /\ [bhdr[last_back] EXCEPT !.size = @ + d].size = bhdr[last_back].size + d
    BY <1>2, <2>1 DEF Word, Poppable
  <2> DEFINE b == BBlock(last_back)
             c == [lo |-> at + HDR, hi |-> at + HDR + (bhdr[last_back].size + d)]
  <2>3. /\ next_front <= at /\ at \in Nat
        /\ at + HDR + (bhdr[last_back].size + d) = BEnd(last_back)
        /\ BEnd(last_back) <= Size /\ BEnd(last_back) \in Nat
        /\ at < BEnd(last_back)
    BY <1>2, <2>1, <2>2, BEnds DEF RoomFor, BEnd
  <2>4. b \in Owned /\ c \in Pool!Block /\ b.hi = c.hi
    BY <2>1, <2>2, <2>3, BlockPlaces DEF Pool!Block, Owned
  <2>5. \A x \in flive : Pool!Apart(c, FBlock(x)) /\ FBlock(x) # b
    <3> SUFFICES ASSUME NEW x \in flive
                 PROVE  Pool!Apart(c, FBlock(x)) /\ FBlock(x) # b
      OBVIOUS
    <3>1. /\ x \in Nat /\ FBlock(x).hi < End(x) /\ End(x) <= next_front
          /\ FBlock(x).lo = x + HDR /\ FBlock(x).hi \in Nat /\ End(x) \in Nat
          /\ x < next_front
      BY BlockPlaces, Ends, <2>1
    <3>2. next_front <= last_back
      BY DEF IInv, NoCollision
    <3> QED
      BY <2>1, <2>3, <3>1, <3>2, BlockPlaces DEF Pool!Apart
  <2>6. \A x \in blive : x # last_back =>
          /\ x \in DOMAIN bhdr /\ BEnd(last_back) <= x /\ last_back < x
          /\ x \in (last_back + 1)..Size /\ x # at
          /\ Pool!Apart(c, BBlock(x)) /\ BBlock(x) # b
    <3> SUFFICES ASSUME NEW x \in blive, x # last_back
                 PROVE  /\ x \in DOMAIN bhdr /\ BEnd(last_back) <= x /\ last_back < x
                        /\ x \in (last_back + 1)..Size /\ x # at
                        /\ Pool!Apart(c, BBlock(x)) /\ BBlock(x) # b
      OBVIOUS
    <3>1. x \in DOMAIN bhdr /\ x \in Nat /\ last_back < x /\ x <= Size
      BY <2>1, BlockPlaces, BEnds
    <3>2. BEnd(last_back) <= x
      BY <2>1, <3>1 DEF IInv, BackInv, BackTiled
    <3>3. BBlock(x).lo = x + HDR /\ b.lo = last_back + HDR
      BY <2>1, BlockPlaces
    <3> QED
      BY <2>1, <2>3, <3>1, <3>2, <3>3 DEF Pool!Apart
  <2>7. Owned' = (Owned \ {b}) \cup {c}
    <3>1. /\ \A x \in blive : x # last_back => bhdr'[x] = bhdr[x]
          /\ bhdr'[at].size = bhdr[last_back].size + d
      BY <1>2, <2>2, <2>6 DEF Put, Keep
    <3>2. /\ \A x \in blive : x # last_back => BBlock(x)' = BBlock(x)
          /\ \A x : x = at => BBlock(x)' = c
      BY <3>1, <2>3 DEF BBlock
    <3>3. \A x \in flive : FBlock(x)' = FBlock(x)
      BY <1>2 DEF FBlock, front
    <3>4. Owned' = {FBlock(x) : x \in flive}
                   \cup ({BBlock(x) : x \in blive \ {last_back}} \cup {c})
      BY <1>2, <3>2, <3>3 DEF Owned, front
    <3>5. Owned \ {b} = {FBlock(x) : x \in flive}
                        \cup {BBlock(x) : x \in blive \ {last_back}}
      BY <2>1, <2>5, <2>6 DEF Owned
    <3> QED
      BY <3>4, <3>5
  <2>8. \A z \in Owned \ {b} : Pool!Apart(c, z)
    BY <2>5, <2>6 DEF Owned
  <2> QED
    BY <2>4, <2>7, <2>8 DEF Pool!Resize, Pool!Next
<1> QED
  BY <1>1, <1>2 DEF BExtend

\* Every call keeps the blocks of all callers apart and touches no block but
\* the one it is about: the manager implements ChunkPool.
THEOREM Implements == Spec => OwnersUndisturbed
<1>1. Init => Pool!Init
  BY DEF Init, Pool!Init, Owned
<1>2. ASSUME IInv, [Next]_vars
      PROVE  [Pool!Next]_Owned
  <2>1. CASE UNCHANGED vars
    BY <2>1 DEF vars, Owned, FBlock, BBlock
  <2>2. CASE Next
    BY <1>2, <2>2, FAllocGrants, BAllocGrants, FreeReleases, FExtendResizes,
       BExtendResizes DEF Next, Calls
  <2> QED
    BY <1>2, <2>1, <2>2
<1> QED
  BY <1>1, <1>2, Invariance, PTL DEF Spec, OwnersUndisturbed, Pool!Spec
=============================================================================
