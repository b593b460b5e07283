------------------------------- MODULE QueryMM -------------------------------
(***************************************************************************)
(* The per-query memory manager, dbmm/db_query_mm.c.                       *)
(*                                                                         *)
(* One segment holds two stacks that grow towards each other.  A chunk of  *)
(* the front stack is a size word, the bytes asked for, and a pointer (the *)
(* trailer) to where next_front goes when the chunk is popped.  A chunk of *)
(* the back stack is a size word and the bytes.  The top bit of a size     *)
(* word marks a fragment: in the front stack "the chunk below me is        *)
(* freed", in the back stack "I am freed".                                 *)
(*                                                                         *)
(* Addresses are offsets from the start of the segment.  Memory is modelled*)
(* by the words the manager itself reads: hdr and bhdr by the address of   *)
(* the word, trl by the address just above the pointer.  Reading an        *)
(* address outside their domains would be reading memory the manager never *)
(* wrote.  The loops that pop fragments are steps of their own (pc).       *)
(***************************************************************************)
EXTENDS Integers, Functions

CONSTANTS
  Size,       \* bytes in the segment (mmp->size)
  HDR,        \* sizeof(db_int): a size word
  PTR,        \* sizeof(void star): a trailer
  Requests,   \* sizes asked for by falloc, balloc and fextend
  Deltas      \* sizes given to bextend; a negative one pops

ASSUME ConstantsAssumption ==
  /\ Size \in Nat /\ HDR \in Nat \ {0} /\ PTR \in Nat \ {0}
  /\ Requests \subseteq Nat /\ Deltas \subseteq Int

VARIABLES
  next_front, last_back,   \* the two stack pointers
  hdr, trl,                \* front stack: size words, trailers
  bhdr,                    \* back stack: size words
  errcode,                 \* mmp->errcode, never reset to 0
  pc,                      \* "idle", or the pop loop that is running
  flive, blive             \* history: chunks whose callers have not freed them

vars == <<next_front, last_back, hdr, trl, bhdr, errcode, pc, flive, blive>>

front == <<next_front, hdr, trl, flive>>
back  == <<last_back, bhdr, blive>>

Word == [size : Nat, frag : BOOLEAN]

\* Writing word v at address a of memory m.
Put(m, a, v) == [x \in DOMAIN m \cup {a} |-> IF x = a THEN v ELSE m[x]]
\* What is left of memory m when only the addresses of S are still in use.
Keep(m, S) == [x \in DOMAIN m \cap S |-> m[x]]

\* The address just above the front chunk, or the back chunk, at a.
End(a)  == a + HDR + hdr[a].size + PTR
BEnd(a) == a + HDR + bhdr[a].size

TypeOK ==
  /\ next_front \in 0..Size
  /\ last_back \in 0..Size
  /\ DOMAIN hdr \subseteq 0..Size  /\ hdr  \in [DOMAIN hdr -> Word]
  /\ DOMAIN bhdr \subseteq 0..Size /\ bhdr \in [DOMAIN bhdr -> Word]
  /\ DOMAIN trl \subseteq 0..Size  /\ trl  \in [DOMAIN trl -> 0..Size]
  /\ errcode \in -7..0
  /\ pc \in {"idle", "fpop", "bpop"}
  /\ flive \subseteq DOMAIN hdr
  /\ blive \subseteq DOMAIN bhdr

-----------------------------------------------------------------------------
\* init_query_mm
Init ==
  /\ next_front = 0
  /\ last_back = Size
  /\ hdr  = [a \in {} |-> [size |-> 0, frag |-> FALSE]]
  /\ bhdr = [a \in {} |-> [size |-> 0, frag |-> FALSE]]
  /\ trl  = [a \in {} |-> 0]
  /\ errcode = 0
  /\ pc = "idle"
  /\ flive = {}
  /\ blive = {}

\* A call that only reports an error.
Refuse(code) ==
  /\ errcode' = code
  /\ UNCHANGED <<front, back, pc>>

\* The collision tests of the two allocators.
NoRoomFront_BeforeAdding(n) == next_front > last_back       \* mutant
NoRoomFront_NoTrailer(n) == next_front + n + HDR > last_back \* mutant
NoRoomFront(n) == next_front + n + HDR + PTR > last_back

NoRoomBack_NoHeader(n) == next_front + n > last_back         \* mutant
NoRoomBack(n) == next_front + n + HDR > last_back

\* db_qmm_falloc
FAlloc(n) ==
  LET top == next_front + HDR + n + PTR IN
  /\ pc = "idle"
  /\ \/ n > Size /\ Refuse(-2)
     \/ n <= Size /\ NoRoomFront(n) /\ Refuse(-1)
     \/ /\ n <= Size
        /\ ~NoRoomFront(n)
        /\ hdr' = Put(hdr, next_front, [size |-> n, frag |-> FALSE])
        /\ trl' = Put(trl, top, next_front)
        /\ next_front' = top
        /\ flive' = flive \cup {next_front}
        /\ UNCHANGED <<back, errcode, pc>>

\* db_qmm_balloc
BAlloc(n) ==
  LET at == last_back - (n + HDR) IN
  /\ pc = "idle"
  /\ \/ n > Size /\ Refuse(-2)
     \/ n <= Size /\ NoRoomBack(n) /\ Refuse(-1)
     \/ /\ n <= Size
        /\ ~NoRoomBack(n)
        /\ last_back' = at
        /\ bhdr' = Put(bhdr, at, [size |-> n, frag |-> FALSE])
        /\ blive' = blive \cup {at}
        /\ UNCHANGED <<front, errcode, pc>>

\* The address ffree compares with next_front: the end of the chunk at a, by
\* the size word found there, whichever stack the pointer came from.
FreeEnd(a) ==
  a + HDR + (IF a \in DOMAIN hdr THEN hdr[a].size ELSE bhdr[a].size) + PTR

\* A front chunk freed under another: the one above gets the flag, and its
\* trailer now leads to the freed chunk.
Fragment_FlagOnly(a, above) ==                               \* mutant
  /\ hdr' = [hdr EXCEPT ![above].frag = TRUE]
  /\ trl' = trl
Fragment(a, above) ==
  /\ hdr' = [hdr EXCEPT ![above].frag = TRUE]
  /\ trl' = [trl EXCEPT ![End(above)] = a]

\* db_qmm_ffree, for the chunk whose size word is at a
FFree(a) ==
  LET above == FreeEnd(a) IN
  /\ pc = "idle"
  /\ \/ above > next_front /\ Refuse(-6)
     \/ /\ above = next_front
        /\ next_front' = trl[above]
        /\ pc' = "fpop"
        /\ flive' = flive \ {a}
        /\ UNCHANGED <<hdr, trl, back, errcode>>
     \/ above < next_front /\ hdr[above].frag /\ Refuse(-5)
     \/ /\ above < next_front
        /\ ~hdr[above].frag
        /\ Fragment(a, above)
        /\ errcode' = -3
        /\ flive' = flive \ {a}
        /\ UNCHANGED <<next_front, back, pc>>

\* The while loop of db_qmm_ffree: one round, or its end.
FMore_Never == FALSE                                         \* mutant
FMore == hdr[next_front].frag /\ next_front > 0
Below_Stuck == next_front                                    \* mutant
Below == trl[next_front]

FPop ==
  /\ pc = "fpop"
  /\ \/ /\ FMore
        /\ next_front' = Below
        /\ UNCHANGED <<hdr, trl, flive, back, errcode, pc>>
     \/ /\ ~FMore
        /\ pc' = "idle"
        /\ hdr' = Keep(hdr, 0..(next_front - 1))
        /\ trl' = Keep(trl, 0..next_front)
        /\ UNCHANGED <<next_front, flive, back, errcode>>

\* db_qmm_bfree, for the chunk whose size word is at a.  The first round of
\* its do loop pops the chunk itself.
BFree(a) ==
  /\ pc = "idle"
  /\ \/ (a + HDR >= Size \/ a < last_back) /\ Refuse(-6)
     \/ /\ a + HDR < Size
        /\ a = last_back
        /\ last_back' = BEnd(a)
        /\ bhdr' = Keep(bhdr, BEnd(a)..Size)
        /\ blive' = blive \ {a}
        /\ pc' = "bpop"
        /\ UNCHANGED <<front, errcode>>
     \/ /\ a + HDR < Size
        /\ a > last_back
        /\ bhdr' = [bhdr EXCEPT ![a].frag = TRUE]
        /\ blive' = blive \ {a}
        /\ errcode' = -4
        /\ UNCHANGED <<front, last_back, pc>>

\* The do loop of db_qmm_bfree after its first round.
BMore == last_back < Size /\ bhdr[last_back].frag
BPop ==
  /\ pc = "bpop"
  /\ \/ /\ BMore
        /\ last_back' = BEnd(last_back)
        /\ bhdr' = Keep(bhdr, BEnd(last_back)..Size)
        /\ UNCHANGED <<front, blive, errcode, pc>>
     \/ /\ ~BMore
        /\ pc' = "idle"
        /\ UNCHANGED <<front, back, errcode>>

\* db_qmm_fextend.  The chunk that grows is the one the top trailer points to.
FExtend(n) ==
  LET top == trl[next_front]
      new == next_front + n
  IN
  /\ pc = "idle"
  /\ \/ n > Size /\ Refuse(-2)
     \/ n <= Size /\ next_front = 0 /\ Refuse(-7)
     \/ n <= Size /\ next_front # 0 /\ new > last_back /\ Refuse(-4)
     \/ /\ n <= Size
        /\ next_front # 0
        /\ new <= last_back
        /\ hdr' = [hdr EXCEPT ![top].size = @ + n]
        /\ trl' = Put(Keep(trl, 0..(next_front - 1)), new,
                      new - (hdr[top].size + n + HDR + PTR))
        /\ next_front' = new
        /\ UNCHANGED <<flive, back, errcode, pc>>

\* db_qmm_bextend.  The size word moves with the top of the stack; nothing
\* looks at next_front.
BExtend(d) ==
  LET at == last_back - d IN
  /\ pc = "idle"
  /\ \/ d > Size /\ Refuse(-2)
     \/ d <= Size /\ last_back < d /\ Refuse(-1)
     \/ d <= Size /\ last_back >= d /\ last_back = Size /\ Refuse(-7)
     \/ /\ d <= Size
        /\ last_back >= d
        /\ last_back # Size
        /\ last_back' = at
        /\ bhdr' = Put(Keep(bhdr, (last_back + 1)..Size), at,
                       [bhdr[last_back] EXCEPT !.size = @ + d])
        /\ blive' = (blive \ {last_back}) \cup {at}
        /\ UNCHANGED <<front, errcode, pc>>

\* db_qmm_fclear
FClear ==
  /\ pc = "idle"
  /\ next_front' = 0
  /\ hdr' = Keep(hdr, {})
  /\ trl' = Keep(trl, {})
  /\ flive' = {}
  /\ UNCHANGED <<back, errcode, pc>>

\* The back stack cut down to address m in one go: db_qmm_bclear (m = Size),
\* and insert_command, which puts back the last_back it saved on entry.
BUnwind(m) ==
  /\ pc = "idle"
  /\ last_back' = m
  /\ bhdr' = Keep(bhdr, m..Size)
  /\ blive' = blive \cap (m..Size)
  /\ UNCHANGED <<front, errcode, pc>>

-----------------------------------------------------------------------------
(***************************************************************************)
(* The callers.  They may free any chunk of either stack through either    *)
(* free function, and free a fragment twice; they keep two rules that the  *)
(* functions do not check themselves.                                      *)
(***************************************************************************)
Chunks == DOMAIN hdr \cup DOMAIN bhdr

\* fextend: nothing below the top chunk has been freed since it was allocated
\* (parseexpression extends the chunk it has just allocated).
TopPlain == \A a \in DOMAIN hdr : End(a) = next_front => ~hdr[a].frag

\* bextend: a pop never takes more than was pushed, ...
Poppable(d) == last_back # Size => bhdr[last_back].size + d >= 0

\* ... and what is pushed fits below the front stack, or bextend refuses it.
RoomFor(d) == last_back >= d => last_back - d >= next_front

Calls ==
  \/ \E n \in Requests : FAlloc(n) \/ BAlloc(n)
  \/ \E a \in Chunks : FFree(a) \/ BFree(a)
  \/ FPop \/ BPop
  \/ TopPlain /\ \E n \in Requests : FExtend(n)
  \/ FClear
  \/ \E m \in blive \cup {Size} : BUnwind(m)

Next == Calls \/ \E d \in Deltas : Poppable(d) /\ RoomFor(d) /\ BExtend(d)

Fairness == WF_vars(FPop) /\ WF_vars(BPop)

Spec == Init /\ [][Next]_vars

FairSpec == Spec /\ Fairness

\* The callers as they are in eet.c and dbparseexpr.c: they bextend without
\* asking how much room is left, and rely on the manager to refuse.
CallerSpec ==
  Init /\ [][Calls \/ \E d \in Deltas : Poppable(d) /\ BExtend(d)]_vars

-----------------------------------------------------------------------------
(***************************************************************************)
(* Properties                                                              *)
(***************************************************************************)
\* The chunks still under a stack pointer.
FChunks == {a \in DOMAIN hdr : a < next_front}

\* The two stacks do not run into each other: bytes in use by one are never
\* handed out by the other (the collision db_query_mm.h gives code -1 to).
NoCollision == next_front <= last_back

\* Every byte below next_front and above last_back belongs to exactly one
\* chunk: walking the size words visits the chunks one after the other and
\* ends exactly at the other end of the stack, so that no free loses memory
\* and no two chunks overlap.
FrontTiled ==
  /\ FChunks # {} => 0 \in FChunks
  /\ \A a \in FChunks : End(a) = next_front \/ End(a) \in FChunks
  /\ \A a \in FChunks, b \in FChunks : a < b => End(a) <= b
BackTiled ==
  /\ last_back = Size \/ last_back \in DOMAIN bhdr
  /\ \A a \in DOMAIN bhdr : BEnd(a) = Size \/ BEnd(a) \in DOMAIN bhdr
  /\ \A a \in DOMAIN bhdr, b \in DOMAIN bhdr : a < b => BEnd(a) <= b
StacksTiled == NoCollision /\ FrontTiled /\ BackTiled

\* The fragment bits tell the truth: a front chunk carries one exactly when
\* its owner freed the chunk below it, and then its trailer skips that chunk;
\* a back chunk carries one exactly when its own owner freed it.
FragmentMarks ==
  /\ \A a \in FChunks, b \in FChunks :
        End(a) = b => /\ hdr[b].frag <=> a \notin flive
                      /\ trl[End(b)] = IF hdr[b].frag THEN a ELSE b
  /\ \A a \in DOMAIN bhdr : bhdr[a].frag <=> a \notin blive

\* "will be freed whenever the section immediately above it is successfully
\* freed" (db_query_mm.h): between calls the top chunk of each stack is owned
\* by a caller, so no freed memory is left where it could be handed out.
TopReclaimed ==
  pc = "idle" => /\ \A a \in FChunks : End(a) = next_front => a \in flive
                 /\ last_back # Size => last_back \in blive

\* A pop loop started by a free ends: the chain of trailers leads down.
PopEnds == pc # "idle" ~> pc = "idle"

\* The inductive invariant behind the four above.  While a pop loop runs, the
\* words of the chunks it has popped are still in memory: the front part holds
\* for every word of hdr, not only for the chunks below next_front.
FrontInv ==
  /\ DOMAIN trl = {End(a) : a \in DOMAIN hdr}
  /\ \A a \in DOMAIN hdr \cup {next_front} :
        a = 0 \/ \E b \in DOMAIN hdr : End(b) = a
  /\ \A a \in DOMAIN hdr : a < next_front =>
        End(a) = next_front \/ (End(a) \in DOMAIN hdr /\ End(a) < next_front)
  /\ \A a \in DOMAIN hdr, b \in DOMAIN hdr : a < b => End(a) <= b
  /\ \A a \in DOMAIN hdr, b \in DOMAIN hdr :
        End(a) = b => /\ hdr[b].frag <=> a \notin flive
                      /\ trl[End(b)] = IF hdr[b].frag THEN a ELSE b
  /\ DOMAIN hdr # {} => 0 \in DOMAIN hdr /\ ~hdr[0].frag /\ trl[End(0)] = 0
  /\ \A a \in flive : a < next_front
  /\ pc # "fpop" => \A a \in DOMAIN hdr :
                      a < next_front /\ (End(a) = next_front => a \in flive)
  /\ pc = "fpop" => next_front \in DOMAIN hdr
BackInv ==
  /\ BackTiled
  /\ \A a \in DOMAIN bhdr : last_back <= a
  /\ \A a \in DOMAIN bhdr : bhdr[a].frag <=> a \notin blive
  /\ pc # "bpop" => last_back = Size \/ last_back \in blive
IInv == TypeOK /\ NoCollision /\ FrontInv /\ BackInv

\* The blocks the callers hold; the manager implements ChunkPool with them.
FBlock(a) == [lo |-> a + HDR, hi |-> a + HDR + hdr[a].size]
BBlock(a) == [lo |-> a + HDR, hi |-> a + HDR + bhdr[a].size]
Owned == {FBlock(a) : a \in flive} \cup {BBlock(a) : a \in blive}

Pool == INSTANCE ChunkPool WITH owned <- Owned

\* Blocks never overlap, and no call moves, resizes or takes away a block
\* other than the one it was given (clearing a stack takes those of it).
OwnersUndisturbed == Pool!Spec
=============================================================================
