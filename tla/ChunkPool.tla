------------------------------ MODULE ChunkPool ------------------------------
(***************************************************************************)
(* What a user of the per-query memory manager may rely on, whatever the   *)
(* way the manager keeps its books: a set of blocks of one segment, each   *)
(* owned by a caller.  A block that is granted overlaps no block already   *)
(* owned, and a block changes only when its own caller releases or         *)
(* resizes it.  Headers, trailers, stacks and fragments are invisible.     *)
(***************************************************************************)
EXTENDS Integers

CONSTANT Size           \* bytes of the segment

VARIABLE owned          \* the blocks the callers own

\* The bytes lo .. hi-1; lo = hi is an empty block, which still has a place.
Block == {b \in [lo : 0..Size, hi : 0..Size] : b.lo <= b.hi}

Apart(b, c) == b.hi <= c.lo \/ c.hi <= b.lo

Init == owned = {}

Grant == \E b \in Block :
           /\ \A c \in owned : Apart(b, c)
           /\ owned' = owned \cup {b}

\* One block is released, or all those a caller drops at once.
Release == owned' \subseteq owned

\* A block grows or shrinks at one of its two ends.
Resize == \E b \in owned, c \in Block :
            /\ b.lo = c.lo \/ b.hi = c.hi
            /\ \A d \in owned \ {b} : Apart(c, d)
            /\ owned' = (owned \ {b}) \cup {c}

Next == Grant \/ Release \/ Resize

Spec == Init /\ [][Next]_owned
=============================================================================
