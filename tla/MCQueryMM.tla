----------------------------- MODULE MCQueryMM -----------------------------
(***************************************************************************)
(* A segment of 14 bytes with two-byte size words and one-byte trailers:   *)
(* up to four front chunks, or seven back chunks, so that fragments can    *)
(* lie next to each other, below one another and at the bottom.            *)
(***************************************************************************)
EXTENDS QueryMM

MCRequests == {0, 1, 15}        \* an empty chunk, a chunk, more than there is
MCDeltas   == {-1, 1, 15}
=============================================================================
