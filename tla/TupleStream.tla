----------------------------- MODULE TupleStream -----------------------------
(***************************************************************************)
(* What whoever calls next and rewind_dbop on an operator may rely on      *)
(* (dbops/db_ops.h), whatever the operator does to find its tuples: next   *)
(* returns the tuples of one answer to the query, one after the other and  *)
(* each of them once, then says that there are no more, and a rewind       *)
(* starts again from the first.                                            *)
(***************************************************************************)
EXTENDS SequencesExt

VARIABLES
  answers,    \* the sequences of tuples that answer the query
  out,        \* the tuples returned since the last rewind
  over        \* next has returned 0

Init == out = <<>> /\ over = FALSE

Give ==
  /\ \E a \in answers :
       /\ IsStrictPrefix(out, a)
       /\ out' = SubSeq(a, 1, Len(out) + 1)
  /\ UNCHANGED <<answers, over>>

Finish ==
  /\ out \in answers
  /\ over' = TRUE
  /\ UNCHANGED <<answers, out>>

Restart ==
  /\ out' = <<>>
  /\ over' = FALSE
  /\ UNCHANGED answers

Next == Give \/ Finish \/ Restart

Spec == Init /\ [][Next]_<<answers, out, over>>
=============================================================================
