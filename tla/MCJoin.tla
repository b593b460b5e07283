-------------------------------- MODULE MCJoin --------------------------------
(***************************************************************************)
(* Up to three tuples on each side, with keys that repeat, are absent from *)
(* the other side, or are NULL on both.                                    *)
(***************************************************************************)
EXTENDS Join, TLC

MCNull == -1
MCValues == {MCNull, 3, 5}
MCSorted(n) ==
  {s \in [1..n -> MCValues] : \A j, k \in 1..n : j <= k => s[j] <= s[k]}
MCRelations ==
  UNION {{[j \in 1..n |-> 0 :> s[j] @@ 1 :> j] : s \in MCSorted(n)} : n \in 0..3}
MCOuters == UNION {[1..n -> {MCNull, 3, 4, 5}] : n \in 0..2}
MCGarbage == {3, 7}
MCPlans == {[cond |-> c, index |-> x] : c \in {"EQ", "LT"}, x \in {"none", "right"}}
           \cup {[cond |-> "EQ", index |-> "left"]}
=============================================================================
