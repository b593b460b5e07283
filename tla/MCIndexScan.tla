---------------------------- MODULE MCIndexScan -----------------------------
(***************************************************************************)
(* Relations of up to four tuples with three keys: every sorted sequence,  *)
(* so that a key can be absent, in the middle of two probes, or repeated   *)
(* over the bisection point.  Attribute 1 tells the tuples apart.          *)
(***************************************************************************)
EXTENDS IndexScan, TLC

MCValues == {1, 3, 5}
MCSorted(n) ==
  {s \in [1..n -> MCValues] : \A j, k \in 1..n : j <= k => s[j] <= s[k]}
MCRelations ==
  UNION {{[j \in 1..n |-> 0 :> s[j] @@ 1 :> j] : s \in MCSorted(n)} : n \in 0..4}
MCGarbage == {0, 4, 9}
MCKeys == {0, 3, 4, 6}

MCOps == {"LT", "LTE", "GT", "GTE", "EQ", "NEQ"}
MCConds(form, ops) ==
  {[form |-> form, op |-> op, attr |-> a, val |-> v] :
      op \in ops, a \in {0, 1}, v \in MCKeys}
\* The attribute before the constant, or a comparison that reads the same
\* both ways.
MCPlain == MCConds("attr op val", MCOps) \cup MCConds("val op attr", {"EQ", "NEQ"})
MCReversed == MCConds("val op attr", MCOps)
=============================================================================
