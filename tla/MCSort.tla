-------------------------------- MODULE MCSort --------------------------------
(***************************************************************************)
(* Up to four tuples of two attributes in any order, with repeated tuples, *)
(* repeated sort keys, and NULL as a sort key.  The second attribute,      *)
(* which only breaks ties, is never NULL.                                  *)
(***************************************************************************)
EXTENDS Sort

MCOrderBy == <<1>>
MCDesc == <<TRUE>>
MCTuples == {<<NULL, 1>>, <<3, 0>>, <<3, 1>>, <<5, 0>>}
MCSources == UNION {[1..n -> MCTuples] : n \in 0..4}
=============================================================================
