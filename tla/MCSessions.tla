------------------------------ MODULE MCSessions ------------------------------
(***************************************************************************)
(* Sessions for TLC.                                                       *)
(***************************************************************************)
EXTENDS Sessions, TLC

Symmetry == Permutations(Ids) \cup Permutations(Targets)
=============================================================================
