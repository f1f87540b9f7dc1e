----------------------------- MODULE MCPagePools -----------------------------
(* Instances of PagePools for TLC. *)
EXTENDS PagePools
MCElemCounts == <<3, 2>>
Symmetry == Permutations(Pages) \cup Permutations(SmallPages)
=============================================================================
