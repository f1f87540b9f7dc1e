------------------------------ MODULE MCRBTree ------------------------------
(***************************************************************************)
(* RBTree for TLC: ten nodes of different keys, the fewest for a deletion  *)
(* that goes up more than one level, and a smaller tree in which one key   *)
(* has three nodes, the fewest for a ring with a middle.                   *)
(***************************************************************************)
EXTENDS RBTree

MCNodes == 2 .. 13
MCKeyOf == [n \in MCNodes |-> IF n > 11 THEN 3 ELSE n - 1]
MCTogether == {2 .. 11, 2 .. 6 \cup {12, 13}}

\* What the sentinel has for a parent matters only while erase_fixup stands at a missing
\* child: nothing else reads it, so that states that differ in no more are one.
MCView ==
  IF fixup = [op |-> "erase", cur |-> mHead] THEN vars
  ELSE <<[t EXCEPT ![mHead].parent = mHead, ![mHead].side = LEFT], fixup>>
=============================================================================
