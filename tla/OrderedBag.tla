------------------------------ MODULE OrderedBag ------------------------------
(***************************************************************************)
(* What intrusive_multi_rbtree promises: its nodes in the order of their   *)
(* keys, those of equal keys in the order in which they were inserted.     *)
(* Erasing a node moves no other, so that an iterator to the next one      *)
(* goes on where the erased one was.                                       *)
(***************************************************************************)
EXTENDS Naturals, Sequences, SequencesExt

CONSTANTS
  Nodes,        \* the nodes that may be in the tree
  KeyOf         \* the key of each, which the node's owner does not change meanwhile

VARIABLE order  \* the nodes from begin() to end()

Init == order = <<>>

Insert(n) ==
  /\ n \notin ToSet(order)
  /\ \E i \in 1 .. Len(order) + 1 :
       /\ \A j \in 1 .. i - 1 : KeyOf[order[j]] <= KeyOf[n]
       /\ \A j \in i .. Len(order) : KeyOf[order[j]] > KeyOf[n]
       /\ order' = InsertAt(order, i, n)

Erase(n) == \E i \in DOMAIN order : order[i] = n /\ order' = RemoveAt(order, i)

Next == \E n \in Nodes : Insert(n) \/ Erase(n)

Spec == Init /\ [][Next]_order
=============================================================================
