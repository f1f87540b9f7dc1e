-------------------------------- MODULE Heap --------------------------------
(***************************************************************************)
(* What a pool of blocks of any size promises: who asks for n bytes gets n *)
(* bytes that nobody else has, and keeps them until he frees them.         *)
(***************************************************************************)
EXTENDS Integers

VARIABLE held   \* held[a]: the size asked for of the block at a

\* The bytes of a block that starts at a.
Extent(a, n) == a .. a + n - 1
Disjoint(h) ==
  \A a, b \in DOMAIN h : a # b => Extent(a, h[a]) \cap Extent(b, h[b]) = {}

Init == held = <<>>

\* An operation changes one block, and the new extent is nobody else's.
OthersKept(changed) == \A a \in DOMAIN held \ changed : a \in DOMAIN held' /\ held'[a] = held[a]

Alloc ==
  \E a \in DOMAIN held' :
    a \notin DOMAIN held /\ DOMAIN held' = DOMAIN held \cup {a} /\ OthersKept({})

Free ==
  \E a \in DOMAIN held : DOMAIN held' = DOMAIN held \ {a} /\ OthersKept({a})

Realloc ==
  \E a \in DOMAIN held, b \in DOMAIN held' :
    /\ DOMAIN held' = (DOMAIN held \ {a}) \cup {b}
    /\ b = a \/ b \notin DOMAIN held
    /\ OthersKept({a})

Next == (Alloc \/ Free \/ Realloc) /\ Disjoint(held')

Spec == Init /\ [][Next]_held
=============================================================================
