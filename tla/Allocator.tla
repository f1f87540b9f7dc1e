------------------------------ MODULE Allocator ------------------------------
(***************************************************************************)
(* What every pool of fixed-size blocks promises: malloc hands out a block *)
(* that nobody holds, in a page the pool has; a page that has a block in   *)
(* use is never given back to the system.                                  *)
(***************************************************************************)
EXTENDS Naturals

VARIABLES
  mapped,     \* pages got from the system and not given back
  holders     \* holders[b]: how often b, a page and a place in it, has been handed out
              \* and not freed

Blocks == DOMAIN holders

Init == mapped = {} /\ \A b \in Blocks : holders[b] = 0

Malloc(b) ==
  /\ holders[b] = 0
  /\ holders' = [holders EXCEPT ![b] = 1]
  /\ mapped' = mapped \cup {b[1]}

Free(b) ==
  /\ holders[b] = 1
  /\ holders' = [holders EXCEPT ![b] = 0]
  /\ UNCHANGED mapped

Release(unused) ==
  /\ \A b \in Blocks : b[1] \in unused => holders[b] = 0
  /\ mapped' = mapped \ unused
  /\ UNCHANGED holders

Next ==
  \/ \E b \in Blocks : Malloc(b) \/ Free(b)
  \/ \E unused \in SUBSET mapped : Release(unused)

Spec == Init /\ [][Next]_<<mapped, holders>>
=============================================================================
