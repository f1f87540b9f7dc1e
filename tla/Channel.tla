------------------------------ MODULE Channel ------------------------------
(***************************************************************************)
(* What RenderFarm takes a connection to be, in one direction: rpcs are    *)
(* received once each, in the order in which they were sent.               *)
(***************************************************************************)
EXTENDS Sequences

CONSTANT Messages

VARIABLES transit,   \* sent and not received yet
          received   \* what the receiver was given, oldest first

Init == transit = <<>> /\ received = <<>>

Send(m) ==
  /\ transit' = Append(transit, m)
  /\ UNCHANGED received

Receive ==
  /\ transit # <<>>
  /\ received' = Append(received, Head(transit))
  /\ transit' = Tail(transit)

Next == Receive \/ \E m \in Messages : Send(m)

Spec == Init /\ [][Next]_<<transit, received>>
=============================================================================
