---------------------------- MODULE MCConnection ----------------------------
(* Instances of Connection for TLC. *)
EXTENDS Connection, TLC

CONSTANTS a, b, bad

\* Two rpcs of different sizes, and one that receive_rpc cannot read.
Sizes == (a :> 4) @@ (b :> 8) @@ (bad :> 2)
AllMessages == {a, b, bad}
=============================================================================
