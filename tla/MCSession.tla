----------------------------- MODULE MCSession -----------------------------
(* Instances of Session for TLC. *)
EXTENDS Session, TLC

CONSTANTS a1, a2

TwoAddrs == {a1, a2}
TwoKeys == (a1 :> 1) @@ (a2 :> 2)
============================================================================
