---------------------------- MODULE MCUdpServer ----------------------------
(* Instances of UdpServer for TLC. *)
EXTENDS UdpServer, TLC

CONSTANTS a1, a2, a3

TwoAddrs == {a1, a2}
ThreeAddrs == {a1, a2, a3}

TwoKeys == (a1 :> 1) @@ (a2 :> 2)
ThreeKeys == (a1 :> 1) @@ (a2 :> 2) @@ (a3 :> 3)
============================================================================
