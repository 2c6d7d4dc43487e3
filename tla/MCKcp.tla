------------------------------- MODULE MCKcp -------------------------------
(* The instances of Kcp that TLC checks. *)
EXTENDS Kcp, TLC

CONSTANTS client, server

BothEnds == {client, server}

\* Sound where both ends have the same windows and send as much.
EndsSwapped == Permutations(BothEnds)

\* Send windows.
Wnd1 == [e \in BothEnds |-> 1]
Wnd2 == [e \in BothEnds |-> 2]

\* How many segments each end sends.
OneWay(n) == [e \in BothEnds |-> IF e = client THEN n ELSE 0]
TwoOneWay == OneWay(2)
FourOneWay == OneWay(4)
SevenOneWay == OneWay(7)
OneEach == [e \in BothEnds |-> 1]
============================================================================
