-------------------------- MODULE HeartbeatProofs --------------------------
(***************************************************************************)
(* For every limit, delay, loss and lag that GenerousAssumption admits, a  *)
(* client that runs is never given up, and one that stopped is given up    *)
(* within a known time.                                                    *)
(***************************************************************************)
EXTENDS Heartbeat, TLAPS

\* The longest time that one beat after another can keep the server waiting.
Patience == StartDelay + Period * (MaxLosses + 1)

\* What SecondPasses leaves to be done in time.
Timely ==
  /\ alive /\ ~started => now <= StartDelay
  /\ alive /\ started => now <= sendHeartTime + Period
  /\ \A beat \in wire : now <= beat + MaxDelay
  /\ now <= tested + Lag + 1

\* While the client runs, a beat is under way that was sent early enough, or the
\* client's last attempt is not further ahead than the lost beats explain.
Reach ==
  \/ \E beat \in wire : beat <= time_Heart + Patience
  \/ sendHeartTime <= time_Heart + StartDelay + Period * lost

\* The server tests the slot often enough, and nothing of a stopped client is
\* younger than its end.
Ended ==
  /\ connected => tested <= time_Heart + HeartTimeMax
  /\ ~alive => wire \subseteq 0 .. died /\ time_Heart <= died + MaxDelay

Inv == BeatTypeOK /\ Timely /\ (alive => connected /\ Reach) /\ Ended

\* One more lost beat is one more period.
LEMMA OneMorePeriod ==
  ASSUME NEW p \in Nat, NEW n \in Nat
  PROVE  p * (n + 1) = p * n + p
OBVIOUS

\* More lost beats are more time.
LEMMA PeriodsGrow ==
  ASSUME NEW p \in Nat, NEW n \in Nat, NEW m \in Nat, n <= m
  PROVE  p * n <= p * m
<1>1. PICK d \in Nat : m = n + d
  <2>1. m - n \in Nat /\ m = n + (m - n)
    OBVIOUS
  <2> QED BY <2>1
<1>2. p * m = p * n + p * d
  BY <1>1
<1>3. p * d \in Nat /\ p * n \in Nat
  OBVIOUS
<1> QED BY <1>2, <1>3

\* The constants are natural numbers, and so is what is computed from them.
LEMMA ConstantTypes ==
  /\ BeatAfter \in Nat /\ HeartTimeMax \in Nat /\ StartDelay \in Nat /\ Lag \in Nat
  /\ MaxLosses \in Nat /\ MaxDelay \in Nat /\ BeatHorizon \in Nat /\ Period \in Nat
  /\ Patience \in Nat
  /\ HeartTimeMax >= Patience + MaxDelay
<1>1. /\ BeatAfter \in Nat /\ HeartTimeMax \in Nat /\ StartDelay \in Nat /\ Lag \in Nat
      /\ MaxLosses \in Nat /\ MaxDelay \in Nat /\ BeatHorizon \in Nat
  BY HeartbeatAssumption
<1>2. Period \in Nat
  BY <1>1 DEF Period
<1>3. Period * (MaxLosses + 1) \in Nat
  BY <1>1, <1>2
<1> QED BY <1>1, <1>2, <1>3, GenerousAssumption DEF Patience

\* BeatInit establishes the invariant.
LEMMA InitInv == BeatInit => Inv
<1> SUFFICES ASSUME BeatInit PROVE Inv
  OBVIOUS
<1>1. Period * lost = 0
  BY ConstantTypes DEF BeatInit
<1>2. BeatTypeOK
  <2>1. alive \in BOOLEAN /\ started \in BOOLEAN /\ connected \in BOOLEAN
    BY Zenon DEF BeatInit
  <2> QED BY <2>1, ConstantTypes DEF BeatInit, BeatTypeOK
<1>3. Timely
  BY ConstantTypes DEF BeatInit, Timely
<1>4. Reach
  BY <1>1, ConstantTypes DEF BeatInit, Reach
<1>5. Ended
  BY ConstantTypes DEF BeatInit, Ended
<1>6. connected
  BY DEF BeatInit
<1> QED BY <1>2, <1>3, <1>4, <1>5, <1>6 DEF Inv

\* While the invariant holds, the server has waited for less than its limit for a
\* client that runs.
LEMMA NotTimedOut == Inv /\ alive => ~HeartTimedOut
<1> SUFFICES ASSUME Inv, alive PROVE now - time_Heart <= HeartTimeMax
  BY ConstantTypes DEF HeartTimedOut, Inv, BeatTypeOK
<1> USE DEF Inv, BeatTypeOK
<1>1. CASE ~started
  BY <1>1, ConstantTypes, HeartbeatAssumption, GenerousAssumption DEF Timely, Patience
<1>2. CASE started /\ \E beat \in wire : beat <= time_Heart + Patience
  BY <1>2, ConstantTypes DEF Timely
<1>3. CASE started /\ sendHeartTime <= time_Heart + StartDelay + Period * lost
  <2>1. Period * lost <= Period * MaxLosses
    BY PeriodsGrow, ConstantTypes
  <2>2. Period * (MaxLosses + 1) = Period * MaxLosses + Period
    BY OneMorePeriod, ConstantTypes
  <2>3. Period * lost \in Nat /\ Period * MaxLosses \in Nat
    BY ConstantTypes
  <2>4. now <= sendHeartTime + Period
    BY <1>3 DEF Timely
  <2> QED BY <1>3, <2>1, <2>2, <2>3, <2>4, ConstantTypes DEF Patience
<1> QED BY <1>1, <1>2, <1>3 DEF Reach

\* Every step keeps it.
LEMMA NextInv == Inv /\ [BeatNext]_beatVars => Inv'
<1> SUFFICES ASSUME Inv, [BeatNext]_beatVars PROVE Inv'
  OBVIOUS
<1> USE ConstantTypes DEF Inv, BeatTypeOK
<1>1. CASE EnterLoop
  <2>1. Period * lost \in Nat
    OBVIOUS
  <2> QED BY <1>1, <2>1 DEF EnterLoop, Timely, Reach, Ended
<1>2. CASE Beat
  <2>1. now <= sendHeartTime + Period
    BY <1>2 DEF Beat, BeatDue, Timely
  <2>2. CASE wire' = wire \cup {now} /\ lost' = 0
    <3>1. CASE \E beat \in wire : beat <= time_Heart + Patience
      <4>1. \E beat \in wire' : beat <= time_Heart' + Patience
        BY <1>2, <2>2, <3>1 DEF Beat
      <4> QED BY <1>2, <2>2, <4>1 DEF Beat, BeatDue, Timely, Reach, Ended
    <3>2. CASE sendHeartTime <= time_Heart + StartDelay + Period * lost
      <4>1. Period * lost <= Period * MaxLosses
        BY PeriodsGrow
      <4>2. Period * (MaxLosses + 1) = Period * MaxLosses + Period
        BY OneMorePeriod
      <4>3. Period * lost \in Nat /\ Period * MaxLosses \in Nat
        OBVIOUS
      <4>4. now <= time_Heart + Patience
        BY <3>2, <2>1, <4>1, <4>2, <4>3 DEF Patience
      <4>5. \E beat \in wire' : beat <= time_Heart' + Patience
        BY <1>2, <2>2, <4>4 DEF Beat
      <4> QED BY <1>2, <2>2, <4>5 DEF Beat, BeatDue, Timely, Reach, Ended
    <3> QED BY <3>1, <3>2, <1>2 DEF Reach, Beat, BeatDue
  <2>3. CASE lost < MaxLosses /\ lost' = lost + 1 /\ UNCHANGED wire
    <3>1. Period * (lost + 1) = Period * lost + Period
      BY OneMorePeriod
    <3>2. Period * lost \in Nat
      OBVIOUS
    <3> QED BY <1>2, <2>1, <2>3, <3>1, <3>2 DEF Beat, BeatDue, Timely, Reach, Ended
  <2> QED BY <1>2, <2>2, <2>3 DEF Beat
<1>3. ASSUME NEW beat \in wire, Deliver(beat) PROVE Inv'
  <2>1. Period * lost \in Nat
    OBVIOUS
  <2>2. now <= beat + MaxDelay
    BY DEF Timely
  <2> QED BY <1>3, <2>1, <2>2 DEF Deliver, Timely, Reach, Ended
<1>4. CASE TestHeart
  <2>1. alive => ~HeartTimedOut
    BY NotTimedOut
  <2>2. ~HeartTimedOut <=> now - time_Heart <= HeartTimeMax
    BY DEF HeartTimedOut
  <2> QED BY <1>4, <2>1, <2>2 DEF TestHeart, Timely, Reach, Ended
<1>5. CASE Die
  <2>1. BeatTypeOK'
    <3>1. alive' \in BOOLEAN
      BY <1>5, Zenon DEF Die
    <3> QED BY <1>5, <3>1 DEF Die
  <2>2. Timely'
    BY <1>5 DEF Die, Timely
  <2>3. wire' \subseteq 0 .. died' /\ time_Heart' <= died' + MaxDelay
    BY <1>5 DEF Die
  <2>4. ~alive' /\ UNCHANGED <<connected, tested, time_Heart>>
    BY <1>5 DEF Die
  <2> QED BY <2>1, <2>2, <2>3, <2>4 DEF Ended
<1>6. CASE SecondPasses
  BY <1>6 DEF SecondPasses, Timely, Reach, Ended
<1>7. CASE UNCHANGED beatVars
  BY <1>7 DEF beatVars, Timely, Reach, Ended
<1> QED BY <1>1, <1>2, <1>3, <1>4, <1>5, <1>6, <1>7 DEF BeatNext

\* The invariant holds always.
LEMMA AlwaysInv == BeatSpec => []Inv
BY InitInv, NextInv, PTL DEF BeatSpec

\* A client that runs is never given up: the limit covers the slowest sequence of
\* beats that the loops and the network can make.
THEOREM RunningClientKept == BeatSpec => []AliveKept
<1>1. Inv => AliveKept
  BY DEF Inv, AliveKept
<1> QED BY AlwaysInv, <1>1, PTL

\* A client that stopped is given up at the latest HeartTimeMax seconds, and one
\* round of the server's loop, after its last beat can come in.
THEOREM StoppedClientGivenUp == BeatSpec => []DeadGivenUp
<1>1. Inv => DeadGivenUp
  BY ConstantTypes DEF Inv, BeatTypeOK, Timely, Ended, DeadGivenUp
<1> QED BY AlwaysInv, <1>1, PTL
=============================================================================
