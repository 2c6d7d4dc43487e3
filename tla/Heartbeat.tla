----------------------------- MODULE Heartbeat -----------------------------
(***************************************************************************)
(* The heartbeat of one client over time.  The client's main loop sends a  *)
(* beat (65002, a bare datagram) when more than BeatAfter seconds have     *)
(* gone by; the server notes when one comes in, and its main loop gives up *)
(* the client when HeartTimeMax seconds have gone by without one.  The     *)
(* network loses, delays, reorders and duplicates beats.  What the two     *)
(* threads of the server do to the slot is in UdpServer; this module is    *)
(* about whether the numbers of the program fit together.                  *)
(***************************************************************************)
EXTENDS Integers

CONSTANTS
  BeatAfter,    \* 2 in the client's main()
  HeartTimeMax, \* KCPServerConfig.xml
  StartDelay,   \* from the server's accept to the first round of the client's loop
  Lag,          \* seconds that a main loop may take for a round
  MaxLosses,    \* beats that the network loses in a row
  MaxDelay,     \* seconds that a beat is on its way
  BeatHorizon       \* bound on the time

\* The longest time from one beat to the next.
Period == BeatAfter + 1 + Lag

ASSUME HeartbeatAssumption ==
  {BeatAfter, HeartTimeMax, StartDelay, Lag, MaxLosses, MaxDelay, BeatHorizon} \subseteq Nat

\* What HeartTimeMax has to cover.
ASSUME GenerousAssumption ==
  HeartTimeMax >= StartDelay + Period * (MaxLosses + 1) + MaxDelay

VARIABLES
  now,           \* time(NULL), at both ends
  alive,         \* the client is running
  started,       \* ... and in the second loop of main()
  sendHeartTime, \* of the client: when it sent a beat, or started
  lost,          \* how many beats in a row were lost
  wire,          \* the beats under way, each the time it was sent
  time_Heart,    \* of the server: when a beat came in, or the client was accepted
  connected,     \* the server's slot is in state UConnect
  tested,        \* when the server's loop last came to the slot
  died           \* history: when the client stopped

beatVars == <<now, alive, started, sendHeartTime, lost, wire, time_Heart, connected, tested, died>>

BeatInit ==
  /\ now = 0 /\ alive = TRUE /\ started = FALSE
  /\ sendHeartTime = 0 /\ lost = 0 /\ wire = {}
  /\ time_Heart = 0 /\ connected = TRUE /\ tested = 0
  /\ died = 0

\* The client sees that it is connected and enters its loop.
EnterLoop ==
  /\ alive /\ ~started
  /\ started' = TRUE
  /\ sendHeartTime' = now
  /\ UNCHANGED <<now, alive, lost, wire, time_Heart, connected, tested, died>>

\* time(NULL) - sendHeartTime > 2
BeatDue == alive /\ started /\ now - sendHeartTime > BeatAfter

Beat ==
  /\ BeatDue
  /\ sendHeartTime' = now
  /\ \/ /\ wire' = wire \cup {now}
        /\ lost' = 0
     \/ /\ lost < MaxLosses
        /\ lost' = lost + 1
        /\ UNCHANGED wire
  /\ UNCHANGED <<now, alive, started, time_Heart, connected, tested, died>>

\* A copy of a beat may still be under way.
Deliver(beat) ==
  /\ wire' \in {wire, wire \ {beat}}
  /\ time_Heart' = IF connected THEN now ELSE time_Heart
  /\ UNCHANGED <<now, alive, started, sendHeartTime, lost, connected, tested, died>>

\* Mutant: the limit itself is too long already.
HeartTimedOutAtOnce == now - time_Heart >= HeartTimeMax

\* Mutant: the difference is taken the wrong way round.
HeartTimedOutNever == time_Heart - now > HeartTimeMax

HeartTimedOut == now - time_Heart > HeartTimeMax

\* The server's loop comes to the slot.
TestHeart ==
  /\ tested' = now
  /\ connected' = (connected /\ ~HeartTimedOut)
  /\ UNCHANGED <<now, alive, started, sendHeartTime, lost, wire, time_Heart, died>>

Die ==
  /\ alive
  /\ alive' = FALSE
  /\ died' = now
  /\ UNCHANGED <<now, started, sendHeartTime, lost, wire, time_Heart, connected, tested>>

\* Time does not run past what has to be done by now.
SecondPasses ==
  /\ now < BeatHorizon
  /\ alive /\ ~started => now < StartDelay
  /\ alive /\ started => now < sendHeartTime + Period
  /\ \A beat \in wire : now < beat + MaxDelay
  /\ now <= tested + Lag
  /\ now' = now + 1
  /\ UNCHANGED <<alive, started, sendHeartTime, lost, wire, time_Heart, connected, tested, died>>

BeatNext == EnterLoop \/ Beat \/ (\E beat \in wire : Deliver(beat)) \/ TestHeart \/ Die \/ SecondPasses

BeatSpec == BeatInit /\ [][BeatNext]_beatVars

-----------------------------------------------------------------------------
(* Properties. *)

BeatTypeOK ==
  /\ alive \in BOOLEAN /\ started \in BOOLEAN /\ connected \in BOOLEAN
  /\ now \in Nat /\ sendHeartTime \in 0 .. now /\ time_Heart \in 0 .. now
  /\ tested \in 0 .. now /\ died \in 0 .. now
  /\ wire \subseteq 0 .. now
  /\ lost \in 0 .. MaxLosses

\* A client that runs is never given up, although MaxLosses of its beats in a row
\* are lost and the next one takes MaxDelay: HeartTimeMax covers the slowest
\* sequence of beats that the two main loops and the network can make.
AliveKept == alive => connected

\* A client that stopped is given up in time, although its last beats are still
\* under way when it stops.
DeadGivenUp ==
  ~alive /\ connected => now <= died + MaxDelay + HeartTimeMax + Lag + 1
============================================================================
