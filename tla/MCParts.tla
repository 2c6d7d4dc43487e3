------------------------------ MODULE MCParts ------------------------------
(* The parts of the program that do their work alone, in one instance: each of *)
(* them makes its steps while the others are where they begin.                 *)
EXTENDS KcpTimer, Heartbeat, IQueue, XmlText

Printed(string) == [string |-> string, by |-> "printer", means |-> string]

ByHand(string, means) == [string |-> string, by |-> "hand", means |-> means]

\* a, white space, what has an entity, "&lt;" as a text, and &#8364; and &#x41;
TextPieces ==
  { Printed(string) : string \in { <<97>>, <<Space>>, <<CR>>, <<LF>>, <<Quote>>, <<Less>>, <<Amp>>,
                                   <<Amp, 108, 116, Semicolon>> } }
  \cup { ByHand(<<Amp, Hash, 56, 51, 54, 52, Semicolon>>, <<226, 130, 172>>),
         ByHand(<<Amp, Hash, SmallX, 52, 49, Semicolon>>, <<65>>) }

PartsInit == TimerInit /\ BeatInit /\ QueueInit /\ TextInit

PartsNext ==
  \/ BeatInit /\ QueueInit /\ TextInit /\ TimerNext /\ UNCHANGED <<beatVars, queueVars, textVars>>
  \/ TimerInit /\ QueueInit /\ TextInit /\ BeatNext /\ UNCHANGED <<timerVars, queueVars, textVars>>
  \/ TimerInit /\ BeatInit /\ TextInit /\ QueueNext /\ UNCHANGED <<timerVars, beatVars, textVars>>
  \/ TimerInit /\ BeatInit /\ QueueInit /\ TextNext /\ UNCHANGED <<timerVars, beatVars, queueVars>>

PartsSpec == PartsInit /\ [][PartsNext]_<<timerVars, beatVars, queueVars, textVars>>
============================================================================
