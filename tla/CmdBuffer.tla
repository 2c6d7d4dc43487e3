----------------------------- MODULE CmdBuffer -----------------------------
(***************************************************************************)
(* The buffer between the two threads of the server, for one connected     *)
(* client.  The worker thread appends each message that ikcp_recv returns  *)
(* (UDPServer::onRecv_SaveData); the main thread looks for commands in the *)
(* bytes and executes them (UDPServer::parseCommand).  The client has the  *)
(* same pair of functions, with a larger buffer.                           *)
(*                                                                         *)
(* A message is one frame of KcpSend: a header of HeadSize bytes, which    *)
(* begins with a mark and holds the length of the payload, and the         *)
(* payload.  A step is what one thread does between two accesses to the    *)
(* fields of UDP_BASE that the other thread writes or reads.               *)
(***************************************************************************)
EXTENDS Integers, Sequences, FiniteSets

CONSTANTS
  ReceMax,     \* __UDPServerInfo->ReceMax, the size of recvBuf
  HeadSize,    \* 11: mark, length, id and command
  MarkSize,    \* 3: __UDPServerInfo->Head
  Lens,        \* payload lengths that clients send; nobody checks that one is not 0
  MaxMessages  \* bound: messages saved since the slot was reset

ASSUME CmdBufferAssumption ==
  /\ ReceMax \in Nat
  /\ MarkSize \in Nat \ {0} /\ HeadSize \in Nat /\ HeadSize > MarkSize
  /\ Lens \subseteq Nat
  /\ MaxMessages \in Nat

VARIABLES
  len,               \* history: the payload length of each message saved
  executed,          \* history: the messages executed
  recvBuf,
  recv_Head, recv_Tail,
  is_RecvCompleted,
  worker,            \* where the worker is, and the payload length it saves
  main               \* where the main thread is

vars == <<len, executed, recvBuf, recv_Head, recv_Tail, is_RecvCompleted, worker, main>>
----------------------------------------------------------------------------
Cells == 0 .. ReceMax - 1

\* Byte off of message msg; no payload contains the mark.
Byte(msg, off) == [msg |-> msg, off |-> off]
Blank == Byte(0, 0)

Size(n) == HeadSize + n

\* UDP_BASE::initdata.  Its memset of 512 bytes goes on behind the end of recvBuf when
\* ReceMax is smaller; what lies there is not modelled.
Init ==
  /\ len = <<>> /\ executed = <<>>
  /\ recvBuf = [p \in Cells |-> Blank]
  /\ recv_Head = 0 /\ recv_Tail = 0
  /\ is_RecvCompleted = TRUE
  /\ worker = [pc |-> "recv", n |-> 0]
  /\ main = "test"
----------------------------------------------------------------------------
(* The worker: onRecv_SaveData.  The definitions called mutants are no part *)
(* of the model: each is a plausible mistake in the definition that follows *)
(* it, and shows that a property would catch it.                            *)

\* A message arrives.  If everything was parsed the buffer is rewound.
Recv ==
  /\ worker.pc = "recv"
  /\ \E n \in Lens : worker' = [pc |-> "check", n |-> n]
  /\ IF recv_Head = recv_Tail THEN recv_Head' = 0 /\ recv_Tail' = 0
                              ELSE UNCHANGED <<recv_Head, recv_Tail>>
  /\ UNCHANGED <<len, executed, recvBuf, is_RecvCompleted, main>>

\* Mutant of Full: the size of the message is left out.
FullAtEnd(n) == recv_Tail >= ReceMax

Full(n) == recv_Tail + Size(n) >= ReceMax

Refuse ==
  /\ worker.pc = "check"
  /\ Full(worker.n)
  /\ worker' = [pc |-> "recv", n |-> 0]
  /\ UNCHANGED <<len, executed, recvBuf, recv_Head, recv_Tail, is_RecvCompleted, main>>

Copied(msg, n) ==
  [p \in Cells |-> IF p \in recv_Tail .. recv_Tail + Size(n) - 1
                     THEN Byte(msg, p - recv_Tail) ELSE recvBuf[p]]

\* memcpy
Copy ==
  /\ worker.pc = "check"
  /\ ~ Full(worker.n)
  /\ Len(len) < MaxMessages
  /\ len' = Append(len, worker.n)
  /\ recvBuf' = Copied(Len(len) + 1, worker.n)
  /\ worker' = [worker EXCEPT !.pc = "publish"]
  /\ UNCHANGED <<executed, recv_Head, recv_Tail, is_RecvCompleted, main>>

Publish ==
  /\ worker.pc = "publish"
  /\ recv_Tail' = recv_Tail + Size(worker.n)
  /\ worker' = [worker EXCEPT !.pc = "complete"]
  /\ UNCHANGED <<len, executed, recvBuf, recv_Head, is_RecvCompleted, main>>

Complete ==
  /\ worker.pc = "complete"
  /\ is_RecvCompleted' = TRUE
  /\ worker' = [pc |-> "recv", n |-> 0]
  /\ UNCHANGED <<len, executed, recvBuf, recv_Head, recv_Tail, main>>

\* Mutant of SaveData: recv_Tail is advanced before the bytes are there.
SaveTailFirst ==
  \/ Recv \/ Refuse
  \/ /\ worker.pc = "check"
     /\ ~ Full(worker.n)
     /\ Len(len) < MaxMessages
     /\ recv_Tail' = recv_Tail + Size(worker.n)
     /\ worker' = [worker EXCEPT !.pc = "publish"]
     /\ UNCHANGED <<len, executed, recvBuf, recv_Head, is_RecvCompleted, main>>
  \/ /\ worker.pc = "publish"
     /\ len' = Append(len, worker.n)
     /\ recvBuf' = [p \in Cells |->
          IF p \in recv_Tail - Size(worker.n) .. recv_Tail - 1
            THEN Byte(Len(len) + 1, p - recv_Tail + Size(worker.n)) ELSE recvBuf[p]]
     /\ worker' = [worker EXCEPT !.pc = "complete"]
     /\ UNCHANGED <<executed, recv_Head, recv_Tail, is_RecvCompleted, main>>
  \/ Complete

SaveData == Recv \/ Refuse \/ Copy \/ Publish \/ Complete
----------------------------------------------------------------------------
(* The main thread: parseCommand(c) *)

\* What recvBuf holds at p; beyond its end is memory of something else.
At(p) == IF p \in Cells THEN recvBuf[p] ELSE Blank

MarkAt(p) == \A i \in 0 .. MarkSize - 1 : At(p + i).msg > 0 /\ At(p + i).off = i

\* The length field of the header at p.
LenAt(p) == len[At(p + MarkSize).msg]

Enough == recv_Tail - recv_Head >= HeadSize

\* if (!c->is_RecvCompleted) return;
Test ==
  /\ main = "test"
  /\ is_RecvCompleted
  /\ main' = "loop"
  /\ UNCHANGED <<len, executed, recvBuf, recv_Head, recv_Tail, is_RecvCompleted, worker>>

\* A frame whose payload fits in what was received; its header is not counted.
Executable == MarkAt(recv_Head) /\ recv_Tail >= recv_Head + LenAt(recv_Head)

\* Mutant of Skip: the flag is cleared on every way out of the call.
SkipAndClear ==
  /\ main = "loop"
  /\ Enough
  /\ ~ Executable
  /\ recv_Head' = IF MarkAt(recv_Head) THEN recv_Head ELSE recv_Head + 1
  /\ is_RecvCompleted' = FALSE
  /\ main' = "test"
  /\ UNCHANGED <<len, executed, recvBuf, recv_Tail, worker>>

\* The call returns: one byte is skipped if there is no mark at recv_Head, and
\* none if the frame is too short.  is_RecvCompleted stays set.
Skip ==
  /\ main = "loop"
  /\ Enough
  /\ ~ Executable
  /\ recv_Head' = IF MarkAt(recv_Head) THEN recv_Head ELSE recv_Head + 1
  /\ main' = "test"
  /\ UNCHANGED <<len, executed, recvBuf, recv_Tail, is_RecvCompleted, worker>>

\* The command of the frame at recv_Head is executed.  (Bound: the history ends with the
\* first command behind MaxMessages, which only a repeated one can be.)
Execute ==
  /\ main = "loop"
  /\ Enough
  /\ Executable
  /\ executed' = IF Len(executed) > MaxMessages THEN executed
                 ELSE Append(executed, At(recv_Head).msg)
  /\ main' = "advance"
  /\ UNCHANGED <<len, recvBuf, recv_Head, recv_Tail, is_RecvCompleted, worker>>

\* The header is not skipped, only as many bytes as the payload has: none if it is empty.
Advanced == recv_Head + LenAt(recv_Head)

Advance ==
  /\ main = "advance"
  /\ recv_Head' = Advanced
  /\ main' = "loop"
  /\ UNCHANGED <<len, executed, recvBuf, recv_Tail, is_RecvCompleted, worker>>

\* The end of the loop, and the assignment that follows it.
LoopEnd ==
  /\ main = "loop"
  /\ ~ Enough
  /\ main' = "clear"
  /\ UNCHANGED <<len, executed, recvBuf, recv_Head, recv_Tail, is_RecvCompleted, worker>>

Clear ==
  /\ main = "clear"
  /\ is_RecvCompleted' = FALSE
  /\ main' = "test"
  /\ UNCHANGED <<len, executed, recvBuf, recv_Head, recv_Tail, worker>>

Parse == Test \/ Skip \/ Execute \/ Advance \/ LoopEnd \/ Clear
----------------------------------------------------------------------------
Next == SaveData \/ Parse

Spec == Init /\ [][Next]_vars

\* The main thread calls parseCommand in an endless loop.
FairSpec == Spec /\ WF_vars(Parse)
----------------------------------------------------------------------------
(* What the buffer promises. *)

Messages == 1 .. MaxMessages

\* The messages whose bytes recv_Tail covers.
Published == IF worker.pc = "publish" THEN Len(len) - 1 ELSE Len(len)

\* Every variable has its type; onRecv_SaveData never copies behind the end of recvBuf,
\* and parseCommand never goes behind it.
TypeOK ==
  /\ len \in Seq(Lens) /\ Len(len) <= MaxMessages
  /\ executed \in Seq(Messages)
  /\ \A p \in Cells : recvBuf[p].msg \in 0 .. MaxMessages /\ recvBuf[p].off \in Nat
  /\ recv_Head \in 0 .. ReceMax /\ recv_Tail \in 0 .. ReceMax
  /\ is_RecvCompleted \in BOOLEAN
  /\ worker \in [pc : {"recv", "check", "publish", "complete"}, n : Lens \cup {0}]
  /\ main \in {"test", "loop", "advance", "clear"}

\* The commands are executed in the order of the messages, each once and none
\* skipped, although the parser gets out of step with the frames.  The one exception is
\* a message without a payload: its command is executed over and over, and no other.
ExecutedInOrder ==
  \A i \in 1 .. Len(executed) :
    /\ executed[i] <= Len(len)
    /\ executed[i] = IF i = 1 THEN 1
                     ELSE IF len[executed[i - 1]] = 0 THEN executed[i - 1]
                     ELSE executed[i - 1] + 1

\* The command that is executed has the whole frame in the buffer, although
\* parseCommand does not wait for more than the payload length.
WholeFrame ==
  main = "advance" =>
    LET msg == At(recv_Head).msg
    IN  \A i \in 0 .. Size(len[msg]) - 1 : At(recv_Head + i) = Byte(msg, i)

\* When the main thread finds is_RecvCompleted set, every message that is stored by then
\* is executed in the end, whatever arrives meanwhile and however often parseCommand
\* returns in the middle of a frame.  Only a message without a payload, which parseCommand
\* never gets past, keeps those behind it from their turn.
StoredThenExecuted ==
  \A i \in Messages :
    (/\ main = "test" /\ is_RecvCompleted
     /\ i <= Published
     /\ \A j \in 1 .. i - 1 : len[j] > 0)
      ~> (\E k \in 1 .. Len(executed) : executed[k] = i)
============================================================================
