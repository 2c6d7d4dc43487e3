--------------------------- MODULE SessionProofs ---------------------------
(***************************************************************************)
(* Theorems about the server alone (UdpServer) and with its clients        *)
(* (Session), for any number of slots, addresses and sessions.  First the  *)
(* types of the variables and the slots: no client ever holds two of them, *)
(* whether or not clients send the command 65000.  Then the KCP sessions:  *)
(* none leaks, the datagrams of a client reach its own session, the answer *)
(* to a command goes to the client that sent it, and a client and the      *)
(* server share one session with one id.                                   *)
(***************************************************************************)
EXTENDS Session, TLAPS

----------------------------------------------------------------------------
(* The slots of the server. *)

\* The threads.
ThreadsOK == th \in [Threads -> Local]

\* There is a first slot.
LEMMA FirstSlot == 0 \in Slots /\ Slots \subseteq Nat
  BY UdpServerAssumption DEF Slots

\* A thread that begins anew.
LEMMA StartType == ASSUME NEW pc \in PC PROVE Start(pc) \in Local
  BY FirstSlot DEF Start, Local

\* The main thread stays inside the table.
LEMMA NextSlotType == ASSUME NEW c \in Slots PROVE NextSlot(c) \in Slots
  BY FirstSlot DEF NextSlot

\* A thread that goes on to pc.
LEMMA GotoType ==
  ASSUME ThreadsOK, NEW t \in Threads, NEW pc \in PC, Goto(t, pc)
  PROVE  ThreadsOK'
  BY DEF ThreadsOK, Goto, Local

\* A thread that has finished what it did.
LEMMA DoneType ==
  ASSUME ThreadsOK, NEW t \in Threads, Done(t)
  PROVE  ThreadsOK'
<1>1. "recvfrom" \in PC /\ "visit" \in PC
  BY DEF PC
<1>2. Start("recvfrom") \in Local /\ Start("visit") \in Local
  BY <1>1, StartType
<1>3. NextSlot(th[t].c) \in Slots
  BY NextSlotType DEF ThreadsOK, Local
<1>4. [Start("visit") EXCEPT !.c = NextSlot(th[t].c)] \in Local
  BY <1>2, <1>3 DEF Local
<1> QED BY <1>2, <1>4 DEF ThreadsOK, Done

\* A slot that is reset.
LEMMA ResetSlotType ==
  ASSUME NEW s \in Slot, NEW id \in {-1} \cup Slots
  PROVE  ResetSlot(s, id) \in Slot
<1>1. 0 \in 0 .. HeartTimeMax + 1
  BY UdpServerAssumption
<1> QED BY <1>1 DEF ResetSlot, Slot

\* A failure stops both threads.
LEMMA FailType ==
  ASSUME TypeOK, NEW kind \in {"assert", "undefined"}, Fail(kind)
  PROVE  TypeOK'
  BY DEF TypeOK, Fail

\* A call of ikcp begins.
LEMMA EnterType ==
  ASSUME TypeOK, NEW t \in Threads, NEW pc \in PC, NEW kcp, Enter(t, pc, kcp)
  PROVE  TypeOK'
<1>1. CASE kcp \in live
  <2>1. kcp \in Sessions
    BY <1>1 DEF TypeOK
  <2>2. th' = [th EXCEPT ![t].pc = pc, ![t].k = kcp]
    BY <1>1 DEF Enter
  <2>3. [th[t] EXCEPT !.pc = pc, !.k = kcp] \in Local
    BY ZenonT(40), <2>1 DEF TypeOK, Local
  <2>4. th' \in [Threads -> Local]
    BY <2>2, <2>3 DEF TypeOK
  <2> QED BY <1>1, <2>4 DEF TypeOK, Enter
<1>2. CASE kcp \notin live
  <2>1. Fail("undefined")
    BY <1>2 DEF Enter
  <2> QED BY <2>1, FailType
<1> QED BY <1>1, <1>2

\* A call of ikcp ends.
LEMMA LeaveType ==
  ASSUME TypeOK, NEW t \in Threads, NEW pc \in PC, Leave(t, pc)
  PROVE  TypeOK'
<1>1. ThreadsOK
  BY DEF TypeOK, ThreadsOK
<1>2. CASE Goto(t, pc) /\ UNCHANGED fault
  <2>1. ThreadsOK'
    BY <1>1, <1>2, GotoType
  <2> QED BY <1>2, <2>1 DEF TypeOK, ThreadsOK, Leave
<1>3. CASE fault' = "undefined" /\ UNCHANGED th
  BY <1>3 DEF TypeOK, Leave
<1> QED BY <1>2, <1>3 DEF Leave
----------------------------------------------------------------------------
(* The inductive invariant.  No key is ever erased from CheckConnectSet, and *)
(* an address is in the table only after its key is there, or while onAccept *)
(* is about to add it.                                                       *)

\* Where onAccept is between the test of CheckConnectSet and the insertion.
NotAddedYet == {"findFree", "connect", "setAddr", "addCheck"}

\* onAccept works for a client.
AddrKnown == th["worker"].pc \in NotAddedYet \cup {"accept"} => th["worker"].addr \in Addrs

\* onAccept has tested that the address was never admitted.
NeverAdmitted == th["worker"].pc \in NotAddedYet => Key[th["worker"].addr] \notin CheckConnectSet

\* An address that is in the table was admitted, or is being admitted.
Registered ==
  \A i \in Slots :
    slot[i].addr # NoAddr =>
      \/ Key[slot[i].addr] \in CheckConnectSet
      \/ /\ th["worker"].pc = "addCheck" /\ th["worker"].c = i
         /\ th["worker"].addr = slot[i].addr

\* An address is in the table once, whatever the state of the slots.
Distinct ==
  \A i, j \in Slots : i # j /\ slot[i].addr # NoAddr => slot[i].addr # slot[j].addr

IInv == TypeOK /\ AddrKnown /\ NeverAdmitted /\ Registered /\ Distinct
----------------------------------------------------------------------------
(* Every action keeps the types. *)

\* The first state.
LEMMA InitType == Init => TypeOK
<1> SUFFICES ASSUME Init PROVE TypeOK
  OBVIOUS
<1>1. \A t \in Threads : th[t] \in Local
  BY StartType DEF Init, PC, Threads
<1>2. th \in [Threads -> Local]
  BY <1>1 DEF Init
<1>3. slot \in [Slots -> Slot]
  <2>1. PICK kcp \in [Slots -> {Null, Garbage}] :
          slot = [i \in Slots |->
                    [state |-> "UFree", ID |-> i, addr |-> NoAddr, kcp |-> kcp[i],
                     age |-> 0, data |-> NoAddr]]
    BY DEF Init
  <2>2. 0 \in 0 .. HeartTimeMax + 1
    BY UdpServerAssumption
  <2> QED BY <2>1, <2>2 DEF Slot
<1> QED BY <1>2, <1>3 DEF Init, TypeOK

\* onDisconnect keeps the types.
LEMMA OnDisconnectType ==
  ASSUME TypeOK, NEW t \in Threads, OnDisconnect(t)
  PROVE  TypeOK'
<1>0. ThreadsOK /\ th[t] \in Local /\ th[t].c \in Slots /\ th[t].then \in PC
  BY DEF TypeOK, ThreadsOK, Local, PC
<1>1. CASE FindVictim(t)
  <2>1. CheckConnectSet' \subseteq {Key[a] : a \in Addrs}
    BY <1>1 DEF FindVictim, TypeOK, DeleteCheckIsConnect
  <2>2. ThreadsOK'
    <3>1. CASE Done(t)
      BY <1>0, <3>1, DoneType
    <3>2. CASE ~ Done(t)
      <4>1. th[t].id \in Slots
        BY <1>1, <3>2 DEF FindVictim
      <4>2. th' = [th EXCEPT ![t].pc = "testKcp", ![t].c = th[t].id, ![t].then = "reset"]
        BY <1>1, <3>2 DEF FindVictim
      <4> QED BY ZenonT(40), <1>0, <4>1, <4>2 DEF ThreadsOK, Local, PC
    <3> QED BY <3>1, <3>2
  <2> QED BY <1>1, <2>1, <2>2 DEF FindVictim, TypeOK, ThreadsOK
<1>2. CASE TestKcp(t)
  <2>1. (IF slot[th[t].c].kcp = Null THEN th[t].then ELSE "release") \in PC
    BY <1>0 DEF PC
  <2>2. ThreadsOK'
    BY <1>0, <1>2, <2>1, GotoType DEF TestKcp
  <2> QED BY <1>2, <2>2 DEF TestKcp, TypeOK, ThreadsOK
<1>3. CASE Release(t)
  <2>1. CASE Fail("assert") \/ Fail("undefined")
    BY <2>1, FailType
  <2>2. CASE ~ (Fail("assert") \/ Fail("undefined"))
    <3>1. /\ live' = live \ {slot[th[t].c].kcp}
          /\ Goto(t, "setNull")
          /\ UNCHANGED <<slot, CheckConnectSet, owner, told, fault>>
      BY <1>3, <2>2 DEF Release
    <3>2. ThreadsOK'
      <4>1. "setNull" \in PC
        BY DEF PC
      <4> QED BY <1>0, <3>1, <4>1, GotoType
    <3> QED BY <3>1, <3>2 DEF TypeOK, ThreadsOK
  <2> QED BY <2>1, <2>2
<1>4. CASE SetNull(t)
  <2>1. slot' \in [Slots -> Slot]
    BY <1>0, <1>4 DEF SetNull, TypeOK, Slot
  <2>2. ThreadsOK'
    BY <1>0, <1>4, GotoType DEF SetNull
  <2> QED BY <1>4, <2>1, <2>2 DEF SetNull, TypeOK, ThreadsOK
<1>5. CASE Reset(t)
  <2>1. slot' \in [Slots -> Slot]
    BY <1>0, <1>5, ResetSlotType DEF Reset, TypeOK
  <2>2. ThreadsOK'
    <3>1. "setFree" \in PC
      BY DEF PC
    <3> QED BY <1>0, <1>5, <3>1, GotoType DEF Reset
  <2> QED BY <1>5, <2>1, <2>2 DEF Reset, TypeOK, ThreadsOK
<1>6. CASE SetFree(t)
  <2>1. slot' \in [Slots -> Slot]
    BY <1>0, <1>6 DEF SetFree, TypeOK, Slot
  <2>2. ThreadsOK'
    BY <1>0, <1>6, DoneType DEF SetFree
  <2> QED BY <1>6, <2>1, <2>2 DEF SetFree, TypeOK, ThreadsOK
<1> QED BY <1>1, <1>2, <1>3, <1>4, <1>5, <1>6 DEF OnDisconnect

\* What the worker does with a datagram keeps the types.
LEMMA DatagramType ==
  ASSUME TypeOK, Datagram
  PROVE  TypeOK'
<1>0. "worker" \in Threads /\ ThreadsOK /\ th["worker"] \in Local
  BY DEF TypeOK, ThreadsOK, Threads
<1>1. PICK a \in Addrs :
        \/ RecvAccept(a)
        \/ \E id \in told[a] : RecvHeart(a, id) \/ RecvKcp(a, id) \/ RecvDisconnect(a, id)
  BY DEF Datagram
<1>2. ASSUME NEW pc \in PC, NEW id \in {-1} \cup Slots, Recvfrom(pc, a, id)
      PROVE  TypeOK'
  <2>1. [th["worker"] EXCEPT !.pc = pc, !.addr = a, !.id = id] \in Local
    BY <1>0 DEF Local
  <2>2. th' \in [Threads -> Local]
    BY <1>0, <1>2, <2>1 DEF ThreadsOK, Recvfrom
  <2> QED BY <1>2, <2>2 DEF Recvfrom, TypeOK
<1>3. CASE RecvAccept(a)
  <2>1. "accept" \in PC
    BY DEF PC
  <2> QED BY <1>2, <1>3, <2>1 DEF RecvAccept
<1>4. ASSUME NEW id \in told[a], RecvHeart(a, id) \/ RecvKcp(a, id) \/ RecvDisconnect(a, id)
      PROVE  TypeOK'
  <2>0. id \in Slots
    BY <1>4 DEF TypeOK
  <2>1. CASE RecvHeart(a, id)
    <3>1. 0 \in 0 .. HeartTimeMax + 1
      BY UdpServerAssumption
    <3>2. [slot[id] EXCEPT !.age = 0] \in Slot
      BY <2>0, <3>1 DEF TypeOK, Slot
    <3>3. slot' \in [Slots -> Slot]
      BY <2>0, <2>1, <3>2 DEF RecvHeart, TypeOK
    <3> QED BY <2>1, <3>3 DEF RecvHeart, TypeOK
  <2>2. CASE RecvKcp(a, id)
    <3>1. [th["worker"] EXCEPT !.pc = "input", !.addr = a, !.c = id] \in Local
      BY <1>0, <2>0 DEF Local, PC
    <3>2. th' \in [Threads -> Local]
      BY <1>0, <2>2, <3>1 DEF RecvKcp, ThreadsOK
    <3> QED BY <2>2, <3>2 DEF RecvKcp, TypeOK
  <2>3. CASE RecvDisconnect(a, id)
    <3>1. "disconnect" \in PC
      BY DEF PC
    <3> QED BY <1>2, <2>0, <2>3, <3>1 DEF RecvDisconnect
  <2> QED BY <1>4, <2>1, <2>2, <2>3
<1> QED BY <1>1, <1>3, <1>4

\* recvData_kcp keeps the types.
LEMMA OnKcpType ==
  ASSUME TypeOK, OnKcp
  PROVE  TypeOK'
<1>0. "worker" \in Threads /\ ThreadsOK /\ th["worker"] \in Local
  BY DEF TypeOK, ThreadsOK, Threads
<1>1. {"inputting", "recv", "recving"} \subseteq PC
  BY DEF PC
<1>2. CASE Input
  BY <1>0, <1>1, <1>2, EnterType DEF Input
<1>3. CASE Inputting
  BY <1>0, <1>1, <1>3, LeaveType DEF Inputting
<1>4. CASE RecvMessage
  <2>1. CASE Fail("assert")
    BY <2>1, FailType
  <2>2. CASE Enter("worker", "recving", slot[th["worker"].c].kcp)
    BY <1>0, <1>1, <2>2, EnterType
  <2> QED BY <1>4, <2>1, <2>2 DEF RecvMessage
<1>5. CASE SaveMessage
  <2>1. th["worker"].c \in Slots /\ owner[th["worker"].k] \in Addrs \cup {NoAddr}
    BY <1>0, <1>5 DEF SaveMessage, TypeOK, Local
  <2>2. [slot[th["worker"].c] EXCEPT !.data = owner[th["worker"].k]] \in Slot
    BY <2>1 DEF TypeOK, Slot
  <2>3. slot' \in [Slots -> Slot]
    BY <1>5, <2>1, <2>2 DEF SaveMessage, TypeOK
  <2>4. ThreadsOK'
    BY <1>0, <1>1, <1>5, GotoType DEF SaveMessage
  <2> QED BY <1>5, <2>3, <2>4 DEF SaveMessage, TypeOK, ThreadsOK
<1>6. CASE NoMessage
  <2>1. CASE Done("worker") /\ UNCHANGED fault
    <3>1. ThreadsOK'
      BY <1>0, <2>1, DoneType
    <3> QED BY <1>6, <2>1, <3>1 DEF NoMessage, TypeOK, ThreadsOK
  <2>2. CASE fault' = "undefined" /\ UNCHANGED th
    BY <1>6, <2>2 DEF NoMessage, TypeOK
  <2> QED BY <1>6, <2>1, <2>2 DEF NoMessage
<1> QED BY <1>2, <1>3, <1>4, <1>5, <1>6 DEF OnKcp

\* onAccept keeps the types.
LEMMA OnAcceptType ==
  ASSUME TypeOK, AddrKnown, OnAccept
  PROVE  TypeOK'
<1>0. /\ "worker" \in Threads /\ ThreadsOK /\ th["worker"] \in Local
      /\ th["worker"].c \in Slots /\ th["worker"].addr \in Addrs \cup {NoAddr}
  BY DEF TypeOK, ThreadsOK, Threads, Local
<1>1. {"findFree", "connect", "setAddr", "addCheck", "testKcp", "create", "reply"} \subseteq PC
  BY DEF PC
<1>2. CASE AlreadyConnected
  <2>1. ThreadsOK'
    BY <1>0, <1>2, DoneType DEF AlreadyConnected
  <2> QED BY <1>2, <2>1 DEF AlreadyConnected, TypeOK, ThreadsOK
<1>3. CASE NotConnected
  <2>1. ThreadsOK'
    BY <1>0, <1>1, <1>3, GotoType DEF NotConnected
  <2> QED BY <1>3, <2>1 DEF NotConnected, TypeOK, ThreadsOK
<1>4. CASE FindFree
  <2>1. CASE Done("worker") /\ UNCHANGED slot
    <3>1. ThreadsOK'
      BY <1>0, <2>1, DoneType
    <3> QED BY <1>4, <2>1, <3>1 DEF FindFree, TypeOK, ThreadsOK
  <2>2. CASE ~ (Done("worker") /\ UNCHANGED slot)
    <3>1. PICK i \in Slots :
            /\ slot' = [slot EXCEPT ![i] = ResetSlot(@, i)]
            /\ th' = [th EXCEPT !["worker"].pc = "connect", !["worker"].c = i]
      BY <1>4, <2>2 DEF FindFree
    <3>2. slot' \in [Slots -> Slot]
      BY <3>1, ResetSlotType DEF TypeOK
    <3>3. [th["worker"] EXCEPT !.pc = "connect", !.c = i] \in Local
      BY <1>0, <1>1 DEF Local
    <3>4. ThreadsOK'
      BY <1>0, <3>1, <3>3 DEF ThreadsOK
    <3> QED BY <1>4, <3>2, <3>4 DEF FindFree, TypeOK, ThreadsOK
  <2> QED BY <2>1, <2>2
<1>5. CASE SetConnect
  <2>1. [slot[th["worker"].c] EXCEPT !.state = "UConnect"] \in Slot
    BY <1>0 DEF TypeOK, Slot
  <2>2. slot' \in [Slots -> Slot]
    BY <1>5, <2>1 DEF SetConnect, TypeOK
  <2>3. ThreadsOK'
    BY <1>0, <1>1, <1>5, GotoType DEF SetConnect
  <2> QED BY <1>5, <2>2, <2>3 DEF SetConnect, TypeOK, ThreadsOK
<1>6. CASE SetAddr
  <2>1. 0 \in 0 .. HeartTimeMax + 1
    BY UdpServerAssumption
  <2>2. \A s \in Slot, a \in Addrs \cup {NoAddr} : [s EXCEPT !.addr = a, !.age = 0] \in Slot
    BY <2>1 DEF Slot
  <2>3. slot' \in [Slots -> Slot]
    BY <1>0, <1>6, <2>2 DEF SetAddr, TypeOK
  <2>4. ThreadsOK'
    BY <1>0, <1>1, <1>6, GotoType DEF SetAddr
  <2> QED BY <1>6, <2>3, <2>4 DEF SetAddr, TypeOK, ThreadsOK
<1>7. CASE AddCheck
  <2>1. [th["worker"] EXCEPT !.pc = "testKcp", !.then = "create"] \in Local
    BY <1>0, <1>1 DEF Local
  <2>2. ThreadsOK'
    BY <1>0, <1>7, <2>1 DEF AddCheck, ThreadsOK
  <2>3. th["worker"].addr \in Addrs
    BY <1>7 DEF AddCheck, At, AddrKnown, NotAddedYet
  <2> QED BY <1>7, <2>2, <2>3 DEF AddCheck, TypeOK, ThreadsOK
<1>8. CASE CreateKcp
  <2>1. PICK s \in Sessions :
          /\ live' = live \cup {s}
          /\ owner' = [owner EXCEPT ![s] = th["worker"].addr]
          /\ slot' = [slot EXCEPT ![th["worker"].c].kcp = s]
    BY <1>8 DEF CreateKcp
  <2>2. [slot[th["worker"].c] EXCEPT !.kcp = s] \in Slot
    BY <1>0 DEF TypeOK, Slot
  <2>3. slot' \in [Slots -> Slot]
    BY <2>1, <2>2 DEF TypeOK
  <2>4. owner' \in [Sessions -> Addrs \cup {NoAddr}]
    BY <1>0, <2>1 DEF TypeOK
  <2>5. ThreadsOK'
    BY <1>0, <1>1, <1>8, GotoType DEF CreateKcp
  <2> QED BY <1>8, <2>1, <2>3, <2>4, <2>5 DEF CreateKcp, TypeOK, ThreadsOK
<1>9. CASE Reply
  <2>1. told' \in [Addrs -> SUBSET Slots]
    BY <1>0, <1>9 DEF Reply, Reachable, TypeOK, Slot
  <2>2. ThreadsOK'
    BY <1>0, <1>9, DoneType DEF Reply
  <2> QED BY <1>9, <2>1, <2>2 DEF Reply, TypeOK, ThreadsOK
<1> QED BY <1>2, <1>3, <1>4, <1>5, <1>6, <1>7, <1>8, <1>9 DEF OnAccept

\* A slot is skipped, or its client is late, or it is served.
LEMMA VisitCases ==
  ASSUME TypeOK, Visit
  PROVE  \/ Done("main")
         \/ th' = [th EXCEPT !["main"].pc = "disconnect",
                             !["main"].id = slot[th["main"].c].ID]
         \/ Goto("main", "update")
<1> DEFINE i == slot[th["main"].c]
<1>0. th["main"].c \in Slots /\ i \in Slot
  BY DEF TypeOK, Threads, Local
<1>1. i.ID \in Int /\ i.age \in Int /\ HeartTimeMax \in Int
  BY <1>0, UdpServerAssumption DEF Slot, Slots
<1> HIDE DEF i
<1>2. \/ i.ID < 0 \/ i.state = "UFree"
      \/ i.ID >= 0 /\ i.state # "UFree" /\ i.age > HeartTimeMax
      \/ i.ID >= 0 /\ i.state # "UFree" /\ i.age <= HeartTimeMax
  BY <1>1
<1> QED BY <1>2 DEF Visit, i

\* parseCommand keeps the types.
LEMMA MainType ==
  ASSUME TypeOK, Main
  PROVE  TypeOK'
<1>0. /\ "main" \in Threads /\ ThreadsOK /\ th["main"] \in Local /\ th["main"].c \in Slots
      /\ slot[th["main"].c] \in Slot
  BY DEF TypeOK, ThreadsOK, Threads, Local
<1>1. {"disconnect", "update", "updating", "parse", "KcpSend", "send", "sending"} \subseteq PC
  BY DEF PC
<1>2. CASE Visit
  <2> DEFINE i == slot[th["main"].c]
  <2>1. \/ Done("main")
        \/ th' = [th EXCEPT !["main"].pc = "disconnect", !["main"].id = i.ID]
        \/ Goto("main", "update")
    BY <1>2, VisitCases
  <2>2. ThreadsOK'
    <3>1. CASE Done("main")
      BY <1>0, <3>1, DoneType
    <3>2. CASE Goto("main", "update")
      BY <1>0, <1>1, <3>2, GotoType
    <3>3. CASE th' = [th EXCEPT !["main"].pc = "disconnect", !["main"].id = i.ID]
      <4>1. i.ID \in {-1} \cup Slots
        BY <1>0 DEF Slot
      <4>2. [th["main"] EXCEPT !.pc = "disconnect", !.id = i.ID] \in Local
        BY <1>0, <1>1, <4>1 DEF Local
      <4> QED BY <1>0, <3>3, <4>2 DEF ThreadsOK
    <3> QED BY <2>1, <3>1, <3>2, <3>3
  <2> QED BY <1>2, <2>2 DEF Visit, TypeOK, ThreadsOK
<1>3. CASE UpdateKcp
  <2>1. CASE Goto("main", "parse") /\ UNCHANGED <<slot, CheckConnectSet, live, owner, told, fault>>
    <3>1. ThreadsOK'
      BY <1>0, <1>1, <2>1, GotoType
    <3> QED BY <2>1, <3>1 DEF TypeOK, ThreadsOK
  <2>2. CASE Enter("main", "updating", slot[th["main"].c].kcp)
    BY <1>0, <1>1, <2>2, EnterType
  <2> QED BY <1>3, <2>1, <2>2 DEF UpdateKcp
<1>4. CASE Updating
  BY <1>0, <1>1, <1>4, LeaveType DEF Updating
<1>5. CASE Parse
  <2>1. CASE Done("main") /\ UNCHANGED slot
    <3>1. ThreadsOK'
      BY <1>0, <2>1, DoneType
    <3> QED BY <1>5, <2>1, <3>1 DEF Parse, TypeOK, ThreadsOK
  <2>2. CASE /\ th' = [th EXCEPT !["main"].pc = "KcpSend",
                                 !["main"].from = slot[th["main"].c].data]
             /\ slot' = [slot EXCEPT ![th["main"].c].data = NoAddr]
    <3>1. [th["main"] EXCEPT !.pc = "KcpSend", !.from = slot[th["main"].c].data] \in Local
      BY <1>0, <1>1 DEF Local, Slot
    <3>2. th' \in [Threads -> Local]
      BY <1>0, <2>2, <3>1 DEF ThreadsOK
    <3>3. [slot[th["main"].c] EXCEPT !.data = NoAddr] \in Slot
      BY <1>0 DEF Slot
    <3>4. slot' \in [Slots -> Slot]
      BY <2>2, <3>3 DEF TypeOK
    <3> QED BY <1>5, <3>2, <3>4 DEF Parse, TypeOK
  <2> QED BY <1>5, <2>1, <2>2 DEF Parse
<1>6. CASE KcpSend
  <2>1. Done("main") \/ Goto("main", "send")
    BY <1>6 DEF KcpSend
  <2>2. ThreadsOK'
    BY <1>0, <1>1, <2>1, DoneType, GotoType
  <2> QED BY <1>6, <2>2 DEF KcpSend, TypeOK, ThreadsOK
<1>7. CASE Send
  BY <1>0, <1>1, <1>7, EnterType DEF Send
<1>8. CASE Sending
  <2>1. CASE Done("main") /\ UNCHANGED fault
    <3>1. ThreadsOK'
      BY <1>0, <2>1, DoneType
    <3> QED BY <1>8, <2>1, <3>1 DEF Sending, TypeOK, ThreadsOK
  <2>2. CASE fault' = "undefined" /\ UNCHANGED th
    BY <1>8, <2>2 DEF Sending, TypeOK
  <2> QED BY <1>8, <2>1, <2>2 DEF Sending
<1> QED BY <1>2, <1>3, <1>4, <1>5, <1>6, <1>7, <1>8 DEF Main

\* The clock keeps the types.
LEMMA TickType ==
  ASSUME TypeOK, Tick
  PROVE  TypeOK'
<1>1. ASSUME NEW i \in Slots, slot[i].age <= HeartTimeMax
      PROVE  [slot[i] EXCEPT !.age = @ + 1] \in Slot
  <2>1. slot[i].age + 1 \in 0 .. HeartTimeMax + 1
    BY <1>1, UdpServerAssumption DEF TypeOK, Slot
  <2> QED BY <2>1 DEF TypeOK, Slot
<1>2. \A i \in Slots :
        (IF slot[i].age <= HeartTimeMax THEN [slot[i] EXCEPT !.age = @ + 1] ELSE slot[i]) \in Slot
  BY <1>1 DEF TypeOK
<1>3. slot' \in [Slots -> Slot]
  BY <1>2 DEF Tick
<1> QED BY <1>3 DEF Tick, TypeOK
----------------------------------------------------------------------------
(* Every action keeps the rest of the invariant. *)

\* A step that does not concern onAccept: it adds no key and no address, and
\* leaves the worker where it is, or outside of onAccept.
WorkerAside ==
  \/ th'["worker"] = th["worker"]
  \/ /\ th["worker"].pc # "addCheck"
     /\ th'["worker"].pc \notin NotAddedYet \cup {"accept"}

Aside ==
  /\ CheckConnectSet' = CheckConnectSet
  /\ \A i \in Slots : slot'[i].addr \in {slot[i].addr, NoAddr}
  /\ WorkerAside

\* Such a step keeps the invariant.
LEMMA AsideKeeps ==
  ASSUME IInv, Aside
  PROVE  AddrKnown' /\ NeverAdmitted' /\ Registered' /\ Distinct'
<1>1. AddrKnown' /\ NeverAdmitted'
  BY DEF IInv, Aside, WorkerAside, AddrKnown, NeverAdmitted
<1>2. Registered'
  BY DEF IInv, Aside, WorkerAside, Registered
<1>3. Distinct'
  BY DEF IInv, Aside, Distinct
<1> QED BY <1>1, <1>2, <1>3

\* A thread that goes on, or has finished, outside of onAccept.
LEMMA GoesOnAside ==
  ASSUME TypeOK, NEW t \in Threads, th[t].pc # "addCheck", NEW pc, Goto(t, pc),
         pc \notin NotAddedYet \cup {"accept"}
  PROVE  WorkerAside
  BY DEF TypeOK, Threads, Goto, WorkerAside, Local

\* A thread that has finished, outside of onAccept.
LEMMA DoneAside ==
  ASSUME TypeOK, NEW t \in Threads, th[t].pc # "addCheck", Done(t)
  PROVE  WorkerAside
<1>1. CASE t = "worker"
  <2>1. th'["worker"].pc = "recvfrom"
    BY <1>1 DEF TypeOK, Threads, Done, Start
  <2> QED BY <1>1, <2>1 DEF WorkerAside, NotAddedYet
<1>2. CASE t = "main"
  BY <1>2 DEF TypeOK, Threads, Done, WorkerAside
<1> QED BY <1>1, <1>2 DEF Threads

\* A call of ikcp is outside of onAccept.
LEMMA EnterAside ==
  ASSUME TypeOK, NEW t \in Threads, th[t].pc # "addCheck",
         NEW pc, pc \notin NotAddedYet \cup {"accept"}, NEW kcp, Enter(t, pc, kcp)
  PROVE  Aside
<1>1. UNCHANGED <<slot, CheckConnectSet>>
  BY DEF Enter, Fail
<1>2. WorkerAside
  BY DEF Enter, Fail, TypeOK, Threads, WorkerAside, Local
<1> QED BY <1>1, <1>2 DEF Aside

\* The end of a call of ikcp is outside of onAccept.
LEMMA LeaveAside ==
  ASSUME TypeOK, NEW t \in Threads, th[t].pc # "addCheck",
         NEW pc, pc \notin NotAddedYet \cup {"accept"}, Leave(t, pc)
  PROVE  Aside
<1>1. UNCHANGED <<slot, CheckConnectSet>>
  BY DEF Leave
<1>2. WorkerAside
  <2>1. CASE Goto(t, pc)
    BY <2>1, GoesOnAside
  <2>2. CASE UNCHANGED th
    BY <2>2 DEF WorkerAside
  <2> QED BY <2>1, <2>2 DEF Leave
<1> QED BY <1>1, <1>2 DEF Aside

\* onDisconnect erases nothing from CheckConnectSet.
LEMMA OnDisconnectAside ==
  ASSUME TypeOK, NEW t \in Threads, OnDisconnect(t)
  PROVE  Aside
<1>0. th[t] \in Local /\ th[t].c \in Slots
  BY DEF TypeOK, Local
<1>1. CASE FindVictim(t)
  <2>1. CheckConnectSet' = CheckConnectSet /\ slot' = slot
    BY <1>1 DEF FindVictim, DeleteCheckIsConnect
  <2>2. th[t].pc # "addCheck"
    BY <1>1 DEF FindVictim, At
  <2>3. CASE Done(t)
    BY <2>1, <2>2, <2>3, DoneAside DEF Aside
  <2>4. CASE ~ Done(t)
    <3>1. th' = [th EXCEPT ![t].pc = "testKcp", ![t].c = th[t].id, ![t].then = "reset"]
      BY <1>1, <2>4 DEF FindVictim
    <3>2. WorkerAside
      BY <2>2, <3>1 DEF TypeOK, Threads, WorkerAside, NotAddedYet, Local
    <3> QED BY <2>1, <3>2 DEF Aside
  <2> QED BY <2>3, <2>4
<1>2. CASE TestKcp(t)
  <2>1. WorkerAside
    <3>1. (IF slot[th[t].c].kcp = Null THEN th[t].then ELSE "release")
            \notin NotAddedYet \cup {"accept"}
      BY <1>0 DEF Local, NotAddedYet
    <3> QED BY <1>2, <3>1, GoesOnAside DEF TestKcp, At
  <2> QED BY <1>2, <2>1 DEF TestKcp, Aside
<1>3. CASE Release(t)
  <2>1. UNCHANGED <<slot, CheckConnectSet>> /\ (UNCHANGED th \/ Goto(t, "setNull"))
    BY <1>3 DEF Release, Fail
  <2>2. WorkerAside
    <3>1. CASE UNCHANGED th
      BY <3>1 DEF WorkerAside
    <3>2. CASE Goto(t, "setNull")
      BY <1>3, <3>2, GoesOnAside DEF Release, At, NotAddedYet
    <3> QED BY <2>1, <3>1, <3>2
  <2> QED BY <2>1, <2>2 DEF Aside
<1>4. CASE SetNull(t)
  <2>1. \A i \in Slots : slot'[i].addr = slot[i].addr
    BY <1>0, <1>4 DEF SetNull, TypeOK, Slot
  <2>2. WorkerAside
    <3>1. th[t].then \notin NotAddedYet \cup {"accept"}
      BY <1>0 DEF Local, NotAddedYet
    <3> QED BY <1>4, <3>1, GoesOnAside DEF SetNull, At
  <2> QED BY <1>4, <2>1, <2>2 DEF SetNull, Aside
<1>5. CASE Reset(t)
  <2>1. \A i \in Slots : slot'[i].addr \in {slot[i].addr, NoAddr}
    BY <1>0, <1>5 DEF Reset, ResetSlot, TypeOK, Slot
  <2>2. WorkerAside
    BY <1>5, GoesOnAside DEF Reset, At, NotAddedYet
  <2> QED BY <1>5, <2>1, <2>2 DEF Reset, Aside
<1>6. CASE SetFree(t)
  <2>1. \A i \in Slots : slot'[i].addr = slot[i].addr
    BY <1>0, <1>6 DEF SetFree, TypeOK, Slot
  <2>2. WorkerAside
    BY <1>6, DoneAside DEF SetFree, At
  <2> QED BY <1>6, <2>1, <2>2 DEF SetFree, Aside
<1> QED BY <1>1, <1>2, <1>3, <1>4, <1>5, <1>6 DEF OnDisconnect

\* Messages that arrive for a session are outside of onAccept.
LEMMA OnKcpAside ==
  ASSUME TypeOK, OnKcp
  PROVE  Aside
<1>0. "worker" \in Threads /\ th["worker"] \in Local /\ th["worker"].c \in Slots
  BY DEF TypeOK, Threads, Local
<1>1. {"inputting", "recv", "recving"} \cap (NotAddedYet \cup {"accept"}) = {}
  BY DEF NotAddedYet
<1>2. CASE Input
  BY <1>0, <1>1, <1>2, EnterAside DEF Input, At
<1>3. CASE Inputting
  BY <1>0, <1>1, <1>3, LeaveAside DEF Inputting, At
<1>4. CASE RecvMessage
  <2>1. CASE Fail("assert")
    BY <2>1 DEF Fail, Aside, WorkerAside
  <2>2. CASE Enter("worker", "recving", slot[th["worker"].c].kcp)
    BY <1>0, <1>1, <1>4, <2>2, EnterAside DEF RecvMessage, At
  <2> QED BY <1>4, <2>1, <2>2 DEF RecvMessage
<1>5. CASE SaveMessage
  <2>1. \A i \in Slots : slot'[i].addr = slot[i].addr
    BY <1>0, <1>5 DEF SaveMessage, TypeOK, Slot
  <2>2. WorkerAside
    BY <1>0, <1>1, <1>5, GoesOnAside DEF SaveMessage, At
  <2> QED BY <1>5, <2>1, <2>2 DEF SaveMessage, Aside
<1>6. CASE NoMessage
  <2>1. WorkerAside
    <3>1. CASE Done("worker")
      BY <1>0, <1>6, <3>1, DoneAside DEF NoMessage, At
    <3>2. CASE UNCHANGED th
      BY <3>2 DEF WorkerAside
    <3> QED BY <1>6, <3>1, <3>2 DEF NoMessage
  <2> QED BY <1>6, <2>1 DEF NoMessage, Aside
<1> QED BY <1>2, <1>3, <1>4, <1>5, <1>6 DEF OnKcp

\* The main thread moves neither the worker nor an address, unless it disconnects.
LEMMA MainAside ==
  ASSUME TypeOK, Main
  PROVE  Aside
<1>1. th'["worker"] = th["worker"]
  <2>1. ASSUME NEW pc, Goto("main", pc) PROVE th'["worker"] = th["worker"]
    BY <2>1 DEF Goto, TypeOK, Threads
  <2>2. ASSUME Done("main") PROVE th'["worker"] = th["worker"]
    BY <2>2 DEF Done, TypeOK, Threads
  <2>3. ASSUME NEW pc, NEW kcp, Enter("main", pc, kcp) PROVE th'["worker"] = th["worker"]
    BY <2>3 DEF Enter, Fail, TypeOK, Threads
  <2>4. ASSUME NEW pc, Leave("main", pc) PROVE th'["worker"] = th["worker"]
    BY <2>1, <2>4 DEF Leave
  <2>5. CASE Visit
    <3>1. CASE th' = [th EXCEPT !["main"].pc = "disconnect",
                                !["main"].id = slot[th["main"].c].ID]
      BY <3>1 DEF TypeOK, Threads
    <3> QED BY <2>1, <2>2, <2>5, <3>1, VisitCases
  <2>6. CASE UpdateKcp \/ Updating \/ Send
    BY <2>1, <2>3, <2>4, <2>6 DEF UpdateKcp, Updating, Send
  <2>7. CASE Parse
    BY <2>2, <2>7 DEF Parse, TypeOK, Threads
  <2>8. CASE KcpSend \/ Sending
    BY <2>1, <2>2, <2>8 DEF KcpSend, Sending
  <2> QED BY <2>5, <2>6, <2>7, <2>8 DEF Main
<1>2. CheckConnectSet' = CheckConnectSet
  BY DEF Main, Visit, UpdateKcp, Updating, Parse, KcpSend, Send, Sending, Enter, Leave, Fail
<1>3. \A i \in Slots : slot'[i].addr = slot[i].addr
  <2>1. CASE UNCHANGED slot
    BY <2>1
  <2>2. CASE slot' = [slot EXCEPT ![th["main"].c].data = NoAddr]
    BY <2>2 DEF TypeOK, Slot
  <2>3. UNCHANGED slot \/ slot' = [slot EXCEPT ![th["main"].c].data = NoAddr]
    BY DEF Main, Visit, UpdateKcp, Updating, Parse, KcpSend, Send, Sending, Enter, Leave, Fail
  <2> QED BY <2>1, <2>2, <2>3
<1> QED BY <1>1, <1>2, <1>3 DEF Aside, WorkerAside

\* The clock moves no address.
LEMMA TickAside ==
  ASSUME TypeOK, Tick
  PROVE  Aside
<1>1. \A i \in Slots : slot'[i].addr = slot[i].addr
  BY DEF Tick, TypeOK, Slot
<1> QED BY <1>1 DEF Tick, Aside, WorkerAside

\* A datagram can only make onAccept begin.
LEMMA DatagramKeeps ==
  ASSUME IInv, Datagram
  PROVE  AddrKnown' /\ NeverAdmitted' /\ Registered' /\ Distinct'
<1>0. "worker" \in Threads /\ TypeOK
  BY DEF IInv, Threads
<1>1. PICK a \in Addrs :
        \/ RecvAccept(a)
        \/ \E id \in told[a] : RecvHeart(a, id) \/ RecvKcp(a, id) \/ RecvDisconnect(a, id)
  BY DEF Datagram
<1>2. CASE RecvAccept(a)
  <2>1. /\ th["worker"].pc = "recvfrom"
        /\ th'["worker"].pc = "accept" /\ th'["worker"].addr = a
        /\ UNCHANGED <<slot, CheckConnectSet>>
    BY <1>0, <1>2 DEF RecvAccept, Recvfrom, At, TypeOK, Local
  <2>2. AddrKnown' /\ NeverAdmitted'
    BY <2>1 DEF AddrKnown, NeverAdmitted, NotAddedYet
  <2>3. Registered' /\ Distinct'
    BY <2>1 DEF IInv, Registered, Distinct
  <2> QED BY <2>2, <2>3
<1>3. ASSUME NEW id \in told[a], RecvHeart(a, id) \/ RecvKcp(a, id) \/ RecvDisconnect(a, id)
      PROVE  Aside
  <2>1. CASE RecvHeart(a, id)
    <3>1. \A i \in Slots : slot'[i].addr = slot[i].addr
      BY <1>0, <2>1 DEF RecvHeart, TypeOK, Slot
    <3> QED BY <2>1, <3>1 DEF RecvHeart, Aside, WorkerAside
  <2>2. CASE RecvKcp(a, id)
    <3>1. th'["worker"].pc = "input" /\ th["worker"].pc = "recvfrom"
      BY <1>0, <2>2 DEF RecvKcp, At, TypeOK, Local
    <3> QED BY <2>2, <3>1 DEF RecvKcp, Aside, WorkerAside, NotAddedYet
  <2>3. CASE RecvDisconnect(a, id)
    <3>1. th'["worker"].pc = "disconnect" /\ th["worker"].pc = "recvfrom"
      BY <1>0, <2>3 DEF RecvDisconnect, Recvfrom, At, TypeOK, Local
    <3> QED BY <2>3, <3>1 DEF RecvDisconnect, Recvfrom, Aside, WorkerAside, NotAddedYet
  <2> QED BY <1>3, <2>1, <2>2, <2>3
<1> QED BY <1>1, <1>2, <1>3, AsideKeeps

\* onAccept: the address that enters the table was never admitted before.
LEMMA OnAcceptKeeps ==
  ASSUME IInv, OnAccept
  PROVE  AddrKnown' /\ NeverAdmitted' /\ Registered' /\ Distinct'
<1>0. /\ "worker" \in Threads /\ TypeOK /\ th["worker"] \in Local
      /\ th["worker"].c \in Slots
  BY DEF IInv, TypeOK, Threads, Local
<1>1. CASE AlreadyConnected
  <2>1. WorkerAside
    BY <1>0, <1>1, DoneAside DEF AlreadyConnected, At
  <2> QED BY <1>1, <2>1, AsideKeeps DEF AlreadyConnected, Aside
<1>2. CASE NotConnected
  <2>1. /\ th["worker"].pc = "accept" /\ th'["worker"].pc = "findFree"
        /\ th'["worker"].addr = th["worker"].addr
        /\ Key[th["worker"].addr] \notin CheckConnectSet
        /\ UNCHANGED <<slot, CheckConnectSet>>
    BY <1>0, <1>2 DEF NotConnected, At, Goto, TypeOK, Local
  <2> QED BY <2>1 DEF IInv, AddrKnown, NeverAdmitted, Registered, Distinct, NotAddedYet
<1>3. CASE FindFree
  <2>1. CASE Done("worker") /\ UNCHANGED slot
    <3>1. WorkerAside
      BY <1>0, <1>3, <2>1, DoneAside DEF FindFree, At
    <3> QED BY <1>3, <2>1, <3>1, AsideKeeps DEF FindFree, Aside
  <2>2. CASE ~ (Done("worker") /\ UNCHANGED slot)
    <3>1. PICK i \in Slots :
            /\ slot' = [slot EXCEPT ![i] = ResetSlot(@, i)]
            /\ th' = [th EXCEPT !["worker"].pc = "connect", !["worker"].c = i]
      BY <1>3, <2>2 DEF FindFree
    <3>2. \A j \in Slots : slot'[j].addr \in {slot[j].addr, NoAddr}
      BY <3>1 DEF ResetSlot, TypeOK, Slot, IInv
    <3>3. /\ th["worker"].pc = "findFree" /\ th'["worker"].pc = "connect"
          /\ th'["worker"].addr = th["worker"].addr
          /\ UNCHANGED CheckConnectSet
      BY <1>0, <1>3, <3>1 DEF FindFree, At, TypeOK, Local
    <3> QED BY <3>2, <3>3 DEF IInv, AddrKnown, NeverAdmitted, Registered, Distinct, NotAddedYet
  <2> QED BY <2>1, <2>2
<1>4. CASE SetConnect
  <2>1. \A i \in Slots : slot'[i].addr = slot[i].addr
    BY <1>0, <1>4 DEF SetConnect, TypeOK, Slot
  <2>2. /\ th["worker"].pc = "connect" /\ th'["worker"].pc = "setAddr"
        /\ th'["worker"].addr = th["worker"].addr
        /\ UNCHANGED CheckConnectSet
    BY <1>0, <1>4 DEF SetConnect, At, Goto, TypeOK, Local
  <2> QED BY <2>1, <2>2 DEF IInv, AddrKnown, NeverAdmitted, Registered, Distinct, NotAddedYet
<1>5. CASE SetAddr
  <2>1. /\ th["worker"].pc = "setAddr" /\ th'["worker"].pc = "addCheck"
        /\ th'["worker"].addr = th["worker"].addr /\ th'["worker"].c = th["worker"].c
        /\ UNCHANGED CheckConnectSet
    BY <1>0, <1>5 DEF SetAddr, At, Goto, TypeOK, Local
  <2>2. \A i \in Slots :
          slot'[i].addr = IF i = th["worker"].c THEN th["worker"].addr ELSE slot[i].addr
    BY <1>0, <1>5 DEF SetAddr, TypeOK, Slot
  <2>3. \A i \in Slots : slot[i].addr # NoAddr => slot[i].addr # th["worker"].addr
    BY <2>1 DEF IInv, NeverAdmitted, Registered, NotAddedYet
  <2>4. AddrKnown' /\ NeverAdmitted' /\ Registered'
    BY <2>1, <2>2 DEF IInv, AddrKnown, NeverAdmitted, Registered, NotAddedYet
  <2>5. Distinct'
    BY <1>0, <2>2, <2>3 DEF IInv, Distinct
  <2> QED BY <2>4, <2>5
<1>6. CASE AddCheck
  <2>1. /\ th["worker"].pc = "addCheck" /\ th'["worker"].pc = "testKcp"
        /\ CheckConnectSet' = CheckConnectSet \cup {Key[th["worker"].addr]}
        /\ UNCHANGED slot
    BY <1>0, <1>6 DEF AddCheck, At, TypeOK, Local
  <2> QED BY <2>1 DEF IInv, AddrKnown, NeverAdmitted, Registered, Distinct, NotAddedYet
<1>7. CASE CreateKcp
  <2>1. \A i \in Slots : slot'[i].addr = slot[i].addr
    BY <1>0, <1>7 DEF CreateKcp, TypeOK, Slot
  <2>2. WorkerAside
    BY <1>0, <1>7, GoesOnAside DEF CreateKcp, At, NotAddedYet
  <2> QED BY <1>7, <2>1, <2>2, AsideKeeps DEF CreateKcp, Aside
<1>8. CASE Reply
  <2>1. WorkerAside
    BY <1>0, <1>8, DoneAside DEF Reply, At
  <2> QED BY <1>8, <2>1, AsideKeeps DEF Reply, Aside
<1> QED BY <1>1, <1>2, <1>3, <1>4, <1>5, <1>6, <1>7, <1>8 DEF OnAccept
----------------------------------------------------------------------------
\* In the first state no address is in the table.
LEMMA InitIInv == Init => IInv
<1> SUFFICES ASSUME Init PROVE IInv
  OBVIOUS
<1>1. TypeOK
  BY InitType
<1>2. th["worker"].pc = "recvfrom" /\ \A i \in Slots : slot[i].addr = NoAddr
  BY DEF Init, Threads, Start
<1> QED BY <1>1, <1>2 DEF IInv, AddrKnown, NeverAdmitted, Registered, Distinct, NotAddedYet

\* The invariant is inductive.
LEMMA NextIInv == IInv /\ [Next]_vars => IInv'
<1> SUFFICES ASSUME IInv, [Next]_vars PROVE IInv'
  OBVIOUS
<1>0. TypeOK /\ AddrKnown
  BY DEF IInv
<1>1. CASE \E t \in Threads : OnDisconnect(t)
  <2>1. TypeOK' /\ Aside
    BY <1>0, <1>1, OnDisconnectType, OnDisconnectAside
  <2> QED BY <2>1, AsideKeeps DEF IInv
<1>2. CASE Datagram
  BY <1>0, <1>2, DatagramType, DatagramKeeps DEF IInv
<1>3. CASE OnAccept
  BY <1>0, <1>3, OnAcceptType, OnAcceptKeeps DEF IInv
<1>4. CASE OnKcp
  BY <1>0, <1>4, OnKcpType, OnKcpAside, AsideKeeps DEF IInv
<1>5. CASE Main
  BY <1>0, <1>5, MainType, MainAside, AsideKeeps DEF IInv
<1>6. CASE Tick
  BY <1>0, <1>6, TickType, TickAside, AsideKeeps DEF IInv
<1>7. CASE UNCHANGED vars
  BY <1>7 DEF vars, IInv, TypeOK, AddrKnown, NeverAdmitted, Registered, Distinct
<1> QED BY <1>1, <1>2, <1>3, <1>4, <1>5, <1>6, <1>7 DEF Next

\* The variables of the server keep their types in every behaviour.
THEOREM TypeCorrect == Spec => []TypeOK
<1>1. IInv => TypeOK
  BY DEF IInv
<1> QED BY <1>1, InitIInv, NextIInv, PTL DEF Spec

\* No client ever holds two slots: onAccept tests CheckConnectSet, and no key is
\* ever erased from it.
THEOREM NoSecondSlot == Spec => []OneSlotPerAddress
<1>1. IInv => OneSlotPerAddress
  BY DEF IInv, Distinct, OneSlotPerAddress
<1> QED BY <1>1, InitIInv, NextIInv, PTL DEF Spec

----------------------------------------------------------------------------
(* The sessions. *)

worker == th["worker"]
main == th["main"]
----------------------------------------------------------------------------
(* How the threads move. *)

\* Thread t goes to pc with its local variables as they are.
Moved(t, pc) ==
  /\ th'[t].pc = pc
  /\ th'[t].c = th[t].c /\ th'[t].id = th[t].id /\ th'[t].addr = th[t].addr
  /\ th'[t].k = th[t].k /\ th'[t].from = th[t].from /\ th'[t].then = th[t].then

\* Thread t alone moves.
Alone(t) == \A u \in Threads : u # t => th'[u] = th[u]

\* Thread t begins anew.
Resumed(t) == th'[t].pc = (IF t = "worker" THEN "recvfrom" ELSE "visit")

\* The effect of Goto.
LEMMA GotoEffect ==
  ASSUME ThreadsOK, NEW t \in Threads, NEW pc, Goto(t, pc)
  PROVE  Moved(t, pc) /\ Alone(t)
  BY DEF ThreadsOK, Goto, Local, Moved, Alone

\* The effect of Done.
LEMMA DoneEffect ==
  ASSUME ThreadsOK, NEW t \in Threads, Done(t)
  PROVE  Resumed(t) /\ Alone(t)
  BY DEF ThreadsOK, Done, Start, Resumed, Alone

\* The effect of Enter: the call begins on a session that is allocated, or the
\* program ends.
LEMMA EnterEffect ==
  ASSUME ThreadsOK, NEW t \in Threads, NEW pc, NEW kcp, Enter(t, pc, kcp)
  PROVE  /\ UNCHANGED <<slot, CheckConnectSet, live, owner, told>>
         /\ \/ UNCHANGED th
            \/ /\ kcp \in live
               /\ Alone(t)
               /\ th'[t].pc = pc /\ th'[t].k = kcp
               /\ th'[t].c = th[t].c /\ th'[t].addr = th[t].addr
               /\ th'[t].from = th[t].from /\ th'[t].then = th[t].then
  BY DEF ThreadsOK, Enter, Fail, Local, Alone

\* The effect of Leave.
LEMMA LeaveEffect ==
  ASSUME ThreadsOK, NEW t \in Threads, NEW pc, Leave(t, pc)
  PROVE  /\ UNCHANGED <<slot, CheckConnectSet, live, owner, told>>
         /\ UNCHANGED th \/ (Moved(t, pc) /\ Alone(t))
  BY GotoEffect DEF Leave
----------------------------------------------------------------------------
(* The effect of every action on the fields of the slots and of the threads. *)

\* A slot keeps all but its age.
Kept(i) ==
  /\ slot'[i].state = slot[i].state /\ slot'[i].ID = slot[i].ID
  /\ slot'[i].addr = slot[i].addr /\ slot'[i].kcp = slot[i].kcp
  /\ slot'[i].data = slot[i].data

\* All slots but those in S do.
KeptBut(S) == \A i \in Slots : i \notin S => Kept(i)

\* Thread t, which was at pc, takes the step.
Takes(t, pc) == th[t].pc = pc /\ Alone(t)

\* FindVictim
LEMMA FindVictimEffect ==
  ASSUME TypeOK, NEW t \in Threads, FindVictim(t)
  PROVE  /\ UNCHANGED <<slot, CheckConnectSet, live, owner, told>>
         /\ Takes(t, "disconnect")
         /\ Resumed(t) \/ (th'[t].pc = "testKcp" /\ th'[t].then = "reset")
<1>0. ThreadsOK
  BY DEF TypeOK, ThreadsOK
<1>1. UNCHANGED <<slot, CheckConnectSet, live, owner, told>> /\ th[t].pc = "disconnect"
  BY DEF FindVictim, DeleteCheckIsConnect, At
<1>2. CASE Done(t)
  BY <1>0, <1>1, <1>2, DoneEffect DEF Takes
<1>3. CASE th' = [th EXCEPT ![t].pc = "testKcp", ![t].c = th[t].id, ![t].then = "reset"]
  BY <1>0, <1>1, <1>3 DEF ThreadsOK, Local, Takes, Alone
<1> QED BY <1>2, <1>3 DEF FindVictim

\* TestKcp
LEMMA TestKcpEffect ==
  ASSUME TypeOK, NEW t \in Threads, TestKcp(t)
  PROVE  /\ UNCHANGED <<slot, CheckConnectSet, live, owner, told>>
         /\ Takes(t, "testKcp")
         /\ \/ Moved(t, th[t].then) /\ slot[th[t].c].kcp = Null
            \/ Moved(t, "release")
<1>0. ThreadsOK
  BY DEF TypeOK, ThreadsOK
<1> QED BY <1>0, GotoEffect DEF TestKcp, At, Takes

\* Release, which fails or frees the session.
LEMMA ReleaseEffect ==
  ASSUME TypeOK, NEW t \in Threads, Release(t)
  PROVE  /\ UNCHANGED <<slot, CheckConnectSet, owner, told>>
         /\ th[t].pc = "release"
         /\ \/ UNCHANGED <<th, live>>
            \/ /\ Alone(t) /\ Moved(t, "setNull")
               /\ slot[th[t].c].kcp \in live
               /\ live' = live \ {slot[th[t].c].kcp}
<1>0. ThreadsOK
  BY DEF TypeOK, ThreadsOK
<1>1. CASE Fail("assert") \/ Fail("undefined")
  BY <1>1 DEF Release, Fail, At
<1>2. CASE /\ slot[th[t].c].kcp \in live
           /\ live' = live \ {slot[th[t].c].kcp} /\ Goto(t, "setNull")
           /\ UNCHANGED <<slot, CheckConnectSet, owner, told, fault>>
  BY <1>0, <1>2, GotoEffect DEF Release, At
<1> QED BY <1>1, <1>2 DEF Release

\* SetNull
LEMMA SetNullEffect ==
  ASSUME TypeOK, NEW t \in Threads, SetNull(t)
  PROVE  /\ UNCHANGED <<CheckConnectSet, live, owner, told>>
         /\ Takes(t, "setNull") /\ Moved(t, th[t].then)
         /\ th[t].c \in Slots /\ KeptBut({th[t].c})
         /\ slot'[th[t].c] = [slot[th[t].c] EXCEPT !.kcp = Null]
<1>0. ThreadsOK /\ th[t].c \in Slots
  BY DEF TypeOK, ThreadsOK, Local
<1>1. Moved(t, th[t].then) /\ Takes(t, "setNull")
  BY <1>0, GotoEffect DEF SetNull, At, Takes
<1>2. UNCHANGED <<CheckConnectSet, live, owner, told>>
  BY DEF SetNull
<1> QED BY <1>0, <1>1, <1>2 DEF SetNull, TypeOK, KeptBut, Kept

\* Reset
LEMMA ResetEffect ==
  ASSUME TypeOK, NEW t \in Threads, Reset(t)
  PROVE  /\ UNCHANGED <<CheckConnectSet, live, owner, told>>
         /\ Takes(t, "reset") /\ Moved(t, "setFree")
         /\ th[t].c \in Slots /\ KeptBut({th[t].c})
         /\ slot'[th[t].c] = ResetSlot(slot[th[t].c], -1)
<1>0. ThreadsOK /\ th[t].c \in Slots
  BY DEF TypeOK, ThreadsOK, Local
<1>1. Moved(t, "setFree") /\ Takes(t, "reset")
  BY <1>0, GotoEffect DEF Reset, At, Takes
<1>2. UNCHANGED <<CheckConnectSet, live, owner, told>>
  BY DEF Reset
<1>3. \A i \in Slots :
        slot'[i] = IF i = th[t].c THEN ResetSlot(slot[th[t].c], -1) ELSE slot[i]
  BY <1>0 DEF Reset, TypeOK
<1> QED BY <1>0, <1>1, <1>2, <1>3 DEF KeptBut, Kept

\* SetFree
LEMMA SetFreeEffect ==
  ASSUME TypeOK, NEW t \in Threads, SetFree(t)
  PROVE  /\ UNCHANGED <<CheckConnectSet, live, owner, told>>
         /\ Takes(t, "setFree") /\ Resumed(t)
         /\ th[t].c \in Slots /\ KeptBut({th[t].c})
         /\ slot'[th[t].c] = [slot[th[t].c] EXCEPT !.state = "UFree"]
<1>0. ThreadsOK /\ th[t].c \in Slots
  BY DEF TypeOK, ThreadsOK, Local
<1>1. Resumed(t) /\ Takes(t, "setFree")
  BY <1>0, DoneEffect DEF SetFree, At, Takes
<1>2. UNCHANGED <<CheckConnectSet, live, owner, told>>
  BY DEF SetFree
<1> QED BY <1>0, <1>1, <1>2 DEF SetFree, TypeOK, KeptBut, Kept

\* A datagram arrives that begins onAccept or onDisconnect.
LEMMA RecvfromEffect ==
  ASSUME TypeOK, NEW pc, NEW a, NEW id, Recvfrom(pc, a, id)
  PROVE  /\ UNCHANGED <<slot, CheckConnectSet, live, owner, told>>
         /\ Takes("worker", "recvfrom")
         /\ th'["worker"].pc = pc /\ th'["worker"].addr = a
  BY DEF Recvfrom, At, Takes, Alone, TypeOK, Threads, Local

\* RecvHeart
LEMMA RecvHeartEffect ==
  ASSUME TypeOK, NEW a, NEW id, RecvHeart(a, id)
  PROVE  UNCHANGED <<CheckConnectSet, th, live, owner, told>> /\ KeptBut({})
  BY DEF RecvHeart, TypeOK, Slot, KeptBut, Kept

\* RecvKcp
LEMMA RecvKcpEffect ==
  ASSUME TypeOK, NEW a, NEW id, RecvKcp(a, id)
  PROVE  /\ UNCHANGED <<slot, CheckConnectSet, live, owner, told>>
         /\ Takes("worker", "recvfrom")
         /\ th'["worker"].pc = "input" /\ th'["worker"].addr = a /\ th'["worker"].c = id
         /\ slot[id].addr = a
  BY DEF RecvKcp, Matches, At, Takes, Alone, TypeOK, Threads, Local

\* Input and RecvMessage
LEMMA CallEffect ==
  ASSUME TypeOK, Input \/ RecvMessage
  PROVE  LET from == IF Input THEN "input" ELSE "recv"
             to == IF Input THEN "inputting" ELSE "recving"
             w == th["worker"]
             v == th'["worker"]
         IN  /\ UNCHANGED <<slot, CheckConnectSet, live, owner, told>>
             /\ w.pc = from
             /\ \/ UNCHANGED th
                \/ /\ slot[w.c].kcp \in live /\ Alone("worker")
                   /\ v.pc = to /\ v.k = slot[w.c].kcp
                   /\ v.c = w.c /\ v.addr = w.addr
<1>0. ThreadsOK /\ "worker" \in Threads
  BY DEF TypeOK, ThreadsOK, Threads
<1>1. CASE Input
  BY <1>0, <1>1, EnterEffect DEF Input, At
<1>2. CASE RecvMessage /\ ~ Input
  <2>1. CASE Fail("assert")
    BY <1>2, <2>1 DEF RecvMessage, Fail, At
  <2>2. CASE Enter("worker", "recving", slot[th["worker"].c].kcp)
    BY <1>0, <1>2, <2>2, EnterEffect DEF RecvMessage, At
  <2> QED BY <1>2, <2>1, <2>2 DEF RecvMessage
<1> QED BY <1>1, <1>2

\* Inputting
LEMMA InputtingEffect ==
  ASSUME TypeOK, Inputting
  PROVE  /\ UNCHANGED <<slot, CheckConnectSet, live, owner, told>>
         /\ th["worker"].pc = "inputting"
         /\ UNCHANGED th \/ (Alone("worker") /\ Moved("worker", "recv"))
<1>0. ThreadsOK /\ "worker" \in Threads
  BY DEF TypeOK, ThreadsOK, Threads
<1> QED BY <1>0, LeaveEffect DEF Inputting, At

\* SaveMessage
LEMMA SaveMessageEffect ==
  ASSUME TypeOK, SaveMessage
  PROVE  LET w == th["worker"]
         IN  /\ UNCHANGED <<CheckConnectSet, live, owner, told>>
             /\ Takes("worker", "recving") /\ Moved("worker", "recv")
             /\ w.c \in Slots /\ KeptBut({w.c})
             /\ slot'[w.c] = [slot[w.c] EXCEPT !.data = owner[w.k]]
<1>0. ThreadsOK /\ "worker" \in Threads /\ th["worker"].c \in Slots
  BY DEF TypeOK, ThreadsOK, Local, Threads
<1>1. Moved("worker", "recv") /\ Takes("worker", "recving")
  BY <1>0, GotoEffect DEF SaveMessage, At, Takes
<1>2. UNCHANGED <<CheckConnectSet, live, owner, told>>
  BY DEF SaveMessage
<1> QED BY <1>0, <1>1, <1>2 DEF SaveMessage, TypeOK, KeptBut, Kept

\* NoMessage
LEMMA NoMessageEffect ==
  ASSUME TypeOK, NoMessage
  PROVE  /\ UNCHANGED <<slot, CheckConnectSet, live, owner, told>>
         /\ th["worker"].pc = "recving"
         /\ UNCHANGED th \/ (Alone("worker") /\ Resumed("worker"))
<1>0. ThreadsOK /\ "worker" \in Threads
  BY DEF TypeOK, ThreadsOK, Threads
<1>1. UNCHANGED <<slot, CheckConnectSet, live, owner, told>> /\ th["worker"].pc = "recving"
  BY DEF NoMessage, At
<1>2. UNCHANGED th \/ (Alone("worker") /\ Resumed("worker"))
  BY <1>0, DoneEffect DEF NoMessage
<1> QED BY <1>1, <1>2

\* AlreadyConnected and NotConnected
LEMMA TestedEffect ==
  ASSUME TypeOK, AlreadyConnected \/ NotConnected
  PROVE  /\ UNCHANGED <<slot, CheckConnectSet, live, owner, told>>
         /\ Takes("worker", "accept")
         /\ Resumed("worker") \/ Moved("worker", "findFree")
<1>0. ThreadsOK /\ "worker" \in Threads
  BY DEF TypeOK, ThreadsOK, Threads
<1> QED BY <1>0, GotoEffect, DoneEffect DEF AlreadyConnected, NotConnected, At, Takes

\* FindFree
LEMMA FindFreeEffect ==
  ASSUME TypeOK, FindFree
  PROVE  /\ UNCHANGED <<CheckConnectSet, live, owner, told>>
         /\ Takes("worker", "findFree")
         /\ \/ Resumed("worker") /\ UNCHANGED slot
            \/ /\ th'["worker"].pc = "connect" /\ th'["worker"].addr = th["worker"].addr
               /\ th'["worker"].c \in Slots /\ KeptBut({th'["worker"].c})
               /\ slot[th'["worker"].c].state = "UFree"
               /\ slot'[th'["worker"].c] =
                    ResetSlot(slot[th'["worker"].c], th'["worker"].c)
<1>0. ThreadsOK /\ "worker" \in Threads
  BY DEF TypeOK, ThreadsOK, Threads
<1>1. UNCHANGED <<CheckConnectSet, live, owner, told>> /\ th["worker"].pc = "findFree"
  BY DEF FindFree, At
<1>2. CASE Done("worker") /\ UNCHANGED slot
  BY <1>0, <1>1, <1>2, DoneEffect DEF Takes
<1>3. CASE ~ (Done("worker") /\ UNCHANGED slot)
  <2>1. PICK i \in Slots :
          /\ slot[i].state = "UFree"
          /\ slot' = [slot EXCEPT ![i] = ResetSlot(@, i)]
          /\ th' = [th EXCEPT !["worker"].pc = "connect", !["worker"].c = i]
    BY <1>3 DEF FindFree
  <2>2. /\ th'["worker"].pc = "connect" /\ th'["worker"].addr = th["worker"].addr
        /\ th'["worker"].c = i /\ Alone("worker")
    BY <1>0, <2>1 DEF ThreadsOK, Local, Alone
  <2>3. \A j \in Slots : slot'[j] = IF j = i THEN ResetSlot(slot[i], i) ELSE slot[j]
    BY <2>1 DEF TypeOK
  <2> QED BY <1>1, <2>1, <2>2, <2>3 DEF KeptBut, Kept, Takes
<1> QED BY <1>2, <1>3

\* SetConnect
LEMMA SetConnectEffect ==
  ASSUME TypeOK, SetConnect
  PROVE  LET w == th["worker"]
         IN  /\ UNCHANGED <<CheckConnectSet, live, owner, told>>
             /\ Takes("worker", "connect") /\ Moved("worker", "setAddr")
             /\ w.c \in Slots /\ KeptBut({w.c})
             /\ slot'[w.c] = [slot[w.c] EXCEPT !.state = "UConnect"]
<1>0. ThreadsOK /\ "worker" \in Threads /\ th["worker"].c \in Slots
  BY DEF TypeOK, ThreadsOK, Local, Threads
<1>1. Moved("worker", "setAddr") /\ Takes("worker", "connect")
  BY <1>0, GotoEffect DEF SetConnect, At, Takes
<1>2. UNCHANGED <<CheckConnectSet, live, owner, told>>
  BY DEF SetConnect
<1> QED BY <1>0, <1>1, <1>2 DEF SetConnect, TypeOK, KeptBut, Kept

\* SetAddr
LEMMA SetAddrEffect ==
  ASSUME TypeOK, SetAddr
  PROVE  LET w == th["worker"]
         IN  /\ UNCHANGED <<CheckConnectSet, live, owner, told>>
             /\ Takes("worker", "setAddr") /\ Moved("worker", "addCheck")
             /\ w.c \in Slots /\ KeptBut({w.c})
             /\ slot'[w.c] = [slot[w.c] EXCEPT !.addr = w.addr, !.age = 0]
<1>0. ThreadsOK /\ "worker" \in Threads /\ th["worker"].c \in Slots
  BY DEF TypeOK, ThreadsOK, Local, Threads
<1>1. Moved("worker", "addCheck") /\ Takes("worker", "setAddr")
  BY <1>0, GotoEffect DEF SetAddr, At, Takes
<1>2. UNCHANGED <<CheckConnectSet, live, owner, told>>
  BY DEF SetAddr
<1> QED BY <1>0, <1>1, <1>2 DEF SetAddr, TypeOK, KeptBut, Kept

\* AddCheck
LEMMA AddCheckEffect ==
  ASSUME TypeOK, AddCheck
  PROVE  LET w == th["worker"]
             v == th'["worker"]
         IN  /\ UNCHANGED <<slot, live, owner, told>>
             /\ CheckConnectSet' = CheckConnectSet \cup {Key[w.addr]}
             /\ Takes("worker", "addCheck")
             /\ v.pc = "testKcp" /\ v.then = "create" /\ v.c = w.c /\ v.addr = w.addr
  BY DEF AddCheck, At, Takes, Alone, TypeOK, Threads, Local

\* CreateKcp
LEMMA CreateKcpEffect ==
  ASSUME TypeOK, CreateKcp
  PROVE  LET w == th["worker"]
         IN  /\ UNCHANGED <<CheckConnectSet, told>>
             /\ Takes("worker", "create") /\ Moved("worker", "reply")
             /\ w.c \in Slots /\ KeptBut({w.c})
             /\ \E s \in Sessions :
                  /\ owner[s] = NoAddr
                  /\ live' = live \cup {s}
                  /\ owner' = [owner EXCEPT ![s] = w.addr]
                  /\ slot'[w.c] = [slot[w.c] EXCEPT !.kcp = s]
<1>0. ThreadsOK /\ "worker" \in Threads /\ th["worker"].c \in Slots
  BY DEF TypeOK, ThreadsOK, Local, Threads
<1>1. PICK s \in Sessions :
        /\ \A r \in Sessions : owner[r] = NoAddr <=> r >= s
        /\ live' = live \cup {s}
        /\ owner' = [owner EXCEPT ![s] = th["worker"].addr]
        /\ slot' = [slot EXCEPT ![th["worker"].c].kcp = s]
  BY DEF CreateKcp
<1>2. s >= s
  BY UdpServerAssumption DEF Sessions
<1>3. owner[s] = NoAddr
  BY <1>1, <1>2
<1>4. Moved("worker", "reply") /\ Takes("worker", "create")
  BY <1>0, GotoEffect DEF CreateKcp, At, Takes
<1>5. /\ KeptBut({th["worker"].c})
      /\ slot'[th["worker"].c] = [slot[th["worker"].c] EXCEPT !.kcp = s]
  BY <1>0, <1>1 DEF TypeOK, KeptBut, Kept
<1>6. UNCHANGED <<CheckConnectSet, told>>
  BY DEF CreateKcp
<1> QED BY <1>0, <1>1, <1>3, <1>4, <1>5, <1>6

\* Reply
LEMMA ReplyEffect ==
  ASSUME TypeOK, Reply
  PROVE  LET s == slot[th["worker"].c]
         IN  /\ UNCHANGED <<slot, CheckConnectSet, live, owner>>
             /\ Takes("worker", "reply") /\ Resumed("worker")
             /\ \/ UNCHANGED told
                \/ s.addr # NoAddr /\ told' = [told EXCEPT ![s.addr] = @ \cup {s.ID}]
<1>0. ThreadsOK /\ "worker" \in Threads
  BY DEF TypeOK, ThreadsOK, Threads
<1> QED BY <1>0, DoneEffect DEF Reply, Reachable, At, Takes

\* Visit
LEMMA VisitEffect ==
  ASSUME TypeOK, Visit
  PROVE  /\ UNCHANGED <<slot, CheckConnectSet, live, owner, told>>
         /\ Takes("main", "visit")
         /\ \/ Resumed("main")
            \/ th'["main"].pc = "disconnect"
            \/ Moved("main", "update") /\ slot[th["main"].c].state = "UConnect"
<1>0. ThreadsOK /\ "main" \in Threads /\ slot[th["main"].c].state \in {"UFree", "UConnect"}
  BY DEF TypeOK, ThreadsOK, Threads, Local, Slot
<1>1. UNCHANGED <<slot, CheckConnectSet, live, owner, told>> /\ th["main"].pc = "visit"
  BY DEF Visit, At
<1>2. CASE Done("main")
  BY <1>0, <1>1, <1>2, DoneEffect DEF Takes
<1>3. CASE th' = [th EXCEPT !["main"].pc = "disconnect",
                            !["main"].id = slot[th["main"].c].ID]
  BY <1>0, <1>1, <1>3 DEF ThreadsOK, Local, Takes, Alone
<1>4. CASE Goto("main", "update") /\ ~ Done("main")
  <2>1. slot[th["main"].c].state # "UFree"
    BY <1>4 DEF Visit, Goto
  <2> QED BY <1>0, <1>1, <1>4, <2>1, GotoEffect DEF Takes
<1> QED BY <1>2, <1>3, <1>4, VisitCases

\* UpdateKcp and Send
LEMMA MainCallEffect ==
  ASSUME TypeOK, UpdateKcp \/ Send
  PROVE  LET from == IF UpdateKcp THEN "update" ELSE "send"
             to == IF UpdateKcp THEN "updating" ELSE "sending"
             m == th["main"]
             n == th'["main"]
         IN  /\ UNCHANGED <<slot, CheckConnectSet, live, owner, told>>
             /\ m.pc = from
             /\ \/ UNCHANGED th
                \/ from = "update" /\ Alone("main") /\ Moved("main", "parse")
                \/ /\ slot[m.c].kcp \in live /\ Alone("main")
                   /\ n.pc = to /\ n.k = slot[m.c].kcp
                   /\ n.c = m.c /\ n.from = m.from
<1>0. ThreadsOK /\ "main" \in Threads
  BY DEF TypeOK, ThreadsOK, Threads
<1>1. CASE UpdateKcp
  <2>1. CASE Goto("main", "parse") /\ UNCHANGED <<slot, CheckConnectSet, live, owner, told, fault>>
    BY <1>0, <1>1, <2>1, GotoEffect DEF UpdateKcp, At
  <2>2. CASE Enter("main", "updating", slot[th["main"].c].kcp)
    BY <1>0, <1>1, <2>2, EnterEffect DEF UpdateKcp, At
  <2> QED BY <1>1, <2>1, <2>2 DEF UpdateKcp
<1>2. CASE Send /\ ~ UpdateKcp
  BY <1>0, <1>2, EnterEffect DEF Send, At
<1> QED BY <1>1, <1>2

\* Updating
LEMMA UpdatingEffect ==
  ASSUME TypeOK, Updating
  PROVE  /\ UNCHANGED <<slot, CheckConnectSet, live, owner, told>>
         /\ th["main"].pc = "updating"
         /\ UNCHANGED th \/ (Alone("main") /\ Moved("main", "parse"))
<1>0. ThreadsOK /\ "main" \in Threads
  BY DEF TypeOK, ThreadsOK, Threads
<1> QED BY <1>0, LeaveEffect DEF Updating, At

\* Parse
LEMMA ParseEffect ==
  ASSUME TypeOK, Parse
  PROVE  LET m == th["main"]
             n == th'["main"]
         IN  /\ UNCHANGED <<CheckConnectSet, live, owner, told>>
             /\ Takes("main", "parse")
             /\ \/ Resumed("main") /\ UNCHANGED slot
                \/ /\ slot[m.c].data # NoAddr
                   /\ n.pc = "KcpSend" /\ n.from = slot[m.c].data /\ n.c = m.c
                   /\ m.c \in Slots /\ KeptBut({m.c})
                   /\ slot'[m.c] = [slot[m.c] EXCEPT !.data = NoAddr]
<1>0. ThreadsOK /\ "main" \in Threads /\ th["main"].c \in Slots
  BY DEF TypeOK, ThreadsOK, Threads, Local
<1>1. UNCHANGED <<CheckConnectSet, live, owner, told>> /\ th["main"].pc = "parse"
  BY DEF Parse, At
<1>2. CASE Done("main") /\ UNCHANGED slot
  BY <1>0, <1>1, <1>2, DoneEffect DEF Takes
<1>3. CASE /\ slot[th["main"].c].data # NoAddr
           /\ th' = [th EXCEPT !["main"].pc = "KcpSend",
                               !["main"].from = slot[th["main"].c].data]
           /\ slot' = [slot EXCEPT ![th["main"].c].data = NoAddr]
  <2>1. /\ th'["main"].pc = "KcpSend" /\ th'["main"].from = slot[th["main"].c].data
        /\ th'["main"].c = th["main"].c /\ Alone("main")
    BY <1>0, <1>3 DEF ThreadsOK, Local, Alone
  <2>2. /\ KeptBut({th["main"].c})
        /\ slot'[th["main"].c] = [slot[th["main"].c] EXCEPT !.data = NoAddr]
    BY <1>0, <1>3 DEF TypeOK, KeptBut, Kept
  <2> QED BY <1>0, <1>1, <1>3, <2>1, <2>2 DEF Takes
<1> QED BY <1>2, <1>3 DEF Parse

\* KcpSend
LEMMA KcpSendEffect ==
  ASSUME TypeOK, KcpSend
  PROVE  /\ UNCHANGED <<slot, CheckConnectSet, live, owner, told>>
         /\ Takes("main", "KcpSend")
         /\ Resumed("main") \/ Moved("main", "send")
<1>0. ThreadsOK /\ "main" \in Threads
  BY DEF TypeOK, ThreadsOK, Threads
<1> QED BY <1>0, GotoEffect, DoneEffect DEF KcpSend, At, Takes

\* Sending
LEMMA SendingEffect ==
  ASSUME TypeOK, Sending
  PROVE  /\ UNCHANGED <<slot, CheckConnectSet, live, owner, told>>
         /\ th["main"].pc = "sending"
         /\ UNCHANGED th \/ (Alone("main") /\ Resumed("main"))
<1>0. ThreadsOK /\ "main" \in Threads
  BY DEF TypeOK, ThreadsOK, Threads
<1>1. UNCHANGED <<slot, CheckConnectSet, live, owner, told>> /\ th["main"].pc = "sending"
  BY DEF Sending, At
<1>2. UNCHANGED th \/ (Alone("main") /\ Resumed("main"))
  BY <1>0, DoneEffect DEF Sending
<1> QED BY <1>1, <1>2

\* Tick
LEMMA TickEffect ==
  ASSUME TypeOK, Tick
  PROVE  UNCHANGED <<CheckConnectSet, th, live, owner, told>> /\ KeptBut({})
  BY DEF Tick, TypeOK, Slot, KeptBut, Kept

----------------------------------------------------------------------------
(* The sessions and the slots that point to them.  releaseKcp frees the      *)
(* session first and clears the pointer afterwards, in either thread.        *)

\* A slot points to sessions that were created, and two slots never to the same.
Owned == \A i \in Slots : slot[i].kcp \in Sessions => owner[slot[i].kcp] # NoAddr

OneHolder ==
  \A i, j \in Slots : i # j /\ slot[i].kcp \in Sessions => slot[j].kcp # slot[i].kcp

\* A session that is allocated is pointed to.
Held == \A s \in live : \E i \in Slots : slot[i].kcp = s

\* Where a thread is about to clear the pointer, it points to a freed session.
Dangling(t) == th[t].pc = "setNull" => slot[th[t].c].kcp \in Sessions \ live

Released == Dangling("worker") /\ Dangling("main")

\* Both threads never clear the pointer of the same slot.
ReleasedOnce == ~ (worker.pc = "setNull" /\ main.pc = "setNull" /\ worker.c = main.c)

\* createKcp overwrites no pointer.
Cleared == worker.pc = "create" => slot[worker.c].kcp = Null

KcpInv == Owned /\ OneHolder /\ Held /\ Released /\ ReleasedOnce /\ Cleared

\* A step that moves no pointer, and takes no thread to where it is cleared or set,
\* unless it is null already.
KcpKept ==
  /\ UNCHANGED <<live, owner>>
  /\ \A i \in Slots : slot'[i].kcp = slot[i].kcp
  /\ \A t \in Threads :
       \/ th'[t].pc = th[t].pc /\ th'[t].c = th[t].c
       \/ th'[t].pc \notin {"setNull", "create"}
       \/ th'[t].pc = "create" /\ th'[t].c \in Slots /\ slot[th'[t].c].kcp = Null

\* Such a step keeps the invariant.
LEMMA KcpKeptKeeps ==
  ASSUME TypeOK, TypeOK', KcpInv, KcpKept
  PROVE  KcpInv'
<1>0. /\ worker.c \in Slots /\ main.c \in Slots /\ worker'.c \in Slots /\ main'.c \in Slots
      /\ "worker" \in Threads /\ "main" \in Threads
  BY DEF TypeOK, Threads, Local, worker, main
<1>1. Owned' /\ OneHolder' /\ Held'
  BY DEF KcpInv, KcpKept, Owned, OneHolder, Held
<1>2. Released' /\ ReleasedOnce' /\ Cleared'
  BY <1>0 DEF KcpInv, KcpKept, Released, Dangling, ReleasedOnce, Cleared, worker, main
<1> QED BY <1>1, <1>2 DEF KcpInv

\* A session is freed.
LEMMA ReleaseKeeps ==
  ASSUME TypeOK, TypeOK', KcpInv, NEW t \in Threads, Release(t)
  PROVE  KcpInv'
<1> DEFINE kcp == slot[th[t].c].kcp
<1>0. UNCHANGED <<slot, owner>> /\ th[t].pc = "release" /\ th[t].c \in Slots
  BY ReleaseEffect DEF TypeOK, Local
<1>1. CASE UNCHANGED <<th, live>>
  BY <1>0, <1>1, KcpKeptKeeps DEF KcpKept
<1>2. CASE Alone(t) /\ Moved(t, "setNull") /\ kcp \in live /\ live' = live \ {kcp}
  <2>1. kcp \in Sessions
    BY <1>2 DEF TypeOK
  <2>2. Owned' /\ OneHolder' /\ Held'
    BY <1>0, <1>2 DEF KcpInv, Owned, OneHolder, Held
  <2>3. Released' /\ ReleasedOnce' /\ Cleared'
    BY <1>0, <1>2, <2>1
    DEF KcpInv, Threads, Released, Dangling, ReleasedOnce, Cleared, Moved, Alone, worker, main
  <2> QED BY <2>2, <2>3 DEF KcpInv
<1> QED BY <1>1, <1>2, ReleaseEffect

\* A pointer is cleared.
LEMMA SetNullKeeps ==
  ASSUME TypeOK, TypeOK', KcpInv, NEW t \in Threads, SetNull(t)
  PROVE  KcpInv'
<1>0. /\ UNCHANGED <<live, owner>>
      /\ th[t].pc = "setNull" /\ Moved(t, th[t].then) /\ Alone(t)
      /\ th[t].c \in Slots /\ th[t].then \in {"create", "reset"}
  BY SetNullEffect DEF TypeOK, Local, Takes
<1>1. \A i \in Slots : slot'[i].kcp = IF i = th[t].c THEN Null ELSE slot[i].kcp
  <2>1. KeptBut({th[t].c}) /\ slot'[th[t].c] = [slot[th[t].c] EXCEPT !.kcp = Null]
    BY SetNullEffect
  <2>2. slot'[th[t].c].kcp = Null
    BY <1>0, <2>1 DEF TypeOK, Slot
  <2> QED BY <2>1, <2>2 DEF KeptBut, Kept
<1>2. Null \notin Sessions
  BY UdpServerAssumption DEF Null, Sessions
<1>3. slot[th[t].c].kcp \notin live
  BY <1>0 DEF KcpInv, Released, Dangling, Threads
<1>4. Owned' /\ OneHolder' /\ Held'
  BY <1>0, <1>1, <1>2, <1>3 DEF KcpInv, Owned, OneHolder, Held
<1>5. \A u \in Threads : u # t /\ th[u].pc = "setNull" => th[u].c # th[t].c
  BY <1>0 DEF KcpInv, ReleasedOnce, Threads, worker, main
<1>6. worker.c \in Slots /\ main.c \in Slots
  BY DEF TypeOK, Threads, Local, worker, main
<1>7. Released' /\ ReleasedOnce' /\ Cleared'
  BY <1>0, <1>1, <1>5, <1>6
  DEF KcpInv, Threads, Released, Dangling, ReleasedOnce, Cleared, Moved, Alone, worker, main
<1> QED BY <1>4, <1>7 DEF KcpInv

\* A session is created.
LEMMA CreateKcpKeeps ==
  ASSUME TypeOK, TypeOK', KcpInv, worker.addr # NoAddr, CreateKcp
  PROVE  KcpInv'
<1>0. /\ worker.c \in Slots /\ main.c \in Slots /\ worker.pc = "create"
      /\ Moved("worker", "reply") /\ Alone("worker")
  BY CreateKcpEffect DEF TypeOK, Threads, Local, Takes, worker, main
<1>1. PICK s \in Sessions :
        /\ owner[s] = NoAddr
        /\ live' = live \cup {s}
        /\ owner' = [owner EXCEPT ![s] = worker.addr]
        /\ slot'[worker.c] = [slot[worker.c] EXCEPT !.kcp = s]
  BY CreateKcpEffect DEF worker
<1>2. slot[worker.c].kcp = Null
  BY <1>0 DEF KcpInv, Cleared
<1>3. \A i \in Slots : slot'[i].kcp = IF i = worker.c THEN s ELSE slot[i].kcp
  BY <1>0, <1>1, CreateKcpEffect DEF TypeOK, Slot, KeptBut, Kept, worker
<1>4. \A r \in Sessions : owner'[r] = IF r = s THEN worker.addr ELSE owner[r]
  BY <1>1 DEF TypeOK
<1>5. \A i \in Slots : slot[i].kcp # s
  BY <1>1 DEF KcpInv, Owned
<1>6. Null \notin Sessions /\ Null \notin live
  BY UdpServerAssumption DEF TypeOK, Null, Sessions
<1>7. Owned' /\ OneHolder'
  BY <1>0, <1>3, <1>4, <1>5 DEF KcpInv, Owned, OneHolder
<1>8. Held'
  BY <1>0, <1>1, <1>2, <1>3, <1>6 DEF KcpInv, Held
<1>9. Released' /\ ReleasedOnce' /\ Cleared'
  BY <1>0, <1>1, <1>2, <1>3, <1>5, <1>6
  DEF KcpInv, Threads, Released, Dangling, ReleasedOnce, Cleared, Moved, Alone, worker, main
<1> QED BY <1>7, <1>8, <1>9 DEF KcpInv

\* The steps in which a thread neither frees nor creates a session, nor moves a
\* pointer.
LEMMA DisconnectKcpKept ==
  ASSUME TypeOK, NEW t \in Threads, FindVictim(t) \/ TestKcp(t) \/ Reset(t) \/ SetFree(t)
  PROVE  KcpKept
<1>0. th[t].c \in Slots /\ th[t].then \in {"create", "reset"}
  BY DEF TypeOK, Local
<1>1. CASE FindVictim(t)
  BY <1>1, FindVictimEffect DEF Threads, KcpKept, Resumed, Alone, Takes
<1>2. CASE TestKcp(t)
  BY <1>0, <1>2, TestKcpEffect DEF Threads, KcpKept, Moved, Alone, Takes
<1>3. CASE Reset(t)
  <2>1. slot'[th[t].c].kcp = slot[th[t].c].kcp
    BY <1>0, <1>3, ResetEffect DEF TypeOK, Slot, ResetSlot
  <2> QED BY <1>0, <1>3, <2>1, ResetEffect DEF Threads, KcpKept, KeptBut, Kept, Moved, Alone, Takes
<1>4. CASE SetFree(t)
  <2>1. slot'[th[t].c].kcp = slot[th[t].c].kcp
    BY <1>0, <1>4, SetFreeEffect DEF TypeOK, Slot
  <2> QED
    BY <1>0, <1>4, <2>1, SetFreeEffect DEF Threads, KcpKept, KeptBut, Kept, Resumed, Alone, Takes
<1> QED BY <1>1, <1>2, <1>3, <1>4

\* The worker's steps before and after createKcp.
LEMMA WorkerKcpKept ==
  ASSUME TypeOK, Datagram \/ OnKcp \/ (OnAccept /\ ~ CreateKcp)
  PROVE  KcpKept
<1>0. worker.c \in Slots /\ "worker" \in Threads
  BY DEF TypeOK, Local, Threads, worker
<1>1. CASE Datagram
  <2>1. CASE \E a \in Addrs, id \in Slots : RecvHeart(a, id)
    BY <2>1, RecvHeartEffect DEF KcpKept, KeptBut, Kept
  <2>2. CASE \E a \in Addrs, id \in Slots : RecvKcp(a, id)
    BY <2>2, RecvKcpEffect DEF Threads, KcpKept, Alone, Takes
  <2>3. CASE \E a \in Addrs, id \in {-1} \cup Slots, pc \in {"accept", "disconnect"} :
               Recvfrom(pc, a, id)
    BY <2>3, RecvfromEffect DEF Threads, KcpKept, Alone, Takes
  <2> QED BY <1>1, <2>1, <2>2, <2>3 DEF Datagram, RecvAccept, RecvDisconnect, TypeOK
<1>2. CASE Input \/ RecvMessage
  BY <1>2, CallEffect DEF Threads, KcpKept, Alone
<1>3. CASE Inputting
  BY <1>3, InputtingEffect DEF Threads, KcpKept, Alone, Moved
<1>4. CASE SaveMessage
  <2>1. slot'[worker.c].kcp = slot[worker.c].kcp
    BY <1>0, <1>4, SaveMessageEffect DEF TypeOK, Slot, worker
  <2> QED BY <1>0, <1>4, <2>1, SaveMessageEffect
          DEF Threads, KcpKept, KeptBut, Kept, Moved, Alone, Takes, worker
<1>5. CASE NoMessage
  BY <1>5, NoMessageEffect DEF Threads, KcpKept, Alone, Resumed
<1>6. CASE AlreadyConnected \/ NotConnected
  BY <1>6, TestedEffect DEF Threads, KcpKept, Alone, Resumed, Moved, Takes
<1>7. CASE FindFree
  <2>1. CASE Resumed("worker") /\ UNCHANGED slot
    BY <1>7, <2>1, FindFreeEffect DEF Threads, KcpKept, Alone, Resumed, Takes
  <2>2. CASE ~ (Resumed("worker") /\ UNCHANGED slot)
    <3> DEFINE c == worker'.c
    <3>1. /\ worker'.pc = "connect" /\ c \in Slots /\ KeptBut({c})
          /\ slot'[c] = ResetSlot(slot[c], c)
          /\ Alone("worker") /\ UNCHANGED <<live, owner>>
      BY <1>7, <2>2, FindFreeEffect DEF Takes, worker
    <3>2. slot'[c].kcp = slot[c].kcp
      BY <3>1 DEF TypeOK, Slot, ResetSlot
    <3> QED BY <3>1, <3>2 DEF Threads, KcpKept, KeptBut, Kept, Alone, worker
  <2> QED BY <2>1, <2>2
<1>8. CASE SetConnect \/ SetAddr
  <2>1. slot'[worker.c].kcp = slot[worker.c].kcp
    BY ZenonT(40), <1>0, <1>8, SetConnectEffect, SetAddrEffect DEF TypeOK, Slot, worker
  <2> QED BY <1>0, <1>8, <2>1, SetConnectEffect, SetAddrEffect
          DEF Threads, KcpKept, KeptBut, Kept, Moved, Alone, Takes, worker
<1>9. CASE AddCheck
  BY <1>9, AddCheckEffect DEF Threads, KcpKept, Alone, Takes
<1>10. CASE Reply
  BY <1>10, ReplyEffect DEF Threads, KcpKept, Alone, Takes, Resumed
<1> QED BY <1>1, <1>2, <1>3, <1>4, <1>5, <1>6, <1>7, <1>8, <1>9, <1>10 DEF OnKcp, OnAccept

\* parseCommand and the clock.
LEMMA MainKcpKept ==
  ASSUME TypeOK, Main \/ Tick
  PROVE  KcpKept
<1>0. main.c \in Slots /\ "main" \in Threads
  BY DEF TypeOK, Local, Threads, main
<1>1. CASE Visit
  BY <1>1, VisitEffect DEF Threads, KcpKept, Alone, Takes, Resumed, Moved
<1>2. CASE UpdateKcp \/ Send
  BY <1>2, MainCallEffect DEF Threads, KcpKept, Alone, Moved
<1>3. CASE Updating
  BY <1>3, UpdatingEffect DEF Threads, KcpKept, Alone, Moved
<1>4. CASE Parse
  <2>1. \A i \in Slots : slot'[i].kcp = slot[i].kcp
    BY <1>0, <1>4, ParseEffect DEF TypeOK, Slot, KeptBut, Kept
  <2> QED BY <1>4, <2>1, ParseEffect DEF Threads, KcpKept, Alone, Takes, Resumed
<1>5. CASE KcpSend
  BY <1>5, KcpSendEffect DEF Threads, KcpKept, Alone, Takes, Resumed, Moved
<1>6. CASE Sending
  BY <1>6, SendingEffect DEF Threads, KcpKept, Alone, Resumed
<1>7. CASE Tick
  BY <1>7, TickEffect DEF KcpKept, KeptBut, Kept
<1> QED BY <1>1, <1>2, <1>3, <1>4, <1>5, <1>6, <1>7 DEF Main
----------------------------------------------------------------------------
(* The client of a slot and the client its session was created for.          *)

\* The worker is between setting the address of a slot and creating its session.
Creating ==
  \/ worker.pc \in {"addCheck", "create"}
  \/ worker.pc \in {"testKcp", "release", "setNull"} /\ worker.then = "create"

\* The worker handles a KCP datagram.
Serving == worker.pc \in {"input", "inputting", "recv", "recving"}

Calling == worker.pc \in {"inputting", "recving"}

\* onAccept works for a client, whose slot keeps the address until it is reset.
AddrGiven ==
  Creating \/ worker.pc = "reply" =>
    worker.addr \in Addrs /\ slot[worker.c].addr \in {NoAddr, worker.addr}

\* The session of a slot was created for the client of the slot, unless it is
\* about to be replaced.
OwnKcp ==
  \A i \in Slots :
    slot[i].addr # NoAddr /\ slot[i].kcp \in Sessions /\ ~ (Creating /\ worker.c = i) =>
      owner[slot[i].kcp] = slot[i].addr

\* While a datagram is handled nobody creates a session in its slot.
ServesOwn ==
  Serving => /\ worker.addr \in Addrs
             /\ slot[worker.c].kcp \in Sessions => owner[slot[worker.c].kcp] = worker.addr

CallsOwn == Calling => owner[worker.k] = worker.addr

OwnInv == AddrGiven /\ OwnKcp /\ ServesOwn /\ CallsOwn

\* A step that gives no slot a session or an address, and leaves the worker in the
\* part of its program where it was, or in none of those the invariant is about.
OwnKept ==
  /\ UNCHANGED owner
  /\ \A i \in Slots : /\ slot'[i].kcp \in {slot[i].kcp, Null}
                      /\ slot'[i].addr \in {slot[i].addr, NoAddr}
  /\ \/ worker' = worker
     \/ /\ worker'.c = worker.c /\ worker'.addr = worker.addr
        /\ Creating' = Creating /\ ~ Calling'
        /\ Serving' => Serving
        /\ worker'.pc # "reply"
     \/ ~ Creating /\ ~ Creating' /\ ~ Serving' /\ ~ Calling' /\ worker'.pc # "reply"

\* Such a step keeps the invariant.
LEMMA OwnKeptKeeps ==
  ASSUME TypeOK, TypeOK', OwnInv, OwnKept
  PROVE  OwnInv'
<1>0. worker.c \in Slots /\ worker'.c \in Slots /\ Null \notin Sessions
  BY UdpServerAssumption DEF TypeOK, Threads, Local, Null, Sessions, worker
<1>1. CASE worker' = worker
  <2>1. Creating' = Creating /\ Serving' = Serving /\ Calling' = Calling
    BY <1>1 DEF Creating, Serving, Calling
  <2> QED BY <1>0, <1>1, <2>1 DEF OwnInv, OwnKept, AddrGiven, OwnKcp, ServesOwn, CallsOwn
<1>2. CASE /\ worker'.c = worker.c /\ worker'.addr = worker.addr
           /\ Creating' = Creating /\ ~ Calling'
           /\ Serving' => Serving
           /\ worker'.pc # "reply"
  BY <1>0, <1>2 DEF OwnInv, OwnKept, AddrGiven, OwnKcp, ServesOwn, CallsOwn
<1>3. CASE ~ Creating /\ ~ Creating' /\ ~ Serving' /\ ~ Calling' /\ worker'.pc # "reply"
  BY <1>0, <1>3 DEF OwnInv, OwnKept, AddrGiven, OwnKcp, ServesOwn, CallsOwn
<1> QED BY <1>1, <1>2, <1>3 DEF OwnKept

\* A KCP datagram of the client of a slot.
LEMMA RecvKcpOwn ==
  ASSUME TypeOK, TypeOK', OwnInv, NEW a \in Addrs, NEW id \in Slots, RecvKcp(a, id)
  PROVE  OwnInv'
<1>1. /\ UNCHANGED <<slot, owner>> /\ worker.pc = "recvfrom"
      /\ worker'.pc = "input" /\ worker'.addr = a /\ worker'.c = id
      /\ slot[id].addr = a /\ a # NoAddr
  BY RecvKcpEffect, UdpServerAssumption DEF Takes, worker
<1>2. ~ Creating /\ ~ Creating' /\ Serving' /\ ~ Calling'
  BY <1>1 DEF Creating, Serving, Calling
<1> QED BY <1>1, <1>2 DEF OwnInv, AddrGiven, OwnKcp, ServesOwn, CallsOwn

\* ikcp_input and ikcp_recv work on the session of the slot.
LEMMA CallOwn ==
  ASSUME TypeOK, TypeOK', OwnInv, Input \/ RecvMessage
  PROVE  OwnInv'
<1>1. /\ UNCHANGED <<slot, live, owner>> /\ worker.pc \in {"input", "recv"}
      /\ \/ UNCHANGED th
         \/ /\ slot[worker.c].kcp \in live
            /\ worker'.pc \in {"inputting", "recving"} /\ worker'.k = slot[worker.c].kcp
            /\ worker'.c = worker.c /\ worker'.addr = worker.addr
  BY CallEffect DEF worker
<1>2. CASE UNCHANGED th
  BY <1>1, <1>2, OwnKeptKeeps DEF OwnKept, worker
<1>3. CASE ~ UNCHANGED th
  <2>1. ~ Creating /\ ~ Creating' /\ Serving /\ Serving' /\ Calling'
    BY <1>1, <1>3 DEF Creating, Serving, Calling
  <2>2. slot[worker.c].kcp \in Sessions
    BY <1>1, <1>3 DEF TypeOK
  <2>3. worker'.pc # "reply"
    BY <1>1, <1>3
  <2> QED BY <1>1, <1>3, <2>1, <2>2, <2>3 DEF OwnInv, AddrGiven, OwnKcp, ServesOwn, CallsOwn
<1> QED BY <1>2, <1>3

\* The address of the client that is admitted.
LEMMA SetAddrOwn ==
  ASSUME TypeOK, TypeOK', OwnInv, AddrKnown, SetAddr
  PROVE  OwnInv'
<1>1. /\ UNCHANGED owner /\ worker.pc = "setAddr" /\ worker'.pc = "addCheck"
      /\ worker'.addr = worker.addr /\ worker'.c = worker.c /\ worker.c \in Slots
      /\ KeptBut({worker.c})
      /\ slot'[worker.c] = [slot[worker.c] EXCEPT !.addr = worker.addr, !.age = 0]
  BY SetAddrEffect DEF Takes, Moved, worker
<1>2. slot'[worker.c].addr = worker.addr /\ worker.addr \in Addrs
  BY <1>1 DEF TypeOK, Slot, AddrKnown, NotAddedYet, worker
<1>3. ~ Creating /\ Creating' /\ ~ Serving' /\ ~ Calling'
  BY <1>1 DEF Creating, Serving, Calling
<1> QED BY <1>1, <1>2, <1>3 DEF OwnInv, AddrGiven, OwnKcp, ServesOwn, CallsOwn, KeptBut, Kept

\* The new session is the one of the client of the slot.
LEMMA CreateKcpOwn ==
  ASSUME TypeOK, TypeOK', KcpInv, OwnInv, CreateKcp
  PROVE  OwnInv'
<1>1. /\ worker.pc = "create" /\ worker'.pc = "reply" /\ worker.c \in Slots
      /\ worker'.addr = worker.addr /\ worker'.c = worker.c
      /\ KeptBut({worker.c})
  BY CreateKcpEffect DEF Takes, Moved, worker
<1>2. PICK s \in Sessions :
        /\ owner[s] = NoAddr
        /\ owner' = [owner EXCEPT ![s] = worker.addr]
        /\ slot'[worker.c] = [slot[worker.c] EXCEPT !.kcp = s]
  BY CreateKcpEffect DEF worker
<1>3. /\ slot'[worker.c].kcp = s /\ slot'[worker.c].addr = slot[worker.c].addr
      /\ \A r \in Sessions : owner'[r] = IF r = s THEN worker.addr ELSE owner[r]
  BY <1>1, <1>2 DEF TypeOK, Slot
<1>4. Creating /\ ~ Creating' /\ ~ Serving' /\ ~ Calling'
  BY <1>1 DEF Creating, Serving, Calling
<1>5. \A i \in Slots : i # worker.c => slot'[i].kcp = slot[i].kcp /\ slot'[i].addr = slot[i].addr
  BY <1>1 DEF KeptBut, Kept
<1>6. \A i \in Slots : slot[i].kcp # s
  BY <1>2 DEF KcpInv, Owned
<1>7. worker.addr \in Addrs /\ slot[worker.c].addr \in {NoAddr, worker.addr}
  BY <1>4 DEF OwnInv, AddrGiven
<1>8. OwnKcp'
  <2> SUFFICES ASSUME NEW i \in Slots, slot'[i].addr # NoAddr, slot'[i].kcp \in Sessions
               PROVE  owner'[slot'[i].kcp] = slot'[i].addr
    BY DEF OwnKcp
  <2>1. CASE i = worker.c
    BY <1>3, <1>7, <2>1
  <2>2. CASE i # worker.c
    <3>1. slot'[i].kcp = slot[i].kcp /\ slot'[i].addr = slot[i].addr /\ slot[i].kcp # s
      BY <1>5, <1>6, <2>2
    <3>2. owner[slot[i].kcp] = slot[i].addr
      BY <2>2, <3>1 DEF OwnInv, OwnKcp
    <3> QED BY <1>3, <3>1, <3>2
  <2> QED BY <2>1, <2>2
<1> QED BY <1>1, <1>3, <1>4, <1>7, <1>8 DEF OwnInv, AddrGiven, ServesOwn, CallsOwn

\* onDisconnect and releaseKcp.
LEMMA DisconnectOwnKept ==
  ASSUME TypeOK, NEW t \in Threads, OnDisconnect(t)
  PROVE  OwnKept
<1>0. /\ th[t].c \in Slots /\ th[t].then \in {"create", "reset"}
      /\ t = "worker" \/ t = "main"
  BY DEF TypeOK, Local, Threads
<1>1. CASE FindVictim(t)
  <2>1. UNCHANGED <<slot, owner>>
    BY <1>1, FindVictimEffect
  <2>2. t = "main" => worker' = worker
    BY <1>1, FindVictimEffect DEF Threads, Alone, Takes, worker
  <2>3. t = "worker" => /\ worker.pc = "disconnect"
                        /\ \/ worker'.pc = "recvfrom"
                           \/ worker'.pc = "testKcp" /\ worker'.then = "reset"
    BY <1>1, FindVictimEffect DEF Takes, Resumed, worker
  <2> QED BY <1>0, <2>1, <2>2, <2>3 DEF OwnKept, Creating, Serving, Calling
<1>2. CASE TestKcp(t) \/ Release(t)
  <2>1. UNCHANGED <<slot, owner>>
    BY <1>2, TestKcpEffect, ReleaseEffect
  <2>2. t = "main" => worker' = worker
    BY <1>2, TestKcpEffect, ReleaseEffect DEF Threads, Alone, Takes, worker
  <2>3. t = "worker" =>
          \/ worker' = worker
          \/ /\ worker.pc \in {"testKcp", "release"}
             /\ worker'.pc \in {worker.then, "release", "setNull"}
             /\ worker'.c = worker.c /\ worker'.addr = worker.addr
             /\ worker'.then = worker.then
    BY <1>2, TestKcpEffect, ReleaseEffect DEF Takes, Moved, worker
  <2>4. t = "worker" => worker.then \in {"create", "reset"}
    BY <1>0 DEF worker
  <2> QED BY <1>0, <2>1, <2>2, <2>3, <2>4 DEF OwnKept, Creating, Serving, Calling
<1>3. CASE SetNull(t)
  <2>1. /\ UNCHANGED owner /\ KeptBut({th[t].c})
        /\ slot'[th[t].c] = [slot[th[t].c] EXCEPT !.kcp = Null]
    BY <1>3, SetNullEffect
  <2>2. slot'[th[t].c].kcp = Null /\ slot'[th[t].c].addr = slot[th[t].c].addr
    BY <1>0, <2>1 DEF TypeOK, Slot
  <2>3. t = "main" => worker' = worker
    BY <1>3, SetNullEffect DEF Threads, Alone, Takes, worker
  <2>4. t = "worker" =>
          /\ worker.pc = "setNull" /\ worker'.pc = worker.then
          /\ worker'.c = worker.c /\ worker'.addr = worker.addr
          /\ worker'.then = worker.then /\ worker.then \in {"create", "reset"}
    BY <1>0, <1>3, SetNullEffect DEF Takes, Moved, worker
  <2>5. \A i \in Slots : /\ slot'[i].kcp \in {slot[i].kcp, Null}
                         /\ slot'[i].addr \in {slot[i].addr, NoAddr}
    BY <2>1, <2>2 DEF KeptBut, Kept
  <2> QED BY <1>0, <2>1, <2>3, <2>4, <2>5 DEF OwnKept, Creating, Serving, Calling
<1>4. CASE Reset(t) \/ SetFree(t)
  <2>1. /\ UNCHANGED owner /\ KeptBut({th[t].c})
        /\ \/ slot'[th[t].c] = ResetSlot(slot[th[t].c], -1)
           \/ slot'[th[t].c] = [slot[th[t].c] EXCEPT !.state = "UFree"]
    BY <1>4, ResetEffect, SetFreeEffect
  <2>2. /\ slot'[th[t].c].kcp = slot[th[t].c].kcp
        /\ slot'[th[t].c].addr \in {slot[th[t].c].addr, NoAddr}
    BY ZenonT(40), <1>0, <2>1 DEF TypeOK, Slot, ResetSlot
  <2>3. t = "main" => worker' = worker
    BY <1>4, ResetEffect, SetFreeEffect DEF Threads, Alone, Takes, worker
  <2>4. t = "worker" => /\ worker.pc \in {"reset", "setFree"}
                        /\ worker'.pc \in {"setFree", "recvfrom"}
    BY <1>4, ResetEffect, SetFreeEffect DEF Takes, Moved, Resumed, worker
  <2>5. \A i \in Slots : /\ slot'[i].kcp \in {slot[i].kcp, Null}
                         /\ slot'[i].addr \in {slot[i].addr, NoAddr}
    BY <2>1, <2>2 DEF KeptBut, Kept
  <2> QED BY <1>0, <2>1, <2>3, <2>4, <2>5 DEF OwnKept, Creating, Serving, Calling
<1> QED BY <1>1, <1>2, <1>3, <1>4 DEF OnDisconnect

\* The worker's steps that set no address and begin no call.
LEMMA WorkerOwnKept ==
  ASSUME TypeOK,
         \/ \E a \in Addrs :
              \/ RecvAccept(a)
              \/ \E id \in told[a] : RecvHeart(a, id) \/ RecvDisconnect(a, id)
         \/ Inputting \/ SaveMessage \/ NoMessage
         \/ AlreadyConnected \/ NotConnected \/ FindFree \/ SetConnect \/ AddCheck \/ Reply
  PROVE  OwnKept
<1>0. worker.c \in Slots /\ "worker" \in Threads
  BY DEF TypeOK, Local, Threads, worker
<1>1. CASE \E a \in Addrs :
              \/ RecvAccept(a)
              \/ \E id \in told[a] : RecvHeart(a, id) \/ RecvDisconnect(a, id)
  <2>1. CASE \E a \in Addrs, id \in Slots : RecvHeart(a, id)
    BY <2>1, RecvHeartEffect DEF OwnKept, KeptBut, Kept, worker
  <2>2. CASE \E a \in Addrs, id \in {-1} \cup Slots, pc \in {"accept", "disconnect"} :
               Recvfrom(pc, a, id)
    BY <2>2, RecvfromEffect DEF OwnKept, Takes, Creating, Serving, Calling, worker
  <2> QED BY <1>1, <2>1, <2>2 DEF RecvAccept, RecvDisconnect, TypeOK
<1>2. CASE Inputting \/ NoMessage
  <2>1. /\ UNCHANGED <<slot, owner>> /\ worker.pc \in {"inputting", "recving"}
        /\ \/ worker' = worker
           \/ /\ worker'.c = worker.c /\ worker'.addr = worker.addr /\ worker'.pc = "recv"
           \/ worker'.pc = "recvfrom"
    BY <1>2, InputtingEffect, NoMessageEffect DEF Moved, Resumed, worker
  <2> QED BY <2>1 DEF OwnKept, Creating, Serving, Calling
<1>3. CASE SaveMessage
  <2>1. /\ UNCHANGED owner /\ worker.pc = "recving" /\ worker'.pc = "recv"
        /\ worker'.c = worker.c /\ worker'.addr = worker.addr
        /\ KeptBut({worker.c}) /\ slot'[worker.c] = [slot[worker.c] EXCEPT !.data = owner[worker.k]]
    BY <1>3, SaveMessageEffect DEF Takes, Moved, worker
  <2>2. slot'[worker.c].kcp = slot[worker.c].kcp /\ slot'[worker.c].addr = slot[worker.c].addr
    BY <1>0, <2>1 DEF TypeOK, Slot
  <2> QED BY <2>1, <2>2 DEF OwnKept, KeptBut, Kept, Creating, Serving, Calling
<1>4. CASE AlreadyConnected \/ NotConnected
  BY <1>4, TestedEffect DEF OwnKept, Takes, Moved, Resumed, Creating, Serving, Calling, worker
<1>5. CASE FindFree
  <2>1. CASE Resumed("worker") /\ UNCHANGED slot
    BY <1>5, <2>1, FindFreeEffect DEF OwnKept, Takes, Resumed, Creating, Serving, Calling, worker
  <2>2. CASE ~ (Resumed("worker") /\ UNCHANGED slot)
    <3> DEFINE c == worker'.c
    <3>1. /\ worker.pc = "findFree" /\ worker'.pc = "connect" /\ c \in Slots /\ KeptBut({c})
          /\ slot'[c] = ResetSlot(slot[c], c) /\ UNCHANGED owner
      BY <1>5, <2>2, FindFreeEffect DEF Takes, worker
    <3>2. slot'[c].kcp = slot[c].kcp /\ slot'[c].addr = NoAddr
      BY <3>1 DEF TypeOK, Slot, ResetSlot
    <3> QED BY <3>1, <3>2 DEF OwnKept, KeptBut, Kept, Creating, Serving, Calling
  <2> QED BY <2>1, <2>2
<1>6. CASE SetConnect
  <2>1. /\ UNCHANGED owner /\ worker.pc = "connect" /\ worker'.pc = "setAddr"
        /\ KeptBut({worker.c}) /\ slot'[worker.c] = [slot[worker.c] EXCEPT !.state = "UConnect"]
    BY <1>6, SetConnectEffect DEF Takes, Moved, worker
  <2>2. slot'[worker.c].kcp = slot[worker.c].kcp /\ slot'[worker.c].addr = slot[worker.c].addr
    BY <1>0, <2>1 DEF TypeOK, Slot
  <2> QED BY <2>1, <2>2 DEF OwnKept, KeptBut, Kept, Creating, Serving, Calling
<1>7. CASE AddCheck
  BY <1>7, AddCheckEffect DEF OwnKept, Takes, Creating, Serving, Calling, worker
<1>8. CASE Reply
  BY <1>8, ReplyEffect DEF OwnKept, Takes, Resumed, Creating, Serving, Calling, worker
<1> QED BY <1>1, <1>2, <1>3, <1>4, <1>5, <1>6, <1>7, <1>8

\* parseCommand and the clock.
LEMMA MainOwnKept ==
  ASSUME TypeOK, Main \/ Tick
  PROVE  OwnKept
<1>0. main.c \in Slots /\ "main" \in Threads /\ "worker" \in Threads
  BY DEF TypeOK, Local, Threads, main
<1>1. CASE Parse
  <2>1. worker' = worker /\ UNCHANGED owner
    BY <1>0, <1>1, ParseEffect DEF Takes, Alone, worker
  <2>2. CASE UNCHANGED slot
    BY <2>1, <2>2 DEF OwnKept
  <2>3. CASE KeptBut({main.c}) /\ slot'[main.c] = [slot[main.c] EXCEPT !.data = NoAddr]
    <3>1. slot'[main.c].kcp = slot[main.c].kcp /\ slot'[main.c].addr = slot[main.c].addr
      BY <1>0, <2>3 DEF TypeOK, Slot
    <3> QED BY <2>1, <2>3, <3>1 DEF OwnKept, KeptBut, Kept
  <2> QED BY <1>1, <2>2, <2>3, ParseEffect DEF main
<1>2. CASE Visit \/ UpdateKcp \/ Updating \/ KcpSend \/ Send \/ Sending
  <2>1. UNCHANGED <<slot, owner>>
    BY <1>2, VisitEffect, MainCallEffect, UpdatingEffect, KcpSendEffect, SendingEffect
  <2>2. UNCHANGED th \/ Alone("main")
    BY <1>2, VisitEffect, MainCallEffect, UpdatingEffect, KcpSendEffect, SendingEffect DEF Takes
  <2> QED BY <1>0, <2>1, <2>2 DEF OwnKept, Alone, worker
<1>3. CASE Tick
  BY <1>3, TickEffect DEF OwnKept, KeptBut, Kept, worker
<1> QED BY <1>1, <1>2, <1>3 DEF Main
----------------------------------------------------------------------------
\* The invariant of the table, of the pointers and of the sessions.
SlotInv == IInv /\ KcpInv /\ OwnInv

\* In the first state there is no session.
LEMMA InitSlotInv == Init => SlotInv
<1> SUFFICES ASSUME Init PROVE SlotInv
  OBVIOUS
<1>1. \A i \in Slots : slot[i].kcp \notin Sessions /\ slot[i].addr = NoAddr
  <2>1. PICK kcp \in [Slots -> {Null, Garbage}] :
          slot = [i \in Slots |->
                    [state |-> "UFree", ID |-> i, addr |-> NoAddr, kcp |-> kcp[i],
                     age |-> 0, data |-> NoAddr]]
    BY DEF Init
  <2>2. Null \notin Sessions /\ Garbage \notin Sessions
    BY UdpServerAssumption DEF Null, Garbage, Sessions
  <2> QED BY <2>1, <2>2
<1>2. worker.pc = "recvfrom" /\ main.pc = "visit" /\ live = {}
  BY DEF Init, Threads, Start, worker, main
<1>3. KcpInv
  BY <1>1, <1>2 DEF KcpInv, Owned, OneHolder, Held, Released, Dangling, ReleasedOnce, Cleared,
                    worker, main
<1>4. OwnInv
  BY <1>1, <1>2
  DEF OwnInv, AddrGiven, OwnKcp, ServesOwn, CallsOwn, Creating, Serving, Calling
<1> QED BY <1>3, <1>4, InitIInv DEF SlotInv

\* The pointers.
LEMMA NextKcpInv ==
  ASSUME SlotInv, TypeOK', Next
  PROVE  KcpInv'
<1>0. TypeOK /\ KcpInv
  BY DEF SlotInv, IInv
<1>1. CASE \E t \in Threads : OnDisconnect(t)
  BY <1>0, <1>1, ReleaseKeeps, SetNullKeeps, DisconnectKcpKept, KcpKeptKeeps DEF OnDisconnect
<1>2. CASE Datagram \/ OnKcp \/ (OnAccept /\ ~ CreateKcp)
  BY <1>0, <1>2, WorkerKcpKept, KcpKeptKeeps
<1>3. CASE CreateKcp
  <2>1. Creating
    BY <1>0, <1>3, CreateKcpEffect DEF Takes, Creating, worker
  <2>2. worker.addr # NoAddr
    BY <2>1, UdpServerAssumption DEF SlotInv, OwnInv, AddrGiven
  <2> QED BY <1>0, <1>3, <2>2, CreateKcpKeeps
<1>4. CASE Main \/ Tick
  BY <1>0, <1>4, MainKcpKept, KcpKeptKeeps
<1> QED BY <1>1, <1>2, <1>3, <1>4 DEF Next

\* The clients of the sessions.
LEMMA NextOwnInv ==
  ASSUME SlotInv, TypeOK', Next
  PROVE  OwnInv'
<1>0. TypeOK /\ AddrKnown /\ KcpInv /\ OwnInv
  BY DEF SlotInv, IInv
<1>1. CASE \E t \in Threads : OnDisconnect(t)
  BY <1>0, <1>1, DisconnectOwnKept, OwnKeptKeeps
<1>2. CASE Datagram
  <2>1. CASE \E a \in Addrs : \E id \in told[a] : RecvKcp(a, id)
    BY <1>0, <2>1, RecvKcpOwn DEF TypeOK
  <2> QED BY <1>0, <1>2, <2>1, WorkerOwnKept, OwnKeptKeeps DEF Datagram
<1>3. CASE OnKcp
  BY <1>0, <1>3, CallOwn, WorkerOwnKept, OwnKeptKeeps DEF OnKcp
<1>4. CASE OnAccept
  BY <1>0, <1>4, SetAddrOwn, CreateKcpOwn, WorkerOwnKept, OwnKeptKeeps DEF OnAccept
<1>5. CASE Main \/ Tick
  BY <1>0, <1>5, MainOwnKept, OwnKeptKeeps
<1> QED BY <1>1, <1>2, <1>3, <1>4, <1>5 DEF Next

\* The invariant is inductive.
LEMMA NextSlotInv == SlotInv /\ [Next]_vars => SlotInv'
<1> SUFFICES ASSUME SlotInv, [Next]_vars PROVE SlotInv'
  OBVIOUS
<1>1. IInv' /\ TypeOK'
  BY NextIInv DEF SlotInv, IInv
<1>2. CASE Next
  BY <1>1, <1>2, NextKcpInv, NextOwnInv DEF SlotInv
<1>3. CASE UNCHANGED vars
  <2>1. KcpKept /\ OwnKept
    BY <1>3 DEF vars, KcpKept, OwnKept, worker
  <2> QED BY <1>1, <2>1, KcpKeptKeeps, OwnKeptKeeps DEF SlotInv, IInv
<1> QED BY <1>2, <1>3

\* No session leaks: releaseKcp and createKcp, run by two threads without a lock,
\* keep every allocated session reachable from one slot.
THEOREM SessionsHeld == Spec => []NoLeak
<1>1. SlotInv => NoLeak
  <2> SUFFICES ASSUME SlotInv, NEW s \in live
               PROVE  \E i \in Slots : slot[i].kcp = s /\ \A j \in Slots \ {i} : slot[j].kcp # s
    BY DEF NoLeak
  <2>1. PICK i \in Slots : slot[i].kcp = s
    BY DEF SlotInv, KcpInv, Held
  <2>2. s \in Sessions
    BY DEF SlotInv, IInv, TypeOK
  <2> QED BY <2>1, <2>2 DEF SlotInv, KcpInv, OneHolder
<1> QED BY <1>1, InitSlotInv, NextSlotInv, PTL DEF Spec

\* The datagrams of a client reach the session that was created for it, whatever the
\* main thread does between findClient and ikcp_input.
THEOREM FedOwnSession == Spec => []OwnSession
<1>1. SlotInv => OwnSession
  BY DEF SlotInv, OwnInv, CallsOwn, Calling, OwnSession, At, worker
<1> QED BY <1>1, InitSlotInv, NextSlotInv, PTL DEF Spec
----------------------------------------------------------------------------
(* Commands and their answers, as long as no client sends 65000: only the main *)
(* thread gives slots back then, and it does not while it answers.             *)

\* The worker admits a client to a slot.
Accepting == Creating \/ worker.pc \in {"connect", "setAddr"}

\* The main thread answers a command; it serves a slot.
Answering == main.pc \in {"KcpSend", "send", "sending"}

ServesSlot == Answering \/ main.pc \in {"update", "updating", "parse"}

\* A slot that is handed out holds no command, and one that was received came from
\* the client of the session.
NoData == Accepting => slot[worker.c].data = NoAddr

DataOwn ==
  \A i \in Slots :
    slot[i].data # NoAddr /\ slot[i].kcp \in Sessions => owner[slot[i].kcp] = slot[i].data

\* The worker disconnects nobody, and the slot that is served is not given away.
WorkerStays ==
  /\ worker.pc \notin {"disconnect", "reset", "setFree"}
  /\ worker.pc \in {"testKcp", "release", "setNull"} => worker.then = "create"

StaysConnected == ServesSlot => slot[main.c].state = "UConnect"

Apart == Answering /\ Accepting => worker.c # main.c

\* The session of the slot is the one of the client that asked.
AnswerOwn ==
  Answering => /\ main.from # NoAddr
               /\ slot[main.c].kcp \in Sessions => owner[slot[main.c].kcp] = main.from

SendsOwn == main.pc = "sending" => main.k \in Sessions /\ owner[main.k] = main.from

AnswerInv ==
  NoData /\ DataOwn /\ WorkerStays /\ StaysConnected /\ Apart /\ AnswerOwn /\ SendsOwn

\* A step that gives no slot a session or a command, nor frees one.
GivesNothing ==
  /\ UNCHANGED owner
  /\ \A i \in Slots : /\ slot'[i].kcp \in {slot[i].kcp, Null}
                      /\ slot'[i].data \in {slot[i].data, NoAddr}

\* Such a step keeps the invariant: of the worker, if it begins to admit nobody;
LEMMA WorkerAnswer ==
  ASSUME TypeOK, TypeOK', AnswerInv, GivesNothing, WorkerStays', main' = main,
         \A i \in Slots : slot'[i].state \in {slot[i].state, "UConnect"},
         Accepting' => Accepting /\ worker'.c = worker.c
  PROVE  AnswerInv'
<1>0. /\ worker.c \in Slots /\ worker'.c \in Slots /\ main.c \in Slots
      /\ Null \notin Sessions
  BY UdpServerAssumption DEF TypeOK, Threads, Local, Null, Sessions, worker, main
<1>1. Answering' = Answering /\ ServesSlot' = ServesSlot
  BY DEF Answering, ServesSlot
<1>2. NoData' /\ DataOwn'
  BY <1>0 DEF AnswerInv, GivesNothing, NoData, DataOwn
<1>3. StaysConnected' /\ Apart' /\ AnswerOwn' /\ SendsOwn'
  BY <1>0, <1>1 DEF AnswerInv, GivesNothing, StaysConnected, Apart, AnswerOwn, SendsOwn
<1> QED BY <1>2, <1>3 DEF AnswerInv

\* of the main thread, if it begins to serve only a slot that is connected.
LEMMA MainAnswer ==
  ASSUME TypeOK, TypeOK', AnswerInv, GivesNothing, worker' = worker,
         ServesSlot' => slot'[main'.c].state = "UConnect",
         Answering' => Answering /\ main'.c = main.c /\ main'.from = main.from,
         main'.pc = "sending" => main.pc = "sending" /\ main'.k = main.k
  PROVE  AnswerInv'
<1>0. /\ worker.c \in Slots /\ main'.c \in Slots /\ main.c \in Slots
      /\ Null \notin Sessions
  BY UdpServerAssumption DEF TypeOK, Threads, Local, Null, Sessions, worker, main
<1>1. Accepting' = Accepting /\ (WorkerStays' <=> WorkerStays)
  BY DEF Accepting, Creating, WorkerStays
<1>2. NoData' /\ DataOwn' /\ WorkerStays'
  BY <1>0, <1>1 DEF AnswerInv, GivesNothing, NoData, DataOwn
<1>3. StaysConnected' /\ Apart' /\ AnswerOwn' /\ SendsOwn'
  BY <1>0, <1>1
  DEF AnswerInv, GivesNothing, StaysConnected, Apart, AnswerOwn, SendsOwn, Answering
<1> QED BY <1>2, <1>3 DEF AnswerInv

\* A free slot is handed out.
LEMMA FindFreeAnswer ==
  ASSUME TypeOK, TypeOK', AnswerInv, FindFree
  PROVE  AnswerInv'
<1>0. main' = main /\ UNCHANGED owner /\ worker.pc = "findFree" /\ main.c \in Slots
  BY FindFreeEffect DEF TypeOK, Local, Takes, Alone, Threads, worker, main
<1>1. CASE Resumed("worker") /\ UNCHANGED slot
  <2>1. worker'.pc = "recvfrom"
    BY <1>1 DEF Resumed, worker
  <2>2. GivesNothing /\ WorkerStays' /\ ~ Accepting'
    BY <1>0, <1>1, <2>1 DEF GivesNothing, WorkerStays, Accepting, Creating
  <2> QED BY <1>0, <1>1, <2>2, WorkerAnswer
<1>2. CASE ~ (Resumed("worker") /\ UNCHANGED slot)
  <2> DEFINE c == worker'.c
  <2>1. /\ worker'.pc = "connect" /\ c \in Slots /\ KeptBut({c})
        /\ slot[c].state = "UFree" /\ slot'[c] = ResetSlot(slot[c], c)
    BY <1>2, FindFreeEffect DEF worker
  <2>2. slot'[c].kcp = slot[c].kcp /\ slot'[c].data = NoAddr
    BY <2>1 DEF TypeOK, Slot, ResetSlot
  <2>3. \A i \in Slots : i # c => Kept(i)
    BY <2>1 DEF KeptBut
  <2>4. ServesSlot => main.c # c
    BY <2>1 DEF AnswerInv, StaysConnected
  <2>5. ServesSlot' = ServesSlot /\ Answering' = Answering
    BY <1>0 DEF ServesSlot, Answering
  <2>6. NoData' /\ DataOwn' /\ WorkerStays'
    BY <1>0, <2>1, <2>2, <2>3 DEF AnswerInv, NoData, DataOwn, WorkerStays, Kept
  <2>7. StaysConnected' /\ Apart' /\ AnswerOwn' /\ SendsOwn'
    BY <1>0, <2>2, <2>3, <2>4, <2>5
    DEF AnswerInv, StaysConnected, Apart, AnswerOwn, SendsOwn, Kept, ServesSlot
  <2> QED BY <2>6, <2>7 DEF AnswerInv
<1> QED BY <1>1, <1>2

\* A command is stored.
LEMMA SaveMessageAnswer ==
  ASSUME TypeOK, TypeOK', OwnInv, AnswerInv, SaveMessage
  PROVE  AnswerInv'
<1>0. /\ main' = main /\ UNCHANGED owner /\ main.c \in Slots /\ worker.c \in Slots
      /\ worker.pc = "recving" /\ worker'.pc = "recv" /\ worker'.c = worker.c
      /\ KeptBut({worker.c})
      /\ slot'[worker.c] = [slot[worker.c] EXCEPT !.data = owner[worker.k]]
  BY SaveMessageEffect DEF TypeOK, Local, Takes, Moved, Alone, Threads, worker, main
<1>1. owner[worker.k] = worker.addr
  BY <1>0 DEF OwnInv, CallsOwn, Calling
<1>2. slot[worker.c].kcp \in Sessions => owner[slot[worker.c].kcp] = worker.addr
  BY <1>0 DEF OwnInv, ServesOwn, Serving
<1>3. /\ slot'[worker.c].data = worker.addr /\ slot'[worker.c].kcp = slot[worker.c].kcp
      /\ slot'[worker.c].state = slot[worker.c].state
  BY <1>0, <1>1 DEF TypeOK, Slot
<1>4. \A i \in Slots : i # worker.c => Kept(i)
  BY <1>0 DEF KeptBut
<1>5. ~ Accepting' /\ Answering' = Answering /\ ServesSlot' = ServesSlot
  BY <1>0 DEF Accepting, Creating, Answering, ServesSlot
<1>6. NoData' /\ DataOwn' /\ WorkerStays'
  BY ZenonT(40), <1>0, <1>2, <1>3, <1>4, <1>5 DEF AnswerInv, NoData, DataOwn, WorkerStays, Kept
<1>7. StaysConnected' /\ Apart' /\ AnswerOwn' /\ SendsOwn'
  BY ZenonT(40), <1>0, <1>3, <1>4, <1>5
  DEF AnswerInv, StaysConnected, Apart, AnswerOwn, SendsOwn, Kept
<1> QED BY <1>6, <1>7 DEF AnswerInv

\* A session is created, in a slot that is not being answered.
LEMMA CreateKcpAnswer ==
  ASSUME TypeOK, TypeOK', KcpInv, AnswerInv, CreateKcp
  PROVE  AnswerInv'
<1>0. /\ main' = main /\ main.c \in Slots /\ worker.c \in Slots
      /\ worker.pc = "create" /\ worker'.pc = "reply" /\ worker'.c = worker.c
      /\ KeptBut({worker.c})
  BY CreateKcpEffect DEF TypeOK, Local, Takes, Moved, Alone, Threads, worker, main
<1>1. PICK s \in Sessions :
        /\ owner[s] = NoAddr
        /\ owner' = [owner EXCEPT ![s] = worker.addr]
        /\ slot'[worker.c] = [slot[worker.c] EXCEPT !.kcp = s]
  BY CreateKcpEffect DEF worker
<1>2. /\ slot'[worker.c].kcp = s /\ slot'[worker.c].data = slot[worker.c].data
      /\ slot'[worker.c].state = slot[worker.c].state
      /\ \A r \in Sessions : r # s => owner'[r] = owner[r]
  BY <1>0, <1>1 DEF TypeOK, Slot
<1>3. Accepting /\ ~ Accepting' /\ Answering' = Answering /\ ServesSlot' = ServesSlot
  BY <1>0 DEF Accepting, Creating, Answering, ServesSlot
<1>4. \A i \in Slots : slot[i].kcp # s
  BY <1>1 DEF KcpInv, Owned
<1>5. \A i \in Slots : i # worker.c => Kept(i)
  BY <1>0 DEF KeptBut
<1>6. slot[worker.c].data = NoAddr
  BY <1>3 DEF AnswerInv, NoData
<1>7. NoData' /\ DataOwn' /\ WorkerStays'
  BY <1>0, <1>2, <1>3, <1>4, <1>5, <1>6 DEF AnswerInv, NoData, DataOwn, WorkerStays, Kept
<1>8. StaysConnected' /\ Apart'
  BY <1>0, <1>2, <1>3, <1>5 DEF AnswerInv, StaysConnected, Apart, Kept
<1>9. AnswerOwn'
  <2>1. Answering => main.c # worker.c
    BY <1>3 DEF AnswerInv, Apart
  <2> QED BY <1>0, <1>2, <1>3, <1>4, <1>5, <2>1 DEF AnswerInv, AnswerOwn, Kept
<1>10. SendsOwn'
  <2>1. main.pc = "sending" => main.k # s
    BY <1>1 DEF AnswerInv, SendsOwn, AnswerOwn, Answering
  <2>2. owner'[main.k] = owner[main.k] \/ main.k = s
    BY <1>1 DEF TypeOK
  <2> QED BY <1>0, <2>1, <2>2 DEF AnswerInv, SendsOwn
<1> QED BY <1>7, <1>8, <1>9, <1>10 DEF AnswerInv

\* The worker, which receives no 65000, and the clock.
LEMMA WorkerStepAnswer ==
  ASSUME TypeOK, TypeOK', ~ Disconnects, KcpInv, OwnInv, AnswerInv,
         OnDisconnect("worker") \/ Datagram \/ OnAccept \/ OnKcp \/ Tick
  PROVE  AnswerInv'
<1>0. /\ worker.c \in Slots /\ main.c \in Slots /\ "worker" \in Threads
      /\ "main" \in Threads /\ WorkerStays /\ worker.then \in {"create", "reset"}
  BY DEF TypeOK, Local, Threads, AnswerInv, worker, main
<1>1. CASE FindVictim("worker") \/ Reset("worker") \/ SetFree("worker")
  BY <1>0, <1>1, FindVictimEffect, ResetEffect, SetFreeEffect DEF WorkerStays, Takes, worker
<1>2. CASE TestKcp("worker") \/ Release("worker")
  <2>1. UNCHANGED <<slot, owner>> /\ main' = main
    BY <1>0, <1>2, TestKcpEffect, ReleaseEffect DEF Takes, Alone, main, Threads
  <2>2. \/ worker' = worker
        \/ /\ worker.pc \in {"testKcp", "release"}
           /\ worker'.pc \in {worker.then, "release", "setNull"}
           /\ worker'.c = worker.c /\ worker'.then = worker.then
    BY <1>0, <1>2, TestKcpEffect, ReleaseEffect DEF Takes, Moved, worker
  <2> QED BY <1>0, <2>1, <2>2, WorkerAnswer
          DEF GivesNothing, WorkerStays, Accepting, Creating
<1>3. CASE SetNull("worker")
  <2>1. /\ UNCHANGED owner /\ main' = main /\ KeptBut({worker.c})
        /\ slot'[worker.c] = [slot[worker.c] EXCEPT !.kcp = Null]
        /\ worker.pc = "setNull" /\ worker'.pc = worker.then
        /\ worker'.c = worker.c /\ worker'.then = worker.then
    BY <1>0, <1>3, SetNullEffect DEF Takes, Moved, Alone, worker, main, Threads
  <2>2. /\ slot'[worker.c].kcp = Null /\ slot'[worker.c].data = slot[worker.c].data
        /\ slot'[worker.c].state = slot[worker.c].state
    BY <1>0, <2>1 DEF TypeOK, Slot
  <2>3. GivesNothing /\ \A i \in Slots : slot'[i].state \in {slot[i].state, "UConnect"}
    BY <2>1, <2>2 DEF GivesNothing, KeptBut, Kept
  <2>4. WorkerStays' /\ (Accepting' => Accepting)
    BY <1>0, <2>1 DEF WorkerStays, Accepting, Creating
  <2> QED BY <2>1, <2>3, <2>4, WorkerAnswer
<1>4. CASE Datagram
  <2>1. CASE \E a \in Addrs, id \in Slots : RecvHeart(a, id)
    BY <1>0, <2>1, RecvHeartEffect, WorkerAnswer
    DEF GivesNothing, KeptBut, Kept, WorkerStays, Accepting, Creating, worker, main
  <2>2. CASE \E a \in Addrs, id \in Slots : RecvKcp(a, id) \/ RecvAccept(a)
    <3>1. /\ UNCHANGED <<slot, owner>> /\ main' = main
          /\ worker'.pc \in {"input", "accept"}
      BY <1>0, <2>2, RecvKcpEffect, RecvfromEffect
      DEF RecvAccept, Takes, Alone, Threads, worker, main
    <3> QED BY <3>1, WorkerAnswer DEF GivesNothing, WorkerStays, Accepting, Creating
  <2> QED BY <1>0, <1>4, <2>1, <2>2 DEF Datagram, RecvDisconnect, TypeOK
<1>5. CASE OnKcp /\ ~ SaveMessage
  <2>1. /\ UNCHANGED <<slot, owner>> /\ main' = main
        /\ worker' = worker \/ worker'.pc \in {"inputting", "recv", "recving", "recvfrom"}
    BY <1>0, <1>5, CallEffect, InputtingEffect, NoMessageEffect
    DEF OnKcp, Alone, Moved, Resumed, Threads, worker, main
  <2> QED BY <1>0, <2>1, WorkerAnswer DEF GivesNothing, WorkerStays, Accepting, Creating
<1>6. CASE AlreadyConnected \/ NotConnected \/ AddCheck \/ Reply
  <2>1. /\ UNCHANGED <<slot, owner>> /\ main' = main
        /\ \/ worker'.pc \in {"recvfrom", "findFree"}
           \/ /\ worker.pc = "addCheck" /\ worker'.c = worker.c
              /\ worker'.pc = "testKcp" /\ worker'.then = "create"
    BY <1>0, <1>6, TestedEffect, AddCheckEffect, ReplyEffect
    DEF Takes, Alone, Moved, Resumed, Threads, worker, main
  <2> QED BY <1>0, <2>1, WorkerAnswer DEF GivesNothing, WorkerStays, Accepting, Creating
<1>7. CASE SetConnect \/ SetAddr
  <2>1. /\ UNCHANGED owner /\ main' = main /\ KeptBut({worker.c})
        /\ worker.pc \in {"connect", "setAddr"} /\ worker'.pc \in {"setAddr", "addCheck"}
        /\ worker'.c = worker.c
    BY <1>0, <1>7, SetConnectEffect, SetAddrEffect
    DEF Takes, Alone, Moved, Threads, worker, main
  <2>2. /\ slot'[worker.c].kcp = slot[worker.c].kcp
        /\ slot'[worker.c].data = slot[worker.c].data
        /\ slot'[worker.c].state \in {slot[worker.c].state, "UConnect"}
    BY <1>0, <1>7, SetConnectEffect, SetAddrEffect DEF TypeOK, Slot, worker
  <2>3. GivesNothing /\ \A i \in Slots : slot'[i].state \in {slot[i].state, "UConnect"}
    BY <2>1, <2>2 DEF GivesNothing, KeptBut, Kept
  <2> QED BY <2>1, <2>3, WorkerAnswer DEF WorkerStays, Accepting, Creating
<1>8. CASE Tick
  BY <1>0, <1>8, TickEffect, WorkerAnswer
  DEF GivesNothing, KeptBut, Kept, WorkerStays, Accepting, Creating, worker, main
<1> QED BY <1>1, <1>2, <1>3, <1>4, <1>5, <1>6, <1>7, <1>8,
           FindFreeAnswer, SaveMessageAnswer, CreateKcpAnswer
        DEF OnDisconnect, OnAccept, OnKcp

\* The main thread.
LEMMA MainStepAnswer ==
  ASSUME TypeOK, TypeOK', AnswerInv, OnDisconnect("main") \/ Main
  PROVE  AnswerInv'
<1>0. /\ worker.c \in Slots /\ main.c \in Slots /\ "worker" \in Threads
      /\ "main" \in Threads /\ main.then \in {"create", "reset"}
  BY DEF TypeOK, Local, Threads, worker, main
<1>1. CASE OnDisconnect("main")
  <2>1. worker' = worker /\ UNCHANGED owner
    <3>1. UNCHANGED owner /\ (UNCHANGED th \/ Alone("main"))
      BY <1>0, <1>1, FindVictimEffect, TestKcpEffect, ReleaseEffect, SetNullEffect, ResetEffect,
         SetFreeEffect DEF OnDisconnect, Takes
    <3> QED BY <1>0, <3>1 DEF Alone, worker
  <2>2. ~ ServesSlot' /\ ~ Answering' /\ main'.pc # "sending"
    <3>1. main'.pc \in {"visit", "testKcp", "create", "reset", "release", "setNull", "setFree"}
      BY ZenonT(40), <1>0, <1>1, FindVictimEffect, TestKcpEffect, ReleaseEffect, SetNullEffect, ResetEffect,
         SetFreeEffect DEF OnDisconnect, Takes, Moved, Resumed, main
    <3> QED BY <3>1 DEF ServesSlot, Answering
  <2>3. GivesNothing
    <3>1. CASE UNCHANGED slot
      BY <2>1, <3>1 DEF GivesNothing
    <3>2. CASE /\ KeptBut({main.c})
               /\ \/ slot'[main.c] = [slot[main.c] EXCEPT !.kcp = Null]
                  \/ slot'[main.c] = ResetSlot(slot[main.c], -1)
                  \/ slot'[main.c] = [slot[main.c] EXCEPT !.state = "UFree"]
      <4>1. /\ slot'[main.c].kcp \in {slot[main.c].kcp, Null}
            /\ slot'[main.c].data \in {slot[main.c].data, NoAddr}
        BY <1>0, <3>2 DEF TypeOK, Slot, ResetSlot
      <4> QED BY <2>1, <3>2, <4>1 DEF GivesNothing, KeptBut, Kept
    <3> QED BY <1>0, <1>1, <3>1, <3>2, FindVictimEffect, TestKcpEffect, ReleaseEffect,
               SetNullEffect, ResetEffect, SetFreeEffect DEF OnDisconnect, main
  <2> QED BY <2>1, <2>2, <2>3, MainAnswer
<1>2. CASE Visit \/ UpdateKcp \/ Updating \/ KcpSend \/ Sending
  <2>1. UNCHANGED <<slot, owner>> /\ worker' = worker
    BY <1>0, <1>2, VisitEffect, MainCallEffect, UpdatingEffect, KcpSendEffect, SendingEffect
    DEF Takes, Alone, worker
  <2>2. \/ main' = main
        \/ main'.pc \in {"visit", "disconnect"}
        \/ main'.pc = "update" /\ main'.c = main.c /\ slot[main.c].state = "UConnect"
        \/ /\ main.pc \in {"update", "updating"} /\ main'.pc \in {"updating", "parse"}
           /\ main'.c = main.c
        \/ /\ main.pc = "KcpSend" /\ main'.pc = "send"
           /\ main'.c = main.c /\ main'.from = main.from
    BY <1>2, VisitEffect, MainCallEffect, UpdatingEffect, KcpSendEffect, SendingEffect
    DEF Takes, Moved, Resumed, main
  <2>3. ServesSlot => slot[main.c].state = "UConnect"
    BY DEF AnswerInv, StaysConnected
  <2>4. ServesSlot' => slot'[main'.c].state = "UConnect"
    BY <2>1, <2>2, <2>3 DEF ServesSlot, Answering
  <2>5. /\ Answering' => Answering /\ main'.c = main.c /\ main'.from = main.from
        /\ main'.pc = "sending" => main.pc = "sending" /\ main'.k = main.k
    BY <2>2 DEF Answering
  <2> QED BY <2>1, <2>4, <2>5, MainAnswer DEF GivesNothing
<1>3. CASE Parse
  <2>1. worker' = worker /\ UNCHANGED owner /\ main.pc = "parse"
    BY <1>0, <1>3, ParseEffect DEF Takes, Alone, worker, main
  <2>2. CASE Resumed("main") /\ UNCHANGED slot
    BY <2>1, <2>2, MainAnswer DEF GivesNothing, Resumed, ServesSlot, Answering, main
  <2>3. CASE ~ (Resumed("main") /\ UNCHANGED slot)
    <3>1. /\ slot[main.c].data # NoAddr
          /\ main'.pc = "KcpSend" /\ main'.from = slot[main.c].data /\ main'.c = main.c
          /\ KeptBut({main.c})
          /\ slot'[main.c] = [slot[main.c] EXCEPT !.data = NoAddr]
      BY <1>3, <2>3, ParseEffect DEF main
    <3>2. /\ slot'[main.c].kcp = slot[main.c].kcp /\ slot'[main.c].data = NoAddr
          /\ slot'[main.c].state = slot[main.c].state
      BY <1>0, <3>1 DEF TypeOK, Slot
    <3>3. \A i \in Slots : i # main.c => Kept(i)
      BY <3>1 DEF KeptBut
    <3>4. Accepting' = Accepting /\ (WorkerStays' <=> WorkerStays)
      BY <2>1 DEF Accepting, Creating, WorkerStays
    <3>5. ServesSlot /\ Answering'
      BY <2>1, <3>1 DEF ServesSlot, Answering
    <3>6. NoData' /\ DataOwn' /\ WorkerStays'
      BY <1>0, <2>1, <3>2, <3>3, <3>4 DEF AnswerInv, NoData, DataOwn, Kept
    <3>7. StaysConnected' /\ SendsOwn'
      BY <3>1, <3>2, <3>5 DEF AnswerInv, StaysConnected, SendsOwn
    <3>8. Apart'
      BY <2>1, <3>1, <3>4 DEF AnswerInv, NoData, Apart
    <3>9. AnswerOwn'
      BY <1>0, <2>1, <3>1, <3>2 DEF AnswerInv, DataOwn, AnswerOwn
    <3> QED BY <3>6, <3>7, <3>8, <3>9 DEF AnswerInv
  <2> QED BY <2>2, <2>3
<1>4. CASE Send
  <2>1. /\ UNCHANGED <<slot, owner>> /\ worker' = worker
        /\ \/ main' = main
           \/ /\ main.pc = "send" /\ main'.pc = "sending" /\ main'.c = main.c
              /\ main'.from = main.from
              /\ slot[main.c].kcp \in live /\ main'.k = slot[main.c].kcp
    <3>1. ~ UpdateKcp
      BY <1>4 DEF Send, UpdateKcp, At
    <3> QED BY <1>0, <1>4, <3>1, MainCallEffect DEF Alone, worker, main
  <2>2. CASE main' = main
    BY <2>1, <2>2, MainAnswer DEF AnswerInv, GivesNothing, StaysConnected, ServesSlot, Answering
  <2>3. CASE main' # main
    <3>1. Accepting' = Accepting /\ (WorkerStays' <=> WorkerStays) /\ Answering /\ Answering'
          /\ ServesSlot
      BY <2>1, <2>3 DEF Accepting, Creating, WorkerStays, Answering, ServesSlot
    <3>2. slot[main.c].kcp \in Sessions
      BY <2>1, <2>3 DEF TypeOK
    <3>3. NoData' /\ DataOwn' /\ WorkerStays'
      BY <2>1, <3>1 DEF AnswerInv, NoData, DataOwn
    <3>4. StaysConnected' /\ Apart' /\ AnswerOwn' /\ SendsOwn'
      BY <2>1, <2>3, <3>1, <3>2 DEF AnswerInv, StaysConnected, Apart, AnswerOwn, SendsOwn
    <3> QED BY <3>3, <3>4 DEF AnswerInv
  <2> QED BY <2>2, <2>3
<1> QED BY <1>1, <1>2, <1>3, <1>4 DEF Main

\* As long as no client sends 65000, the answer to a command goes to the client that
\* sent the command, although its slot is looked up again for every step.
THEOREM AnswersGoHome == ~ Disconnects => (Spec => []AnswersSender)
<1> SUFFICES ASSUME ~ Disconnects PROVE Spec => []AnswersSender
  OBVIOUS
<1>1. Init => AnswerInv
  <2> SUFFICES ASSUME Init PROVE AnswerInv
    OBVIOUS
  <2>1. worker.pc = "recvfrom" /\ main.pc = "visit" /\ \A i \in Slots : slot[i].data = NoAddr
    BY DEF Init, Threads, Start, worker, main
  <2> QED BY <2>1 DEF AnswerInv, NoData, DataOwn, WorkerStays, StaysConnected, Apart, AnswerOwn,
                      SendsOwn, Accepting, Creating, Answering, ServesSlot
<1>2. SlotInv /\ AnswerInv /\ [Next]_vars => AnswerInv'
  <2> SUFFICES ASSUME SlotInv, AnswerInv, [Next]_vars PROVE AnswerInv'
    OBVIOUS
  <2>1. TypeOK /\ TypeOK' /\ KcpInv /\ OwnInv
    BY NextSlotInv DEF SlotInv, IInv
  <2>2. CASE UNCHANGED vars
    <3>1. worker' = worker /\ main' = main /\ UNCHANGED <<slot, owner>>
      BY <2>2 DEF vars, worker, main
    <3> QED BY <2>1, <3>1, WorkerAnswer
            DEF AnswerInv, GivesNothing, WorkerStays, Accepting, Creating
  <2>3. CASE Next
    <3>1. CASE OnDisconnect("main") \/ Main
      BY <2>1, <3>1, MainStepAnswer
    <3>2. CASE OnDisconnect("worker") \/ Datagram \/ OnAccept \/ OnKcp \/ Tick
      BY <2>1, <3>2, WorkerStepAnswer
    <3> QED BY <2>3, <3>1, <3>2 DEF Next, Threads
  <2> QED BY <2>2, <2>3
<1>3. AnswerInv => AnswersSender
  BY DEF AnswerInv, SendsOwn, AnswersSender, At, main
<1> QED BY <1>1, <1>2, <1>3, InitSlotInv, NextSlotInv, PTL DEF Spec
----------------------------------------------------------------------------
(* The ids the clients are told: each client one, and that of the only slot  *)
(* that ever has its address.                                                *)

\* The id of a slot is its index, until the slot is given back.
IdHere == \A i \in Slots : slot[i].ID \in {-1, i}

\* Who was told an id, or has a session, was admitted.
ToldAdmitted == \A a \in Addrs : told[a] # {} => Key[a] \in CheckConnectSet

OwnersAdmitted == \A s \in Sessions : owner[s] # NoAddr => Key[owner[s]] \in CheckConnectSet

\* The client that is being admitted was told none and has none.
BeingAdmitted ==
  (Creating /\ worker.pc # "addCheck") \/ worker.pc = "reply" =>
    Key[worker.addr] \in CheckConnectSet

NotOwnerYet == Creating => \A s \in Sessions : owner[s] # worker.addr

NotToldYet == Creating \/ worker.pc = "reply" => told[worker.addr] = {}

\* A client is told one id.
ToldOnce == \A a \in Addrs : \A i, j \in told[a] : i = j

ToldSlot == \A i \in Slots : slot[i].addr # NoAddr => told[slot[i].addr] \subseteq {i}

\* A client gets one session.
OneEach == \A s, r \in Sessions : owner[s] # NoAddr /\ owner[s] = owner[r] => s = r

TellInv ==
  IdHere /\ ToldAdmitted /\ OwnersAdmitted /\ BeingAdmitted /\ NotOwnerYet /\ NotToldYet
    /\ ToldOnce /\ ToldSlot /\ OneEach

\* No key is erased.
LEMMA AdmittedStays ==
  ASSUME Next
  PROVE  CheckConnectSet \subseteq CheckConnectSet'
<1>1. CASE \E t \in Threads : OnDisconnect(t)
  BY <1>1 DEF OnDisconnect, FindVictim, TestKcp, Release, SetNull, Reset, SetFree, Fail,
              DeleteCheckIsConnect
<1>2. CASE Datagram \/ OnKcp
  BY <1>2 DEF Datagram, RecvAccept, RecvHeart, RecvKcp, RecvDisconnect, Recvfrom, OnKcp, Input,
              Inputting, RecvMessage, SaveMessage, NoMessage, Enter, Leave, Fail
<1>3. CASE OnAccept
  BY <1>3 DEF OnAccept, AlreadyConnected, NotConnected, FindFree, SetConnect, SetAddr, AddCheck,
              CreateKcp, Reply
<1>4. CASE Main \/ Tick
  BY <1>4 DEF Main, Tick, Visit, UpdateKcp, Updating, Parse, KcpSend, Send, Sending, Enter,
              Leave, Fail
<1> QED BY <1>1, <1>2, <1>3, <1>4 DEF Next

\* Only the reply tells an id.
LEMMA OnlyReplyTells ==
  ASSUME Next, ~ Reply
  PROVE  UNCHANGED told
<1>1. CASE \E t \in Threads : OnDisconnect(t)
  BY <1>1 DEF OnDisconnect, FindVictim, TestKcp, Release, SetNull, Reset, SetFree, Fail
<1>2. CASE Datagram \/ OnKcp
  BY <1>2 DEF Datagram, RecvAccept, RecvHeart, RecvKcp, RecvDisconnect, Recvfrom, OnKcp, Input,
              Inputting, RecvMessage, SaveMessage, NoMessage, Enter, Leave, Fail
<1>3. CASE OnAccept
  BY <1>3 DEF OnAccept, AlreadyConnected, NotConnected, FindFree, SetConnect, SetAddr, AddCheck,
              CreateKcp
<1>4. CASE Main \/ Tick
  BY <1>4 DEF Main, Tick, Visit, UpdateKcp, Updating, Parse, KcpSend, Send, Sending, Enter,
              Leave, Fail
<1> QED BY <1>1, <1>2, <1>3, <1>4 DEF Next

\* The id of a slot is given by findFreeUDP_BASE and taken by reset.
LEMMA IdKept ==
  ASSUME TypeOK, IdHere, Next
  PROVE  IdHere'
<1>1. CASE UNCHANGED slot \/ KeptBut({})
  BY <1>1 DEF IdHere, KeptBut, Kept
<1>2. ASSUME NEW t \in Threads, OnDisconnect(t) PROVE IdHere'
  <2>1. CASE FindVictim(t) \/ TestKcp(t) \/ Release(t)
    BY <1>1, <2>1, FindVictimEffect, TestKcpEffect, ReleaseEffect
  <2>2. CASE SetNull(t) \/ Reset(t) \/ SetFree(t)
    <3>1. /\ th[t].c \in Slots /\ KeptBut({th[t].c})
          /\ \/ slot'[th[t].c] = [slot[th[t].c] EXCEPT !.kcp = Null]
             \/ slot'[th[t].c] = ResetSlot(slot[th[t].c], -1)
             \/ slot'[th[t].c] = [slot[th[t].c] EXCEPT !.state = "UFree"]
      BY <2>2, SetNullEffect, ResetEffect, SetFreeEffect
    <3>2. slot'[th[t].c].ID \in {-1, th[t].c}
      BY ZenonT(40), <3>1 DEF TypeOK, IdHere, Slot, ResetSlot
    <3> QED BY <3>1, <3>2 DEF IdHere, KeptBut, Kept
  <2> QED BY <1>2, <2>1, <2>2 DEF OnDisconnect
<1>3. CASE Datagram
  BY <1>1, <1>3, RecvHeartEffect, RecvKcpEffect, RecvfromEffect
  DEF Datagram, RecvAccept, RecvDisconnect
<1>4. CASE OnKcp /\ ~ SaveMessage
  BY <1>1, <1>4, CallEffect, InputtingEffect, NoMessageEffect DEF OnKcp
<1>5. CASE SaveMessage \/ SetConnect \/ SetAddr \/ CreateKcp
  <2> DEFINE c == worker.c
  <2>1. /\ c \in Slots /\ KeptBut({c})
        /\ \/ slot'[c] = [slot[c] EXCEPT !.data = owner[worker.k]]
           \/ slot'[c] = [slot[c] EXCEPT !.state = "UConnect"]
           \/ slot'[c] = [slot[c] EXCEPT !.addr = worker.addr, !.age = 0]
           \/ \E s \in Sessions : slot'[c] = [slot[c] EXCEPT !.kcp = s]
    BY <1>5, SaveMessageEffect, SetConnectEffect, SetAddrEffect, CreateKcpEffect DEF worker
  <2>2. slot'[c].ID = slot[c].ID
    BY <2>1 DEF TypeOK, Slot
  <2> QED BY <2>1, <2>2 DEF IdHere, KeptBut, Kept
<1>6. CASE AlreadyConnected \/ NotConnected \/ AddCheck \/ Reply
  BY <1>1, <1>6, TestedEffect, AddCheckEffect, ReplyEffect
<1>7. CASE FindFree
  <2> DEFINE c == worker'.c
  <2>1. CASE UNCHANGED slot
    BY <1>1, <2>1
  <2>2. CASE c \in Slots /\ KeptBut({c}) /\ slot'[c] = ResetSlot(slot[c], c)
    <3>1. slot'[c].ID = c
      BY <2>2 DEF TypeOK, Slot, ResetSlot
    <3> QED BY <2>2, <3>1 DEF IdHere, KeptBut, Kept
  <2> QED BY <1>7, <2>1, <2>2, FindFreeEffect DEF worker
<1>8. CASE Main \/ Tick
  <2>1. CASE Parse
    <3>1. UNCHANGED slot \/ (/\ main.c \in Slots /\ KeptBut({main.c})
                             /\ slot'[main.c] = [slot[main.c] EXCEPT !.data = NoAddr])
      BY <2>1, ParseEffect DEF main
    <3>2. CASE /\ main.c \in Slots /\ KeptBut({main.c})
               /\ slot'[main.c] = [slot[main.c] EXCEPT !.data = NoAddr]
      <4>1. slot'[main.c].ID = slot[main.c].ID
        BY <3>2 DEF TypeOK, Slot
      <4> QED BY <3>2, <4>1 DEF IdHere, KeptBut, Kept
    <3> QED BY <1>1, <3>1, <3>2
  <2> QED BY <1>1, <1>8, <2>1, VisitEffect, MainCallEffect, UpdatingEffect, KcpSendEffect,
             SendingEffect, TickEffect DEF Main
<1> QED BY <1>2, <1>3, <1>4, <1>5, <1>6, <1>7, <1>8 DEF Next, OnAccept, OnKcp

\* Where the worker adds a key it does nothing else.
LEMMA LeavesAddCheck ==
  ASSUME TypeOK, Next, worker.pc = "addCheck", ~ AddCheck
  PROVE  worker' = worker
<1>0. "main" \in Threads /\ "worker" \in Threads /\ ThreadsOK
  BY DEF TypeOK, Threads, ThreadsOK
<1>1. CASE \E t \in Threads : OnDisconnect(t)
  <2>1. PICK t \in Threads : OnDisconnect(t)
    BY <1>1
  <2>2. th[t].pc # "addCheck"
    BY <2>1 DEF OnDisconnect, FindVictim, TestKcp, Release, SetNull, Reset, SetFree, At
  <2>3. t # "worker"
    BY <2>2 DEF worker
  <2>4. UNCHANGED th \/ Alone(t)
    BY <2>1, FindVictimEffect, TestKcpEffect, ReleaseEffect, SetNullEffect, ResetEffect,
       SetFreeEffect, <1>0 DEF OnDisconnect, Takes
  <2> QED BY <1>0, <2>3, <2>4 DEF Alone, worker
<1>2. CASE Datagram \/ OnAccept \/ OnKcp
  <2>1. CASE \E a \in Addrs : \E id \in told[a] : RecvHeart(a, id)
    BY <2>1 DEF RecvHeart, At, worker
  <2> QED BY <1>2, <2>1
          DEF Datagram, RecvAccept, RecvKcp, RecvDisconnect, Recvfrom, OnAccept, AlreadyConnected,
              NotConnected, FindFree, SetConnect, SetAddr, CreateKcp, Reply, OnKcp, Input,
              Inputting, RecvMessage, SaveMessage, NoMessage, At, worker
<1>3. CASE Main
  <2>1. UNCHANGED th \/ Alone("main")
    BY <1>0, <1>3, VisitEffect, MainCallEffect, UpdatingEffect, ParseEffect, KcpSendEffect,
       SendingEffect DEF Main, Takes
  <2> QED BY <1>0, <2>1 DEF Alone, worker
<1>4. CASE Tick
  BY <1>4 DEF Tick, worker
<1> QED BY <1>1, <1>2, <1>3, <1>4 DEF Next

\* A step that gives no slot an address, creates no session and tells nobody.
TellsNobody ==
  /\ UNCHANGED <<owner, told>>
  /\ CheckConnectSet \subseteq CheckConnectSet'
  /\ IdHere'
  /\ \A i \in Slots : slot'[i].addr \in {slot[i].addr, NoAddr}
  /\ \/ worker' = worker
     \/ /\ worker'.addr = worker.addr /\ Creating' = Creating /\ worker'.pc # "reply"
        /\ worker.pc = "addCheck" => Key[worker.addr] \in CheckConnectSet'
     \/ ~ Creating' /\ worker'.pc # "reply"

\* Such a step keeps the invariant.
LEMMA TellsNobodyKeeps ==
  ASSUME TellInv, TellsNobody
  PROVE  TellInv'
<1>1. ToldAdmitted' /\ OwnersAdmitted' /\ ToldOnce' /\ ToldSlot' /\ OneEach'
  BY DEF TellInv, TellsNobody, ToldAdmitted, OwnersAdmitted, ToldOnce, ToldSlot, OneEach
<1>2. BeingAdmitted' /\ NotOwnerYet' /\ NotToldYet'
  <2>1. CASE worker' = worker
    <3>1. Creating' = Creating
      BY <2>1 DEF Creating
    <3> QED BY <2>1, <3>1 DEF TellInv, TellsNobody, BeingAdmitted, NotOwnerYet, NotToldYet
  <2>2. CASE worker' # worker
    BY <2>2 DEF TellInv, TellsNobody, BeingAdmitted, NotOwnerYet, NotToldYet
  <2> QED BY <2>1, <2>2
<1> QED BY <1>1, <1>2 DEF TellInv, TellsNobody

\* The address that enters the table was never admitted.
LEMMA SetAddrTell ==
  ASSUME IInv, IdHere', TellInv, SetAddr
  PROVE  TellInv'
<1>1. /\ UNCHANGED <<CheckConnectSet, owner, told>>
      /\ worker.pc = "setAddr" /\ worker'.pc = "addCheck"
      /\ worker'.addr = worker.addr /\ worker.c \in Slots
      /\ KeptBut({worker.c})
      /\ slot'[worker.c] = [slot[worker.c] EXCEPT !.addr = worker.addr, !.age = 0]
  BY SetAddrEffect DEF IInv, Takes, Moved, worker
<1>2. slot'[worker.c].addr = worker.addr
  BY <1>1 DEF IInv, TypeOK, Slot
<1>3. worker.addr \in Addrs /\ Key[worker.addr] \notin CheckConnectSet
  BY <1>1 DEF IInv, AddrKnown, NeverAdmitted, NotAddedYet, worker
<1>4. told[worker.addr] = {} /\ \A s \in Sessions : owner[s] # worker.addr
  BY <1>3, UdpServerAssumption DEF TellInv, ToldAdmitted, OwnersAdmitted
<1>5. ToldSlot'
  BY <1>1, <1>2, <1>4 DEF TellInv, ToldSlot, KeptBut, Kept
<1>6. BeingAdmitted' /\ NotOwnerYet' /\ NotToldYet'
  BY <1>1, <1>4 DEF BeingAdmitted, NotOwnerYet, NotToldYet
<1> QED BY <1>1, <1>5, <1>6 DEF TellInv, ToldAdmitted, OwnersAdmitted, ToldOnce, OneEach

\* The client that is admitted gets its first session.
LEMMA CreateKcpTell ==
  ASSUME IInv, OwnInv, IdHere', TellInv, CreateKcp
  PROVE  TellInv'
<1>1. /\ UNCHANGED <<CheckConnectSet, told>> /\ worker.c \in Slots
      /\ worker.pc = "create" /\ worker'.pc = "reply" /\ worker'.addr = worker.addr
      /\ KeptBut({worker.c})
  BY CreateKcpEffect DEF IInv, Takes, Moved, worker
<1>2. PICK s \in Sessions :
        /\ owner' = [owner EXCEPT ![s] = worker.addr]
        /\ slot'[worker.c] = [slot[worker.c] EXCEPT !.kcp = s]
  BY CreateKcpEffect DEF IInv, worker
<1>3. /\ slot'[worker.c].addr = slot[worker.c].addr
      /\ \A r \in Sessions : owner'[r] = IF r = s THEN worker.addr ELSE owner[r]
  BY <1>1, <1>2 DEF IInv, TypeOK, Slot
<1>4. Creating /\ ~ Creating'
  BY <1>1 DEF Creating
<1>5. \A r \in Sessions : owner[r] # worker.addr
  BY <1>4 DEF TellInv, NotOwnerYet
<1>6. BeingAdmitted /\ Key[worker.addr] \in CheckConnectSet
  BY <1>1, <1>4 DEF TellInv, BeingAdmitted
<1>7. OwnersAdmitted' /\ OneEach'
  BY <1>1, <1>3, <1>5, <1>6 DEF TellInv, OwnersAdmitted, OneEach
<1>8. BeingAdmitted' /\ NotOwnerYet' /\ NotToldYet'
  BY <1>1, <1>4, <1>6 DEF TellInv, BeingAdmitted, NotOwnerYet, NotToldYet
<1>9. ToldSlot'
  BY <1>1, <1>3 DEF TellInv, ToldSlot, KeptBut, Kept
<1> QED BY <1>1, <1>7, <1>8, <1>9 DEF TellInv, ToldAdmitted, ToldOnce

\* The reply tells the client that is admitted, and no other, the id of its slot.
LEMMA ReplyTell ==
  ASSUME IInv, OwnInv, IdHere', TellInv, Reply
  PROVE  TellInv'
<1>0. worker.c \in Slots
  BY DEF IInv, TypeOK, Local, Threads, worker
<1>1. /\ UNCHANGED <<slot, CheckConnectSet, owner>>
      /\ worker.pc = "reply" /\ worker'.pc = "recvfrom"
      /\ \/ UNCHANGED told
         \/ /\ slot[worker.c].addr # NoAddr
            /\ told' = [told EXCEPT ![slot[worker.c].addr] = @ \cup {slot[worker.c].ID}]
  BY ReplyEffect DEF IInv, Takes, Resumed, worker
<1>2. ~ Creating'
  BY <1>1 DEF Creating
<1>3. CASE UNCHANGED told
  BY <1>1, <1>2, <1>3, TellsNobodyKeeps DEF TellsNobody
<1>4. CASE told' # told
  <2>1. slot[worker.c].addr = worker.addr /\ worker.addr \in Addrs /\ worker.addr # NoAddr
    BY <1>1, <1>4, UdpServerAssumption DEF OwnInv, AddrGiven
  <2>2. told[worker.addr] = {}
    BY <1>1 DEF TellInv, NotToldYet
  <2>3. \A a \in Addrs :
          told'[a] = IF a = worker.addr THEN {slot[worker.c].ID} ELSE told[a]
    BY <1>1, <1>4, <2>1, <2>2 DEF IInv, TypeOK
  <2>4. slot[worker.c].ID = worker.c
    <3>1. Reachable(slot[worker.c])
      BY <1>4 DEF Reply, worker
    <3>2. slot[worker.c].ID # -1
      BY <3>1, FirstSlot DEF Reachable
    <3> QED BY <1>0, <3>2 DEF TellInv, IdHere
  <2>5. ToldAdmitted' /\ ToldOnce'
    BY <1>1, <2>3 DEF TellInv, ToldAdmitted, BeingAdmitted, ToldOnce
  <2>6. ToldSlot'
    <3>1. \A i \in Slots : slot[i].addr = worker.addr => i = worker.c
      BY <1>0, <2>1 DEF IInv, Distinct
    <3>2. \A i \in Slots : slot[i].addr # NoAddr => slot[i].addr \in Addrs
      BY DEF IInv, TypeOK, Slot
    <3> QED BY <1>1, <2>3, <2>4, <3>1, <3>2 DEF TellInv, ToldSlot
  <2>7. BeingAdmitted' /\ NotOwnerYet' /\ NotToldYet'
    BY <1>1, <1>2 DEF BeingAdmitted, NotOwnerYet, NotToldYet
  <2> QED BY <1>1, <2>5, <2>6, <2>7 DEF TellInv, OwnersAdmitted, OneEach
<1> QED BY <1>3, <1>4

\* The server keeps the invariant.
LEMMA NextTellInv ==
  ASSUME SlotInv, TellInv, Next
  PROVE  TellInv'
<1>0. TypeOK /\ IInv /\ OwnInv /\ IdHere'
  BY IdKept DEF SlotInv, IInv, TellInv
<1>1. CASE SetAddr \/ CreateKcp \/ Reply
  BY <1>0, <1>1, SetAddrTell, CreateKcpTell, ReplyTell
<1>2. CASE ~ (SetAddr \/ CreateKcp \/ Reply)
  <2>1. UNCHANGED told /\ CheckConnectSet \subseteq CheckConnectSet'
    BY <1>2, OnlyReplyTells, AdmittedStays
  <2>2. CASE OwnKept /\ ~ AddCheck
    <3>1. ~ (worker.pc = "addCheck") \/ worker' = worker
      BY <1>0, <1>2, <2>2, LeavesAddCheck
    <3> QED BY <1>0, <2>1, <2>2, <3>1, TellsNobodyKeeps DEF OwnKept, TellsNobody
  <2>3. CASE AddCheck
    <3>1. OwnKept /\ Key[worker.addr] \in CheckConnectSet'
      BY <1>0, <2>3, WorkerOwnKept, AddCheckEffect DEF worker
    <3> QED BY <1>0, <2>1, <3>1, TellsNobodyKeeps DEF OwnKept, TellsNobody
  <2>4. CASE \E a \in Addrs : \E id \in told[a] : RecvKcp(a, id)
    <3>1. /\ UNCHANGED <<slot, owner>> /\ worker'.pc = "input"
      BY <1>0, <2>4, RecvKcpEffect DEF worker
    <3> QED BY <1>0, <2>1, <3>1, TellsNobodyKeeps DEF TellsNobody, Creating
  <2>5. CASE Input \/ RecvMessage
    <3>1. /\ UNCHANGED <<slot, owner>>
          /\ worker' = worker \/ worker'.pc \in {"inputting", "recving"}
      BY <1>0, <2>5, CallEffect DEF worker
    <3> QED BY <1>0, <2>1, <3>1, TellsNobodyKeeps DEF TellsNobody, Creating
  <2> QED BY <1>0, <1>2, <2>2, <2>3, <2>4, <2>5, DisconnectOwnKept, WorkerOwnKept, MainOwnKept
          DEF Next, Datagram, OnAccept, OnKcp
<1> QED BY <1>1, <1>2

\* Nobody was told anything in the first state.
LEMMA InitTellInv == Init => TellInv
<1> SUFFICES ASSUME Init PROVE TellInv
  OBVIOUS
<1>1. worker.pc = "recvfrom" /\ ~ Creating
  BY DEF Init, Threads, Start, worker, Creating
<1>2. /\ \A i \in Slots : slot[i].ID = i /\ slot[i].addr = NoAddr
      /\ \A a \in Addrs : told[a] = {}
      /\ \A s \in Sessions : owner[s] = NoAddr
  BY DEF Init
<1> QED BY <1>1, <1>2 DEF TellInv, IdHere, ToldAdmitted, OwnersAdmitted, BeingAdmitted,
                          NotOwnerYet, NotToldYet, ToldOnce, ToldSlot, OneEach
----------------------------------------------------------------------------
(* The clients: a client makes a session after it was told its id, and sends *)
(* nothing but requests before.                                              *)

ClientType ==
  /\ client \in [Addrs -> Client]
  /\ sent \in [Addrs -> SUBSET Slots]
  /\ fed \subseteq Sessions

\* A client knows only ids it was told.
SentTold == \A a \in Addrs : sent[a] \subseteq told[a]

\* onAccept runs once: the client asks no more, and a second reply has the id it knows.
OneRun(a) ==
  LET c == client[a]
  IN  \/ c.at = "recvfrom" /\ c.made = 0 /\ c.state = "DisConnect" /\ c.kcp = NoKcp
      \/ c.at = "setState" /\ c.made = 0 /\ c.ID \in told[a] /\ c.kcp = NoKcp
      \/ c.at = "create" /\ c.made = 0 /\ c.state = "Connect" /\ c.ID \in told[a] /\ c.kcp = NoKcp
      \/ c.at = "recvfrom" /\ c.made = 1 /\ c.state = "Connect" /\ c.ID \in told[a]
           /\ c.kcp = c.ID

Ready(a) == client[a].kcp # NoKcp

\* The server hears of clients that have a session only.
ReadyWhenHeard ==
  /\ \A a \in Addrs : sent[a] # {} => Ready(a)
  /\ Serving => Ready(worker.addr)
  /\ Calling => worker.k \in Sessions
  /\ \A s \in fed : owner[s] \in Addrs /\ Ready(owner[s])

ClientInv == ClientType /\ SentTold /\ (\A a \in Addrs : OneRun(a)) /\ ReadyWhenHeard

\* What a client was told stays told.
LEMMA ToldGrows ==
  ASSUME TypeOK, Next
  PROVE  \A a \in Addrs : told[a] \subseteq told'[a]
<1>1. CASE ~ Reply
  BY <1>1, OnlyReplyTells
<1>2. CASE Reply
  BY <1>2, ReplyEffect DEF TypeOK
<1> QED BY <1>1, <1>2

\* The steps of the server but the arrival of a KCP datagram.
NoKcpArrives ==
  \/ \E t \in Threads : OnDisconnect(t)
  \/ \E a \in Addrs :
       \/ RecvAccept(a)
       \/ \E id \in told[a] : RecvHeart(a, id) \/ RecvDisconnect(a, id)
  \/ OnAccept \/ OnKcp \/ Main \/ Tick

\* A session keeps its owner, and the worker serves the client it served.
LEMMA ServingStays ==
  ASSUME TypeOK, NoKcpArrives, Calling => worker.k \in Sessions
  PROVE  /\ \A s \in Sessions : owner[s] # NoAddr => owner'[s] = owner[s]
         /\ Serving' => Serving /\ worker'.addr = worker.addr
         /\ Calling' => worker'.k \in Sessions
<1>1. CASE OwnKept
  <2>1. CASE worker' = worker
    BY <1>1, <2>1 DEF OwnKept, Serving, Calling
  <2>2. CASE worker' # worker
    BY <1>1, <2>2 DEF OwnKept
  <2> QED BY <2>1, <2>2
<1>2. CASE Input \/ RecvMessage
  <2>1. /\ UNCHANGED owner /\ worker.pc \in {"input", "recv"}
        /\ \/ worker' = worker
           \/ worker'.k \in live /\ worker'.addr = worker.addr
    BY <1>2, CallEffect DEF worker
  <2> QED BY <2>1 DEF TypeOK, Serving, Calling
<1>3. CASE SetAddr
  BY <1>3, SetAddrEffect DEF Moved, Serving, Calling, worker
<1>4. CASE CreateKcp
  <2>1. worker'.pc = "reply"
    BY <1>4, CreateKcpEffect DEF Moved, worker
  <2>2. \A s \in Sessions : owner[s] # NoAddr => owner'[s] = owner[s]
    BY <1>4, CreateKcpEffect DEF TypeOK
  <2> QED BY <2>1, <2>2 DEF Serving, Calling
<1> QED BY <1>1, <1>2, <1>3, <1>4, DisconnectOwnKept, WorkerOwnKept, MainOwnKept
        DEF NoKcpArrives, OnAccept, OnKcp

\* A step of the server that leaves the clients alone.
LEMMA ServerKeepsClients ==
  ASSUME TypeOK, TypeOK', ClientInv, UNCHANGED <<client, sent>>,
         \A a \in Addrs : told[a] \subseteq told'[a],
         \A s \in Sessions : owner[s] # NoAddr => owner'[s] = owner[s],
         Serving' => Ready(worker'.addr),
         Calling' => worker'.k \in Sessions,
         fed' \subseteq Sessions,
         \A s \in fed' : s \in fed \/ (owner[s] \in Addrs /\ Ready(owner[s]))
  PROVE  ClientInv'
<1>1. \A a \in Addrs : Ready(a)' = Ready(a)
  BY DEF Ready
<1>2. \A s \in fed' : owner'[s] = owner[s] /\ owner[s] \in Addrs /\ Ready(owner[s])
  BY UdpServerAssumption DEF ClientInv, ReadyWhenHeard
<1>3. ClientType' /\ SentTold'
  BY DEF ClientInv, ClientType, SentTold
<1>4. \A a \in Addrs : OneRun(a)'
  BY DEF ClientInv, OneRun
<1>5. ReadyWhenHeard'
  BY <1>1, <1>2 DEF ClientInv, ReadyWhenHeard, Ready
<1> QED BY <1>3, <1>4, <1>5 DEF ClientInv

\* A step of one client.
LEMMA ClientKeepsClients ==
  ASSUME TypeOK, ServesOwn, ToldOnce, ClientInv, NEW a \in Addrs, ClientStep(a)
  PROVE  ClientInv'
<1>0. /\ UNCHANGED <<vars, fed>> /\ worker' = worker
      /\ Serving' = Serving /\ Calling' = Calling
  BY DEF ClientStep, OnReply, SetState, Create, SendServer, vars, Serving, Calling, worker
<1>1. UNCHANGED <<told, owner>>
  BY <1>0 DEF vars
<1>2. client[a] \in Client /\ OneRun(a) /\ told[a] \subseteq Slots /\ \A i, j \in told[a] : i = j
  BY DEF ClientInv, ClientType, TypeOK, ToldOnce
<1>3. CASE OnReply(a) \/ SetState(a) \/ Create(a)
  <2>1. /\ UNCHANGED sent
        /\ \A b \in Addrs \ {a} : client'[b] = client[b]
    BY <1>3 DEF OnReply, SetState, Create, ClientInv, ClientType
  <2>2. client' \in [Addrs -> Client] /\ OneRun(a)' /\ (Ready(a) => Ready(a)')
    <3>1. CASE OnReply(a)
      <4>1. PICK id \in told[a] :
              /\ ~ KnownReply(client[a], id)
              /\ client' = [client EXCEPT ![a].ID = id, ![a].at = "setState"]
        BY <3>1 DEF OnReply
      <4>2. client[a].at = "recvfrom" /\ id \in Slots
        BY <3>1, <1>2, <4>1 DEF OnReply
      <4>3. client[a].made = 0 /\ client[a].kcp = NoKcp
        BY <1>2, <4>1, <4>2 DEF OneRun, KnownReply
      <4>4. client'[a].at = "setState" /\ client'[a].ID = id /\ client'[a].made = 0
              /\ client'[a].kcp = NoKcp
        BY <1>2, <4>1, <4>3 DEF ClientInv, ClientType, Client
      <4>5. client' \in [Addrs -> Client]
        BY <4>1, <4>2 DEF ClientInv, ClientType, Client
      <4> QED BY <1>1, <4>3, <4>4, <4>5 DEF OneRun, Ready
    <3>2. CASE SetState(a)
      <4>1. /\ client[a].at = "setState"
            /\ client' = [client EXCEPT ![a].state = "Connect", ![a].at = "create"]
        BY <3>2 DEF SetState
      <4>2. /\ client'[a].at = "create" /\ client'[a].state = "Connect"
            /\ client'[a].ID = client[a].ID /\ client'[a].made = client[a].made
            /\ client'[a].kcp = client[a].kcp
        BY <1>2, <4>1 DEF ClientInv, ClientType, Client
      <4>3. client' \in [Addrs -> Client]
        BY <4>1 DEF ClientInv, ClientType, Client
      <4> QED BY <1>1, <1>2, <4>1, <4>2, <4>3 DEF OneRun, Ready
    <3>3. CASE Create(a)
      <4>1. /\ client[a].at = "create"
            /\ client' = [client EXCEPT ![a].kcp = client[a].ID, ![a].made = @ + 1,
                                        ![a].at = "recvfrom"]
        BY <3>3 DEF Create
      <4>2. /\ client'[a].at = "recvfrom" /\ client'[a].state = client[a].state
            /\ client'[a].ID = client[a].ID /\ client'[a].made = client[a].made + 1
            /\ client'[a].kcp = client[a].ID
        BY <1>2, <4>1 DEF ClientInv, ClientType, Client
      <4>3. client[a].made = 0 /\ client[a].state = "Connect" /\ client[a].ID \in told[a]
              /\ client[a].kcp = NoKcp
        BY <1>2, <4>1 DEF OneRun
      <4>4. client' \in [Addrs -> Client]
        BY <4>1, <4>3 DEF ClientInv, ClientType, Client
      <4> QED BY <1>1, <4>2, <4>3, <4>4 DEF OneRun, Ready
    <3> QED BY <1>3, <3>1, <3>2, <3>3
  <2>3. \A b \in Addrs : OneRun(b)' /\ (Ready(b) => Ready(b)')
    BY <1>1, <2>1, <2>2 DEF OneRun, Ready, ClientInv
  <2>4. Serving => worker.addr \in Addrs
    BY DEF ServesOwn
  <2>5. ReadyWhenHeard'
    BY <1>0, <1>1, <2>1, <2>3, <2>4 DEF ClientInv, ReadyWhenHeard, Ready
  <2> QED BY <1>0, <1>1, <2>1, <2>2, <2>3, <2>5 DEF ClientInv, ClientType, SentTold
<1>4. CASE SendServer(a)
  <2>1. /\ UNCHANGED client /\ client[a].kcp # NoKcp
        /\ sent' = [sent EXCEPT ![a] = @ \cup {client[a].ID, client[a].kcp}]
    BY <1>4 DEF SendServer
  <2>2. client[a].kcp = client[a].ID /\ client[a].ID \in told[a]
    BY <1>2, <2>1 DEF OneRun
  <2>3. sent' \in [Addrs -> SUBSET Slots] /\ SentTold'
    BY <1>1, <1>2, <2>1, <2>2 DEF ClientInv, ClientType, SentTold
  <2>4. \A b \in Addrs : sent'[b] # {} => Ready(b)
    BY <2>1 DEF ClientInv, ClientType, ReadyWhenHeard, Ready
  <2>5. ReadyWhenHeard'
    BY <1>0, <1>1, <2>1, <2>4 DEF ClientInv, ReadyWhenHeard, Ready
  <2>6. \A b \in Addrs : OneRun(b)'
    BY <1>1, <2>1 DEF ClientInv, OneRun
  <2> QED BY <1>0, <2>1, <2>3, <2>5, <2>6 DEF ClientInv, ClientType
<1> QED BY <1>3, <1>4 DEF ClientStep

\* The server takes the datagrams the clients have sent.
LEMMA ServerStepKeeps ==
  ASSUME SlotInv, TypeOK', ClientInv, ServerStep
  PROVE  Next /\ ClientInv'
<1>0. TypeOK /\ ServesOwn /\ CallsOwn
  BY DEF SlotInv, IInv, OwnInv
<1>1. UNCHANGED <<client, sent>> /\ (Calling => worker.k \in Sessions)
  BY DEF ServerStep, Feed, cvars, ClientInv, ReadyWhenHeard
<1>2. Serving => worker.addr \in Addrs /\ Ready(worker.addr)
  BY <1>0 DEF ServesOwn, ClientInv, ReadyWhenHeard
<1>3. CASE Feed
  <2>1. Inputting /\ Calling /\ Serving /\ fed' = fed \cup {worker.k}
    BY <1>3 DEF Feed, Inputting, At, Calling, Serving, worker
  <2>2. owner[worker.k] = worker.addr /\ worker.k \in Sessions
    BY <1>0, <1>1, <2>1 DEF CallsOwn
  <2>3. Next
    BY <2>1 DEF Next, OnKcp
  <2>4. /\ \A s \in Sessions : owner[s] # NoAddr => owner'[s] = owner[s]
        /\ Serving' => Serving /\ worker'.addr = worker.addr
        /\ Calling' => worker'.k \in Sessions
    BY <1>0, <1>1, <2>1, ServingStays DEF NoKcpArrives, OnKcp
  <2>5. fed' \subseteq Sessions
    BY <2>1, <2>2 DEF ClientInv, ClientType
  <2> QED BY <1>0, <1>1, <1>2, <2>1, <2>2, <2>3, <2>4, <2>5, ToldGrows, ServerKeepsClients
<1>4. CASE Others /\ UNCHANGED cvars
  <2>1. fed' = fed /\ fed \subseteq Sessions
    BY <1>4 DEF cvars, ClientInv, ClientType
  <2>2. CASE \E a \in Addrs : \E id \in sent[a] : RecvKcp(a, id)
    <3>0. PICK a \in Addrs : \E id \in sent[a] : RecvKcp(a, id)
      BY <2>2
    <3>1. PICK id \in sent[a] : RecvKcp(a, id)
      BY <3>0
    <3>2. id \in told[a] /\ Ready(a)
      BY <3>1 DEF ClientInv, SentTold, ReadyWhenHeard
    <3>3. Next
      BY <3>1, <3>2 DEF Next, Datagram
    <3>4. UNCHANGED owner /\ worker'.pc = "input" /\ worker'.addr = a
      BY <1>0, <3>1, RecvKcpEffect DEF worker
    <3>5. ~ Calling'
      BY <3>4 DEF Calling
    <3> QED BY <1>0, <1>1, <2>1, <3>2, <3>3, <3>4, <3>5, ToldGrows, ServerKeepsClients
  <2>3. CASE ~ \E a \in Addrs : \E id \in sent[a] : RecvKcp(a, id)
    <3>1. Next /\ NoKcpArrives
      BY <1>4, <2>3 DEF Others, Deliver, Next, Datagram, OnAccept, OnKcp, Main, NoKcpArrives,
                        ClientInv, SentTold
    <3>2. /\ \A s \in Sessions : owner[s] # NoAddr => owner'[s] = owner[s]
          /\ Serving' => Serving /\ worker'.addr = worker.addr
          /\ Calling' => worker'.k \in Sessions
      BY <1>0, <1>1, <3>1, ServingStays
    <3> QED BY <1>0, <1>1, <1>2, <2>1, <3>1, <3>2, ToldGrows, ServerKeepsClients
  <2> QED BY <2>2, <2>3
<1> QED BY <1>3, <1>4 DEF ServerStep
----------------------------------------------------------------------------
(* Server and clients together. *)

BothInv == SlotInv /\ TellInv /\ ClientInv

\* In the first state nobody was told anything.
LEMMA InitBothInv == SessionInit => BothInv
<1> SUFFICES ASSUME SessionInit PROVE BothInv
  OBVIOUS
<1>1. SlotInv /\ TellInv
  BY InitSlotInv, InitTellInv DEF SessionInit
<1>2. worker.pc = "recvfrom" /\ ~ Serving /\ ~ Calling
  BY DEF SessionInit, Init, Threads, Start, worker, Serving, Calling
<1>3. 0 \in Slots
  BY UdpServerAssumption DEF Slots
<1>4. ClientInv
  BY <1>2, <1>3 DEF SessionInit, ClientInv, ClientType, Client, SentTold, OneRun, ReadyWhenHeard,
                    Ready, NoKcp
<1> QED BY <1>1, <1>4 DEF BothInv

\* Every step of a client or of the server keeps the invariant.
LEMMA NextBothInv == BothInv /\ [SessionNext]_svars => BothInv'
<1> SUFFICES ASSUME BothInv, [SessionNext]_svars PROVE BothInv'
  OBVIOUS
<1>0. TypeOK /\ ServesOwn /\ ToldOnce
  BY DEF BothInv, SlotInv, IInv, OwnInv, TellInv
<1>1. ASSUME [Next]_vars PROVE SlotInv' /\ TypeOK'
  BY <1>1, NextSlotInv DEF BothInv, SlotInv, IInv
<1>2. ASSUME UNCHANGED vars PROVE TellInv'
  <2>1. UNCHANGED <<slot, CheckConnectSet, owner, told>> /\ worker' = worker
    BY <1>2 DEF vars, worker
  <2>2. TellsNobody
    BY <2>1 DEF TellsNobody, BothInv, TellInv, IdHere
  <2> QED BY <2>2, TellsNobodyKeeps DEF BothInv
<1>3. CASE UNCHANGED svars
  <2>1. UNCHANGED <<vars, client, sent, fed>>
    BY <1>3 DEF svars, cvars
  <2>2. worker' = worker /\ UNCHANGED <<told, owner>>
    BY <2>1 DEF vars, worker
  <2>3. Serving' = Serving /\ Calling' = Calling
    BY <2>2 DEF Serving, Calling
  <2>4. ClientInv'
    BY <2>1, <2>2, <2>3 DEF BothInv, ClientInv, ClientType, SentTold, OneRun, ReadyWhenHeard, Ready
  <2> QED BY <1>1, <1>2, <2>1, <2>4 DEF BothInv
<1>4. CASE \E a \in Addrs : ClientStep(a)
  <2>1. UNCHANGED vars
    BY <1>4 DEF ClientStep, OnReply, SetState, Create, SendServer
  <2>2. ClientInv'
    BY <1>0, <1>4, ClientKeepsClients DEF BothInv
  <2> QED BY <1>1, <1>2, <2>1, <2>2 DEF BothInv
<1>5. CASE ServerStep
  <2>1. Next
    BY <1>5 DEF ServerStep, Feed, Others, Deliver, Next, Datagram, OnAccept, OnKcp, Main,
                BothInv, ClientInv, SentTold
  <2>2. ClientInv'
    BY <1>1, <1>5, <2>1, ServerStepKeeps DEF BothInv
  <2>3. TellInv'
    BY <2>1, NextTellInv DEF BothInv
  <2> QED BY <1>1, <2>1, <2>2, <2>3 DEF BothInv
<1> QED BY <1>3, <1>4, <1>5 DEF SessionNext

\* A client makes at most one session, although replies are repeated, and its datagrams
\* enter one session of the server only, although ids are given back and handed out again.
THEOREM SharedSession == SessionSpec => []OneSession
<1>1. BothInv => OneSession
  <2> SUFFICES ASSUME BothInv PROVE OneSession
    OBVIOUS
  <2>1. \A a \in Addrs : client[a].made <= 1
    BY DEF BothInv, ClientInv, OneRun
  <2>2. \A s, r \in fed : owner[s] = owner[r] => s = r
    BY UdpServerAssumption DEF BothInv, ClientInv, ClientType, ReadyWhenHeard, TellInv, OneEach
  <2> QED BY <2>1, <2>2 DEF OneSession
<1> QED BY <1>1, InitBothInv, NextBothInv, PTL DEF SessionSpec

\* When ikcp_update sends something to a client that has been heard of and still has the
\* slot, the client has made its own session, with the id of that slot as its conv.
THEOREM ClientReady == SessionSpec => []SessionReady
<1>1. BothInv => SessionReady
  <2> SUFFICES ASSUME BothInv, At("main", "updating"), Speaks(main.k),
                      slot[main.c].addr = owner[main.k]
               PROVE  client[owner[main.k]].kcp = main.c
    BY DEF SessionReady, main
  <2> DEFINE a == owner[main.k]
  <2>1. a \in Addrs /\ Ready(a) /\ a # NoAddr
    BY UdpServerAssumption DEF Speaks, BothInv, ClientInv, ReadyWhenHeard
  <2>2. client[a].kcp \in told[a]
    BY <2>1 DEF BothInv, ClientInv, OneRun, Ready
  <2>3. told[a] \subseteq {main.c}
    <3>1. main.c \in Slots
      BY DEF BothInv, SlotInv, IInv, TypeOK, Threads, Local, main
    <3> QED BY <2>1, <3>1 DEF BothInv, TellInv, ToldSlot
  <2> QED BY <2>2, <2>3
<1> QED BY <1>1, InitBothInv, NextBothInv, PTL DEF SessionSpec

\* The server does nothing with its clients that it does not do in UdpServer, whose
\* theorems therefore hold of it here: a datagram that arrives is one UdpServer expects.
THEOREM ServerInside == SessionSpec => Spec
<1>1. SessionInit => Init
  BY DEF SessionInit
<1>2. BothInv /\ [SessionNext]_svars => [Next]_vars
  BY DEF BothInv, ClientInv, SentTold, svars, SessionNext, ServerStep, Feed, Others, Deliver,
         ClientStep, OnReply, SetState, Create, SendServer, Next, Datagram, OnAccept, OnKcp, Main
<1> QED BY <1>1, <1>2, InitBothInv, NextBothInv, PTL DEF SessionSpec, Spec
============================================================================
