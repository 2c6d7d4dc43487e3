----------------------------- MODULE UdpServer -----------------------------
(***************************************************************************)
(* The connection table of the server and the two threads that share it    *)
(* without a lock.  The worker thread (UDPServer::run) receives datagrams: *)
(* it admits clients, takes heartbeats and feeds KCP sessions.  The main   *)
(* thread (UDPServer::parseCommand in the loop of AppManager::init) visits *)
(* the slots one after the other: it disconnects the clients whose         *)
(* heartbeat is late, updates the KCP sessions and executes the commands   *)
(* received, which answer through the session.  Both threads disconnect.   *)
(*                                                                         *)
(* A step is what one thread does between two accesses to the memory the   *)
(* threads share, as far as the order of the accesses matters.  The model  *)
(* stops at the first failed assertion and at the first access to a        *)
(* session that is not allocated, whose effect C++ does not define.        *)
(***************************************************************************)
EXTENDS Integers, FiniteSets

CONSTANTS
  MaxConnect,    \* slots of the table (__UDPServerInfo->MaxConnect)
  Addrs,         \* addresses (ip and port) of clients
  NoAddr,        \* the address of a slot that was reset
  Key,           \* getIPPORTKey
  HeartTimeMax,  \* __UDPServerInfo->HeartTimeMax
  MaxSessions,   \* bound: KCP sessions created
  Disconnects    \* TRUE if clients send the command 65000

ASSUME UdpServerAssumption ==
  /\ MaxConnect \in Nat \ {0}
  /\ NoAddr \notin Addrs
  /\ Key \in [Addrs -> Nat]
  /\ HeartTimeMax \in Nat
  /\ MaxSessions \in Nat
  /\ Disconnects \in BOOLEAN

VARIABLES
  slot,             \* Linkers
  CheckConnectSet,  \* keys of the addresses that were admitted
  th,               \* where the threads are, and their local variables
  live,             \* the KCP sessions that are allocated
  owner,            \* history: the address each session was created for
  told,             \* the ids the server has told each client
  fault             \* the first failed assertion or undefined access

vars == <<slot, CheckConnectSet, th, live, owner, told, fault>>
----------------------------------------------------------------------------
Slots == 0 .. MaxConnect - 1
Threads == {"worker", "main"}

\* A pointer to a KCP session: null, never initialised, or a session.
Null == 0
Garbage == -1
Sessions == 1 .. MaxSessions

\* age counts the seconds since time_Heart; data is the client whose message
\* recvBuf holds.
Slot == [state : {"UFree", "UConnect"}, ID : {-1} \cup Slots,
         addr : Addrs \cup {NoAddr}, kcp : {Null, Garbage} \cup Sessions,
         age : 0 .. HeartTimeMax + 1, data : Addrs \cup {NoAddr}]

PC == {"recvfrom", "accept", "findFree", "connect", "setAddr", "addCheck",
       "create", "reply", "input", "inputting", "recv", "recving",
       "visit", "update", "updating", "parse", "KcpSend", "send", "sending",
       "disconnect", "testKcp", "release", "setNull", "reset", "setFree"}

\* c: the slot at hand.  id, addr: from the datagram.  k: the session a call of
\* ikcp works on.  from: the client whose command is executed.  then: where
\* releaseKcp returns to.
Local == [pc : PC, c : Slots, id : {-1} \cup Slots, addr : Addrs \cup {NoAddr},
          k : {Null} \cup Sessions, from : Addrs \cup {NoAddr},
          then : {"create", "reset"}]

Start(pc) == [pc |-> pc, c |-> 0, id |-> -1, addr |-> NoAddr, k |-> Null,
              from |-> NoAddr, then |-> "reset"]

\* UDP_BASE::init and runServer.  The constructor leaves kcp uninitialised.
Init ==
  /\ slot \in {[i \in Slots |->
                  [state |-> "UFree", ID |-> i, addr |-> NoAddr, kcp |-> kcp[i],
                   age |-> 0, data |-> NoAddr]] :
                 kcp \in [Slots -> {Null, Garbage}]}
  /\ CheckConnectSet = {}
  /\ th = [t \in Threads |-> Start(IF t = "worker" THEN "recvfrom" ELSE "visit")]
  /\ live = {}
  /\ owner = [s \in Sessions |-> NoAddr]
  /\ told = [a \in Addrs |-> {}]
  /\ fault = "none"
----------------------------------------------------------------------------
At(t, pc) == fault = "none" /\ th[t].pc = pc

Goto(t, pc) == th' = [th EXCEPT ![t].pc = pc]

(* The definitions called mutants are no part of the model: each is a        *)
(* plausible mistake in the definition that follows it, and shows that a    *)
(* property would catch it.                                                 *)

\* Mutant of NextSlot: the loop runs up to MaxConnect included.
NextSlotTooFar(c) == IF c < MaxConnect THEN c + 1 ELSE 0

\* Mutant of NextSlot: the loop stops one slot early.
NextSlotTooSoon(c) == IF c + 2 \in Slots THEN c + 1 ELSE 0

\* The main thread goes on to the next slot; the worker waits for a datagram.
NextSlot(c) == IF c + 1 \in Slots THEN c + 1 ELSE 0

Done(t) == th' = [th EXCEPT ![t] =
  IF t = "worker" THEN Start("recvfrom")
                  ELSE [Start("visit") EXCEPT !.c = NextSlot(th[t].c)]]

\* Mutant of ResetSlot: what was received and not executed stays.
ResetKeepsData(s, id) == [s EXCEPT !.state = "UFree", !.ID = id, !.addr = NoAddr,
                                   !.age = 0]

\* UDP_BASE::reset does not touch kcp.
ResetSlot(s, id) == [s EXCEPT !.state = "UFree", !.ID = id, !.addr = NoAddr,
                              !.age = 0, !.data = NoAddr]

Fail(kind) == fault' = kind /\ UNCHANGED <<slot, CheckConnectSet, th, live, owner, told>>

\* A call of ikcp on the session the slot of t points to begins, and ends.
Enter(t, pc, kcp) ==
  IF kcp \in live
    THEN /\ th' = [th EXCEPT ![t].pc = pc, ![t].k = kcp]
         /\ UNCHANGED <<slot, CheckConnectSet, live, owner, told, fault>>
    ELSE Fail("undefined")

Leave(t, pc) ==
  /\ IF th[t].k \in live THEN Goto(t, pc) /\ UNCHANGED fault
                         ELSE fault' = "undefined" /\ UNCHANGED th
  /\ UNCHANGED <<slot, CheckConnectSet, live, owner, told>>
----------------------------------------------------------------------------
(* UDPServer::onDisconnect, in either thread, and UDPServer::releaseKcp *)

\* Mutant of DeleteCheckIsConnect: the key is erased, but before the slot is free.
DeleteReally(key) == CheckConnectSet \ {key}

\* findClient(cID, UConnect).  DeleteCheckIsConnect then returns without
\* erasing a key that is in CheckConnectSet, and erases one that is not.
DeleteCheckIsConnect(key) ==
  IF key \in CheckConnectSet THEN CheckConnectSet ELSE CheckConnectSet \ {key}

KeyOf(addr) == IF addr = NoAddr THEN 0 ELSE Key[addr]

FindVictim(t) ==
  LET id == th[t].id
  IN  /\ At(t, "disconnect")
      /\ IF id \in Slots /\ slot[id].state = "UConnect"
           THEN /\ th' = [th EXCEPT ![t].pc = "testKcp", ![t].c = id, ![t].then = "reset"]
                /\ CheckConnectSet' = DeleteCheckIsConnect(KeyOf(slot[id].addr))
           ELSE Done(t) /\ UNCHANGED CheckConnectSet
      /\ UNCHANGED <<slot, live, owner, told, fault>>

TestKcp(t) ==
  /\ At(t, "testKcp")
  /\ Goto(t, IF slot[th[t].c].kcp = Null THEN th[t].then ELSE "release")
  /\ UNCHANGED <<slot, CheckConnectSet, live, owner, told, fault>>

\* ikcp_release asserts that its argument is not null and frees it.
Release(t) ==
  LET kcp == slot[th[t].c].kcp
  IN  /\ At(t, "release")
      /\ CASE kcp = Null      -> Fail("assert")
           [] kcp \notin live /\ kcp # Null -> Fail("undefined")
           [] kcp \in live    -> /\ live' = live \ {kcp}
                                 /\ Goto(t, "setNull")
                                 /\ UNCHANGED <<slot, CheckConnectSet, owner, told, fault>>

SetNull(t) ==
  /\ At(t, "setNull")
  /\ slot' = [slot EXCEPT ![th[t].c].kcp = Null]
  /\ Goto(t, th[t].then)
  /\ UNCHANGED <<CheckConnectSet, live, owner, told, fault>>

\* The three farewells need no state; then client->reset().
Reset(t) ==
  /\ At(t, "reset")
  /\ slot' = [slot EXCEPT ![th[t].c] = ResetSlot(@, -1)]
  /\ Goto(t, "setFree")
  /\ UNCHANGED <<CheckConnectSet, live, owner, told, fault>>

\* client->state = UFree, once more
SetFree(t) ==
  /\ At(t, "setFree")
  /\ slot' = [slot EXCEPT ![th[t].c].state = "UFree"]
  /\ Done(t)
  /\ UNCHANGED <<CheckConnectSet, live, owner, told, fault>>
----------------------------------------------------------------------------
(* The worker: UDPServer::recvData.  The network delays, repeats and drops *)
(* datagrams, so that the server may receive at any time whatever a client *)
(* could have sent before.                                                 *)

Recvfrom(pc, a, id) ==
  /\ At("worker", "recvfrom")
  /\ th' = [th EXCEPT !["worker"].pc = pc, !["worker"].addr = a, !["worker"].id = id]
  /\ UNCHANGED <<slot, CheckConnectSet, live, owner, told, fault>>

\* Command 65001.  The version in the request is always right.
RecvAccept(a) == Recvfrom("accept", a, -1)

\* Command 65000: the address of the sender is not looked at.
RecvDisconnect(a, id) == Disconnects /\ Recvfrom("disconnect", a, id)

\* Mutant of Matches: the address is not compared.
MatchesAnyone(id, a) == slot[id].state = "UConnect"

\* findClient(id, ip, port)
Matches(id, a) == slot[id].state = "UConnect" /\ slot[id].addr = a

\* Command 65002
RecvHeart(a, id) ==
  /\ At("worker", "recvfrom")
  /\ Matches(id, a)
  /\ slot' = [slot EXCEPT ![id].age = 0]
  /\ UNCHANGED <<CheckConnectSet, th, live, owner, told, fault>>

\* recvData_kcp
RecvKcp(a, id) ==
  /\ At("worker", "recvfrom")
  /\ Matches(id, a)
  /\ th' = [th EXCEPT !["worker"].pc = "input", !["worker"].addr = a, !["worker"].c = id]
  /\ UNCHANGED <<slot, CheckConnectSet, live, owner, told, fault>>

Input == At("worker", "input") /\ Enter("worker", "inputting", slot[th["worker"].c].kcp)

Inputting == At("worker", "inputting") /\ Leave("worker", "recv")

\* ikcp_recv asserts that the session is not null.
RecvMessage ==
  LET kcp == slot[th["worker"].c].kcp
  IN  /\ At("worker", "recv")
      /\ IF kcp = Null THEN Fail("assert") ELSE Enter("worker", "recving", kcp)

\* A message was returned and onRecv_SaveData stores it, or none was left.
SaveMessage ==
  /\ At("worker", "recving")
  /\ th["worker"].k \in live
  /\ slot' = [slot EXCEPT ![th["worker"].c].data = owner[th["worker"].k]]
  /\ Goto("worker", "recv")
  /\ UNCHANGED <<CheckConnectSet, live, owner, told, fault>>

NoMessage ==
  /\ At("worker", "recving")
  /\ IF th["worker"].k \in live THEN Done("worker") /\ UNCHANGED fault
                                ELSE fault' = "undefined" /\ UNCHANGED th
  /\ UNCHANGED <<slot, CheckConnectSet, live, owner, told>>
----------------------------------------------------------------------------
(* The worker: UDPServer::onAccept *)

AlreadyConnected ==
  /\ At("worker", "accept")
  /\ Key[th["worker"].addr] \in CheckConnectSet
  /\ Done("worker")
  /\ UNCHANGED <<slot, CheckConnectSet, live, owner, told, fault>>

NotConnected ==
  /\ At("worker", "accept")
  /\ Key[th["worker"].addr] \notin CheckConnectSet
  /\ Goto("worker", "findFree")
  /\ UNCHANGED <<slot, CheckConnectSet, live, owner, told, fault>>

\* findFreeUDP_BASE
FindFree ==
  LET free == {i \in Slots : slot[i].state = "UFree"}
  IN  /\ At("worker", "findFree")
      /\ \/ /\ free = {}
            /\ Done("worker")
            /\ UNCHANGED slot
         \/ \E i \in free :
              /\ \A j \in free : i <= j
              /\ slot' = [slot EXCEPT ![i] = ResetSlot(@, i)]
              /\ th' = [th EXCEPT !["worker"].pc = "connect", !["worker"].c = i]
      /\ UNCHANGED <<CheckConnectSet, live, owner, told, fault>>

SetConnect ==
  /\ At("worker", "connect")
  /\ slot' = [slot EXCEPT ![th["worker"].c].state = "UConnect"]
  /\ Goto("worker", "setAddr")
  /\ UNCHANGED <<CheckConnectSet, live, owner, told, fault>>

SetAddr ==
  /\ At("worker", "setAddr")
  /\ slot' = [slot EXCEPT ![th["worker"].c].addr = th["worker"].addr,
                          ![th["worker"].c].age = 0]
  /\ Goto("worker", "addCheck")
  /\ UNCHANGED <<CheckConnectSet, live, owner, told, fault>>

\* Mutant of AddCheck: createKcp does not begin with releaseKcp.
AddCheckNoRelease ==
  /\ At("worker", "addCheck")
  /\ CheckConnectSet' = CheckConnectSet \cup {Key[th["worker"].addr]}
  /\ Goto("worker", "create")
  /\ UNCHANGED <<slot, live, owner, told, fault>>

\* addCheckIsConnect; createKcp begins with releaseKcp.
AddCheck ==
  /\ At("worker", "addCheck")
  /\ CheckConnectSet' = CheckConnectSet \cup {Key[th["worker"].addr]}
  /\ th' = [th EXCEPT !["worker"].pc = "testKcp", !["worker"].then = "create"]
  /\ UNCHANGED <<slot, live, owner, told, fault>>

\* The rest of createKcp.
CreateKcp ==
  /\ At("worker", "create")
  /\ \E s \in Sessions :
       /\ \A r \in Sessions : owner[r] = NoAddr <=> r >= s
       /\ live' = live \cup {s}
       /\ owner' = [owner EXCEPT ![s] = th["worker"].addr]
       /\ slot' = [slot EXCEPT ![th["worker"].c].kcp = s]
  /\ Goto("worker", "reply")
  /\ UNCHANGED <<CheckConnectSet, told, fault>>

\* sendData looks the id up again, and sends to the address in the slot.
Reachable(s) == s.ID \in Slots /\ s.state = "UConnect" /\ s.addr # NoAddr

\* The three replies.
Reply ==
  LET s == slot[th["worker"].c]
  IN  /\ At("worker", "reply")
      /\ told' = IF Reachable(s) THEN [told EXCEPT ![s.addr] = @ \cup {s.ID}] ELSE told
      /\ Done("worker")
      /\ UNCHANGED <<slot, CheckConnectSet, live, owner, fault>>
----------------------------------------------------------------------------
(* The main thread: UDPServer::parseCommand *)

Visit ==
  LET s == slot[th["main"].c]
  IN  /\ At("main", "visit")
      /\ CASE s.ID < 0 \/ s.state = "UFree" -> Done("main")
           [] s.ID >= 0 /\ s.state # "UFree" /\ s.age > HeartTimeMax ->
                th' = [th EXCEPT !["main"].pc = "disconnect", !["main"].id = s.ID]
           [] s.ID >= 0 /\ s.state # "UFree" /\ s.age <= HeartTimeMax ->
                Goto("main", "update")
      /\ UNCHANGED <<slot, CheckConnectSet, live, owner, told, fault>>

\* updateKcp
UpdateKcp ==
  LET kcp == slot[th["main"].c].kcp
  IN  /\ At("main", "update")
      /\ IF kcp = Null
           THEN Goto("main", "parse") /\ UNCHANGED <<slot, CheckConnectSet, live, owner, told, fault>>
           ELSE Enter("main", "updating", kcp)

Updating == At("main", "updating") /\ Leave("main", "parse")

\* Nothing to execute, or a command that TestApp answers.
Parse ==
  LET s == slot[th["main"].c]
  IN  /\ At("main", "parse")
      /\ \/ Done("main") /\ UNCHANGED slot
         \/ /\ s.data # NoAddr
            /\ th' = [th EXCEPT !["main"].pc = "KcpSend", !["main"].from = s.data]
            /\ slot' = [slot EXCEPT ![th["main"].c].data = NoAddr]
      /\ UNCHANGED <<CheckConnectSet, live, owner, told, fault>>

\* KcpSend(c->ID): findClient and the three tests.
KcpSend ==
  LET id == slot[th["main"].c].ID
  IN  /\ At("main", "KcpSend")
      /\ IF id \in Slots /\ slot[id].state = "UConnect" /\ slot[id].kcp # Null
           THEN Goto("main", "send") ELSE Done("main")
      /\ UNCHANGED <<slot, CheckConnectSet, live, owner, told, fault>>

Send == At("main", "send") /\ Enter("main", "sending", slot[th["main"].c].kcp)

Sending ==
  /\ At("main", "sending")
  /\ IF th["main"].k \in live THEN Done("main") /\ UNCHANGED fault
                              ELSE fault' = "undefined" /\ UNCHANGED th
  /\ UNCHANGED <<slot, CheckConnectSet, live, owner, told>>
----------------------------------------------------------------------------
\* A second passes.
Tick ==
  /\ fault = "none"
  /\ \E i \in Slots : slot[i].state = "UConnect" /\ slot[i].age <= HeartTimeMax
  /\ slot' = [i \in Slots |->
       IF slot[i].age <= HeartTimeMax THEN [slot[i] EXCEPT !.age = @ + 1] ELSE slot[i]]
  /\ UNCHANGED <<CheckConnectSet, th, live, owner, told, fault>>

OnDisconnect(t) ==
  FindVictim(t) \/ TestKcp(t) \/ Release(t) \/ SetNull(t) \/ Reset(t) \/ SetFree(t)

Datagram ==
  \E a \in Addrs :
    \/ RecvAccept(a)
    \/ \E id \in told[a] : RecvHeart(a, id) \/ RecvKcp(a, id) \/ RecvDisconnect(a, id)

OnAccept ==
  AlreadyConnected \/ NotConnected \/ FindFree \/ SetConnect \/ SetAddr \/ AddCheck
    \/ CreateKcp \/ Reply

OnKcp == Input \/ Inputting \/ RecvMessage \/ SaveMessage \/ NoMessage

Main == Visit \/ UpdateKcp \/ Updating \/ Parse \/ KcpSend \/ Send \/ Sending

Next ==
  \/ \E t \in Threads : OnDisconnect(t)
  \/ Datagram \/ OnAccept \/ OnKcp
  \/ Main
  \/ Tick

Spec == Init /\ [][Next]_vars

\* The threads never wait for each other, and the clock does not stop.
FairSpec ==
  /\ Spec
  /\ WF_vars(Main \/ OnDisconnect("main"))
  /\ WF_vars(OnAccept \/ OnKcp \/ OnDisconnect("worker"))
  /\ WF_vars(Tick)
----------------------------------------------------------------------------
(* What the table promises. *)

\* Every variable has its type.
TypeOK ==
  /\ slot \in [Slots -> Slot]
  /\ CheckConnectSet \subseteq {Key[a] : a \in Addrs}
  /\ th \in [Threads -> Local]
  /\ live \subseteq Sessions
  /\ owner \in [Sessions -> Addrs \cup {NoAddr}]
  /\ told \in [Addrs -> SUBSET Slots]
  /\ fault \in {"none", "assert", "undefined"}

\* A client repeats its request to connect until it is answered, and the network
\* repeats it too: it never holds two slots, although slots are given back by
\* one thread while the other hands them out.
OneSlotPerAddress ==
  \A i, j \in Slots :
    /\ i # j
    /\ slot[i].state = "UConnect" /\ slot[j].state = "UConnect"
    /\ slot[i].addr # NoAddr
    => slot[i].addr # slot[j].addr

\* The datagrams of a client reach the session that was created for it and no
\* other, however the table changed between findClient and ikcp_input.
OwnSession ==
  At("worker", "inputting") \/ At("worker", "recving") =>
    owner[th["worker"].k] = th["worker"].addr

\* A session that is allocated can be found and released: a slot points to it,
\* and no other slot does.
NoLeak ==
  fault = "none" =>
    \A s \in live : \E i \in Slots :
      slot[i].kcp = s /\ \A j \in Slots \ {i} : slot[j].kcp # s

\* The answer to a command goes to the client that sent the command.
AnswersSender == At("main", "sending") => owner[th["main"].k] = th["main"].from

\* A client that has stopped sending heartbeats gives its slot back, so that a
\* table that is full of clients that went away does not stay full: no slot is
\* late for ever.
Late(i) == slot[i].state = "UConnect" /\ slot[i].age > HeartTimeMax
LateGivesBack ==
  \A i \in Slots : []<>(~ Late(i) \/ fault # "none")

\* ikcp.c asserts at 303 (ikcp_release) and at 378 (ikcp_recv) that the session
\* it is given is not null.
NoFailedAssertion == fault # "assert"

\* UDPServer.cpp:316 says of the request onAccept refuses there that the
\* connection exists already: the address holds a slot.
RefusedIfConnected ==
  [][AlreadyConnected =>
       \E i \in Slots : /\ slot[i].state = "UConnect"
                        /\ slot[i].addr = th["worker"].addr]_vars
============================================================================
