------------------------------ MODULE Session ------------------------------
(***************************************************************************)
(* The server of UdpServer and the test clients it serves (KCPClient.cpp   *)
(* and main.cpp of the client).  A client asks until it is answered, then  *)
(* it sends heartbeats and KCP datagrams with the id it was told, and      *)
(* feeds what comes back to the session it made for that id.  It asks no   *)
(* more after the first answer, and it does nothing with a farewell        *)
(* (65000), whatever the server does with its slot.                        *)
(*                                                                         *)
(* The network delays, repeats and drops: told (of UdpServer) and sent     *)
(* keep whatever was sent to and by a client, and any of it may arrive at  *)
(* any later time.                                                         *)
(***************************************************************************)
EXTENDS UdpServer

VARIABLES
  client,  \* the program of each client
  sent,    \* the ids in the heartbeats and KCP datagrams each client has sent
  fed      \* the sessions of the server that took a datagram of their client

cvars == <<client, sent, fed>>
svars == <<vars, cvars>>
----------------------------------------------------------------------------
NoKcp == -1

\* kcp is the conv of the session; made counts the sessions created.  at is
\* where the receiving thread is.  The main thread asks while state is
\* DisConnect.
Client == [state : {"DisConnect", "Connect"}, ID : Slots, kcp : {NoKcp} \cup Slots,
           made : 0 .. 2, at : {"recvfrom", "setState", "create"}]

SessionInit ==
  /\ Init
  /\ client = [a \in Addrs |-> [state |-> "DisConnect", ID |-> 0, kcp |-> NoKcp,
                                made |-> 0, at |-> "recvfrom"]]
  /\ sent = [a \in Addrs |-> {}]
  /\ fed = {}
----------------------------------------------------------------------------
(* The client.  The definitions called mutants are plausible mistakes in   *)
(* the definition that follows them, and no part of the model.             *)

\* Mutant of KnownReply: the state is not looked at.
KnownId(c, id) == id = c.ID

\* if (RecvID == ID && state == Connect) return -1
KnownReply(c, id) == id = c.ID /\ c.state = "Connect"

\* onAccept: the id, the state and the session are set one after the other.
OnReply(a) ==
  /\ client[a].at = "recvfrom"
  /\ \E id \in told[a] :
       /\ ~ KnownReply(client[a], id)
       /\ client' = [client EXCEPT ![a].ID = id, ![a].at = "setState"]
  /\ UNCHANGED <<vars, sent, fed>>

SetState(a) ==
  /\ client[a].at = "setState"
  /\ client' = [client EXCEPT ![a].state = "Connect", ![a].at = "create"]
  /\ UNCHANGED <<vars, sent, fed>>

Create(a) ==
  /\ client[a].at = "create"
  /\ client[a].made < 2
  /\ client' = [client EXCEPT ![a].kcp = client[a].ID, ![a].made = @ + 1,
                              ![a].at = "recvfrom"]
  /\ UNCHANGED <<vars, sent, fed>>

\* main after the first loop: heartbeats, KcpSend and updateKcp.  The first is
\* sent after two seconds, long after onAccept has created the session.
SendServer(a) ==
  /\ client[a].kcp # NoKcp
  /\ sent' = [sent EXCEPT ![a] = @ \cup {client[a].ID, client[a].kcp}]
  /\ UNCHANGED <<vars, client, fed>>

ClientStep(a) ==
  OnReply(a) \/ SetState(a) \/ Create(a) \/ SendServer(a)
----------------------------------------------------------------------------
(* The server, with the datagrams the clients really send *)

\* A request is in the network from the start, and again every second.
Deliver(a) ==
  \/ RecvAccept(a)
  \/ \E id \in sent[a] : RecvHeart(a, id) \/ RecvKcp(a, id)

\* ikcp_input: the session of the server has heard of its client.
Feed == Inputting /\ fed' = fed \cup {th["worker"].k} /\ UNCHANGED <<client, sent>>

\* Mutant of Speaks: the server greets the client it has accepted.
Greets(s) == s \in live

\* A session has something to send (acks, and answers) once it was fed.
Speaks(s) == s \in fed

Others ==
  \/ \E a \in Addrs : Deliver(a)
  \/ OnAccept
  \/ Input \/ RecvMessage \/ SaveMessage \/ NoMessage
  \/ Visit \/ UpdateKcp \/ Updating \/ Parse \/ KcpSend \/ Send \/ Sending
  \/ \E t \in Threads : OnDisconnect(t)
  \/ Tick

ServerStep == Feed \/ (Others /\ UNCHANGED cvars)

SessionNext == ServerStep \/ \E a \in Addrs : ClientStep(a)

SessionSpec == SessionInit /\ [][SessionNext]_svars

\* The threads as in FairSpec; the clock may stand still.  One of the replies arrives.
FairSession ==
  /\ SessionSpec
  /\ WF_svars((Main \/ OnDisconnect("main")) /\ UNCHANGED cvars)
  /\ WF_svars(Feed \/ ((OnAccept \/ OnKcp \/ OnDisconnect("worker")) /\ UNCHANGED cvars))
  /\ \A a \in Addrs : WF_svars(OnReply(a) \/ SetState(a) \/ Create(a))
----------------------------------------------------------------------------
(* What client and server promise together. *)

\* A client makes one session, and all its datagrams enter one session of the
\* server, although ids are given back and handed out again and requests and
\* replies are repeated: the two ends never mix the sequence numbers of two
\* sessions with the same conv, and the client, which releases none, leaks none.
OneSession ==
  /\ \A a \in Addrs : client[a].made <= 1
  /\ \A s, r \in fed : owner[s] = owner[r] => s = r

\* A client is in state Connect before it has a session, and its id is 0, the id of
\* a slot, before it knows its id: when ikcp_update sends it something for the
\* first time the session that will take it is there and has that conv.
SessionReady ==
  LET i == th["main"].c
      k == th["main"].k
  IN  At("main", "updating") /\ Speaks(k) /\ slot[i].addr = owner[k] =>
        client[owner[k]].kcp = i

\* Once the server has answered, the client is connected (and stays so): again and
\* again, every client that was answered is in state Connect.
GetsConnected ==
  []<>(fault # "none" \/ \A a \in Addrs : told[a] # {} => client[a].state = "Connect")
============================================================================
