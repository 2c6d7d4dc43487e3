-------------------------------- MODULE Kcp --------------------------------
(***************************************************************************)
(* The ARQ protocol of ikcp.c between the two ends of one session.  Each   *)
(* end runs two threads: one receives datagrams (ikcp_input, ikcp_recv),   *)
(* the other sends messages and drives the timers (ikcp_send, ikcp_update  *)
(* -> ikcp_flush).  Between them is UDP: datagrams are lost, duplicated    *)
(* and reordered.                                                          *)
(*                                                                         *)
(* One iteration of the loop of ikcp_input is one step, because nothing in *)
(* the program stops the other thread from running between two iterations. *)
(* The clock is abstract: which retransmission timers have expired at a    *)
(* flush, and whether the window probe timer has, is chosen freely.        *)
(***************************************************************************)
EXTENDS Sequences, FiniteSets, KcpSeq

CONSTANTS
  Endpoints,       \* the two ends
  SndWnd,          \* kcp->snd_wnd of each end, in segments
  RcvWnd,          \* kcp->rcv_wnd, which is IKCP_WND_RCV at both ends
  FastResend,      \* kcp->fastresend
  FastLimit,       \* kcp->fastlimit, no limit if it is not positive
  DeadLink,        \* kcp->dead_link
  SegsPerDatagram, \* segments that fit in kcp->mtu
  RecvSegs,        \* segments that fit in the buffer given to recvfrom
  MsgBuf,          \* fragments that fit in the buffer given to ikcp_recv
  MaxFrags,        \* bound: fragments of a message
  MaxSegs,         \* bound: segments an end sends in the session
  MaxQueue,        \* bound: fragments waiting in snd_queue
  MaxNet,          \* bound: datagrams in flight towards an end, the others are lost
  MaxAcks,         \* bound: length of the list of acks to send
  XmitCap,         \* bound: transmissions of a segment counted exactly
  Dup              \* TRUE if the network may deliver a datagram again

ASSUME KcpAssumption ==
  /\ \E a, b \in Endpoints : a # b /\ Endpoints = {a, b}
  /\ SndWnd \in [Endpoints -> Nat \ {0}]
  /\ RcvWnd \in Nat \ {0}
  /\ {FastResend, DeadLink} \subseteq Nat \ {0} /\ FastLimit \in Int
  /\ {SegsPerDatagram, RecvSegs, MsgBuf, MaxFrags} \subseteq Nat \ {0}
  /\ MaxSegs \in [Endpoints -> Nat]
  /\ {MaxQueue, MaxNet, MaxAcks} \subseteq Nat \ {0}
  /\ XmitCap \in Nat /\ XmitCap > FastLimit /\ XmitCap > DeadLink
  /\ Dup \in BOOLEAN

VARIABLES
  sent,        \* history: the messages given to ikcp_send, each the sequence of its fragments
  log,         \* history: the fragments of sent, one after the other
  delivered,   \* history: the messages ikcp_recv returned
  snd_queue,   \* fragments not numbered yet
  snd_buf,     \* segments numbered and not acknowledged, by sequence number
  snd_una, snd_nxt,
  rcv_nxt,
  rcv_buf,     \* segments received ahead of rcv_nxt, by sequence number
  rcv_queue,   \* segments received in order and not read yet
  acklist,     \* sequence numbers to acknowledge at the next flush
  rmt_wnd,     \* the window the peer last advertised
  probe,       \* pending IKCP_ASK_SEND and IKCP_ASK_TELL
  probe_wait,  \* TRUE if the probe timer runs (kcp->probe_wait # 0)
  state,       \* -1 once a segment was sent dead_link times
  rx,          \* the call of ikcp_input in progress
  net          \* datagrams in flight towards each end

sndVars == <<snd_queue, snd_buf, snd_una, snd_nxt>>
rcvVars == <<rcv_nxt, rcv_buf, rcv_queue, acklist>>
wndVars == <<rmt_wnd, probe, probe_wait, state>>
history == <<sent, log, delivered>>
vars == <<history, sndVars, rcvVars, wndVars, rx, net>>
----------------------------------------------------------------------------
Peer(e) == CHOOSE p \in Endpoints : p # e

Lesser(a, b) == IF a <= b THEN a ELSE b

\* A fragment: the message it belongs to and frg, the fragments that follow it.
Fragment == [msg : Nat, frg : Nat]
NoData == [msg |-> 0, frg |-> 0]

SndSeg == [data : Fragment, xmit : 0 .. XmitCap, fastack : 0 .. FastResend]

Segment == [cmd : {"PUSH", "ACK", "WASK", "WINS"}, sn : Sn, data : Fragment]

Push(sn, data) == [cmd |-> "PUSH", sn |-> sn, data |-> data]
Ack(sn) == [cmd |-> "ACK", sn |-> sn, data |-> NoData]
Probe(cmd) == [cmd |-> cmd, sn |-> 0, data |-> NoData]

\* All the segments of one flush carry the same una and wnd.
Datagram == [una : Sn, wnd : 0 .. RcvWnd, segs : Seq(Segment)]

\* flag and maxack are the locals of ikcp_input that drive the fast resend.
Call == [busy : BOOLEAN, una : Sn, wnd : 0 .. RcvWnd, segs : Seq(Segment),
         flag : BOOLEAN, maxack : Sn]
Idle == [busy |-> FALSE, una |-> 0, wnd |-> 0, segs |-> <<>>,
         flag |-> FALSE, maxack |-> 0]

InitMsgs == [e \in Endpoints |-> <<>>]

Init ==
  /\ sent = InitMsgs /\ log = InitMsgs /\ delivered = InitMsgs
  /\ snd_queue = InitMsgs
  /\ snd_buf = InitMsgs
  /\ snd_una = [e \in Endpoints |-> 0]
  /\ snd_nxt = [e \in Endpoints |-> 0]
  /\ rcv_nxt = [e \in Endpoints |-> 0]
  /\ rcv_buf = InitMsgs
  /\ rcv_queue = InitMsgs
  /\ acklist = InitMsgs
  /\ rmt_wnd = [e \in Endpoints |-> RcvWnd]
  /\ probe = [e \in Endpoints |-> {}]
  /\ probe_wait = [e \in Endpoints |-> FALSE]
  /\ state = [e \in Endpoints |-> 0]
  /\ rx = [e \in Endpoints |-> Idle]
  /\ net = [e \in Endpoints |-> {}]
----------------------------------------------------------------------------
(* The definitions called mutants are no part of the model: each is a        *)
(* plausible mistake in the definition that follows it, and shows that a    *)
(* property would catch it.                                                 *)

\* Mutant of Send: messages of any number of fragments are accepted.
SendAnySize(e) ==
  \E count \in 1 .. MaxFrags :
    LET frags == [i \in 1 .. count |->
                    [msg |-> Len(sent[e]) + 1, frg |-> count - i]]
    IN  /\ Len(log[e]) + count <= MaxSegs[e]
        /\ Len(snd_queue[e]) + count <= MaxQueue
        /\ sent' = [sent EXCEPT ![e] = Append(@, frags)]
        /\ log' = [log EXCEPT ![e] = @ \o frags]
        /\ snd_queue' = [snd_queue EXCEPT ![e] = @ \o frags]
        /\ UNCHANGED <<delivered, snd_buf, snd_una, snd_nxt, rcvVars, wndVars, rx, net>>

(* ikcp_send: cut the message into count fragments and queue them.  A      *)
(* message of IKCP_WND_RCV fragments or more is refused.                   *)
Send(e) ==
  \E count \in 1 .. MaxFrags :
    LET frags == [i \in 1 .. count |->
                    [msg |-> Len(sent[e]) + 1, frg |-> count - i]]
    IN  /\ count < RcvWnd
        /\ Len(log[e]) + count <= MaxSegs[e]
        /\ Len(snd_queue[e]) + count <= MaxQueue
        /\ sent' = [sent EXCEPT ![e] = Append(@, frags)]
        /\ log' = [log EXCEPT ![e] = @ \o frags]
        /\ snd_queue' = [snd_queue EXCEPT ![e] = @ \o frags]
        /\ UNCHANGED <<delivered, snd_buf, snd_una, snd_nxt, rcvVars, wndVars, rx, net>>
----------------------------------------------------------------------------
(* ikcp_flush *)

\* Mutant of WndUnused: one too many.
WndUnusedPlusOne(e) == RcvWnd + 1 - Len(rcv_queue[e])

\* ikcp_wnd_unused
WndUnused(e) ==
  IF Len(rcv_queue[e]) < RcvWnd THEN RcvWnd - Len(rcv_queue[e]) ELSE 0

\* Mutant of ProbesDue: a closed window is never probed.
NoWask(e, expired) == probe[e]

\* The probes the flush sends; expired tells whether ts_probe has passed.
ProbesDue(e, expired) ==
  IF rmt_wnd[e] = 0 /\ probe_wait[e] /\ expired
    THEN probe[e] \cup {"WASK"}
    ELSE probe[e]

\* Mutant of Released: the window lets one more through.
ReleasedOneMore(e) ==
  LET limit == SeqAdd(snd_una[e], Lesser(SndWnd[e], rmt_wnd[e]))
      Fits(i) == Diff(SeqAdd(snd_nxt[e], i), limit) <= 0
  IN  {n \in 0 .. Len(snd_queue[e]) :
         /\ \A i \in 0 .. n - 1 : Fits(i)
         /\ n < Len(snd_queue[e]) => ~ Fits(n)}

\* {n}: how many fragments of snd_queue the send window lets through.
\* kcp->cwnd plays no part, both ends set nocwnd.
Released(e) ==
  LET limit == SeqAdd(snd_una[e], Lesser(SndWnd[e], rmt_wnd[e]))
      Fits(i) == Diff(SeqAdd(snd_nxt[e], i), limit) < 0
  IN  {n \in 0 .. Len(snd_queue[e]) :
         /\ \A i \in 0 .. n - 1 : Fits(i)
         /\ n < Len(snd_queue[e]) => ~ Fits(n)}

\* snd_buf once the first n fragments of snd_queue are numbered and moved to it.
Numbered(e, n) ==
  [sn \in DOMAIN snd_buf[e] \cup {SeqAdd(snd_nxt[e], i) : i \in 0 .. n - 1} |->
     IF sn \in DOMAIN snd_buf[e]
       THEN snd_buf[e][sn]
       ELSE [data |-> snd_queue[e][CHOOSE i \in 1 .. n : sn = SeqAdd(snd_nxt[e], i - 1)],
             xmit |-> 0, fastack |-> 0]]

\* The segments of buf to transmit when the timers of the segments in expired
\* have run out: the new ones, the late ones, and those that were skipped by
\* FastResend acks and have not been sent too often.
TimedOut(buf, expired) == {sn \in DOMAIN buf : buf[sn].xmit > 0 /\ sn \in expired}

Skipped(buf, expired) ==
  {sn \in DOMAIN buf \ expired :
     /\ buf[sn].xmit > 0
     /\ buf[sn].fastack >= FastResend
     /\ FastLimit <= 0 \/ buf[sn].xmit <= FastLimit}

\* Mutant of Due: a timer that runs out has no effect.
NotTimedOut(buf, expired) ==
  {sn \in DOMAIN buf : buf[sn].xmit = 0} \cup Skipped(buf, expired)

Due(buf, expired) ==
  {sn \in DOMAIN buf : buf[sn].xmit = 0}
    \cup TimedOut(buf, expired) \cup Skipped(buf, expired)

\* buf after the transmission of the segments in due.
Transmitted(buf, due, skipped) ==
  [sn \in DOMAIN buf |->
     IF sn \notin due THEN buf[sn]
     ELSE [data |-> buf[sn].data,
           xmit |-> Lesser(buf[sn].xmit + 1, XmitCap),
           fastack |-> IF sn \in skipped THEN 0 ELSE buf[sn].fastack]]

\* {s}: the elements of S in the order of snd_buf.
InOrder(S) ==
  {s \in [1 .. Cardinality(S) -> S] :
     \A i, j \in 1 .. Cardinality(S) : i < j => Diff(s[i], s[j]) < 0}

\* Acks first, then the probes, then the data.
Outgoing(acks, probes, buf, pushes) ==
  [i \in 1 .. Len(acks) |-> Ack(acks[i])]
    \o (IF "WASK" \in probes THEN <<Probe("WASK")>> ELSE <<>>)
    \o (IF "WINS" \in probes THEN <<Probe("WINS")>> ELSE <<>>)
    \o [i \in 1 .. Len(pushes) |-> Push(pushes[i], buf[pushes[i]].data)]

\* The datagrams the outgoing segments are cut into, each filled up to the mtu.
Datagrams(una, wnd, segs) ==
  {[una |-> una, wnd |-> wnd,
    segs |-> SubSeq(segs, i, Lesser(i + SegsPerDatagram - 1, Len(segs)))] :
     i \in {j \in 1 .. Len(segs) : (j - 1) % SegsPerDatagram = 0}}

\* ikcp_update when ts_flush has passed.  kept are the datagrams the network
\* accepts, all of them unless lossy.
Flush(e, expired, probeExpired, lossy) ==
  \E n \in Released(e) :
    LET buf     == Numbered(e, n)
        due     == Due(buf, expired)
        skipped == Skipped(buf, expired)
        buf2    == Transmitted(buf, due, skipped)
        probes  == ProbesDue(e, probeExpired)
        fresh(pushes) == Datagrams(rcv_nxt[e], WndUnused(e),
                                   Outgoing(acklist[e], probes, buf, pushes))
    IN  \E pushes \in InOrder(due) :
        \E kept \in IF lossy THEN SUBSET fresh(pushes) ELSE {fresh(pushes)} :
          /\ net' = [net EXCEPT ![Peer(e)] = @ \cup kept]
          /\ Cardinality(net'[Peer(e)]) <= MaxNet
          /\ snd_queue' = [snd_queue EXCEPT ![e] = SubSeq(@, n + 1, Len(@))]
          /\ snd_nxt' = [snd_nxt EXCEPT ![e] = SeqAdd(@, n)]
          /\ snd_buf' = [snd_buf EXCEPT ![e] = buf2]
          /\ acklist' = [acklist EXCEPT ![e] = <<>>]
          /\ probe' = [probe EXCEPT ![e] = {}]
          /\ probe_wait' = [probe_wait EXCEPT ![e] = (rmt_wnd[e] = 0)]
          /\ state' = [state EXCEPT ![e] =
               IF \E sn \in due : buf2[sn].xmit >= DeadLink THEN -1 ELSE @]
          /\ UNCHANGED <<history, snd_una, rcv_nxt, rcv_buf, rcv_queue, rmt_wnd, rx>>

\* Only a segment that was transmitted has a timer, and the probe timer is read
\* only while the window of the peer is closed.
Update(e) ==
  \E expired \in SUBSET {sn \in DOMAIN snd_buf[e] : snd_buf[e][sn].xmit > 0},
     probeExpired \in {FALSE, rmt_wnd[e] = 0} :
    Flush(e, expired, probeExpired, TRUE)
----------------------------------------------------------------------------
(* ikcp_recv *)

\* Mutant of WholeMessage: off by one in the count of the fragments.
AlmostWhole(e) ==
  /\ rcv_queue[e] # <<>>
  /\ Len(rcv_queue[e]) >= Head(rcv_queue[e]).frg

\* ikcp_peeksize finds a whole message at the head of rcv_queue.
WholeMessage(e) ==
  /\ rcv_queue[e] # <<>>
  /\ Len(rcv_queue[e]) >= Head(rcv_queue[e]).frg + 1

\* ... and it fits in the buffer of the caller.
Readable(e) == WholeMessage(e) /\ Head(rcv_queue[e]).frg + 1 <= MsgBuf

\* {n}: the segments merged into one message, up to the first with frg = 0.
Merged(queue) ==
  {n \in 1 .. Len(queue) :
     /\ \A i \in 1 .. n - 1 : queue[i].frg # 0
     /\ queue[n].frg = 0 \/ n = Len(queue)}

\* {n}: how many segments of buf follow nxt without a gap and find room in a
\* queue of length len.
Ready(buf, nxt, len) ==
  LET Moves(i) == SeqAdd(nxt, i) \in DOMAIN buf /\ len + i < RcvWnd
  IN  {n \in 0 .. RcvWnd : (\A i \in 0 .. n - 1 : Moves(i)) /\ ~ Moves(n)}

\* Mutant of MoveReady: rcv_nxt is not advanced.
MoveAndForget(e, buf, queue) ==
  \E n \in Ready(buf, rcv_nxt[e], Len(queue)) :
    LET moved == {SeqAdd(rcv_nxt[e], i) : i \in 0 .. n - 1}
    IN  /\ rcv_queue' = [rcv_queue EXCEPT ![e] =
             queue \o [i \in 1 .. n |-> buf[SeqAdd(rcv_nxt[e], i - 1)]]]
        /\ rcv_buf' = [rcv_buf EXCEPT ![e] = [sn \in DOMAIN buf \ moved |-> buf[sn]]]
        /\ UNCHANGED rcv_nxt

\* The loop that moves segments from rcv_buf to rcv_queue.
MoveReady(e, buf, queue) ==
  \E n \in Ready(buf, rcv_nxt[e], Len(queue)) :
    LET moved == {SeqAdd(rcv_nxt[e], i) : i \in 0 .. n - 1}
    IN  /\ rcv_queue' = [rcv_queue EXCEPT ![e] =
             queue \o [i \in 1 .. n |-> buf[SeqAdd(rcv_nxt[e], i - 1)]]]
        /\ rcv_buf' = [rcv_buf EXCEPT ![e] = [sn \in DOMAIN buf \ moved |-> buf[sn]]]
        /\ rcv_nxt' = [rcv_nxt EXCEPT ![e] = SeqAdd(@, n)]

\* One turn of the loop that follows ikcp_input in recvData_kcp.
Recv(e) ==
  /\ ~ rx[e].busy
  /\ Readable(e)
  /\ \E n \in Merged(rcv_queue[e]) :
       LET rest == SubSeq(rcv_queue[e], n + 1, Len(rcv_queue[e]))
       IN  /\ delivered' = [delivered EXCEPT ![e] = Append(@, SubSeq(rcv_queue[e], 1, n))]
           /\ MoveReady(e, rcv_buf[e], rest)
           /\ probe' = IF Len(rcv_queue[e]) >= RcvWnd /\ Len(rcv_queue'[e]) < RcvWnd
                         THEN [probe EXCEPT ![e] = @ \cup {"WINS"}] ELSE probe
  /\ UNCHANGED <<sent, log, sndVars, acklist, rmt_wnd, probe_wait, state, rx, net>>
----------------------------------------------------------------------------
(* ikcp_input *)

\* The receiving thread has read every message it could and recvfrom returns
\* the datagram d.  One that is larger than the buffer is an error and is
\* dropped.
Receive(e, d) ==
  /\ ~ rx[e].busy
  /\ ~ Readable(e)
  /\ \E again \in {FALSE, Dup} :
       net' = [net EXCEPT ![e] = IF again THEN @ ELSE @ \ {d}]
  /\ rx' = [rx EXCEPT ![e] =
       IF Len(d.segs) > RecvSegs THEN @
       ELSE [busy |-> TRUE, una |-> d.una, wnd |-> d.wnd, segs |-> d.segs,
             flag |-> FALSE, maxack |-> 0]]
  /\ UNCHANGED <<history, sndVars, rcvVars, wndVars>>

Lose(e, d) ==
  /\ net' = [net EXCEPT ![e] = @ \ {d}]
  /\ UNCHANGED <<history, sndVars, rcvVars, wndVars, rx>>

\* Mutant of ParseUna: the segment the peer waits for is dropped too.
ParseUnaToo(buf, una) == [sn \in {s \in DOMAIN buf : Diff(una, s) < 0} |-> buf[sn]]

\* ikcp_parse_una: drop what the peer has received in order.
ParseUna(buf, una) == [sn \in {s \in DOMAIN buf : Diff(una, s) <= 0} |-> buf[sn]]

\* ikcp_shrink_buf: {u}, the first segment of buf, or snd_nxt if there is none.
ShrinkBuf(buf, nxt) ==
  {u \in DOMAIN buf \cup {nxt} : \A s \in DOMAIN buf \cup {nxt} : Diff(u, s) <= 0}

\* ikcp_parse_ack: forget sn, unless it lies outside una .. nxt - 1.
ParseAck(buf, una, nxt, sn) ==
  LET known == Diff(sn, una) >= 0 /\ Diff(sn, nxt) < 0
  IN  [s \in {t \in DOMAIN buf : ~ (known /\ t = sn)} |-> buf[s]]

\* ikcp_ack_push
AckPush(e, sn) == [acklist EXCEPT ![e] = Append(@, sn)]

\* The part of an iteration common to the four commands.
RxNext(e) == [rx EXCEPT ![e].segs = Tail(@)]

\* An ACK.
RxAck(e) ==
  LET sn   == Head(rx[e].segs).sn
      buf1 == ParseUna(snd_buf[e], rx[e].una)
  IN  /\ Head(rx[e].segs).cmd = "ACK"
      /\ \E una \in ShrinkBuf(buf1, snd_nxt[e]) :
           LET buf2 == ParseAck(buf1, una, snd_nxt[e], sn)
           IN  /\ snd_buf' = [snd_buf EXCEPT ![e] = buf2]
               /\ \E u \in ShrinkBuf(buf2, snd_nxt[e]) :
                    snd_una' = [snd_una EXCEPT ![e] = u]
      /\ rx' = [RxNext(e) EXCEPT ![e].flag = TRUE,
                                 ![e].maxack =
                  IF ~ rx[e].flag \/ Diff(sn, @) > 0 THEN sn ELSE @]
      /\ UNCHANGED <<rcvVars, probe>>

\* Mutant of RxUna: snd_una is taken from the datagram.
RxUnaTrusted(e) ==
  /\ snd_buf' = [snd_buf EXCEPT ![e] = ParseUna(@, rx[e].una)]
  /\ snd_una' = [snd_una EXCEPT ![e] = rx[e].una]
  /\ rx' = RxNext(e)

\* The other commands, as far as the send buffer is concerned.
RxUna(e) ==
  LET buf == ParseUna(snd_buf[e], rx[e].una)
  IN  /\ snd_buf' = [snd_buf EXCEPT ![e] = buf]
      /\ \E u \in ShrinkBuf(buf, snd_nxt[e]) : snd_una' = [snd_una EXCEPT ![e] = u]
      /\ rx' = RxNext(e)

\* ikcp_parse_data: store the segment unless it is there already.
ParseData(e, sn, data) ==
  LET buf == [s \in DOMAIN rcv_buf[e] \cup {sn} |->
                IF s \in DOMAIN rcv_buf[e] THEN rcv_buf[e][s] ELSE data]
  IN  MoveReady(e, buf, rcv_queue[e])

\* Mutant of RxPush: a segment received before is not acknowledged again.
RxPushAckOnce(e) ==
  LET seg      == Head(rx[e].segs)
      inWindow == Diff(seg.sn, SeqAdd(rcv_nxt[e], RcvWnd)) < 0
      new      == inWindow /\ Diff(seg.sn, rcv_nxt[e]) >= 0
  IN  /\ seg.cmd = "PUSH"
      /\ new => Len(acklist[e]) < MaxAcks
      /\ RxUna(e)
      /\ acklist' = IF new THEN AckPush(e, seg.sn) ELSE acklist
      /\ IF new THEN ParseData(e, seg.sn, seg.data)
                ELSE UNCHANGED <<rcv_nxt, rcv_buf, rcv_queue>>
      /\ UNCHANGED probe

\* Mutant of RxPush: a segment that was read before is stored again.
RxPushOldToo(e) ==
  LET seg      == Head(rx[e].segs)
      inWindow == Diff(seg.sn, SeqAdd(rcv_nxt[e], RcvWnd)) < 0
  IN  /\ seg.cmd = "PUSH"
      /\ inWindow => Len(acklist[e]) < MaxAcks
      /\ RxUna(e)
      /\ acklist' = IF inWindow THEN AckPush(e, seg.sn) ELSE acklist
      /\ IF inWindow
           THEN ParseData(e, seg.sn, seg.data)
           ELSE UNCHANGED <<rcv_nxt, rcv_buf, rcv_queue>>
      /\ UNCHANGED probe

\* A PUSH: acknowledged if it is before the end of the window, stored if it is
\* also not before its start.
RxPush(e) ==
  LET seg      == Head(rx[e].segs)
      inWindow == Diff(seg.sn, SeqAdd(rcv_nxt[e], RcvWnd)) < 0
  IN  /\ seg.cmd = "PUSH"
      /\ inWindow => Len(acklist[e]) < MaxAcks
      /\ RxUna(e)
      /\ acklist' = IF inWindow THEN AckPush(e, seg.sn) ELSE acklist
      /\ IF inWindow /\ Diff(seg.sn, rcv_nxt[e]) >= 0
           THEN ParseData(e, seg.sn, seg.data)
           ELSE UNCHANGED <<rcv_nxt, rcv_buf, rcv_queue>>
      /\ UNCHANGED probe

\* A WASK asks for the window at the next flush; a WINS has already given it.
RxProbe(e) ==
  /\ Head(rx[e].segs).cmd \in {"WASK", "WINS"}
  /\ RxUna(e)
  /\ probe' = IF Head(rx[e].segs).cmd = "WASK"
                THEN [probe EXCEPT ![e] = @ \cup {"WINS"}] ELSE probe
  /\ UNCHANGED rcvVars

\* One iteration of the loop of ikcp_input.
RxSegment(e) ==
  /\ rx[e].busy
  /\ rx[e].segs # <<>>
  /\ rmt_wnd' = [rmt_wnd EXCEPT ![e] = rx[e].wnd]
  /\ RxAck(e) \/ RxPush(e) \/ RxProbe(e)
  /\ UNCHANGED <<history, snd_queue, snd_nxt, probe_wait, state, net>>

\* ikcp_parse_fastack: every segment in flight before the last one acknowledged
\* was skipped once more.
ParseFastack(buf, maxack) ==
  [sn \in DOMAIN buf |->
     IF Diff(maxack, sn) > 0
       THEN [buf[sn] EXCEPT !.fastack = Lesser(@ + 1, FastResend)]
       ELSE buf[sn]]

\* The end of ikcp_input.
RxEnd(e) ==
  LET maxack == rx[e].maxack
      counts == /\ rx[e].flag
                /\ Diff(maxack, snd_una[e]) >= 0
                /\ Diff(maxack, snd_nxt[e]) < 0
  IN  /\ rx[e].busy
      /\ rx[e].segs = <<>>
      /\ snd_buf' = IF counts
                       THEN [snd_buf EXCEPT ![e] = ParseFastack(@, maxack)]
                       ELSE snd_buf
      /\ rx' = [rx EXCEPT ![e] = Idle]
      /\ UNCHANGED <<history, snd_queue, snd_una, snd_nxt, rcvVars, wndVars, net>>
----------------------------------------------------------------------------
Next ==
  \E e \in Endpoints :
    \/ Send(e)
    \/ Update(e)
    \/ \E d \in net[e] : Receive(e, d) \/ Lose(e, d)
    \/ RxSegment(e)
    \/ RxEnd(e)
    \/ Recv(e)

Spec == Init /\ [][Next]_vars

\* The receiving thread, between two calls of recvfrom.
Receiving(e) == RxSegment(e) \/ RxEnd(e) \/ Recv(e)

\* The receiving thread waits for nothing but recvfrom; the other thread calls
\* ikcp_update in an endless loop, and a timer that is not reset runs out; a
\* network that is not cut lets a datagram through again and again.
Fairness(e) ==
  /\ WF_vars(Receiving(e))
  /\ SF_vars(\E d \in net[e] : Receive(e, d))
  /\ SF_vars(Flush(e, DOMAIN snd_buf[e], TRUE, FALSE))

FairSpec == Spec /\ \A e \in Endpoints : Fairness(e)
----------------------------------------------------------------------------
(* What the protocol promises. *)

\* Each end has a function from sequence numbers to S.
AreBuffers(buf, S) ==
  /\ DOMAIN buf = Endpoints
  /\ \A e \in Endpoints :
       /\ DOMAIN buf[e] \subseteq Sn
       /\ buf[e] \in [DOMAIN buf[e] -> S]

\* Every variable has its type.
TypeOK ==
  /\ sent \in [Endpoints -> Seq(Seq(Fragment))]
  /\ log \in [Endpoints -> Seq(Fragment)]
  /\ delivered \in [Endpoints -> Seq(Seq(Fragment))]
  /\ snd_queue \in [Endpoints -> Seq(Fragment)]
  /\ AreBuffers(snd_buf, SndSeg)
  /\ snd_una \in [Endpoints -> Sn]
  /\ snd_nxt \in [Endpoints -> Sn]
  /\ rcv_nxt \in [Endpoints -> Sn]
  /\ AreBuffers(rcv_buf, Fragment)
  /\ rcv_queue \in [Endpoints -> Seq(Fragment)]
  /\ acklist \in [Endpoints -> Seq(Sn)]
  /\ rmt_wnd \in [Endpoints -> 0 .. RcvWnd]
  /\ probe \in [Endpoints -> SUBSET {"WASK", "WINS"}]
  /\ probe_wait \in [Endpoints -> BOOLEAN]
  /\ state \in [Endpoints -> {0, -1}]
  /\ rx \in [Endpoints -> Call]
  /\ DOMAIN net = Endpoints
  /\ \A e \in Endpoints : net[e] \subseteq Datagram

\* The application at one end reads the messages the other end sent: each of
\* them whole and once, in the order of the calls of ikcp_send, whatever the
\* network does.
IsPrefixOf(s, t) == Len(s) <= Len(t) /\ \A i \in 1 .. Len(s) : s[i] = t[i]

OrderedDelivery == \A e \in Endpoints : IsPrefixOf(delivered[e], sent[Peer(e)])

\* ikcp_parse_una and ikcp_parse_ack free a segment only if the peer holds it:
\* every number the peer still waits for is in snd_buf, or it has arrived ahead
\* of its turn and is in the rcv_buf of the peer.
Awaited(e) ==
  {sn \in Sn : /\ Diff(sn, rcv_nxt[Peer(e)]) >= 0
               /\ Diff(sn, snd_nxt[e]) < 0}

NothingLost ==
  \A e \in Endpoints :
    Awaited(e) \subseteq DOMAIN snd_buf[e] \cup DOMAIN rcv_buf[Peer(e)]

\* Neither end leaves its window.  ikcp_flush numbers no segment more than
\* snd_wnd ahead of the last one acknowledged; ikcp_parse_data keeps what is
\* inside the receive window only, and rcv_queue never outgrows it.
WindowKept ==
  \A e \in Endpoints :
    /\ Diff(snd_nxt[e], snd_una[e]) \in 0 .. SndWnd[e]
    /\ Len(rcv_queue[e]) <= RcvWnd
    /\ \A sn \in DOMAIN rcv_buf[e] : Diff(sn, rcv_nxt[e]) \in 0 .. RcvWnd - 1

\* When rcv_queue is full ikcp_recv can empty it: ikcp_send has refused the
\* messages that would fill the window without being complete.
QueueNeverStuck ==
  \A e \in Endpoints : Len(rcv_queue[e]) >= RcvWnd => WholeMessage(e)

\* Every message given to ikcp_send is read at the other end, although datagrams
\* are lost and windows close: again and again nothing is left to read.
EventuallyDelivered ==
  []<>(\A e \in Endpoints : Len(delivered[Peer(e)]) = Len(sent[e]))

\* The sender learns that its segments have arrived, and frees them, although
\* the acks can be lost.
EventuallyAcked == []<>(\A e \in Endpoints : DOMAIN snd_buf[e] = {})

\* An end that believes the window of its peer closed learns that it is open,
\* although the datagrams that say so can be lost: probing does it.
WindowReopens == \A e \in Endpoints : []<>(rmt_wnd[e] > 0)

\* The whole: to the programs at its ends the session is a KcpStream.
Stream == INSTANCE KcpStream
ReliableStream == Stream!Spec


\* A datagram that comes late does not move snd_una or rcv_nxt back.
NeverBack ==
  [][\A e \in Endpoints : /\ Diff(snd_una'[e], snd_una[e]) >= 0
                          /\ Diff(rcv_nxt'[e], rcv_nxt[e]) >= 0]_vars
============================================================================
