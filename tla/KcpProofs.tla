----------------------------- MODULE KcpProofs -----------------------------
(***************************************************************************)
(* Theorems about Kcp for any windows, mtu, message size and bounds.       *)
(* TypeOK is inductive as it stands: one lemma per action shows that the   *)
(* action keeps it.  The delivery of messages rests on FlowInv, which says *)
(* for each direction that whatever is under way under a number is what    *)
(* log holds for it, and where each number may still be.  It holds as long *)
(* as a session is short (ShortSession): after a full turn of the numbers  *)
(* an old datagram would be taken for a new one.                           *)
(***************************************************************************)
EXTENDS Kcp, SequenceTheorems, FiniteSetTheorems, TLAPS

-----------------------------------------------------------------------------
(* Facts about sequence numbers. *)

\* A sum of sequence numbers is a sequence number.
LEMMA SeqAddType == \A a, n \in Int : SeqAdd(a, n) \in Sn
  BY SeqModAssumption DEF SeqAdd, Sn

\* A difference is an integer.
LEMMA DiffType == \A a, b \in Int : Diff(a, b) \in Int
  BY SeqModAssumption DEF Diff

\* A number is at distance 0 from itself.
LEMMA DiffSelf == \A a \in Int : Diff(a, a) = 0
  BY SeqModAssumption DEF Diff

\* As long as the numbers have not wrapped around, the difference of two
\* sequence numbers is their difference as integers.
LEMMA NoWrap ==
  ASSUME NEW a \in Nat, NEW b \in Nat, 2 * a < SeqMod, 2 * b < SeqMod
  PROVE  Diff(a, b) = a - b
<1>1. CASE a >= b
  <2>1. a - b \in 0 .. SeqMod - 1
    BY <1>1, SeqModAssumption
  <2>2. (a - b) % SeqMod = a - b
    BY <2>1, SeqModAssumption
  <2>3. 2 * (a - b) < SeqMod
    BY <1>1, SeqModAssumption
  <2>4. 2 * ((a - b) % SeqMod) < SeqMod
    BY <2>2, <2>3
  <2>5. Diff(a, b) = (a - b) % SeqMod
    BY <2>4 DEF Diff
  <2> QED BY <2>2, <2>5
<1>2. CASE a < b
  <2>1. a - b + SeqMod \in 0 .. SeqMod - 1
    BY <1>2, SeqModAssumption
  <2>2. (a - b) % SeqMod = a - b + SeqMod
    BY <2>1, SeqModAssumption
  <2>3. ~ (2 * (a - b + SeqMod) < SeqMod)
    BY <1>2, SeqModAssumption
  <2>4. ~ (2 * ((a - b) % SeqMod) < SeqMod)
    BY <2>2, <2>3
  <2>5. Diff(a, b) = ((a - b) % SeqMod) - SeqMod
    BY <2>4 DEF Diff
  <2> QED BY <2>2, <2>5, SeqModAssumption
<1> QED BY <1>1, <1>2

\* ... and addition is that of the integers.
LEMMA AddNoWrap ==
  ASSUME NEW a \in Nat, NEW n \in Nat, a + n < SeqMod
  PROVE  SeqAdd(a, n) = a + n
<1>1. a + n \in 0 .. SeqMod - 1
  BY SeqModAssumption
<1> QED BY <1>1, SeqModAssumption DEF SeqAdd

-----------------------------------------------------------------------------
(* Types. *)

\* A function on 1 .. n is a sequence of length n.
LEMMA FunctionIsSeq ==
  ASSUME NEW S, NEW n \in Nat, NEW f \in [1 .. n -> S]
  PROVE  f \in Seq(S) /\ Len(f) = n
  BY SeqDef

\* The peer of an end is the other end.
LEMMA PeerType == \A e \in Endpoints : Peer(e) \in Endpoints /\ Peer(e) # e
<1>1. \A e \in Endpoints : \E p \in Endpoints : p # e
  BY KcpAssumption
<1> QED
  BY <1>1 DEF Peer

\* Replacing the buffer of one end.
LEMMA BufferExcept ==
  ASSUME NEW S, NEW bufs, AreBuffers(bufs, S), NEW e \in Endpoints,
         NEW D \in SUBSET Sn, NEW b \in [D -> S]
  PROVE  AreBuffers([bufs EXCEPT ![e] = b], S)
  BY DEF AreBuffers

\* The buffer of one end.
LEMMA BufferType ==
  ASSUME NEW S, NEW bufs, AreBuffers(bufs, S), NEW e \in Endpoints
  PROVE  DOMAIN bufs[e] \in SUBSET Sn /\ bufs[e] \in [DOMAIN bufs[e] -> S]
  BY DEF AreBuffers

\* The first state.
LEMMA InitType == Init => TypeOK
<1> SUFFICES ASSUME Init PROVE TypeOK
  OBVIOUS
<1>1. Idle \in Call
  <2>1. 0 \in Sn /\ 0 \in 0 .. RcvWnd
    BY KcpAssumption, SeqModAssumption DEF Sn
  <2> QED BY <2>1 DEF Idle, Call
<1>2. AreBuffers(snd_buf, SndSeg) /\ AreBuffers(rcv_buf, Fragment)
  BY DEF Init, InitMsgs, AreBuffers
<1>3. 0 \in Sn /\ RcvWnd \in 0 .. RcvWnd
  BY KcpAssumption, SeqModAssumption DEF Sn
<1> QED
  BY <1>1, <1>2, <1>3 DEF TypeOK, Init, InitMsgs

\* ikcp_send keeps the types.
LEMMA SendType ==
  ASSUME TypeOK, NEW e \in Endpoints, Send(e)
  PROVE  TypeOK'
<1> DEFINE frags(count) == [i \in 1 .. count |-> [msg |-> Len(sent[e]) + 1, frg |-> count - i]]
<1>1. PICK count \in 1 .. MaxFrags :
      /\ sent' = [sent EXCEPT ![e] = Append(@, frags(count))]
      /\ log' = [log EXCEPT ![e] = @ \o frags(count)]
      /\ snd_queue' = [snd_queue EXCEPT ![e] = @ \o frags(count)]
      /\ UNCHANGED <<delivered, snd_buf, snd_una, snd_nxt, rcvVars, wndVars, rx, net>>
  BY DEF Send
<1>2. frags(count) \in Seq(Fragment)
  <2>1. Len(sent[e]) + 1 \in Nat
    BY DEF TypeOK
  <2>2. count \in Nat
    BY KcpAssumption
  <2>3. frags(count) \in [1 .. count -> Fragment]
    BY <2>1, <2>2 DEF Fragment
  <2> QED BY <2>2, <2>3, FunctionIsSeq
<1> HIDE DEF frags
<1>3. sent' \in [Endpoints -> Seq(Seq(Fragment))]
  BY <1>1, <1>2 DEF TypeOK
<1>4. log' \in [Endpoints -> Seq(Fragment)] /\ snd_queue' \in [Endpoints -> Seq(Fragment)]
  BY <1>1, <1>2 DEF TypeOK
<1> QED
  BY <1>1, <1>3, <1>4 DEF TypeOK, rcvVars, wndVars, AreBuffers

\* What is numbered is a fragment of snd_queue.
LEMMA NumberedType ==
  ASSUME TypeOK, NEW e \in Endpoints, NEW n \in Released(e)
  PROVE  /\ DOMAIN Numbered(e, n) \in SUBSET Sn
         /\ Numbered(e, n) \in [DOMAIN Numbered(e, n) -> SndSeg]
<1> DEFINE D == DOMAIN snd_buf[e] \cup {SeqAdd(snd_nxt[e], i) : i \in 0 .. n - 1}
<1>1. n \in 0 .. Len(snd_queue[e]) /\ snd_nxt[e] \in Int
  BY DEF Released, TypeOK, Sn
<1>2. DOMAIN snd_buf[e] \in SUBSET Sn /\ snd_buf[e] \in [DOMAIN snd_buf[e] -> SndSeg]
  BY BufferType DEF TypeOK
<1>3. D \in SUBSET Sn
  BY <1>1, <1>2, SeqAddType
<1>4. ASSUME NEW sn \in D, sn \notin DOMAIN snd_buf[e]
      PROVE  snd_queue[e][CHOOSE i \in 1 .. n : sn = SeqAdd(snd_nxt[e], i - 1)] \in Fragment
  <2>1. PICK j \in 0 .. n - 1 : sn = SeqAdd(snd_nxt[e], j)
    BY <1>4
  <2>2. j + 1 \in 1 .. n /\ (j + 1) - 1 = j
    BY <1>1
  <2>3. \E i \in 1 .. n : sn = SeqAdd(snd_nxt[e], i - 1)
    BY <2>1, <2>2
  <2>4. (CHOOSE i \in 1 .. n : sn = SeqAdd(snd_nxt[e], i - 1)) \in 1 .. n
    BY <2>3
  <2>5. \A i \in 1 .. n : snd_queue[e][i] \in Fragment
    BY <1>1 DEF TypeOK
  <2> QED BY <2>4, <2>5
<1>5. \A data \in Fragment : [data |-> data, xmit |-> 0, fastack |-> 0] \in SndSeg
  BY KcpAssumption DEF SndSeg
<1>6. Numbered(e, n) \in [D -> SndSeg]
  BY <1>2, <1>4, <1>5 DEF Numbered
<1> QED BY <1>3, <1>6

\* Transmitting changes the counters of a segment only.
LEMMA TransmittedType ==
  ASSUME NEW D \in SUBSET Sn, NEW buf \in [D -> SndSeg], NEW due, NEW skipped
  PROVE  Transmitted(buf, due, skipped) \in [D -> SndSeg]
<1>1. \A x \in 0 .. XmitCap : Lesser(x + 1, XmitCap) \in 0 .. XmitCap
  BY KcpAssumption DEF Lesser
<1>2. 0 \in 0 .. FastResend
  BY KcpAssumption
<1> QED BY <1>1, <1>2 DEF Transmitted, SndSeg

\* The segments that are due, in the order of the buffer.
LEMMA InOrderType ==
  ASSUME NEW S \in SUBSET Sn, NEW s \in InOrder(S)
  PROVE  s \in Seq(S)
<1>1. IsFiniteSet(S)
  <2>1. IsFiniteSet(0 .. SeqMod - 1)
    BY FS_Interval, SeqModAssumption
  <2> QED BY <2>1, FS_Subset DEF Sn
<1>2. Cardinality(S) \in Nat
  BY <1>1, FS_CardinalityType
<1>3. s \in [1 .. Cardinality(S) -> S]
  BY DEF InOrder
<1> QED BY <1>2, <1>3, FunctionIsSeq

\* The four commands are segments.
LEMMA SegmentTypes ==
  /\ \A sn \in Sn : Ack(sn) \in Segment
  /\ \A sn \in Sn, data \in Fragment : Push(sn, data) \in Segment
  /\ \A cmd \in {"WASK", "WINS"} : Probe(cmd) \in Segment
<1>1. 0 \in Sn /\ NoData \in Fragment
  BY SeqModAssumption DEF Sn, NoData, Fragment
<1> QED BY <1>1 DEF Ack, Push, Probe, Segment

\* What a flush sends is a sequence of segments.
LEMMA OutgoingType ==
  ASSUME NEW acks \in Seq(Sn), NEW probes,
         NEW D \in SUBSET Sn, NEW buf \in [D -> SndSeg], NEW pushes \in Seq(D)
  PROVE  Outgoing(acks, probes, buf, pushes) \in Seq(Segment)
<1> DEFINE a == [i \in 1 .. Len(acks) |-> Ack(acks[i])]
           w == IF "WASK" \in probes THEN <<Probe("WASK")>> ELSE <<>>
           t == IF "WINS" \in probes THEN <<Probe("WINS")>> ELSE <<>>
           d == [i \in 1 .. Len(pushes) |-> Push(pushes[i], buf[pushes[i]].data)]
<1>1. a \in Seq(Segment)
  <2>1. a \in [1 .. Len(acks) -> Segment]
    BY SegmentTypes, LenProperties
  <2> QED BY <2>1, LenProperties, FunctionIsSeq
<1>2. w \in Seq(Segment) /\ t \in Seq(Segment)
  BY SegmentTypes
<1>3. d \in Seq(Segment)
  <2>1. \A i \in 1 .. Len(pushes) : pushes[i] \in D
    OBVIOUS
  <2>2. \A sn \in D : buf[sn].data \in Fragment
    BY DEF SndSeg
  <2>3. d \in [1 .. Len(pushes) -> Segment]
    BY <2>1, <2>2, SegmentTypes
  <2> QED BY <2>3, FunctionIsSeq
<1>4. Outgoing(acks, probes, buf, pushes) = a \o w \o t \o d
  BY DEF Outgoing
<1> HIDE DEF a, w, t, d
<1> QED BY <1>1, <1>2, <1>3, <1>4

\* The lesser of two integers is one of them.
LEMMA LesserIs ==
  ASSUME NEW a \in Int, NEW b \in Int
  PROVE  Lesser(a, b) \in Int /\ Lesser(a, b) <= a /\ Lesser(a, b) <= b
BY DEF Lesser

\* The last segment of a datagram is one of those that are sent.
LEMMA CutEnd ==
  ASSUME NEW T, NEW segs \in Seq(T), NEW i \in 1 .. Len(segs)
  PROVE  /\ Lesser(i + SegsPerDatagram - 1, Len(segs)) \in Int
         /\ Lesser(i + SegsPerDatagram - 1, Len(segs)) <= Len(segs)
<1>1. SegsPerDatagram \in Nat
  BY KcpAssumption
<1>2. Len(segs) \in Nat
  OBVIOUS
<1>3. i + SegsPerDatagram - 1 \in Int
  BY <1>1, <1>2
<1> QED BY <1>2, <1>3, LesserIs

\* What it is cut into are datagrams.
LEMMA DatagramsType ==
  ASSUME NEW una \in Sn, NEW wnd \in 0 .. RcvWnd, NEW segs \in Seq(Segment)
  PROVE  Datagrams(una, wnd, segs) \subseteq Datagram
<1> SUFFICES ASSUME NEW i \in 1 .. Len(segs)
             PROVE  [una |-> una, wnd |-> wnd,
                     segs |-> SubSeq(segs, i, Lesser(i + SegsPerDatagram - 1, Len(segs)))]
                    \in Datagram
  BY DEF Datagrams
<1>1. /\ Lesser(i + SegsPerDatagram - 1, Len(segs)) \in Int
      /\ Lesser(i + SegsPerDatagram - 1, Len(segs)) <= Len(segs)
  BY CutEnd
<1>2. SubSeq(segs, i, Lesser(i + SegsPerDatagram - 1, Len(segs))) \in Seq(Segment)
  BY <1>1, SubSeqProperties
<1> QED BY <1>2 DEF Datagram

\* The window advertised is never larger than the receive window.
LEMMA WndUnusedType ==
  ASSUME TypeOK, NEW e \in Endpoints
  PROVE  WndUnused(e) \in 0 .. RcvWnd
<1>1. Len(rcv_queue[e]) \in Nat
  BY DEF TypeOK
<1>2. RcvWnd \in Nat
  BY KcpAssumption
<1> QED BY <1>1, <1>2 DEF WndUnused

\* ikcp_update keeps the types.
LEMMA UpdateType ==
  ASSUME TypeOK, NEW e \in Endpoints, Update(e)
  PROVE  TypeOK'
<1>1. PICK expired \in SUBSET (DOMAIN snd_buf[e]), probeExpired \in BOOLEAN :
        Flush(e, expired, probeExpired, TRUE)
  BY DEF Update
<1> DEFINE buf(n)     == Numbered(e, n)
           due(n)     == Due(buf(n), expired)
           skipped(n) == Skipped(buf(n), expired)
           buf2(n)    == Transmitted(buf(n), due(n), skipped(n))
           probes     == ProbesDue(e, probeExpired)
           out(n, pushes) == Outgoing(acklist[e], probes, buf(n), pushes)
<1>2. PICK n \in Released(e) :
      \E pushes \in InOrder(due(n)) :
      \E kept \in SUBSET Datagrams(rcv_nxt[e], WndUnused(e), out(n, pushes)) :
        /\ net' = [net EXCEPT ![Peer(e)] = @ \cup kept]
        /\ snd_queue' = [snd_queue EXCEPT ![e] = SubSeq(@, n + 1, Len(@))]
        /\ snd_nxt' = [snd_nxt EXCEPT ![e] = SeqAdd(@, n)]
        /\ snd_buf' = [snd_buf EXCEPT ![e] = buf2(n)]
        /\ acklist' = [acklist EXCEPT ![e] = <<>>]
        /\ probe' = [probe EXCEPT ![e] = {}]
        /\ probe_wait' = [probe_wait EXCEPT ![e] = (rmt_wnd[e] = 0)]
        /\ state' = [state EXCEPT ![e] =
               IF \E sn \in due(n) : buf2(n)[sn].xmit >= DeadLink THEN -1 ELSE @]
        /\ UNCHANGED <<history, snd_una, rcv_nxt, rcv_buf, rcv_queue, rmt_wnd, rx>>
  BY <1>1 DEF Flush
<1>3. PICK pushes \in InOrder(due(n)) :
      \E kept \in SUBSET Datagrams(rcv_nxt[e], WndUnused(e), out(n, pushes)) :
        net' = [net EXCEPT ![Peer(e)] = @ \cup kept]
  BY <1>2
<1>4. DOMAIN buf(n) \in SUBSET Sn /\ buf(n) \in [DOMAIN buf(n) -> SndSeg]
  BY NumberedType
<1>5. AreBuffers(snd_buf, SndSeg)'
  <2>1. buf2(n) \in [DOMAIN buf(n) -> SndSeg]
    BY <1>4, TransmittedType
  <2>2. AreBuffers([snd_buf EXCEPT ![e] = buf2(n)], SndSeg)
    BY <1>4, <2>1, BufferExcept DEF TypeOK
  <2>3. snd_buf' = [snd_buf EXCEPT ![e] = buf2(n)]
    BY <1>2
  <2> QED BY <2>2, <2>3 DEF AreBuffers
<1>6. \A p \in Endpoints : net'[p] \subseteq Datagram
  <2>1. due(n) \subseteq DOMAIN buf(n)
    BY DEF Due, TimedOut, Skipped
  <2>2. pushes \in Seq(DOMAIN buf(n))
    <3>1. due(n) \in SUBSET Sn
      BY <1>4, <2>1
    <3>2. pushes \in Seq(due(n))
      BY <3>1, InOrderType
    <3> QED BY <2>1, <3>2, SeqMonotonic
  <2>3. acklist[e] \in Seq(Sn) /\ rcv_nxt[e] \in Sn
    BY DEF TypeOK
  <2>4. out(n, pushes) \in Seq(Segment)
    BY <1>4, <2>2, <2>3, OutgoingType
  <2>5. Datagrams(rcv_nxt[e], WndUnused(e), out(n, pushes)) \subseteq Datagram
    BY <2>3, <2>4, WndUnusedType, DatagramsType
  <2> QED BY <1>3, <2>5, PeerType DEF TypeOK
<1>7. snd_queue' \in [Endpoints -> Seq(Fragment)]
  <2>1. n \in 0 .. Len(snd_queue[e]) /\ snd_queue[e] \in Seq(Fragment)
    BY DEF Released, TypeOK
  <2>2. SubSeq(snd_queue[e], n + 1, Len(snd_queue[e])) \in Seq(Fragment)
    BY <2>1, SubSeqProperties
  <2> QED BY <1>2, <2>2 DEF TypeOK
<1>8. snd_nxt' \in [Endpoints -> Sn]
  <2>1. n \in Int /\ snd_nxt[e] \in Int
    BY DEF Released, TypeOK, Sn
  <2>2. SeqAdd(snd_nxt[e], n) \in Sn
    BY <2>1, SeqAddType
  <2> QED BY <1>2, <2>2 DEF TypeOK
<1>9. /\ acklist' \in [Endpoints -> Seq(Sn)]
      /\ probe' \in [Endpoints -> SUBSET {"WASK", "WINS"}]
      /\ probe_wait' \in [Endpoints -> BOOLEAN]
      /\ state' \in [Endpoints -> {0, -1}]
  BY <1>2 DEF TypeOK
<1>10. AreBuffers(rcv_buf, Fragment)' /\ DOMAIN net' = Endpoints
  BY <1>2 DEF TypeOK, AreBuffers
<1> QED
  BY SMTT(20), <1>2, <1>5, <1>6, <1>7, <1>8, <1>9, <1>10 DEF TypeOK, history

\* The network keeps the types.
LEMMA ReceiveType ==
  ASSUME TypeOK, NEW e \in Endpoints, NEW d \in net[e], Receive(e, d)
  PROVE  TypeOK'
<1>1. d \in Datagram
  BY DEF TypeOK
<1>2. 0 \in Sn
  BY SeqModAssumption DEF Sn
<1>3. [busy |-> TRUE, una |-> d.una, wnd |-> d.wnd, segs |-> d.segs,
       flag |-> FALSE, maxack |-> 0] \in Call
  BY <1>1, <1>2 DEF Datagram, Call
<1>4. rx' \in [Endpoints -> Call]
  BY <1>3 DEF Receive, TypeOK
<1>5. DOMAIN net' = Endpoints /\ \A p \in Endpoints : net'[p] \subseteq net[p]
  BY DEF Receive, TypeOK
<1> QED
  BY <1>4, <1>5 DEF Receive, TypeOK, history, sndVars, rcvVars, wndVars, AreBuffers

\* A datagram is lost.
LEMMA LoseType ==
  ASSUME TypeOK, NEW e \in Endpoints, NEW d \in net[e], Lose(e, d)
  PROVE  TypeOK'
<1>1. DOMAIN net' = Endpoints /\ \A p \in Endpoints : net'[p] \subseteq net[p]
  BY DEF Lose, TypeOK
<1> QED
  BY <1>1 DEF Lose, TypeOK, history, sndVars, rcvVars, wndVars, AreBuffers

\* Moving segments from rcv_buf to rcv_queue.
LEMMA MoveReadyType ==
  ASSUME TypeOK, NEW e \in Endpoints, NEW D \in SUBSET Sn, NEW buf \in [D -> Fragment],
         NEW queue \in Seq(Fragment), MoveReady(e, buf, queue)
  PROVE  /\ rcv_queue' \in [Endpoints -> Seq(Fragment)]
         /\ AreBuffers(rcv_buf', Fragment)
         /\ rcv_nxt' \in [Endpoints -> Sn]
<1> DEFINE next(n)  == [i \in 1 .. n |-> buf[SeqAdd(rcv_nxt[e], i - 1)]]
           moved(n) == {SeqAdd(rcv_nxt[e], i) : i \in 0 .. n - 1}
           rest(n)  == [sn \in D \ moved(n) |-> buf[sn]]
<1>1. PICK n \in Ready(buf, rcv_nxt[e], Len(queue)) :
        /\ rcv_queue' = [rcv_queue EXCEPT ![e] = queue \o next(n)]
        /\ rcv_buf' = [rcv_buf EXCEPT ![e] = rest(n)]
        /\ rcv_nxt' = [rcv_nxt EXCEPT ![e] = SeqAdd(@, n)]
  BY DEF MoveReady
<1>2. /\ n \in Nat
      /\ \A i \in 0 .. n - 1 : SeqAdd(rcv_nxt[e], i) \in D
  BY KcpAssumption DEF Ready
<1>3. next(n) \in Seq(Fragment)
  <2>1. \A i \in 1 .. n : i - 1 \in 0 .. n - 1
    BY <1>2
  <2>2. next(n) \in [1 .. n -> Fragment]
    BY <1>2, <2>1
  <2> QED BY <1>2, <2>2, FunctionIsSeq
<1>4. rcv_queue' \in [Endpoints -> Seq(Fragment)]
  <2> HIDE DEF next
  <2> QED BY <1>1, <1>3 DEF TypeOK
<1>5. AreBuffers(rcv_buf', Fragment)
  <2>1. D \ moved(n) \in SUBSET Sn /\ rest(n) \in [D \ moved(n) -> Fragment]
    OBVIOUS
  <2>2. AreBuffers([rcv_buf EXCEPT ![e] = rest(n)], Fragment)
    <3> HIDE DEF rest, moved
    <3> QED BY <2>1, BufferExcept DEF TypeOK
  <2> QED BY <1>1, <2>2
<1>6. rcv_nxt' \in [Endpoints -> Sn]
  <2>1. SeqAdd(rcv_nxt[e], n) \in Sn
    <3>1. rcv_nxt[e] \in Int /\ n \in Int
      BY <1>2 DEF TypeOK, Sn
    <3> QED BY <3>1, SeqAddType
  <2> QED BY <1>1, <2>1 DEF TypeOK
<1> QED BY <1>4, <1>5, <1>6

\* ikcp_recv keeps the types.
LEMMA RecvType ==
  ASSUME TypeOK, NEW e \in Endpoints, Recv(e)
  PROVE  TypeOK'
<1>1. PICK n \in Merged(rcv_queue[e]) :
        /\ delivered' = [delivered EXCEPT ![e] = Append(@, SubSeq(rcv_queue[e], 1, n))]
        /\ MoveReady(e, rcv_buf[e], SubSeq(rcv_queue[e], n + 1, Len(rcv_queue[e])))
        /\ probe' = IF Len(rcv_queue[e]) >= RcvWnd /\ Len(rcv_queue'[e]) < RcvWnd
                      THEN [probe EXCEPT ![e] = @ \cup {"WINS"}] ELSE probe
  BY DEF Recv
<1>2. n \in 1 .. Len(rcv_queue[e]) /\ rcv_queue[e] \in Seq(Fragment)
  BY DEF Merged, TypeOK
<1>3. SubSeq(rcv_queue[e], 1, n) \in Seq(Fragment)
  BY <1>2, SubSeqProperties
<1>4. SubSeq(rcv_queue[e], n + 1, Len(rcv_queue[e])) \in Seq(Fragment)
  BY <1>2, SubSeqProperties
<1>5. delivered' \in [Endpoints -> Seq(Seq(Fragment))]
  BY <1>1, <1>3 DEF TypeOK
<1>6. DOMAIN rcv_buf[e] \in SUBSET Sn /\ rcv_buf[e] \in [DOMAIN rcv_buf[e] -> Fragment]
  BY BufferType DEF TypeOK
<1>7. /\ rcv_queue' \in [Endpoints -> Seq(Fragment)]
      /\ AreBuffers(rcv_buf', Fragment)
      /\ rcv_nxt' \in [Endpoints -> Sn]
  BY <1>1, <1>4, <1>6, MoveReadyType
<1>8. probe' \in [Endpoints -> SUBSET {"WASK", "WINS"}]
  BY <1>1 DEF TypeOK
<1> QED
  BY <1>5, <1>7, <1>8 DEF Recv, TypeOK, sndVars, AreBuffers

\* ikcp_parse_una keeps a part of the buffer.
LEMMA ParseUnaType ==
  ASSUME NEW D \in SUBSET Sn, NEW buf \in [D -> SndSeg], NEW una
  PROVE  /\ DOMAIN ParseUna(buf, una) \subseteq D
         /\ ParseUna(buf, una) \in [DOMAIN ParseUna(buf, una) -> SndSeg]
  BY DEF ParseUna

\* The part of RxSegment that does not depend on the command.
LEMMA RxUnaType ==
  ASSUME TypeOK, NEW e \in Endpoints, rx[e].segs # <<>>, RxUna(e)
  PROVE  /\ AreBuffers(snd_buf', SndSeg)
         /\ snd_una' \in [Endpoints -> Sn]
         /\ rx' \in [Endpoints -> Call]
<1> DEFINE buf == ParseUna(snd_buf[e], rx[e].una)
<1>1. DOMAIN snd_buf[e] \in SUBSET Sn /\ snd_buf[e] \in [DOMAIN snd_buf[e] -> SndSeg]
  BY BufferType DEF TypeOK
<1>2. DOMAIN buf \in SUBSET Sn /\ buf \in [DOMAIN buf -> SndSeg]
  BY <1>1, ParseUnaType
<1>3. PICK u \in ShrinkBuf(buf, snd_nxt[e]) : snd_una' = [snd_una EXCEPT ![e] = u]
  BY DEF RxUna
<1>4. u \in Sn
  BY <1>2, <1>3 DEF ShrinkBuf, TypeOK
<1>5. snd_una' \in [Endpoints -> Sn]
  BY <1>3, <1>4 DEF TypeOK
<1>6. AreBuffers(snd_buf', SndSeg)
  <2>1. AreBuffers([snd_buf EXCEPT ![e] = buf], SndSeg)
    BY <1>2, BufferExcept DEF TypeOK
  <2> QED BY <2>1 DEF RxUna
<1>7. rx' \in [Endpoints -> Call]
  <2>1. rx[e] \in Call
    BY DEF TypeOK
  <2>2. Tail(rx[e].segs) \in Seq(Segment)
    BY <2>1, HeadTailProperties DEF Call
  <2> QED BY <2>1, <2>2 DEF RxUna, RxNext, TypeOK, Call
<1> QED BY <1>5, <1>6, <1>7

\* An ACK keeps the types.
LEMMA RxAckType ==
  ASSUME TypeOK, NEW e \in Endpoints, rx[e].segs # <<>>, RxAck(e)
  PROVE  /\ AreBuffers(snd_buf', SndSeg)
         /\ snd_una' \in [Endpoints -> Sn]
         /\ rx' \in [Endpoints -> Call]
<1> DEFINE sn == Head(rx[e].segs).sn
           buf1 == ParseUna(snd_buf[e], rx[e].una)
           buf2(una) == ParseAck(buf1, una, snd_nxt[e], sn)
<1>1. DOMAIN snd_buf[e] \in SUBSET Sn /\ snd_buf[e] \in [DOMAIN snd_buf[e] -> SndSeg]
  BY BufferType DEF TypeOK
<1>2. DOMAIN buf1 \in SUBSET Sn /\ buf1 \in [DOMAIN buf1 -> SndSeg]
  BY <1>1, ParseUnaType
<1>3. PICK una \in ShrinkBuf(buf1, snd_nxt[e]) :
        /\ snd_buf' = [snd_buf EXCEPT ![e] = buf2(una)]
        /\ \E u \in ShrinkBuf(buf2(una), snd_nxt[e]) : snd_una' = [snd_una EXCEPT ![e] = u]
  BY DEF RxAck
<1>4. DOMAIN buf2(una) \in SUBSET Sn /\ buf2(una) \in [DOMAIN buf2(una) -> SndSeg]
  <2> HIDE DEF buf1
  <2> QED BY <1>2 DEF ParseAck
<1>5. snd_una' \in [Endpoints -> Sn]
  <2> HIDE DEF buf2
  <2>1. PICK u \in ShrinkBuf(buf2(una), snd_nxt[e]) : snd_una' = [snd_una EXCEPT ![e] = u]
    BY <1>3
  <2>2. u \in Sn
    BY <1>4, <2>1 DEF ShrinkBuf, TypeOK
  <2> QED BY <2>1, <2>2 DEF TypeOK
<1>6. AreBuffers(snd_buf', SndSeg)
  <2> HIDE DEF buf2
  <2>1. AreBuffers([snd_buf EXCEPT ![e] = buf2(una)], SndSeg)
    BY <1>4, BufferExcept DEF TypeOK
  <2> QED BY <1>3, <2>1
<1>7. rx' \in [Endpoints -> Call]
  <2>1. rx[e] \in Call
    BY DEF TypeOK
  <2>2. Tail(rx[e].segs) \in Seq(Segment) /\ Head(rx[e].segs) \in Segment
    BY <2>1, HeadTailProperties DEF Call
  <2>3. sn \in Sn
    BY <2>2 DEF Segment
  <2>4. RxNext(e) \in [Endpoints -> Call]
    BY <2>1, <2>2 DEF RxNext, TypeOK, Call
  <2> DEFINE flagged == [RxNext(e) EXCEPT ![e].flag = TRUE]
             maxack(m) == IF ~ rx[e].flag \/ Diff(sn, m) > 0 THEN sn ELSE m
  <2>5. flagged \in [Endpoints -> Call]
    BY <2>4 DEF Call
  <2>6. rx' = [flagged EXCEPT ![e].maxack = maxack(@)]
    BY DEF RxAck
  <2>7. \A m \in Sn : maxack(m) \in Sn
    BY <2>3
  <2>8. flagged[e] \in Call
    BY <2>5
  <2> HIDE DEF flagged, maxack
  <2> QED BY <2>5, <2>6, <2>7, <2>8 DEF Call
<1> QED BY <1>5, <1>6, <1>7

\* A PUSH keeps the types.
LEMMA RxPushType ==
  ASSUME TypeOK, NEW e \in Endpoints, rx[e].segs # <<>>, RxPush(e)
  PROVE  /\ rcv_queue' \in [Endpoints -> Seq(Fragment)]
         /\ AreBuffers(rcv_buf', Fragment)
         /\ rcv_nxt' \in [Endpoints -> Sn]
         /\ acklist' \in [Endpoints -> Seq(Sn)]
<1> DEFINE seg == Head(rx[e].segs)
<1>1. seg.sn \in Sn /\ seg.data \in Fragment
  <2>1. rx[e].segs \in Seq(Segment)
    BY DEF TypeOK, Call
  <2>2. seg \in Segment
    BY <2>1, HeadTailProperties
  <2> QED BY <2>2 DEF Segment
<1>2. acklist' \in [Endpoints -> Seq(Sn)]
  BY <1>1 DEF RxPush, AckPush, TypeOK
<1>3. CASE ParseData(e, seg.sn, seg.data)
  <2> DEFINE D == DOMAIN rcv_buf[e] \cup {seg.sn}
             buf == [s \in D |-> IF s \in DOMAIN rcv_buf[e] THEN rcv_buf[e][s] ELSE seg.data]
  <2>1. DOMAIN rcv_buf[e] \in SUBSET Sn /\ rcv_buf[e] \in [DOMAIN rcv_buf[e] -> Fragment]
    BY BufferType DEF TypeOK
  <2>2. D \in SUBSET Sn /\ buf \in [D -> Fragment]
    BY <1>1, <2>1
  <2>3. MoveReady(e, buf, rcv_queue[e])
    BY <1>3 DEF ParseData
  <2>4. rcv_queue[e] \in Seq(Fragment)
    BY DEF TypeOK
  <2> HIDE DEF D, buf
  <2> QED BY <1>2, <2>2, <2>3, <2>4, MoveReadyType
<1>4. CASE UNCHANGED <<rcv_nxt, rcv_buf, rcv_queue>>
  BY <1>2, <1>4 DEF TypeOK, AreBuffers
<1> QED BY <1>3, <1>4 DEF RxPush

\* An iteration of ikcp_input keeps the types.
LEMMA RxSegmentType ==
  ASSUME TypeOK, NEW e \in Endpoints, RxSegment(e)
  PROVE  TypeOK'
<1>1. rx[e].segs # <<>>
  BY DEF RxSegment
<1>2. rmt_wnd' \in [Endpoints -> 0 .. RcvWnd]
  BY DEF RxSegment, TypeOK, Call
<1>3. CASE RxAck(e)
  <2>1. /\ AreBuffers(snd_buf', SndSeg)
        /\ snd_una' \in [Endpoints -> Sn]
        /\ rx' \in [Endpoints -> Call]
    BY <1>1, <1>3, RxAckType
  <2>2. UNCHANGED <<rcvVars, probe>>
    BY <1>3 DEF RxAck
  <2> QED BY <1>2, <2>1, <2>2 DEF RxSegment, TypeOK, history, rcvVars, AreBuffers
<1>4. CASE RxPush(e)
  <2>1. /\ AreBuffers(snd_buf', SndSeg)
        /\ snd_una' \in [Endpoints -> Sn]
        /\ rx' \in [Endpoints -> Call]
    BY <1>1, <1>4, RxUnaType DEF RxPush
  <2>2. UNCHANGED probe
    BY <1>4 DEF RxPush
  <2>3. /\ rcv_queue' \in [Endpoints -> Seq(Fragment)]
        /\ AreBuffers(rcv_buf', Fragment)
        /\ rcv_nxt' \in [Endpoints -> Sn]
        /\ acklist' \in [Endpoints -> Seq(Sn)]
    BY <1>1, <1>4, RxPushType
  <2> QED BY <1>2, <2>1, <2>2, <2>3 DEF RxSegment, TypeOK, history, AreBuffers
<1>5. CASE RxProbe(e)
  <2>1. /\ AreBuffers(snd_buf', SndSeg)
        /\ snd_una' \in [Endpoints -> Sn]
        /\ rx' \in [Endpoints -> Call]
    BY <1>1, <1>5, RxUnaType DEF RxProbe
  <2>2. probe' \in [Endpoints -> SUBSET {"WASK", "WINS"}] /\ UNCHANGED rcvVars
    BY <1>5 DEF RxProbe, TypeOK
  <2> QED BY <1>2, <2>1, <2>2 DEF RxSegment, TypeOK, history, rcvVars, AreBuffers
<1> QED BY <1>3, <1>4, <1>5 DEF RxSegment

\* The end of ikcp_input keeps the types.
LEMMA RxEndType ==
  ASSUME TypeOK, NEW e \in Endpoints, RxEnd(e)
  PROVE  TypeOK'
<1> DEFINE buf == ParseFastack(snd_buf[e], rx[e].maxack)
<1>1. DOMAIN snd_buf[e] \in SUBSET Sn /\ snd_buf[e] \in [DOMAIN snd_buf[e] -> SndSeg]
  BY BufferType DEF TypeOK
<1>2. \A seg \in SndSeg :
        [seg EXCEPT !.fastack = Lesser(@ + 1, FastResend)] \in SndSeg
  BY KcpAssumption DEF SndSeg, Lesser
<1>3. buf \in [DOMAIN snd_buf[e] -> SndSeg]
  BY <1>1, <1>2 DEF ParseFastack
<1>4. snd_buf' \in {[snd_buf EXCEPT ![e] = buf], snd_buf}
  BY DEF RxEnd
<1>5. AreBuffers(snd_buf', SndSeg)
  <2> HIDE DEF buf
  <2>1. AreBuffers(snd_buf, SndSeg)
    BY DEF TypeOK
  <2>2. AreBuffers([snd_buf EXCEPT ![e] = buf], SndSeg)
    BY <1>1, <1>3, <2>1, BufferExcept
  <2> QED BY <1>4, <2>1, <2>2
<1>6. rx' \in [Endpoints -> Call]
  <2>1. Idle \in Call
    BY KcpAssumption, SeqModAssumption DEF Idle, Call, Sn
  <2> QED BY <2>1 DEF RxEnd, TypeOK
<1> QED
  BY <1>5, <1>6 DEF RxEnd, TypeOK, history, rcvVars, wndVars, AreBuffers

\* Every step of the system preserves the types.
LEMMA NextType == TypeOK /\ [Next]_vars => TypeOK'
<1> SUFFICES ASSUME TypeOK, [Next]_vars PROVE TypeOK'
  OBVIOUS
<1>1. CASE UNCHANGED vars
  BY <1>1 DEF TypeOK, AreBuffers, vars, history, sndVars, rcvVars, wndVars
<1>2. CASE Next
  BY <1>2, SendType, UpdateType, ReceiveType, LoseType, RxSegmentType, RxEndType, RecvType
     DEF Next
<1> QED BY <1>1, <1>2

\* Every variable of the protocol keeps its type: sequence numbers stay in range
\* and no message, buffer or datagram ever holds anything but segments, for any
\* windows, mtu, message size and behaviour of the network.
THEOREM TypeCorrect == Spec => []TypeOK
BY InitType, NextType, PTL DEF Spec
----------------------------------------------------------------------------
(* Delivery, in a session whose numbers do not wrap around.  s is the end    *)
(* that sends, r the other one.  The invariant says of every copy of a       *)
(* fragment, wherever it is, at which position of the stream it belongs, and *)
(* that what r acknowledges it holds.                                        *)

\* No end numbers more than half a turn of fragments, less a window: 2^31 in the code, some
\* terabytes.  What wraps around is left to TLC (kcp_wrap).
ShortSession == \A e \in Endpoints : 2 * (MaxSegs[e] + RcvWnd) < SeqMod

\* The fragments of message m begin behind position pos of the log.
BeginsAt(s, pos, m) ==
  IF pos = Len(log[s]) THEN m = Len(sent[s]) + 1
  ELSE /\ m <= Len(sent[s])
       /\ log[s][pos + 1] = [msg |-> m, frg |-> Len(sent[s][m]) - 1]

\* The fragments of a message count down; it is shorter than the receive window.
Cut(s) ==
  \A m \in 1 .. Len(sent[s]) :
    /\ Len(sent[s][m]) \in 1 .. RcvWnd - 1
    /\ \A i \in 1 .. Len(sent[s][m]) :
         sent[s][m][i] = [msg |-> m, frg |-> Len(sent[s][m]) - i]

\* Where a message begins in the log the whole of it follows, and then the next one.
Follows(s, pos, m) ==
  /\ pos + Len(sent[s][m]) <= Len(log[s])
  /\ \A i \in 1 .. Len(sent[s][m]) : log[s][pos + i] = sent[s][m][i]
  /\ BeginsAt(s, pos + Len(sent[s][m]), m + 1)

Joined(s) ==
  /\ Len(log[s]) <= MaxSegs[s]
  /\ \A i \in 1 .. Len(log[s]) : log[s][i].msg <= Len(sent[s])
  /\ \A pos \in 0 .. Len(log[s]), m \in 1 .. Len(sent[s]) :
       BeginsAt(s, pos, m) => Follows(s, pos, m)

\* snd_queue is the part of the log that is not numbered.
Queued(s) ==
  /\ snd_nxt[s] + Len(snd_queue[s]) = Len(log[s])
  /\ \A i \in 1 .. Len(snd_queue[s]) : snd_queue[s][i] = log[s][snd_nxt[s] + i]

\* Segment sn carries fragment sn of the log, counted from 0.
Carries(s, sn, data) == sn < snd_nxt[s] /\ data = log[s][sn + 1]

Buffered(s) ==
  /\ snd_una[s] <= snd_nxt[s]
  /\ \A sn \in DOMAIN snd_buf[s] : snd_una[s] <= sn /\ Carries(s, sn, snd_buf[s][sn].data)

\* An end has received segment sn.
Holds(e, sn) == sn < rcv_nxt[e] \/ sn \in DOMAIN rcv_buf[e]

\* A segment of s is true: the data is that of the number, and what is acknowledged was received.
SegOK(s, seg) ==
  /\ seg.cmd = "PUSH" => Carries(s, seg.sn, seg.data)
  /\ seg.cmd = "ACK" => Holds(s, seg.sn)

Sound(s, una, segs) == una <= rcv_nxt[s] /\ \A i \in 1 .. Len(segs) : SegOK(s, segs[i])

OnTheWay(s, r) ==
  /\ \A d \in net[r] : Sound(s, d.una, d.segs)
  /\ Sound(s, rx[r].una, rx[r].segs)
  /\ \A i \in 1 .. Len(acklist[s]) : Holds(s, acklist[s][i])

\* What r has not received is in snd_buf.
Kept(s, r) == \A sn \in 0 .. snd_nxt[s] - 1 : Holds(r, sn) \/ sn \in DOMAIN snd_buf[s]

\* r holds what s has sent, inside the window.
Held(s, r) ==
  /\ rcv_nxt[r] <= snd_nxt[s]
  /\ \A sn \in DOMAIN rcv_buf[r] :
       /\ rcv_nxt[r] <= sn /\ sn < rcv_nxt[r] + RcvWnd
       /\ Carries(s, sn, rcv_buf[r][sn])
  /\ Len(rcv_queue[r]) <= RcvWnd /\ Len(rcv_queue[r]) <= rcv_nxt[r]
  /\ \A i \in 1 .. Len(rcv_queue[r]) :
       rcv_queue[r][i] = log[s][rcv_nxt[r] - Len(rcv_queue[r]) + i]

\* The messages delivered are the first ones; rcv_queue begins with the next.
Read(s, r) ==
  /\ \A m \in 1 .. Len(delivered[r]) : delivered[r][m] = sent[s][m]
  /\ Len(delivered[r]) <= Len(sent[s])
  /\ BeginsAt(s, rcv_nxt[r] - Len(rcv_queue[r]), Len(delivered[r]) + 1)

Flow(s, r) ==
  /\ Cut(s) /\ Joined(s) /\ Queued(s) /\ Buffered(s)
  /\ OnTheWay(s, r) /\ Kept(s, r) /\ Held(s, r) /\ Read(s, r)

FlowInv == \A s \in Endpoints : Flow(s, Peer(s))
----------------------------------------------------------------------------
\* The peer of the peer of an end is that end.
LEMMA PeerTwice == \A e \in Endpoints : Peer(Peer(e)) = e
  BY PeerType, KcpAssumption

\* The types of what an end keeps, where a proof needs no more.
LEMMA Kinds ==
  ASSUME TypeOK, NEW e \in Endpoints
  PROVE  /\ sent[e] \in Seq(Seq(Fragment)) /\ delivered[e] \in Seq(Seq(Fragment))
         /\ log[e] \in Seq(Fragment) /\ snd_queue[e] \in Seq(Fragment)
         /\ rcv_queue[e] \in Seq(Fragment) /\ acklist[e] \in Seq(Sn)
         /\ Len(sent[e]) \in Nat /\ Len(delivered[e]) \in Nat /\ Len(log[e]) \in Nat
         /\ Len(snd_queue[e]) \in Nat /\ Len(rcv_queue[e]) \in Nat
         /\ snd_una[e] \in Nat /\ snd_nxt[e] \in Nat /\ rcv_nxt[e] \in Nat
         /\ DOMAIN snd_buf[e] \in SUBSET Nat /\ DOMAIN rcv_buf[e] \in SUBSET Nat
         /\ RcvWnd \in Nat /\ RcvWnd > 0 /\ MaxSegs[e] \in Nat
<1>1. Sn \subseteq Nat
  BY SeqModAssumption DEF Sn
<1>2. /\ sent[e] \in Seq(Seq(Fragment)) /\ delivered[e] \in Seq(Seq(Fragment))
      /\ log[e] \in Seq(Fragment) /\ snd_queue[e] \in Seq(Fragment)
      /\ rcv_queue[e] \in Seq(Fragment) /\ acklist[e] \in Seq(Sn)
      /\ snd_una[e] \in Sn /\ snd_nxt[e] \in Sn /\ rcv_nxt[e] \in Sn
  BY DEF TypeOK
<1>3. DOMAIN snd_buf[e] \subseteq Sn /\ DOMAIN rcv_buf[e] \subseteq Sn
  BY DEF TypeOK, AreBuffers
<1>4. RcvWnd \in Nat /\ RcvWnd > 0 /\ MaxSegs[e] \in Nat
  BY KcpAssumption
<1> QED BY <1>1, <1>2, <1>3, <1>4, LenProperties

\* A message of count fragments was added to sent, log and snd_queue.
Sends(e, count) ==
  /\ Len(sent'[e]) = Len(sent[e]) + 1
  /\ \A m \in 1 .. Len(sent[e]) : sent'[e][m] = sent[e][m]
  /\ Len(sent'[e][Len(sent[e]) + 1]) = count
  /\ \A i \in 1 .. count :
       sent'[e][Len(sent[e]) + 1][i] = [msg |-> Len(sent[e]) + 1, frg |-> count - i]
  /\ Len(log'[e]) = Len(log[e]) + count
  /\ Len(log'[e]) <= MaxSegs[e]
  /\ \A i \in 1 .. Len(log[e]) : log'[e][i] = log[e][i]
  /\ \A i \in 1 .. count :
       log'[e][Len(log[e]) + i] = [msg |-> Len(sent[e]) + 1, frg |-> count - i]
  /\ Len(snd_queue'[e]) = Len(snd_queue[e]) + count
  /\ \A i \in 1 .. Len(snd_queue[e]) : snd_queue'[e][i] = snd_queue[e][i]
  /\ \A i \in 1 .. count :
       snd_queue'[e][Len(snd_queue[e]) + i] = [msg |-> Len(sent[e]) + 1, frg |-> count - i]

\* What ikcp_send changes.
LEMMA SendEffect ==
  ASSUME TypeOK, NEW e \in Endpoints, Send(e)
  PROVE  \E count \in 1 .. RcvWnd - 1 : Sends(e, count)
<1> DEFINE M == Len(sent[e]) + 1
           frags(count) == [i \in 1 .. count |-> [msg |-> M, frg |-> count - i]]
<1>1. PICK count \in 1 .. MaxFrags :
      /\ count < RcvWnd
      /\ Len(log[e]) + count <= MaxSegs[e]
      /\ sent' = [sent EXCEPT ![e] = Append(@, frags(count))]
      /\ log' = [log EXCEPT ![e] = @ \o frags(count)]
      /\ snd_queue' = [snd_queue EXCEPT ![e] = @ \o frags(count)]
  BY DEF Send
<1>2. /\ sent[e] \in Seq(Seq(Fragment)) /\ log[e] \in Seq(Fragment)
      /\ snd_queue[e] \in Seq(Fragment) /\ M \in Nat
  BY DEF TypeOK
<1>3. count \in Nat /\ count \in 1 .. RcvWnd - 1
  BY <1>1, KcpAssumption
<1>4. frags(count) \in Seq(Fragment) /\ Len(frags(count)) = count
  <2>1. frags(count) \in [1 .. count -> Fragment]
    BY <1>2, <1>3 DEF Fragment
  <2> QED BY <1>3, <2>1, FunctionIsSeq
<1>5. \A i \in 1 .. count : frags(count)[i] = [msg |-> M, frg |-> count - i]
  OBVIOUS
<1> HIDE DEF frags
<1>6. /\ sent'[e] = Append(sent[e], frags(count))
      /\ log'[e] = log[e] \o frags(count)
      /\ snd_queue'[e] = snd_queue[e] \o frags(count)
  BY <1>1 DEF TypeOK
<1>7. ASSUME NEW q \in Seq(Fragment)
      PROVE  /\ Len(q \o frags(count)) = Len(q) + count
             /\ \A i \in 1 .. Len(q) : (q \o frags(count))[i] = q[i]
             /\ \A i \in 1 .. count : (q \o frags(count))[Len(q) + i] = frags(count)[i]
  BY <1>3, <1>4, ConcatProperties
<1>8. /\ Len(sent'[e]) = M /\ sent'[e][M] = frags(count)
      /\ \A m \in 1 .. M - 1 : sent'[e][m] = sent[e][m]
  BY <1>2, <1>4, <1>6, AppendProperties
<1>9. /\ Len(log'[e]) = Len(log[e]) + count
      /\ \A i \in 1 .. Len(log[e]) : log'[e][i] = log[e][i]
      /\ \A i \in 1 .. count : log'[e][Len(log[e]) + i] = frags(count)[i]
  BY <1>2, <1>6, <1>7
<1>10. /\ Len(snd_queue'[e]) = Len(snd_queue[e]) + count
       /\ \A i \in 1 .. Len(snd_queue[e]) : snd_queue'[e][i] = snd_queue[e][i]
       /\ \A i \in 1 .. count : snd_queue'[e][Len(snd_queue[e]) + i] = frags(count)[i]
  BY <1>2, <1>6, <1>7
<1>11. \A m \in 1 .. Len(sent[e]) : m \in 1 .. M - 1
  BY <1>2
<1>12. Len(log'[e]) <= MaxSegs[e]
  BY <1>1, <1>9
<1>13. Sends(e, count)
  BY <1>4, <1>5, <1>8, <1>9, <1>10, <1>11, <1>12 DEF Sends
<1> QED BY <1>3, <1>13

\* The beginning of a message stays where it is when another one is added.
LEMMA BeginsKept ==
  ASSUME TypeOK, NEW e \in Endpoints, NEW count \in 1 .. RcvWnd - 1, Sends(e, count),
         NEW pos \in 0 .. Len(log[e]), NEW m \in Nat \ {0}, BeginsAt(e, pos, m)
  PROVE  BeginsAt(e, pos, m)'
<1>1. /\ Len(log[e]) \in Nat /\ Len(sent[e]) \in Nat /\ count \in Nat /\ count >= 1
      /\ pos \in Nat
  BY Kinds
<1>2. CASE pos = Len(log[e])
  <2>1. m = Len(sent[e]) + 1
    BY <1>2 DEF BeginsAt
  <2>2. pos # Len(log'[e]) /\ m <= Len(sent'[e]) /\ Len(sent'[e][m]) = count
    BY <1>1, <1>2, <2>1 DEF Sends
  <2>3. 1 \in 1 .. count
    BY <1>1
  <2>4. log'[e][pos + 1] = [msg |-> m, frg |-> count - 1]
    BY <1>2, <2>1, <2>3 DEF Sends
  <2> QED BY <2>2, <2>4 DEF BeginsAt
<1>3. CASE pos # Len(log[e])
  <2>1. /\ m <= Len(sent[e])
        /\ log[e][pos + 1] = [msg |-> m, frg |-> Len(sent[e][m]) - 1]
    BY <1>3 DEF BeginsAt
  <2>2. pos + 1 \in 1 .. Len(log[e]) /\ m \in 1 .. Len(sent[e])
    BY <1>1, <1>3, <2>1
  <2>3. log'[e][pos + 1] = log[e][pos + 1] /\ sent'[e][m] = sent[e][m]
    BY <2>2 DEF Sends
  <2>4. pos # Len(log'[e]) /\ m <= Len(sent'[e])
    BY SMTT(20), <1>1, <2>1, <2>2 DEF Sends
  <2> QED BY <2>1, <2>3, <2>4 DEF BeginsAt
<1> QED BY <1>2, <1>3

\* The messages are cut as they should, and follow one another in the log.
LEMMA SendJoined ==
  ASSUME TypeOK, NEW e \in Endpoints, NEW count \in 1 .. RcvWnd - 1, Sends(e, count),
         Cut(e), Joined(e)
  PROVE  Cut(e)' /\ Joined(e)'
<1>0. PICK L \in Nat, M \in Nat : L = Len(log[e]) /\ M = Len(sent[e]) + 1
  <2>1. Len(sent[e]) \in Nat /\ Len(log[e]) \in Nat
    BY Kinds
  <2> QED BY <2>1
<1>1. L \in Nat /\ M \in Nat /\ M >= 1 /\ count \in Nat /\ count >= 1 /\ Len(sent[e]) = M - 1
  BY <1>0, Kinds
<1>2. \A m \in 1 .. M : m \in 1 .. Len(sent[e]) \/ m = M
  BY <1>1
<1>3. /\ Len(log'[e]) = L + count /\ Len(sent'[e]) = M
      /\ Len(sent'[e][M]) = count
      /\ \A i \in 1 .. count : sent'[e][M][i] = [msg |-> M, frg |-> count - i]
      /\ \A i \in 1 .. count : log'[e][L + i] = [msg |-> M, frg |-> count - i]
      /\ \A i \in 1 .. L : log'[e][i] = log[e][i]
      /\ \A m \in 1 .. Len(sent[e]) : sent'[e][m] = sent[e][m]
      /\ Len(log'[e]) <= MaxSegs[e]
  BY <1>0 DEF Sends
<1>4. Cut(e)'
  <2> SUFFICES ASSUME NEW m \in 1 .. M
               PROVE  /\ Len(sent'[e][m]) \in 1 .. RcvWnd - 1
                      /\ \A i \in 1 .. Len(sent'[e][m]) :
                           sent'[e][m][i] = [msg |-> m, frg |-> Len(sent'[e][m]) - i]
    BY <1>3 DEF Cut
  <2>1. CASE m = M
    BY <1>3, <2>1
  <2>2. CASE m \in 1 .. Len(sent[e])
    <3>1. /\ Len(sent[e][m]) \in 1 .. RcvWnd - 1
          /\ \A i \in 1 .. Len(sent[e][m]) :
               sent[e][m][i] = [msg |-> m, frg |-> Len(sent[e][m]) - i]
      BY <2>2 DEF Cut
    <3>2. sent'[e][m] = sent[e][m]
      BY <1>3, <2>2
    <3> QED BY <3>1, <3>2
  <2> QED BY <1>2, <2>1, <2>2
<1>5. \A i \in 1 .. L + count : i \in 1 .. L \/ (i - L \in 1 .. count /\ i = L + (i - L))
  BY <1>1
<1>6. ASSUME NEW i \in 1 .. L + count PROVE log'[e][i].msg <= M
  <2>1. CASE i \in 1 .. L
    <3>1. log[e][i].msg <= Len(sent[e]) /\ log[e][i].msg \in Nat
      <4>1. log[e] \in Seq(Fragment)
        BY Kinds
      <4>2. log[e][i] \in Fragment
        BY <1>0, <2>1, <4>1
      <4>3. log[e][i].msg <= Len(sent[e])
        BY <1>0, <2>1 DEF Joined
      <4> QED BY <4>2, <4>3 DEF Fragment
    <3>2. log'[e][i] = log[e][i]
      BY <1>3, <2>1
    <3>3. \A k \in Nat : k <= M - 1 => k <= M
      BY <1>1
    <3> QED BY <1>1, <3>1, <3>2, <3>3
  <2>2. CASE i - L \in 1 .. count /\ i = L + (i - L)
    <3>1. log'[e][i] = [msg |-> M, frg |-> count - (i - L)]
      BY <1>3, <2>2
    <3> QED BY <1>1, <3>1
  <2> QED BY <1>5, <2>1, <2>2
<1>7. ASSUME NEW pos \in 0 .. L + count, NEW m \in 1 .. M, BeginsAt(e, pos, m)'
      PROVE  Follows(e, pos, m)'
  <2>1. /\ pos # L + count
        /\ log'[e][pos + 1] = [msg |-> m, frg |-> Len(sent'[e][m]) - 1]
    <3>1. pos # Len(log'[e])
      BY <1>1, <1>3, <1>7 DEF BeginsAt
    <3> QED BY <1>3, <1>7, <3>1 DEF BeginsAt
  <2>2. CASE pos < L
    <3>1. pos + 1 \in 1 .. L /\ pos \in 0 .. Len(log[e])
      BY <1>0, <1>1, <2>2
    <3>2. log[e][pos + 1] = [msg |-> m, frg |-> Len(sent'[e][m]) - 1]
      BY <1>3, <2>1, <3>1
    <3>3. m <= Len(sent[e])
      BY <1>0, <3>1, <3>2 DEF Joined
    <3>4. m \in 1 .. Len(sent[e])
      BY <1>1, <3>3
    <3>5. BeginsAt(e, pos, m)
      <4>1. pos # Len(log[e]) /\ sent'[e][m] = sent[e][m]
        BY <1>0, <1>3, <2>2, <3>4
      <4> QED BY <3>2, <3>3, <4>1 DEF BeginsAt
    <3>6. Follows(e, pos, m)
      BY <3>1, <3>4, <3>5 DEF Joined
    <3>7. PICK n \in Nat : n = Len(sent[e][m]) /\ pos + n \in 0 .. L
      <4>1. Len(sent[e][m]) \in Nat
        BY <3>4, Kinds
      <4>2. pos + Len(sent[e][m]) <= L
        BY <1>0, <3>6 DEF Follows
      <4> QED BY <4>1, <4>2
    <3>8. BeginsAt(e, pos + n, m + 1)'
      <4>1. BeginsAt(e, pos + n, m + 1)
        BY <3>6, <3>7 DEF Follows
      <4>2. pos + n \in 0 .. Len(log[e]) /\ m + 1 \in Nat \ {0}
        BY <1>0, <3>7
      <4> QED BY <4>1, <4>2, BeginsKept
    <3>9. \A i \in 1 .. n : log'[e][pos + i] = sent'[e][m][i]
      <4> TAKE i \in 1 .. n
      <4>1. pos + i \in 1 .. L
        BY <1>1, <3>7
      <4>2. log[e][pos + i] = sent[e][m][i]
        BY <3>6, <3>7 DEF Follows
      <4> QED BY <1>3, <3>4, <4>1, <4>2
    <3>10. sent'[e][m] = sent[e][m] /\ pos + n <= Len(log'[e])
      BY SMTT(20), <1>1, <1>3, <3>4, <3>7
    <3> QED BY <3>7, <3>8, <3>9, <3>10 DEF Follows
  <2>3. CASE pos >= L
    <3> DEFINE j == pos - L + 1
    <3>1. j \in 1 .. count /\ pos + 1 = L + j
      <4>1. pos \in Nat /\ pos < L + count
        BY <1>1, <2>1
      <4> QED BY <1>1, <2>3, <4>1
    <3>2. log'[e][pos + 1] = [msg |-> M, frg |-> count - j]
      BY <1>3, <3>1
    <3>3. m = M /\ count - j = Len(sent'[e][m]) - 1
      BY <2>1, <3>2
    <3>4. pos = L
      BY <1>1, <1>3, <3>1, <3>3
    <3>5. BeginsAt(e, L + count, M + 1)'
      <4>1. L + count = Len(log'[e]) /\ M + 1 = Len(sent'[e]) + 1
        BY <1>3
      <4> QED BY <4>1 DEF BeginsAt
    <3>6. \A i \in 1 .. count : log'[e][pos + i] = sent'[e][m][i]
      BY ZenonT(40), <1>3, <3>3, <3>4
    <3>7. Len(sent'[e][m]) = count /\ pos + count <= Len(log'[e])
      BY <1>1, <1>3, <3>3, <3>4
    <3> QED BY <3>3, <3>4, <3>5, <3>6, <3>7 DEF Follows
  <2> QED BY <1>1, <2>2, <2>3
<1>8. Joined(e)'
  BY <1>3, <1>6, <1>7 DEF Joined
<1> QED BY <1>4, <1>8

\* In a short session the arithmetic of sequence numbers is that of integers.
LEMMA Plain ==
  ASSUME TypeOK, ShortSession, NEW e \in Endpoints
  PROVE  /\ \A a, b \in 0 .. MaxSegs[e] + RcvWnd : Diff(a, b) = a - b
         /\ \A a, n \in Nat : a + n <= MaxSegs[e] + RcvWnd => SeqAdd(a, n) = a + n
<1>1. PICK bound \in Nat : bound = MaxSegs[e] + RcvWnd
  BY Kinds
<1>2. 2 * bound < SeqMod /\ SeqMod \in Nat
  BY <1>1, SeqModAssumption DEF ShortSession
<1>3. ASSUME NEW a \in 0 .. bound, NEW b \in 0 .. bound PROVE Diff(a, b) = a - b
  <2>1. 2 * a < SeqMod /\ 2 * b < SeqMod /\ a \in Nat /\ b \in Nat
    BY <1>2
  <2> QED BY <2>1, NoWrap
<1>4. ASSUME NEW a \in Nat, NEW n \in Nat, a + n <= bound PROVE SeqAdd(a, n) = a + n
  <2>1. a + n < SeqMod
    BY <1>2, <1>4
  <2> QED BY <2>1, AddNoWrap
<1> QED BY <1>1, <1>3, <1>4

\* Where the numbers of the two ends stand.
LEMMA Places ==
  ASSUME TypeOK, NEW s \in Endpoints, NEW r \in Endpoints, Flow(s, r)
  PROVE  /\ snd_una[s] <= snd_nxt[s] /\ snd_nxt[s] <= Len(log[s])
         /\ Len(log[s]) <= MaxSegs[s]
         /\ rcv_nxt[r] <= snd_nxt[s]
         /\ \A sn \in DOMAIN snd_buf[s] : snd_una[s] <= sn /\ sn < snd_nxt[s]
         /\ \A sn \in DOMAIN rcv_buf[r] : rcv_nxt[r] <= sn /\ sn < snd_nxt[s]
<1>1. /\ snd_nxt[s] + Len(snd_queue[s]) = Len(log[s])
      /\ Len(log[s]) <= MaxSegs[s]
      /\ snd_una[s] <= snd_nxt[s]
      /\ rcv_nxt[r] <= snd_nxt[s]
  BY DEF Flow, Queued, Joined, Buffered, Held
<1>2. /\ \A sn \in DOMAIN snd_buf[s] : snd_una[s] <= sn /\ sn < snd_nxt[s]
      /\ \A sn \in DOMAIN rcv_buf[r] : rcv_nxt[r] <= sn /\ sn < snd_nxt[s]
  BY DEF Flow, Buffered, Held, Carries
<1>3. snd_nxt[s] \in Nat /\ Len(snd_queue[s]) \in Nat /\ Len(log[s]) \in Nat
  BY Kinds
<1> QED BY <1>1, <1>2, <1>3

\* A step that leaves alone what the sender keeps, what is on the way, or what the
\* receiver keeps.
SenderSame(s) ==
  UNCHANGED <<sent[s], log[s], snd_queue[s], snd_buf[s], snd_una[s], snd_nxt[s]>>
WaySame(s, r) == UNCHANGED <<net[r], rx[r], acklist[s], rcv_nxt[s], rcv_buf[s]>>
ReceiverSame(r) == UNCHANGED <<rcv_nxt[r], rcv_buf[r], rcv_queue[r], delivered[r]>>

\* What was sent, and how it was cut, does not change.
LEMMA SenderFrame ==
  ASSUME NEW s, UNCHANGED <<sent[s], log[s]>>
  PROVE  /\ Cut(s) => Cut(s)'
         /\ Joined(s) => Joined(s)'
         /\ \A pos \in Nat, m \in Nat : BeginsAt(s, pos, m) => BeginsAt(s, pos, m)'
<1>1. Cut(s) => Cut(s)'
  BY DEF Cut
<1>2. \A pos, m : BeginsAt(s, pos, m)' <=> BeginsAt(s, pos, m)
  BY DEF BeginsAt
<1>3. \A pos, m : Follows(s, pos, m)' <=> Follows(s, pos, m)
  BY DEF Follows, BeginsAt
<1>4. Joined(s) => Joined(s)'
  BY <1>2, <1>3 DEF Joined
<1> QED BY <1>1, <1>2, <1>4

\* Nothing changes at the sender.
LEMMA SenderKept ==
  ASSUME NEW s, SenderSame(s), Queued(s), Buffered(s)
  PROVE  Queued(s)' /\ Buffered(s)'
<1>1. Queued(s)'
  BY DEF SenderSame, Queued
<1>2. Buffered(s)'
  BY DEF SenderSame, Buffered, Carries
<1> QED BY <1>1, <1>2

\* Nothing changes on the way to the receiver.
LEMMA WayKept ==
  ASSUME NEW s, NEW r, SenderSame(s), WaySame(s, r), OnTheWay(s, r)
  PROVE  OnTheWay(s, r)'
<1>1. \A sn : Holds(s, sn)' <=> Holds(s, sn)
  BY DEF WaySame, Holds
<1>2. \A sn, data : Carries(s, sn, data)' <=> Carries(s, sn, data)
  BY DEF SenderSame, Carries
<1>3. \A seg : SegOK(s, seg)' <=> SegOK(s, seg)
  BY <1>1, <1>2 DEF SegOK
<1>4. \A una, segs : Sound(s, una, segs)' <=> Sound(s, una, segs)
  BY <1>3 DEF WaySame, Sound
<1> QED BY SMTT(20), <1>1, <1>4 DEF WaySame, OnTheWay, Sound, SegOK, Carries, Holds, SenderSame

\* Nothing changes at the receiver.
LEMMA ReceiverKept ==
  ASSUME NEW s, NEW r, SenderSame(s), ReceiverSame(r), Held(s, r), Read(s, r)
  PROVE  Held(s, r)' /\ Read(s, r)'
<1>1. Held(s, r)'
  BY DEF SenderSame, ReceiverSame, Held, Carries
<1>2. Read(s, r)'
  BY DEF SenderSame, ReceiverSame, Read, BeginsAt
<1> QED BY <1>1, <1>2

\* A direction that a step leaves alone stays sound.
LEMMA FlowKept ==
  ASSUME NEW s, NEW r, Flow(s, r), SenderSame(s), WaySame(s, r), ReceiverSame(r)
  PROVE  Flow(s, r)'
<1>1. Cut(s)' /\ Joined(s)'
  BY SenderFrame DEF Flow, SenderSame
<1>2. Kept(s, r)'
  BY DEF Flow, Kept, Holds, SenderSame, ReceiverSame
<1> QED BY <1>1, <1>2, SenderKept, WayKept, ReceiverKept DEF Flow

\* There are two ends: of a pair of sender and receiver each step is one of them.
LEMMA TwoEnds ==
  \A e, s \in Endpoints : /\ Peer(s) \in Endpoints /\ Peer(s) # s
                          /\ s = e \/ (s # e /\ Peer(s) = e)
  BY PeerType, KcpAssumption

\* The beginning of a session.
LEMMA InitFlow == ASSUME TypeOK, Init PROVE FlowInv
<1> SUFFICES ASSUME NEW s \in Endpoints PROVE Flow(s, Peer(s))
  BY DEF FlowInv
<1> DEFINE r == Peer(s)
<1>1. r \in Endpoints
  BY PeerType
<1>2. /\ sent[s] = <<>> /\ log[s] = <<>> /\ snd_queue[s] = <<>> /\ snd_buf[s] = <<>>
      /\ snd_una[s] = 0 /\ snd_nxt[s] = 0 /\ rcv_nxt[s] = 0 /\ acklist[s] = <<>>
      /\ net[r] = {} /\ rx[r] = Idle /\ rcv_nxt[r] = 0 /\ rcv_buf[r] = <<>>
      /\ rcv_queue[r] = <<>> /\ delivered[r] = <<>>
  BY <1>1 DEF Init, InitMsgs
<1> HIDE DEF r
<1>3. RcvWnd \in Nat /\ MaxSegs[s] \in Nat
  BY Kinds
<1>4. Cut(s) /\ Joined(s) /\ Queued(s) /\ Buffered(s)
  BY <1>2, <1>3 DEF Cut, Joined, Queued, Buffered
<1>5. OnTheWay(s, r)
  BY <1>2 DEF OnTheWay, Sound, Idle
<1>6. Kept(s, r) /\ Held(s, r)
  BY <1>2, <1>3 DEF Kept, Held
<1>7. Read(s, r)
  <2>1. Len(rcv_queue[r]) = 0 /\ Len(delivered[r]) = 0 /\ Len(sent[s]) = 0 /\ Len(log[s]) = 0
    BY <1>2
  <2>2. rcv_nxt[r] = 0 /\ Len(rcv_queue[r]) = 0
    BY <1>2
  <2>4. rcv_nxt[r] - Len(rcv_queue[r]) = 0
    BY <2>2
  <2>3. BeginsAt(s, 0, 1)
    BY <2>1 DEF BeginsAt
  <2> QED BY <2>1, <2>3, <2>4 DEF Read
<1> QED BY <1>4, <1>5, <1>6, <1>7 DEF Flow, r

\* A datagram is lost.
LEMMA LoseFlow ==
  ASSUME TypeOK, FlowInv, NEW e \in Endpoints, NEW d \in net[e], Lose(e, d)
  PROVE  FlowInv'
<1> SUFFICES ASSUME NEW s \in Endpoints PROVE Flow(s, Peer(s))'
  BY DEF FlowInv
<1>0. PICK r \in Endpoints : r = Peer(s)
  BY PeerType
<1>1. Flow(s, r) /\ SenderSame(s) /\ ReceiverSame(r)
  BY <1>0 DEF FlowInv, Lose, history, sndVars, rcvVars, SenderSame, ReceiverSame
<1>2. /\ net'[r] \subseteq net[r]
      /\ UNCHANGED <<rx[r], acklist[s], rcv_nxt[s], rcv_buf[s]>>
  BY DEF Lose, TypeOK, rcvVars
<1>3. OnTheWay(s, r)'
  BY SMTT(20), <1>1, <1>2 DEF Flow, OnTheWay, Sound, SegOK, Carries, Holds, SenderSame
<1>4. Cut(s)' /\ Joined(s)' /\ Queued(s)' /\ Buffered(s)' /\ Held(s, r)' /\ Read(s, r)'
  BY <1>1, SenderFrame, SenderKept, ReceiverKept DEF Flow, SenderSame
<1>5. Kept(s, r)'
  BY <1>1 DEF Flow, Kept, Holds, SenderSame, ReceiverSame
<1> QED BY <1>0, <1>3, <1>4, <1>5 DEF Flow

\* recvfrom returns a datagram.
LEMMA ReceiveFlow ==
  ASSUME TypeOK, FlowInv, NEW e \in Endpoints, NEW d \in net[e], Receive(e, d)
  PROVE  FlowInv'
<1> SUFFICES ASSUME NEW s \in Endpoints PROVE Flow(s, Peer(s))'
  BY DEF FlowInv
<1>0. PICK r \in Endpoints : r = Peer(s)
  BY PeerType
<1>1. Flow(s, r) /\ SenderSame(s) /\ ReceiverSame(r)
  BY <1>0 DEF FlowInv, Receive, history, sndVars, rcvVars, SenderSame, ReceiverSame
<1>2. /\ net'[r] \subseteq net[r]
      /\ UNCHANGED <<acklist[s], rcv_nxt[s], rcv_buf[s]>>
  BY DEF Receive, TypeOK, rcvVars
<1>3. rx'[r] = rx[r] \/ \E c \in net[r] : rx'[r].una = c.una /\ rx'[r].segs = c.segs
  BY DEF Receive, TypeOK
<1>4. Sound(s, rx'[r].una, rx'[r].segs)
  BY <1>1, <1>3 DEF Flow, OnTheWay
<1>5. \A seg : SegOK(s, seg)' <=> SegOK(s, seg)
  BY <1>1, <1>2 DEF SegOK, Carries, Holds, SenderSame
<1>6. OnTheWay(s, r)'
  BY <1>1, <1>2, <1>4, <1>5 DEF Flow, OnTheWay, Sound, Holds
<1>7. Cut(s)' /\ Joined(s)' /\ Queued(s)' /\ Buffered(s)' /\ Held(s, r)' /\ Read(s, r)'
  BY <1>1, SenderFrame, SenderKept, ReceiverKept DEF Flow, SenderSame
<1>8. Kept(s, r)'
  BY <1>1 DEF Flow, Kept, Holds, SenderSame, ReceiverSame
<1> QED BY <1>0, <1>6, <1>7, <1>8 DEF Flow

\* The end of ikcp_input counts skipped segments only.
LEMMA RxEndFlow ==
  ASSUME TypeOK, FlowInv, NEW e \in Endpoints, RxEnd(e)
  PROVE  FlowInv'
<1> SUFFICES ASSUME NEW s \in Endpoints PROVE Flow(s, Peer(s))'
  BY DEF FlowInv
<1>0. PICK r \in Endpoints : r = Peer(s)
  BY PeerType
<1>1. /\ Flow(s, r) /\ ReceiverSame(r)
      /\ UNCHANGED <<sent[s], log[s], snd_queue[s], snd_una[s], snd_nxt[s]>>
      /\ UNCHANGED <<net[r], acklist[s], rcv_nxt[s], rcv_buf[s]>>
  BY <1>0 DEF FlowInv, RxEnd, history, rcvVars, ReceiverSame
<1>2. /\ DOMAIN snd_buf'[s] = DOMAIN snd_buf[s]
      /\ \A sn \in DOMAIN snd_buf[s] : snd_buf'[s][sn].data = snd_buf[s][sn].data
  <2>1. snd_buf'[s] \in {ParseFastack(snd_buf[s], rx[s].maxack), snd_buf[s]}
    BY DEF RxEnd, TypeOK, AreBuffers
  <2>2. \A sn \in DOMAIN snd_buf[s] : snd_buf[s][sn] \in SndSeg
    BY DEF TypeOK, AreBuffers
  <2> QED BY <2>1, <2>2 DEF ParseFastack, SndSeg
<1>3. rx'[r] = rx[r] \/ rx'[r] = Idle
  BY DEF RxEnd, TypeOK
<1>4. Sound(s, rx'[r].una, rx'[r].segs)
  <2>1. rcv_nxt[s] \in Nat
    BY Kinds
  <2> QED BY <1>1, <1>3, <2>1 DEF Flow, OnTheWay, Sound, Idle
<1>5. \A seg : SegOK(s, seg)' <=> SegOK(s, seg)
  BY <1>1 DEF SegOK, Carries, Holds
<1>6. OnTheWay(s, r)'
  BY <1>1, <1>4, <1>5 DEF Flow, OnTheWay, Sound, Holds
<1>7. Cut(s)' /\ Joined(s)' /\ Queued(s)'
  BY <1>1, SenderFrame DEF Flow, Queued
<1>8. Buffered(s)' /\ Kept(s, r)'
  BY <1>1, <1>2 DEF Flow, Buffered, Carries, Kept, Holds, ReceiverSame
<1>9. Held(s, r)' /\ Read(s, r)'
  BY <1>1 DEF Flow, Held, Read, Carries, BeginsAt, ReceiverSame
<1> QED BY <1>0, <1>6, <1>7, <1>8, <1>9 DEF Flow

\* The datagrams an end can receive, and the one it has received.
LEMMA NetKinds ==
  ASSUME TypeOK, NEW e \in Endpoints
  PROVE  /\ \A d \in net[e] : d.una \in Nat /\ d.segs \in Seq(Segment)
         /\ rx[e].una \in Nat /\ rx[e].segs \in Seq(Segment)
<1>1. Sn \subseteq Nat
  BY SeqModAssumption DEF Sn
<1>2. net[e] \subseteq Datagram /\ rx[e] \in Call
  BY DEF TypeOK
<1> QED BY <1>1, <1>2 DEF Datagram, Call

\* The numbers after a step.
LEMMA NumsAfter ==
  ASSUME TypeOK', NEW e \in Endpoints
  PROVE  snd_nxt'[e] \in Nat /\ rcv_nxt'[e] \in Nat /\ snd_una'[e] \in Nat
  BY SeqModAssumption DEF TypeOK, Sn

\* A step after which an end has sent and received at least what it had.
Grows(e) ==
  /\ Len(log[e]) <= Len(log'[e])
  /\ \A i \in 1 .. Len(log[e]) : log'[e][i] = log[e][i]
  /\ snd_nxt[e] <= snd_nxt'[e]
  /\ rcv_nxt[e] <= rcv_nxt'[e]
  /\ \A sn \in Nat : Holds(e, sn) => Holds(e, sn)'

\* What is true of a segment stays true.
LEMMA SegKept ==
  ASSUME TypeOK, TypeOK', NEW s \in Endpoints, Queued(s), Grows(s),
         NEW seg \in Segment, SegOK(s, seg)
  PROVE  SegOK(s, seg)'
<1>1. /\ snd_nxt[s] \in Nat /\ snd_nxt'[s] \in Nat /\ Len(log[s]) \in Nat
      /\ snd_nxt[s] <= Len(log[s])
  BY Kinds, NumsAfter DEF Queued
<1>2. seg.sn \in Nat
  BY SeqModAssumption DEF Segment, Sn
<1>3. CASE seg.cmd = "PUSH"
  <2>1. seg.sn < snd_nxt[s] /\ seg.data = log[s][seg.sn + 1]
    BY <1>3 DEF SegOK, Carries
  <2>2. seg.sn + 1 \in 1 .. Len(log[s]) /\ seg.sn < snd_nxt'[s]
    BY <1>1, <1>2, <2>1 DEF Grows
  <2> QED BY <1>3, <2>1, <2>2 DEF Grows, SegOK, Carries
<1>4. CASE seg.cmd = "ACK"
  BY <1>2, <1>4 DEF Grows, SegOK
<1> QED BY <1>3, <1>4 DEF SegOK

\* ... and of a datagram.
LEMMA SoundKept ==
  ASSUME TypeOK, TypeOK', NEW s \in Endpoints, Queued(s), Grows(s),
         NEW una \in Nat, NEW segs \in Seq(Segment), Sound(s, una, segs)
  PROVE  Sound(s, una, segs)'
<1>1. rcv_nxt[s] \in Nat /\ rcv_nxt'[s] \in Nat
  BY NumsAfter, Kinds
<1>2. una <= rcv_nxt'[s]
  BY <1>1 DEF Grows, Sound
<1>3. \A i \in 1 .. Len(segs) : SegOK(s, segs[i])'
  <2> TAKE i \in 1 .. Len(segs)
  <2>1. segs[i] \in Segment
    OBVIOUS
  <2>2. SegOK(s, segs[i])
    BY DEF Sound
  <2> QED BY <2>1, <2>2, SegKept
<1> QED BY <1>2, <1>3 DEF Sound

\* What is on the way stays true, when nothing is added to it.
LEMMA WayGrows ==
  ASSUME TypeOK, TypeOK', NEW s \in Endpoints, NEW r \in Endpoints, Queued(s), Grows(s),
         OnTheWay(s, r),
         net'[r] \subseteq net[r],
         rx'[r].una = rx[r].una,
         rx'[r].segs \in {rx[r].segs, Tail(rx[r].segs)},
         rx'[r].segs = rx[r].segs \/ rx[r].segs # <<>>,
         \A i \in 1 .. Len(acklist'[s]) :
           Holds(s, acklist[s][i])' \/ \E j \in 1 .. Len(acklist[s]) : acklist'[s][i] = acklist[s][j]
  PROVE  OnTheWay(s, r)'
<1>1. /\ Sn \subseteq Nat /\ acklist[s] \in Seq(Sn)
      /\ \A d \in net[r] : d.una \in Nat /\ d.segs \in Seq(Segment)
      /\ rx[r].una \in Nat /\ rx[r].segs \in Seq(Segment)
  BY SeqModAssumption, Kinds, NetKinds DEF Sn
<1>2. \A d \in net'[r] : Sound(s, d.una, d.segs)'
  <2> TAKE d \in net'[r]
  <2>1. PICK una \in Nat, segs \in Seq(Segment) : una = d.una /\ segs = d.segs
    BY <1>1
  <2>2. Sound(s, una, segs)
    BY <2>1 DEF OnTheWay
  <2> QED BY <2>1, <2>2, SoundKept
<1>3. Sound(s, rx[r].una, rx[r].segs)'
  <2>1. PICK una \in Nat, segs \in Seq(Segment) : una = rx'[r].una /\ segs = rx'[r].segs
    BY <1>1, HeadTailProperties
  <2>2. Sound(s, una, segs)
    <3>1. CASE segs = rx[r].segs
      BY <2>1, <3>1 DEF OnTheWay
    <3>2. CASE rx[r].segs # <<>> /\ segs = Tail(rx[r].segs)
      <4>1. /\ Len(segs) = Len(rx[r].segs) - 1
            /\ \A i \in 1 .. Len(segs) : segs[i] = rx[r].segs[i + 1]
        BY <1>1, <3>2, HeadTailProperties
      <4>2. \A i \in 1 .. Len(segs) : i + 1 \in 1 .. Len(rx[r].segs)
        BY <1>1, <4>1
      <4> QED BY <2>1, <4>1, <4>2 DEF OnTheWay, Sound
    <3> QED BY <2>1, <3>1, <3>2
  <2>3. Sound(s, una, segs)'
    BY <2>2, SoundKept
  <2> QED BY <2>1, <2>3
<1>4. \A i \in 1 .. Len(acklist'[s]) : Holds(s, acklist[s][i])'
  <2> TAKE i \in 1 .. Len(acklist'[s])
  <2>1. CASE \E j \in 1 .. Len(acklist[s]) : acklist'[s][i] = acklist[s][j]
    <3>1. PICK j \in 1 .. Len(acklist[s]) : acklist'[s][i] = acklist[s][j]
      BY <2>1
    <3>2. Holds(s, acklist[s][j]) /\ acklist[s][j] \in Nat
      <4>1. acklist[s][j] \in Sn
        BY <1>1, <3>1
      <4>2. Holds(s, acklist[s][j])
        BY <3>1 DEF OnTheWay
      <4> QED BY <1>1, <4>1, <4>2
    <3>3. PICK sn \in Nat : sn = acklist[s][j]
      BY <3>2
    <3>4. Holds(s, sn)'
      BY <3>2, <3>3 DEF Grows
    <3> QED BY <3>1, <3>3, <3>4 DEF Holds
  <2> QED BY <2>1
<1> QED BY <1>2, <1>3, <1>4 DEF OnTheWay

\* ikcp_send.
LEMMA SendFlow ==
  ASSUME TypeOK, TypeOK', FlowInv, NEW e \in Endpoints, Send(e)
  PROVE  FlowInv'
<1> SUFFICES ASSUME NEW s \in Endpoints PROVE Flow(s, Peer(s))'
  BY DEF FlowInv
<1>0. PICK r \in Endpoints : r = Peer(s) /\ r # s /\ (s = e \/ r = e)
  BY TwoEnds
<1>1. /\ UNCHANGED <<delivered, snd_buf, snd_una, snd_nxt, rcv_nxt, rcv_buf, rcv_queue, acklist>>
      /\ UNCHANGED <<rx, net>>
      /\ \A p \in Endpoints : p # e => UNCHANGED <<sent[p], log[p], snd_queue[p]>>
  BY DEF Send, TypeOK, rcvVars
<1>2. Flow(s, r)
  BY <1>0 DEF FlowInv
<1>3. CASE s # e
  BY <1>0, <1>1, <1>2, <1>3, FlowKept DEF SenderSame, WaySame, ReceiverSame
<1>4. CASE s = e
  <2>1. PICK count \in 1 .. RcvWnd - 1 : Sends(s, count)
    BY <1>4, SendEffect
  <2>2. Cut(s)' /\ Joined(s)'
    BY <1>2, <2>1, SendJoined DEF Flow
  <2>3. /\ Len(log[s]) \in Nat /\ Len(snd_queue[s]) \in Nat /\ count \in Nat
        /\ snd_nxt[s] \in Nat /\ snd_nxt[s] + Len(snd_queue[s]) = Len(log[s])
        /\ \A i \in 1 .. Len(snd_queue[s]) : snd_queue[s][i] = log[s][snd_nxt[s] + i]
    BY <1>2, <2>1, Kinds DEF Flow, Queued
  <2>4. /\ Len(log'[s]) = Len(log[s]) + count
        /\ Len(snd_queue'[s]) = Len(snd_queue[s]) + count
        /\ \A i \in 1 .. Len(log[s]) : log'[s][i] = log[s][i]
        /\ \A i \in 1 .. Len(snd_queue[s]) : snd_queue'[s][i] = snd_queue[s][i]
        /\ \A i \in 1 .. count : snd_queue'[s][Len(snd_queue[s]) + i] = log'[s][Len(log[s]) + i]
    BY ZenonT(40), <2>1 DEF Sends
  <2>5. Queued(s)'
    <3>0. \A j \in 1 .. count : snd_nxt[s] + (Len(snd_queue[s]) + j) = Len(log[s]) + j
      <4>1. PICK nxt \in Nat, len \in Nat, total \in Nat :
              nxt = snd_nxt[s] /\ len = Len(snd_queue[s]) /\ total = Len(log[s])
        BY <2>3
      <4>2. nxt + len = total /\ count \in Nat
        BY <2>3, <4>1
      <4>3. \A j \in 1 .. count : nxt + (len + j) = total + j
        BY <4>2
      <4> QED BY <4>1, <4>3
    <3>1. ASSUME NEW i \in 1 .. Len(snd_queue'[s])
          PROVE  snd_queue'[s][i] = log'[s][snd_nxt[s] + i]
      <4>1. CASE i <= Len(snd_queue[s])
        <5>1. i \in 1 .. Len(snd_queue[s]) /\ snd_nxt[s] + i \in 1 .. Len(log[s])
          BY <2>3, <4>1
        <5> QED BY <2>3, <2>4, <5>1
      <4>2. CASE i > Len(snd_queue[s])
        <5>1. PICK j \in 1 .. count : i = Len(snd_queue[s]) + j
          <6>1. i - Len(snd_queue[s]) \in 1 .. count /\ i = Len(snd_queue[s]) + (i - Len(snd_queue[s]))
            BY <2>3, <2>4, <4>2
          <6> QED BY <6>1
        <5>2. snd_nxt[s] + i = Len(log[s]) + j
          BY <3>0, <5>1
        <5> QED BY <2>4, <5>1, <5>2
      <4> QED BY <2>3, <4>1, <4>2
    <3>2. snd_nxt[s] + Len(snd_queue'[s]) = Len(log'[s])
      BY <2>3, <2>4
    <3> QED BY <1>1, <3>1, <3>2 DEF Queued
  <2>6. Grows(s)
    BY <1>1, <2>3, <2>4, Kinds DEF Grows, Holds
  <2>7. OnTheWay(s, r)'
    <3>1. Queued(s) /\ OnTheWay(s, r)
      BY <1>2 DEF Flow
    <3>2. \A i \in 1 .. Len(acklist'[s]) :
            \E j \in 1 .. Len(acklist[s]) : acklist'[s][i] = acklist[s][j]
      BY <1>1
    <3>3. net'[r] \subseteq net[r] /\ rx'[r].una = rx[r].una /\ rx'[r].segs = rx[r].segs
      BY <1>1
    <3> QED BY <2>6, <3>1, <3>2, <3>3, WayGrows
  <2>8. \A sn \in Nat : \A data : Carries(s, sn, data) => Carries(s, sn, data)'
    <3> TAKE sn \in Nat
    <3> TAKE data
    <3>1. sn < snd_nxt[s] => sn + 1 \in 1 .. Len(log[s])
      BY <2>3
    <3> QED BY <1>1, <2>4, <3>1 DEF Carries
  <2>9. Buffered(s)'
    BY <1>1, <1>2, <2>8, Kinds DEF Flow, Buffered
  <2>10. Kept(s, r)'
    BY <1>1, <1>2 DEF Flow, Kept, Holds
  <2>11. Held(s, r)'
    <3>1. Held(s, r) /\ rcv_nxt[r] <= Len(log[s]) /\ rcv_nxt[r] \in Nat /\ Len(rcv_queue[r]) \in Nat
      BY <1>2, <2>3, Places, Kinds DEF Flow
    <3>2. \A i \in 1 .. Len(rcv_queue[r]) :
            rcv_nxt[r] - Len(rcv_queue[r]) + i \in 1 .. Len(log[s])
      BY <2>3, <3>1 DEF Held
    <3>3. \A sn \in DOMAIN rcv_buf[r] : sn \in Nat
      BY Kinds
    <3> QED BY <1>1, <2>4, <2>8, <3>1, <3>2, <3>3 DEF Held
  <2>12. Read(s, r)'
    <3>1. PICK pos \in Nat, k \in Nat :
            pos = rcv_nxt[r] - Len(rcv_queue[r]) /\ k = Len(delivered[r])
      <4>1. Len(rcv_queue[r]) <= rcv_nxt[r]
        BY <1>2 DEF Flow, Held
      <4>2. Len(rcv_queue[r]) \in Nat /\ rcv_nxt[r] \in Nat /\ Len(delivered[r]) \in Nat
        BY Kinds
      <4>3. rcv_nxt[r] - Len(rcv_queue[r]) \in Nat
        BY <4>1, <4>2
      <4> QED BY <4>2, <4>3
    <3>2. pos \in 0 .. Len(log[s]) /\ k + 1 \in Nat \ {0}
      <4>1. rcv_nxt[r] <= Len(log[s]) /\ Len(rcv_queue[r]) \in Nat /\ rcv_nxt[r] \in Nat
        BY <1>2, <2>3, Places, Kinds
      <4> QED BY <2>3, <3>1, <4>1
    <3>3. BeginsAt(s, pos, k + 1) /\ k <= Len(sent[s])
      BY <1>2, <3>1 DEF Flow, Read
    <3>4. BeginsAt(s, pos, k + 1)'
      BY <2>1, <3>2, <3>3, BeginsKept
    <3>5. \A m \in 1 .. k : delivered[r][m] = sent'[s][m]
      <4>1. \A m \in 1 .. k : m \in 1 .. Len(sent[s])
        BY <3>3, Kinds
      <4> QED BY <1>2, <2>1, <3>1, <4>1 DEF Flow, Read, Sends
    <3>6. k <= Len(sent'[s])
      BY <2>1, <3>3, Kinds DEF Sends
    <3> QED BY <1>1, <3>1, <3>4, <3>5, <3>6 DEF Read
  <2> QED BY <1>0, <2>2, <2>5, <2>7, <2>9, <2>10, <2>11, <2>12 DEF Flow
<1> QED BY <1>3, <1>4

\* What a flush sends: pending acks, probes, and segments of the send buffer.
FlushedSegs(acks, buf) ==
  {Ack(acks[j]) : j \in 1 .. Len(acks)} \cup {Probe("WASK"), Probe("WINS")}
    \cup {Push(sn, buf[sn].data) : sn \in DOMAIN buf}

\* A flush sends nothing but its acks, its probes and segments of snd_buf.
LEMMA OutgoingFrom ==
  ASSUME NEW acks \in Seq(Sn), NEW probes, NEW buf, NEW pushes \in Seq(DOMAIN buf)
  PROVE  Outgoing(acks, probes, buf, pushes) \in Seq(FlushedSegs(acks, buf))
<1> DEFINE T == FlushedSegs(acks, buf)
           a == [i \in 1 .. Len(acks) |-> Ack(acks[i])]
           w == IF "WASK" \in probes THEN <<Probe("WASK")>> ELSE <<>>
           t == IF "WINS" \in probes THEN <<Probe("WINS")>> ELSE <<>>
           d == [i \in 1 .. Len(pushes) |-> Push(pushes[i], buf[pushes[i]].data)]
<1>1. a \in Seq(T)
  <2>1. a \in [1 .. Len(acks) -> T]
    BY DEF FlushedSegs
  <2> QED BY <2>1, LenProperties, FunctionIsSeq
<1>2. w \in Seq(T) /\ t \in Seq(T)
  <2>1. Probe("WASK") \in T /\ Probe("WINS") \in T
    BY DEF FlushedSegs
  <2> HIDE DEF T
  <2> QED BY <2>1
<1>3. d \in Seq(T)
  <2>1. \A i \in 1 .. Len(pushes) : pushes[i] \in DOMAIN buf
    OBVIOUS
  <2>2. d \in [1 .. Len(pushes) -> T]
    BY <2>1 DEF FlushedSegs
  <2> QED BY <2>2, LenProperties, FunctionIsSeq
<1>4. Outgoing(acks, probes, buf, pushes) = a \o w \o t \o d
  BY DEF Outgoing
<1> HIDE DEF a, w, t, d, T
<1> USE DEF T
<1>5. a \o w \in Seq(T)
  BY <1>1, <1>2, ConcatProperties
<1>6. a \o w \o t \in Seq(T)
  BY <1>2, <1>5, ConcatProperties
<1>7. a \o w \o t \o d \in Seq(T)
  BY <1>3, <1>6, ConcatProperties
<1> QED BY <1>4, <1>7

\* A datagram carries some of the segments that the flush sends.
LEMMA DatagramsFrom ==
  ASSUME NEW T, NEW una, NEW wnd, NEW segs \in Seq(T), NEW d \in Datagrams(una, wnd, segs)
  PROVE  d.una = una /\ d.segs \in Seq(T)
<1>1. PICK i \in 1 .. Len(segs) :
        d = [una |-> una, wnd |-> wnd,
             segs |-> SubSeq(segs, i, Lesser(i + SegsPerDatagram - 1, Len(segs)))]
  BY DEF Datagrams
<1>2. /\ Lesser(i + SegsPerDatagram - 1, Len(segs)) \in Int
      /\ Lesser(i + SegsPerDatagram - 1, Len(segs)) <= Len(segs)
  BY CutEnd
<1>3. SubSeq(segs, i, Lesser(i + SegsPerDatagram - 1, Len(segs))) \in Seq(T)
  BY <1>2, SubSeqProperties
<1> QED BY <1>1, <1>3

\* Numbering fragments, when the numbers do not wrap around.
LEMMA NumberedPlain ==
  ASSUME TypeOK, NEW e \in Endpoints, NEW n \in 0 .. Len(snd_queue[e]),
         \A i \in 0 .. n : SeqAdd(snd_nxt[e], i) = snd_nxt[e] + i,
         \A sn \in DOMAIN snd_buf[e] : sn < snd_nxt[e]
  PROVE  /\ DOMAIN Numbered(e, n) = DOMAIN snd_buf[e] \cup (snd_nxt[e] .. snd_nxt[e] + n - 1)
         /\ \A sn \in DOMAIN snd_buf[e] : Numbered(e, n)[sn] = snd_buf[e][sn]
         /\ \A i \in 1 .. n : Numbered(e, n)[snd_nxt[e] + i - 1].data = snd_queue[e][i]
<1>0. PICK nxt \in Nat : nxt = snd_nxt[e]
  BY Kinds
<1>1. n \in Nat /\ DOMAIN snd_buf[e] \in SUBSET Nat
  BY Kinds
<1>2. \A i \in 0 .. n : SeqAdd(nxt, i) = nxt + i
  BY <1>0
<1> DEFINE new == {SeqAdd(snd_nxt[e], i) : i \in 0 .. n - 1}
<1>3. new = nxt .. nxt + n - 1
  <2>1. \A sn \in nxt .. nxt + n - 1 : sn - nxt \in 0 .. n - 1 /\ sn = nxt + (sn - nxt)
    BY <1>1
  <2>2. \A sn \in nxt .. nxt + n - 1 : sn \in new
    BY SMTT(20), <1>0, <1>1, <1>2, <2>1
  <2>3. \A i \in 0 .. n - 1 : SeqAdd(nxt, i) \in nxt .. nxt + n - 1
    BY <1>1, <1>2
  <2> QED BY <1>0, <2>2, <2>3
<1>4. DOMAIN Numbered(e, n) = DOMAIN snd_buf[e] \cup new
  BY DEF Numbered
<1>5. \A sn \in DOMAIN snd_buf[e] : Numbered(e, n)[sn] = snd_buf[e][sn]
  BY DEF Numbered
<1>6. ASSUME NEW i \in 1 .. n
      PROVE  Numbered(e, n)[nxt + i - 1].data = snd_queue[e][i]
  <2>1. nxt + i - 1 \in new /\ nxt + i - 1 \notin DOMAIN snd_buf[e]
    BY <1>0, <1>1, <1>3
  <2>2. \A k \in 1 .. n : nxt + i - 1 = SeqAdd(snd_nxt[e], k - 1) <=> k = i
    <3> TAKE k \in 1 .. n
    <3>1. k - 1 \in 0 .. n
      BY <1>1
    <3>2. SeqAdd(snd_nxt[e], k - 1) = nxt + (k - 1)
      BY <1>0, <1>2, <3>1
    <3> QED BY <1>1, <3>2
  <2>3. (CHOOSE k \in 1 .. n : nxt + i - 1 = SeqAdd(snd_nxt[e], k - 1)) = i
    BY <2>2
  <2>4. Numbered(e, n)[nxt + i - 1].data =
          snd_queue[e][CHOOSE k \in 1 .. n : nxt + i - 1 = SeqAdd(snd_nxt[e], k - 1)]
    BY <2>1 DEF Numbered
  <2> QED BY <2>3, <2>4
<1> QED BY <1>0, <1>3, <1>4, <1>5, <1>6

\* n fragments were numbered, and segments of the buffer and acks were sent.
Flushes(e, n) ==
  /\ snd_nxt'[e] = snd_nxt[e] + n
  /\ Len(snd_queue'[e]) = Len(snd_queue[e]) - n
  /\ \A i \in 1 .. Len(snd_queue[e]) - n : snd_queue'[e][i] = snd_queue[e][n + i]
  /\ DOMAIN snd_buf'[e] = DOMAIN snd_buf[e] \cup (snd_nxt[e] .. snd_nxt[e] + n - 1)
  /\ \A sn \in DOMAIN snd_buf[e] : snd_buf'[e][sn].data = snd_buf[e][sn].data
  /\ \A i \in 1 .. n : snd_buf'[e][snd_nxt[e] + i - 1].data = snd_queue[e][i]
  /\ acklist'[e] = <<>>
  /\ \A d \in net'[Peer(e)] :
       \/ d \in net[Peer(e)]
       \/ d.una = rcv_nxt[e] /\ d.segs \in Seq(FlushedSegs(acklist[e], snd_buf'[e]))
  /\ \A p \in Endpoints : p # e => UNCHANGED <<snd_queue[p], snd_nxt[p], snd_buf[p], acklist[p]>>
  /\ \A p \in Endpoints : p # Peer(e) => UNCHANGED net[p]
  /\ UNCHANGED <<history, snd_una, rcv_nxt, rcv_buf, rcv_queue, rx>>

\* What ikcp_update changes.
LEMMA UpdateEffect ==
  ASSUME TypeOK, ShortSession, NEW e \in Endpoints, Flow(e, Peer(e)), Update(e)
  PROVE  \E n \in 0 .. Len(snd_queue[e]) : Flushes(e, n)
<1>1. PICK expired \in SUBSET (DOMAIN snd_buf[e]), probeExpired \in BOOLEAN :
        Flush(e, expired, probeExpired, TRUE)
  BY DEF Update
<1> DEFINE buf(n)     == Numbered(e, n)
           due(n)     == Due(buf(n), expired)
           skipped(n) == Skipped(buf(n), expired)
           buf2(n)    == Transmitted(buf(n), due(n), skipped(n))
           probes     == ProbesDue(e, probeExpired)
           out(n, pushes) == Outgoing(acklist[e], probes, buf(n), pushes)
<1>2. PICK n \in Released(e) :
      \E pushes \in InOrder(due(n)) :
      \E kept \in SUBSET Datagrams(rcv_nxt[e], WndUnused(e), out(n, pushes)) :
        /\ net' = [net EXCEPT ![Peer(e)] = @ \cup kept]
        /\ snd_queue' = [snd_queue EXCEPT ![e] = SubSeq(@, n + 1, Len(@))]
        /\ snd_nxt' = [snd_nxt EXCEPT ![e] = SeqAdd(@, n)]
        /\ snd_buf' = [snd_buf EXCEPT ![e] = buf2(n)]
        /\ acklist' = [acklist EXCEPT ![e] = <<>>]
        /\ UNCHANGED <<history, snd_una, rcv_nxt, rcv_buf, rcv_queue, rmt_wnd, rx>>
  BY <1>1 DEF Flush
<1>3. PICK pushes \in InOrder(due(n)),
           kept \in SUBSET UNION {Datagrams(rcv_nxt[e], WndUnused(e), out(n, q)) : q \in InOrder(due(n))} :
        /\ kept \subseteq Datagrams(rcv_nxt[e], WndUnused(e), out(n, pushes))
        /\ net' = [net EXCEPT ![Peer(e)] = @ \cup kept]
  BY ZenonT(40), <1>2
<1>4. n \in 0 .. Len(snd_queue[e]) /\ n \in Nat
  BY Kinds DEF Released
<1>5. \A i \in 0 .. n : SeqAdd(snd_nxt[e], i) = snd_nxt[e] + i
  <2> TAKE i \in 0 .. n
  <2>1. snd_nxt[e] + Len(snd_queue[e]) = Len(log[e]) /\ Len(log[e]) <= MaxSegs[e]
    BY DEF Flow, Queued, Joined
  <2>2. snd_nxt[e] + i <= MaxSegs[e] + RcvWnd
    BY <1>4, <2>1, Kinds
  <2> QED BY <1>4, <2>2, Kinds, Plain
<1>6. \A sn \in DOMAIN snd_buf[e] : sn < snd_nxt[e]
  BY DEF Flow, Buffered, Carries
<1>7. /\ DOMAIN buf(n) = DOMAIN snd_buf[e] \cup (snd_nxt[e] .. snd_nxt[e] + n - 1)
      /\ \A sn \in DOMAIN snd_buf[e] : buf(n)[sn] = snd_buf[e][sn]
      /\ \A i \in 1 .. n : buf(n)[snd_nxt[e] + i - 1].data = snd_queue[e][i]
  BY <1>4, <1>5, <1>6, NumberedPlain
<1>8. /\ snd_buf'[e] = buf2(n)
      /\ DOMAIN buf2(n) = DOMAIN buf(n)
      /\ \A sn \in DOMAIN buf(n) : buf2(n)[sn].data = buf(n)[sn].data
  <2>1. snd_buf'[e] = buf2(n)
    BY <1>2 DEF TypeOK, AreBuffers
  <2> QED BY <2>1 DEF Transmitted
<1>9. /\ snd_nxt'[e] = snd_nxt[e] + n
      /\ acklist'[e] = <<>>
      /\ snd_queue'[e] = SubSeq(snd_queue[e], n + 1, Len(snd_queue[e]))
  <2>1. snd_nxt'[e] = SeqAdd(snd_nxt[e], n)
    BY <1>2 DEF TypeOK
  <2> QED BY <1>2, <1>4, <1>5, <2>1 DEF TypeOK
<1>10. /\ Len(snd_queue'[e]) = Len(snd_queue[e]) - n
       /\ \A i \in 1 .. Len(snd_queue[e]) - n : snd_queue'[e][i] = snd_queue[e][n + i]
  BY <1>4, <1>9, Kinds, SubSeqProperties
<1>11. \A i \in 1 .. n : snd_nxt[e] + i - 1 \in DOMAIN buf(n)
  BY <1>4, <1>7, Kinds
<1>12. FlushedSegs(acklist[e], buf(n)) = FlushedSegs(acklist[e], snd_buf'[e])
  <2> HIDE DEF buf, buf2
  <2> QED BY <1>8 DEF FlushedSegs
<1>13. \A d \in kept : /\ d.una = rcv_nxt[e]
                       /\ d.segs \in Seq(FlushedSegs(acklist[e], snd_buf'[e]))
  <2>1. due(n) \subseteq DOMAIN buf(n)
    BY DEF Due, TimedOut, Skipped
  <2>2. pushes \in Seq(DOMAIN buf(n))
    <3>1. due(n) \in SUBSET Sn
      BY <2>1, NumberedType
    <3>2. pushes \in Seq(due(n))
      BY <3>1, InOrderType
    <3> QED BY <2>1, <3>2, SeqMonotonic
  <2>3. acklist[e] \in Seq(Sn)
    BY DEF TypeOK
  <2>4. out(n, pushes) \in Seq(FlushedSegs(acklist[e], buf(n)))
    BY <2>2, <2>3, OutgoingFrom
  <2>5. \A d \in Datagrams(rcv_nxt[e], WndUnused(e), out(n, pushes)) :
          d.una = rcv_nxt[e] /\ d.segs \in Seq(FlushedSegs(acklist[e], buf(n)))
    BY <2>4, DatagramsFrom
  <2> QED BY <1>3, <1>12, <2>5
<1>14. \A d \in net'[Peer(e)] :
         d \in net[Peer(e)] \/ d \in kept
  BY <1>3, PeerType DEF TypeOK
<1>15. /\ \A p \in Endpoints : p # e => UNCHANGED <<snd_queue[p], snd_nxt[p], snd_buf[p], acklist[p]>>
       /\ \A p \in Endpoints : p # Peer(e) => UNCHANGED net[p]
  BY <1>2, <1>3 DEF TypeOK, AreBuffers
<1>16. \A i \in 1 .. n : snd_buf'[e][snd_nxt[e] + i - 1].data = snd_queue[e][i]
  <2> HIDE DEF buf, buf2
  <2> QED BY <1>7, <1>8, <1>11
<1>17. /\ DOMAIN snd_buf'[e] = DOMAIN snd_buf[e] \cup (snd_nxt[e] .. snd_nxt[e] + n - 1)
       /\ \A sn \in DOMAIN snd_buf[e] : snd_buf'[e][sn].data = snd_buf[e][sn].data
  <2> HIDE DEF buf, buf2
  <2> QED BY <1>7, <1>8
<1>18. Flushes(e, n)
  BY <1>2, <1>9, <1>10, <1>13, <1>14, <1>15, <1>16, <1>17 DEF Flushes
<1> QED BY <1>4, <1>18

\* ikcp_update.
LEMMA UpdateFlow ==
  ASSUME TypeOK, TypeOK', ShortSession, FlowInv, NEW e \in Endpoints, Update(e)
  PROVE  FlowInv'
<1> SUFFICES ASSUME NEW s \in Endpoints PROVE Flow(s, Peer(s))'
  BY DEF FlowInv
<1>0. PICK r \in Endpoints : r = Peer(s) /\ r # s /\ (s = e \/ (s # e /\ r = e))
  BY TwoEnds
<1>2. Flow(s, r)
  BY <1>0 DEF FlowInv
<1>1. PICK n \in 0 .. Len(snd_queue[e]) : Flushes(e, n)
  BY UpdateEffect DEF FlowInv
<1>3. CASE s # e
  <2>1. Peer(e) # r
    BY <1>0, <1>3, TwoEnds
  <2> QED BY <1>0, <1>1, <1>2, <1>3, <2>1, FlowKept
          DEF Flushes, history, SenderSame, WaySame, ReceiverSame
<1>4. CASE s = e
  <2>1. /\ snd_nxt'[s] = snd_nxt[s] + n
        /\ Len(snd_queue'[s]) = Len(snd_queue[s]) - n
        /\ \A i \in 1 .. Len(snd_queue[s]) - n : snd_queue'[s][i] = snd_queue[s][n + i]
        /\ DOMAIN snd_buf'[s] = DOMAIN snd_buf[s] \cup (snd_nxt[s] .. snd_nxt[s] + n - 1)
        /\ \A sn \in DOMAIN snd_buf[s] : snd_buf'[s][sn].data = snd_buf[s][sn].data
        /\ \A i \in 1 .. n : snd_buf'[s][snd_nxt[s] + i - 1].data = snd_queue[s][i]
        /\ acklist'[s] = <<>>
        /\ \A d \in net'[r] :
             \/ d \in net[r]
             \/ d.una = rcv_nxt[s] /\ d.segs \in Seq(FlushedSegs(acklist[s], snd_buf'[s]))
        /\ UNCHANGED <<sent, log, delivered, snd_una, rcv_nxt, rcv_buf, rcv_queue, rx>>
    BY <1>0, <1>1, <1>4 DEF Flushes, history
  <2>2. PICK nxt \in Nat, len \in Nat, total \in Nat :
          nxt = snd_nxt[s] /\ len = Len(snd_queue[s]) /\ total = Len(log[s])
    BY Kinds
  <2>3. /\ n \in Nat /\ n <= len /\ nxt + len = total
        /\ \A i \in 1 .. len : snd_queue[s][i] = log[s][nxt + i]
    BY <1>1, <1>2, <1>4, <2>2 DEF Flow, Queued
  <2>4. Cut(s)' /\ Joined(s)'
    BY <1>2, <2>1, SenderFrame DEF Flow
  <2>5. Queued(s)'
    <3>1. nxt + n + (len - n) = total
      BY <2>3
    <3>2. \A i \in 1 .. len - n : snd_queue'[s][i] = log[s][nxt + n + i]
      <4> TAKE i \in 1 .. len - n
      <4>1. n + i \in 1 .. len /\ nxt + (n + i) = nxt + n + i
        BY <2>3
      <4> QED BY <2>1, <2>2, <2>3, <4>1
    <3> QED BY <2>1, <2>2, <3>1, <3>2 DEF Queued
  <2>6. \A sn \in DOMAIN snd_buf'[s] : /\ snd_una[s] <= sn
                                       /\ Carries(s, sn, snd_buf[s][sn].data)'
    <3>1. ASSUME NEW sn \in DOMAIN snd_buf[s]
          PROVE  /\ snd_una[s] <= sn /\ sn < nxt + n
                 /\ snd_buf'[s][sn].data = log[s][sn + 1]
      <4>1. sn < nxt /\ snd_una[s] <= sn /\ snd_buf[s][sn].data = log[s][sn + 1] /\ sn \in Nat
        BY <1>2, <2>2, Kinds DEF Flow, Buffered, Carries
      <4> QED BY <2>1, <2>3, <4>1
    <3>2. ASSUME NEW sn \in nxt .. nxt + n - 1
          PROVE  /\ snd_una[s] <= sn /\ sn < nxt + n
                 /\ snd_buf'[s][sn].data = log[s][sn + 1]
      <4>1. PICK i \in 1 .. n : sn = nxt + i - 1 /\ sn + 1 = nxt + i
        <5>1. sn - nxt + 1 \in 1 .. n /\ sn = nxt + (sn - nxt + 1) - 1 /\ sn + 1 = nxt + (sn - nxt + 1)
          BY <2>3
        <5> QED BY <5>1
      <4>2. snd_buf'[s][sn].data = snd_queue[s][i] /\ i \in 1 .. len
        <5>1. snd_buf'[s][nxt + i - 1].data = snd_queue[s][i]
          BY <2>1, <2>2
        <5> QED BY <2>3, <4>1, <5>1
      <4>3. snd_una[s] <= sn
        <5>1. snd_una[s] <= nxt /\ snd_una[s] \in Nat
          BY <1>2, <2>2, Kinds DEF Flow, Buffered
        <5> QED BY <2>3, <5>1
      <4> QED BY <2>3, <4>1, <4>2, <4>3
    <3>3. /\ DOMAIN snd_buf'[s] = DOMAIN snd_buf[s] \cup (nxt .. nxt + n - 1)
          /\ snd_nxt'[s] = nxt + n /\ log'[s] = log[s]
      BY <2>1, <2>2
    <3> QED BY <3>1, <3>2, <3>3 DEF Carries
  <2>7. Buffered(s)'
    <3>1. snd_una[s] <= nxt + n
      BY <1>2, <2>2, <2>3, Kinds DEF Flow, Buffered
    <3> QED BY <2>1, <2>2, <2>6, <3>1 DEF Buffered
  <2>8. Grows(s)
    BY <2>1, <2>2, <2>3, Kinds DEF Grows, Holds
  <2>9. \A sn : Holds(s, sn)' <=> Holds(s, sn)
    BY <2>1 DEF Holds
  <2>10. OnTheWay(s, r)'
    <3>1. ASSUME NEW d \in net'[r] PROVE Sound(s, d.una, d.segs)'
      <4>1. CASE d \in net[r]
        <5>1. PICK una \in Nat, segs \in Seq(Segment) : una = d.una /\ segs = d.segs
          BY <4>1, NetKinds
        <5>2. Queued(s) /\ Sound(s, una, segs)
          BY <1>2, <4>1, <5>1 DEF Flow, OnTheWay
        <5> QED BY <2>8, <5>1, <5>2, SoundKept
      <4>2. CASE d.una = rcv_nxt[s] /\ d.segs \in Seq(FlushedSegs(acklist[s], snd_buf'[s]))
        <5>1. ASSUME NEW i \in 1 .. Len(d.segs) PROVE SegOK(s, d.segs[i])'
          <6>1. d.segs[i] \in FlushedSegs(acklist[s], snd_buf'[s])
            BY <4>2
          <6>2. CASE \E j \in 1 .. Len(acklist[s]) : d.segs[i] = Ack(acklist[s][j])
            <7>1. PICK j \in 1 .. Len(acklist[s]) : d.segs[i] = Ack(acklist[s][j])
              BY <6>2
            <7>2. Holds(s, acklist[s][j])
              BY <1>2 DEF Flow, OnTheWay
            <7>3. d.segs[i].cmd = "ACK" /\ d.segs[i].sn = acklist[s][j]
              BY <7>1 DEF Ack
            <7> QED BY <2>9, <7>2, <7>3 DEF SegOK
          <6>3. CASE d.segs[i] \in {Probe("WASK"), Probe("WINS")}
            BY <6>3 DEF Probe, SegOK
          <6>4. CASE \E sn \in DOMAIN snd_buf'[s] : d.segs[i] = Push(sn, snd_buf'[s][sn].data)
            <7>1. PICK sn \in DOMAIN snd_buf'[s] : d.segs[i] = Push(sn, snd_buf'[s][sn].data)
              BY <6>4
            <7>2. d.segs[i].cmd = "PUSH" /\ d.segs[i].sn = sn /\ d.segs[i].data = snd_buf'[s][sn].data
              BY <7>1 DEF Push
            <7> QED BY <2>6, <7>2 DEF SegOK, Carries
          <6> QED BY <6>1, <6>2, <6>3, <6>4 DEF FlushedSegs
        <5>2. d.una <= rcv_nxt[s]
          BY <4>2, Kinds
        <5> QED BY <2>1, <5>1, <5>2 DEF Sound
      <4> QED BY <2>1, <4>1, <4>2
    <3>2. Sound(s, rx[r].una, rx[r].segs)'
      <4>1. PICK una \in Nat, segs \in Seq(Segment) : una = rx[r].una /\ segs = rx[r].segs
        BY NetKinds
      <4>2. Queued(s) /\ Sound(s, una, segs)
        BY <1>2, <4>1 DEF Flow, OnTheWay
      <4>3. Sound(s, una, segs)'
        BY <2>8, <4>2, SoundKept
      <4>4. rx'[r].una = una /\ rx'[r].segs = segs
        BY <2>1, <4>1
      <4> QED BY <4>3, <4>4
    <3> QED BY <2>1, <3>1, <3>2 DEF OnTheWay
  <2>11. Kept(s, r)'
    <3>1. ASSUME NEW sn \in 0 .. nxt + n - 1 PROVE Holds(r, sn) \/ sn \in DOMAIN snd_buf'[s]
      <4>1. CASE sn < nxt
        <5>1. sn \in 0 .. snd_nxt[s] - 1
          BY <2>2, <4>1
        <5> QED BY <1>2, <2>1, <5>1 DEF Flow, Kept
      <4>2. CASE sn >= nxt
        <5>1. sn \in snd_nxt[s] .. snd_nxt[s] + n - 1
          BY <2>2, <2>3, <4>2
        <5> QED BY <2>1, <5>1
      <4> QED BY <2>3, <4>1, <4>2
    <3> QED BY <2>1, <2>2, <3>1 DEF Kept, Holds
  <2>12. Held(s, r)'
    <3>1. \A sn \in DOMAIN rcv_buf[r] : \A data : Carries(s, sn, data) => Carries(s, sn, data)'
      <4>1. \A sn \in DOMAIN rcv_buf[r] : sn \in Nat
        BY Kinds
      <4> QED BY <2>1, <2>2, <2>3, <4>1 DEF Carries
    <3>2. rcv_nxt[r] <= snd_nxt'[s]
      BY <1>2, <2>1, <2>2, <2>3, Kinds DEF Flow, Held
    <3> QED BY <1>2, <2>1, <3>1, <3>2 DEF Flow, Held
  <2>13. Read(s, r)'
    BY <1>2, <2>1 DEF Flow, Read, BeginsAt
  <2> QED BY <1>0, <2>4, <2>5, <2>7, <2>10, <2>11, <2>12, <2>13 DEF Flow
<1> QED BY <1>3, <1>4

\* The two parts of a concatenation.
LEMMA ConcatParts ==
  ASSUME NEW S, NEW p \in Seq(S), NEW q \in Seq(S)
  PROVE  /\ Len(p \o q) = Len(p) + Len(q)
         /\ \A i \in 1 .. Len(p) : (p \o q)[i] = p[i]
         /\ \A j \in 1 .. Len(q) : (p \o q)[Len(p) + j] = q[j]
<1>1. Len(p) \in Nat /\ Len(q) \in Nat
  BY LenProperties
<1> QED BY <1>1, ConcatProperties

\* Moving segments from rcv_buf to rcv_queue, whatever was added to rcv_buf or taken
\* from rcv_queue before.
LEMMA MoveEffect ==
  ASSUME TypeOK, ShortSession, NEW s \in Endpoints, NEW r \in Endpoints,
         snd_nxt[s] <= MaxSegs[s], rcv_nxt[r] <= snd_nxt[s],
         NEW D \in SUBSET Nat, NEW buf \in [D -> Fragment], NEW queue \in Seq(Fragment),
         \A sn \in D : /\ rcv_nxt[r] <= sn /\ sn < rcv_nxt[r] + RcvWnd
                       /\ Carries(s, sn, buf[sn]),
         Len(queue) <= RcvWnd, Len(queue) <= rcv_nxt[r],
         \A i \in 1 .. Len(queue) : queue[i] = log[s][rcv_nxt[r] - Len(queue) + i],
         MoveReady(r, buf, queue), UNCHANGED <<log[s], snd_nxt[s]>>
  PROVE  /\ Held(s, r)'
         /\ rcv_nxt[r] <= rcv_nxt'[r]
         /\ rcv_nxt'[r] - Len(rcv_queue'[r]) = rcv_nxt[r] - Len(queue)
         /\ \A sn \in Nat : sn < rcv_nxt[r] \/ sn \in D => Holds(r, sn)'
         /\ \A p \in Endpoints : p # r => UNCHANGED <<rcv_nxt[p], rcv_buf[p], rcv_queue[p]>>
<1>0. PICK nxt \in Nat, len \in Nat : nxt = rcv_nxt[r] /\ len = Len(queue)
  BY Kinds, LenProperties
<1>1. RcvWnd \in Nat /\ snd_nxt[s] \in Nat /\ MaxSegs[s] \in Nat
  BY Kinds
<1> DEFINE next(n)  == [i \in 1 .. n |-> buf[SeqAdd(rcv_nxt[r], i - 1)]]
           moved(n) == {SeqAdd(rcv_nxt[r], i) : i \in 0 .. n - 1}
           rest(n)  == [sn \in D \ moved(n) |-> buf[sn]]
<1>2. PICK n \in Ready(buf, rcv_nxt[r], Len(queue)) :
        /\ rcv_queue' = [rcv_queue EXCEPT ![r] = queue \o next(n)]
        /\ rcv_buf' = [rcv_buf EXCEPT ![r] = rest(n)]
        /\ rcv_nxt' = [rcv_nxt EXCEPT ![r] = SeqAdd(@, n)]
  BY DEF MoveReady
<1>3. /\ n \in Nat /\ n <= RcvWnd
      /\ \A i \in 0 .. n - 1 : SeqAdd(nxt, i) \in D /\ len + i < RcvWnd
  BY <1>0, <1>1 DEF Ready
<1>4. \A i \in 0 .. n : SeqAdd(nxt, i) = nxt + i
  <2> TAKE i \in 0 .. n
  <2>1. nxt + i <= MaxSegs[s] + RcvWnd /\ i \in Nat
    BY <1>0, <1>1, <1>3
  <2> QED BY <2>1, Plain
<1>5. \A i \in 0 .. n - 1 : nxt + i \in D /\ len + i < RcvWnd
  <2> TAKE i \in 0 .. n - 1
  <2>1. i \in 0 .. n
    BY <1>3
  <2> QED BY <1>3, <1>4, <2>1
<1>6. nxt + n <= snd_nxt[s] /\ len + n <= RcvWnd
  <2>1. CASE n = 0
    BY <1>0, <1>1, <2>1
  <2>2. CASE n > 0
    <3>1. n - 1 \in 0 .. n - 1
      BY <1>3, <2>2
    <3>2. nxt + (n - 1) < snd_nxt[s] /\ len + (n - 1) < RcvWnd
      BY <1>5, <3>1 DEF Carries
    <3> QED BY <1>1, <1>3, <3>2
  <2> QED BY <1>3, <2>1, <2>2
<1>7. moved(n) = nxt .. nxt + n - 1
  <2>1. \A sn \in nxt .. nxt + n - 1 : sn - nxt \in 0 .. n - 1 /\ sn = nxt + (sn - nxt)
    BY <1>3
  <2>2. \A sn \in nxt .. nxt + n - 1 : sn \in moved(n)
    <3> TAKE sn \in nxt .. nxt + n - 1
    <3>1. sn - nxt \in 0 .. n
      BY <1>3
    <3>2. sn = SeqAdd(rcv_nxt[r], sn - nxt)
      BY <1>0, <1>4, <2>1, <3>1
    <3> QED BY <2>1, <3>2
  <2>3. \A i \in 0 .. n - 1 : SeqAdd(nxt, i) \in nxt .. nxt + n - 1
    BY <1>3, <1>4
  <2> QED BY <1>0, <2>2, <2>3
<1>8. next(n) \in Seq(Fragment) /\ Len(next(n)) = n
  <2>1. \A i \in 1 .. n : i - 1 \in 0 .. n - 1
    BY <1>3
  <2>2. next(n) \in [1 .. n -> Fragment]
    BY <1>0, <1>3, <2>1
  <2> QED BY <1>3, <2>2, FunctionIsSeq
<1>9. \A j \in 1 .. n : next(n)[j] = log[s][nxt + j]
  <2> TAKE j \in 1 .. n
  <2>1. j - 1 \in 0 .. n - 1 /\ nxt + (j - 1) + 1 = nxt + j
    BY <1>3
  <2>2. next(n)[j] = buf[nxt + (j - 1)] /\ nxt + (j - 1) \in D
    <3>1. next(n)[j] = buf[SeqAdd(rcv_nxt[r], j - 1)] /\ j - 1 \in 0 .. n
      BY <1>3
    <3> QED BY <1>0, <1>4, <1>5, <2>1, <3>1
  <2> QED BY <2>1, <2>2 DEF Carries
<1> HIDE DEF next
<1>10. /\ rcv_queue'[r] = queue \o next(n)
       /\ rcv_buf'[r] = rest(n)
       /\ rcv_nxt'[r] = nxt + n
  <2>1. n \in 0 .. n
    BY <1>3
  <2> QED BY <1>0, <1>2, <1>4, <2>1 DEF TypeOK, AreBuffers
<1>11. /\ Len(rcv_queue'[r]) = len + n
       /\ \A i \in 1 .. len : rcv_queue'[r][i] = queue[i]
       /\ \A j \in 1 .. n : rcv_queue'[r][len + j] = next(n)[j]
  <2>1. PICK more \in Seq(Fragment) : more = next(n) /\ Len(more) = n
    BY <1>8
  <2>2. /\ Len(queue \o more) = Len(queue) + n
        /\ \A i \in 1 .. Len(queue) : (queue \o more)[i] = queue[i]
        /\ \A j \in 1 .. n : (queue \o more)[Len(queue) + j] = more[j]
    BY <2>1, ConcatParts
  <2> QED BY <1>0, <1>10, <2>1, <2>2
<1>12. ASSUME NEW i \in 1 .. len + n
       PROVE  rcv_queue'[r][i] = log[s][(nxt + n) - (len + n) + i]
  <2>1. CASE i <= len
    <3>1. i \in 1 .. len /\ (nxt + n) - (len + n) + i = nxt - len + i
      BY <1>3, <2>1
    <3>2. queue[i] = log[s][nxt - len + i]
      BY <1>0, <3>1
    <3> QED BY <1>11, <3>1, <3>2
  <2>2. CASE i > len
    <3>1. PICK j \in 1 .. n : i = len + j
      <4>1. i - len \in 1 .. n /\ i = len + (i - len)
        BY <1>3, <2>2
      <4> QED BY <4>1
    <3>2. (nxt + n) - (len + n) + i = nxt + j
      BY <1>3, <3>1
    <3> QED BY <1>9, <1>11, <3>1, <3>2
  <2> QED BY <1>3, <2>1, <2>2
<1>13. /\ DOMAIN rcv_buf'[r] = D \ (nxt .. nxt + n - 1)
       /\ \A sn \in DOMAIN rcv_buf'[r] : rcv_buf'[r][sn] = buf[sn]
  BY <1>7, <1>10
<1>14. \A sn \in DOMAIN rcv_buf'[r] : /\ nxt + n <= sn /\ sn < nxt + n + RcvWnd
                                      /\ Carries(s, sn, buf[sn])
  <2> TAKE sn \in DOMAIN rcv_buf'[r]
  <2>1. sn \in D /\ sn \in Nat /\ sn \notin nxt .. nxt + n - 1
    BY <1>13
  <2>2. nxt <= sn /\ sn < nxt + RcvWnd /\ Carries(s, sn, buf[sn])
    BY <1>0, <2>1
  <2> QED BY <1>1, <1>3, <2>1, <2>2
<1>15. Held(s, r)'
  <2>1. len + n <= nxt + n
    BY <1>0, <1>3
  <2> QED BY <1>6, <1>10, <1>11, <1>12, <1>13, <1>14, <2>1 DEF Held, Carries
<1>16. rcv_nxt'[r] - Len(rcv_queue'[r]) = rcv_nxt[r] - Len(queue) /\ rcv_nxt[r] <= rcv_nxt'[r]
  <2>1. (nxt + n) - (len + n) = nxt - len /\ nxt <= nxt + n
    BY <1>3
  <2> QED BY <1>0, <1>10, <1>11, <2>1
<1>17. \A sn \in Nat : sn < rcv_nxt[r] \/ sn \in D => Holds(r, sn)'
  <2> TAKE sn \in Nat
  <2>1. sn < nxt \/ sn \in nxt .. nxt + n - 1 => sn < nxt + n
    BY <1>3
  <2> QED BY <1>0, <1>10, <1>13, <2>1 DEF Holds
<1>18. \A p \in Endpoints : p # r => UNCHANGED <<rcv_nxt[p], rcv_buf[p], rcv_queue[p]>>
  BY <1>2 DEF TypeOK, AreBuffers
<1> QED BY <1>15, <1>16, <1>17, <1>18

\* What ikcp_input frees in the send buffer, the other end holds.
LEMMA RxFrees ==
  ASSUME TypeOK, ShortSession, NEW e \in Endpoints, NEW r \in Endpoints, r = Peer(e),
         Flow(e, r), OnTheWay(r, e), RxSegment(e)
  PROVE  /\ DOMAIN snd_buf'[e] \subseteq DOMAIN snd_buf[e]
         /\ \A sn \in DOMAIN snd_buf'[e] : snd_buf'[e][sn] = snd_buf[e][sn]
         /\ \A sn \in DOMAIN snd_buf[e] : sn \in DOMAIN snd_buf'[e] \/ Holds(r, sn)
         /\ snd_una[e] <= snd_una'[e] /\ snd_una'[e] <= snd_nxt[e]
         /\ \A sn \in DOMAIN snd_buf'[e] : snd_una'[e] <= sn
<1> DEFINE una == rx[e].una
           sn == Head(rx[e].segs).sn
           buf1 == ParseUna(snd_buf[e], una)
           S == 0 .. MaxSegs[e] + RcvWnd
<1>1. /\ \A a, b \in S : Diff(a, b) = a - b
      /\ MaxSegs[e] \in Nat /\ RcvWnd \in Nat /\ snd_nxt[e] \in Nat /\ snd_una[e] \in Nat
  BY Plain, Kinds
<1>2. snd_nxt[e] \in S /\ snd_una[e] \in S /\ DOMAIN snd_buf[e] \subseteq S
  <2>1. /\ snd_una[e] <= snd_nxt[e] /\ snd_nxt[e] <= Len(log[e]) /\ Len(log[e]) <= MaxSegs[e]
        /\ \A k \in DOMAIN snd_buf[e] : k < snd_nxt[e]
    BY Places
  <2>2. Len(log[e]) \in Nat /\ \A k \in DOMAIN snd_buf[e] : k \in Nat
    BY Kinds
  <2> QED BY <1>1, <2>1, <2>2
<1>3. una \in S /\ una <= rcv_nxt[r] /\ rcv_nxt[r] \in Nat /\ una \in Nat
  <2>1. una <= rcv_nxt[r] /\ rcv_nxt[r] <= snd_nxt[e]
    BY Places DEF OnTheWay, Sound
  <2> QED BY <1>1, <1>2, <2>1, NetKinds, Kinds
<1>4. \A k \in DOMAIN buf1 : k \in DOMAIN snd_buf[e] /\ buf1[k] = snd_buf[e][k]
  BY DEF ParseUna
<1>5. \A k \in DOMAIN snd_buf[e] : k \in DOMAIN buf1 \/ Holds(r, k)
  <2> TAKE k \in DOMAIN snd_buf[e]
  <2>1. k \in S /\ Diff(una, k) = una - k
    BY <1>1, <1>2, <1>3
  <2>2. k \notin DOMAIN buf1 => ~ Diff(una, k) <= 0
    BY DEF ParseUna
  <2>3. k \notin DOMAIN buf1 => k < rcv_nxt[r]
    BY <1>3, <2>1, <2>2
  <2> QED BY <2>3 DEF Holds
<1> HIDE DEF buf1
\* ikcp_shrink_buf on any part of the buffer.
<1>6. ASSUME NEW buf, DOMAIN buf \subseteq DOMAIN snd_buf[e], NEW u \in ShrinkBuf(buf, snd_nxt[e])
      PROVE  /\ snd_una[e] <= u /\ u <= snd_nxt[e]
             /\ \A k \in DOMAIN buf : u <= k
  <2>1. u \in DOMAIN buf \cup {snd_nxt[e]}
    BY <1>6 DEF ShrinkBuf
  <2>2. u \in S /\ DOMAIN buf \subseteq S
    BY <1>2, <1>6, <2>1
  <2>3. \A k \in DOMAIN buf \cup {snd_nxt[e]} : Diff(u, k) = u - k /\ Diff(u, k) <= 0
    BY <1>1, <1>2, <1>6, <2>2 DEF ShrinkBuf
  <2>4. \A k \in S : u - k <= 0 => u <= k
    BY <1>1, <2>2
  <2>5. snd_una[e] <= u
    BY <1>6, <2>1, Places
  <2> QED BY <1>2, <2>2, <2>3, <2>4, <2>5
<1>7. CASE RxUna(e)
  <2>1. snd_buf'[e] = buf1 /\ \E u \in ShrinkBuf(buf1, snd_nxt[e]) : snd_una'[e] = u
    BY <1>7 DEF RxUna, buf1, TypeOK, AreBuffers
  <2>2. DOMAIN buf1 \subseteq DOMAIN snd_buf[e]
    BY <1>4
  <2> QED BY <1>4, <1>5, <1>6, <2>1, <2>2
<1>8. CASE RxAck(e)
  <2> DEFINE buf2(u) == ParseAck(buf1, u, snd_nxt[e], sn)
  <2>1. PICK v \in ShrinkBuf(buf1, snd_nxt[e]) :
          /\ snd_buf'[e] = buf2(v)
          /\ \E u \in ShrinkBuf(buf2(v), snd_nxt[e]) : snd_una'[e] = u
    BY <1>8 DEF RxAck, buf1, TypeOK, AreBuffers
  <2>2. \A k \in DOMAIN buf2(v) : k \in DOMAIN buf1 /\ buf2(v)[k] = buf1[k]
    BY DEF ParseAck
  <2>3. \A k \in DOMAIN buf1 : k \in DOMAIN buf2(v) \/ k = sn
    BY DEF ParseAck
  <2>4. Holds(r, sn)
    <3>1. rx[e].segs # <<>> /\ Head(rx[e].segs).cmd = "ACK"
      BY <1>8 DEF RxSegment, RxAck
    <3>2. 1 \in 1 .. Len(rx[e].segs) /\ Head(rx[e].segs) = rx[e].segs[1]
      BY <3>1, NetKinds, HeadTailProperties, EmptySeq, LenProperties
    <3> QED BY <3>1, <3>2 DEF OnTheWay, Sound, SegOK
  <2> HIDE DEF buf2
  <2>5. DOMAIN buf2(v) \subseteq DOMAIN snd_buf[e]
    BY <1>4, <2>2
  <2> QED BY <1>4, <1>5, <1>6, <2>1, <2>2, <2>3, <2>4, <2>5
<1> QED BY <1>7, <1>8 DEF RxSegment, RxPush, RxProbe

\* What an iteration of ikcp_input receives.
LEMMA RxGrows ==
  ASSUME TypeOK, ShortSession, NEW e \in Endpoints, NEW s \in Endpoints, s = Peer(e), s # e,
         Flow(s, e), RxSegment(e)
  PROVE  /\ Held(s, e)'
         /\ Grows(e)
         /\ rcv_nxt'[e] - Len(rcv_queue'[e]) = rcv_nxt[e] - Len(rcv_queue[e])
         /\ \A i \in 1 .. Len(acklist'[e]) :
              \/ Holds(e, acklist[e][i])'
              \/ \E j \in 1 .. Len(acklist[e]) : acklist'[e][i] = acklist[e][j]
         /\ \A p \in Endpoints :
              p # e => UNCHANGED <<rcv_nxt[p], rcv_buf[p], rcv_queue[p], acklist[p]>>
<1> DEFINE seg == Head(rx[e].segs)
           inWindow == Diff(seg.sn, SeqAdd(rcv_nxt[e], RcvWnd)) < 0
           new == inWindow /\ Diff(seg.sn, rcv_nxt[e]) >= 0
<1>1. UNCHANGED <<sent, log, delivered, snd_nxt>>
  BY DEF RxSegment, history
<1>2. CASE UNCHANGED <<rcv_nxt, rcv_buf, rcv_queue>> /\ UNCHANGED acklist
  <2>1. Held(s, e)'
    BY <1>1, <1>2 DEF Flow, Held, Carries
  <2>2. Grows(e)
    BY <1>1, <1>2, Kinds DEF Grows, Holds
  <2> QED BY <1>2, <2>1, <2>2
<1>3. CASE RxPush(e)
  <2>1. seg \in Segment /\ seg.cmd = "PUSH" /\ SegOK(s, seg) /\ seg.sn \in Nat /\ seg.data \in Fragment
    <3>1. rx[e].segs # <<>> /\ seg.cmd = "PUSH"
      BY <1>3 DEF RxSegment, RxPush
    <3>2. 1 \in 1 .. Len(rx[e].segs) /\ seg = rx[e].segs[1] /\ seg \in Segment
      BY <3>1, NetKinds, HeadTailProperties, EmptySeq, LenProperties
    <3>3. SegOK(s, seg)
      BY <3>2 DEF Flow, OnTheWay, Sound
    <3> QED BY <3>1, <3>2, <3>3, SeqModAssumption DEF Segment, Sn
  <2>2. PICK sn \in Nat, data \in Fragment : sn = seg.sn /\ data = seg.data
    BY <2>1
  <2>3. Carries(s, sn, data)
    BY <2>1, <2>2 DEF SegOK
  <2>4. /\ snd_nxt[s] <= MaxSegs[s] /\ rcv_nxt[e] <= snd_nxt[s] /\ sn < snd_nxt[s]
        /\ snd_nxt[s] \in Nat /\ MaxSegs[s] \in Nat /\ RcvWnd \in Nat /\ rcv_nxt[e] \in Nat
    BY <2>3, Places, Kinds DEF Carries
  <2>5. /\ Diff(sn, rcv_nxt[e]) = sn - rcv_nxt[e]
        /\ SeqAdd(rcv_nxt[e], RcvWnd) = rcv_nxt[e] + RcvWnd
        /\ Diff(sn, rcv_nxt[e] + RcvWnd) = sn - (rcv_nxt[e] + RcvWnd)
    <3>1. /\ sn \in 0 .. MaxSegs[s] + RcvWnd /\ rcv_nxt[e] \in 0 .. MaxSegs[s] + RcvWnd
          /\ rcv_nxt[e] + RcvWnd \in 0 .. MaxSegs[s] + RcvWnd
          /\ rcv_nxt[e] + RcvWnd <= MaxSegs[s] + RcvWnd
      BY <2>4
    <3> QED BY <2>4, <3>1, Plain
  <2>6. /\ inWindow <=> sn < rcv_nxt[e] + RcvWnd
        /\ new <=> sn < rcv_nxt[e] + RcvWnd /\ rcv_nxt[e] <= sn
    BY <2>2, <2>4, <2>5
  <2>7. acklist' = IF inWindow THEN AckPush(e, sn) ELSE acklist
    BY <1>3, <2>2 DEF RxPush
  <2>8. /\ Held(s, e)'
        /\ rcv_nxt[e] <= rcv_nxt'[e]
        /\ rcv_nxt'[e] - Len(rcv_queue'[e]) = rcv_nxt[e] - Len(rcv_queue[e])
        /\ \A k \in Nat : Holds(e, k) => Holds(e, k)'
        /\ inWindow => Holds(e, sn)'
        /\ \A p \in Endpoints : p # e => UNCHANGED <<rcv_nxt[p], rcv_buf[p], rcv_queue[p]>>
    <3>1. CASE new
      <4> DEFINE D == DOMAIN rcv_buf[e] \cup {sn}
                 buf == [k \in D |-> IF k \in DOMAIN rcv_buf[e] THEN rcv_buf[e][k] ELSE data]
                 queue == rcv_queue[e]
      <4>1. MoveReady(e, buf, queue)
        BY <1>3, <2>2, <3>1 DEF RxPush, ParseData
      <4>2. DOMAIN rcv_buf[e] \in SUBSET Nat /\ rcv_buf[e] \in [DOMAIN rcv_buf[e] -> Fragment]
        BY Kinds, BufferType DEF TypeOK
      <4>3. D \in SUBSET Nat /\ buf \in [D -> Fragment] /\ queue \in Seq(Fragment)
        BY <4>2, Kinds
      <4>4. \A k \in D : /\ rcv_nxt[e] <= k /\ k < rcv_nxt[e] + RcvWnd
                         /\ Carries(s, k, buf[k])
        <5>1. \A k \in DOMAIN rcv_buf[e] : /\ rcv_nxt[e] <= k /\ k < rcv_nxt[e] + RcvWnd
                                           /\ Carries(s, k, rcv_buf[e][k])
          BY DEF Flow, Held
        <5> QED BY <2>3, <2>6, <3>1, <5>1
      <4>5. /\ Len(queue) <= RcvWnd /\ Len(queue) <= rcv_nxt[e]
            /\ \A i \in 1 .. Len(queue) : queue[i] = log[s][rcv_nxt[e] - Len(queue) + i]
        BY DEF Flow, Held
      <4>6. sn \in D /\ DOMAIN rcv_buf[e] \subseteq D
        OBVIOUS
      <4> HIDE DEF D, buf
      <4>7. /\ Held(s, e)'
            /\ rcv_nxt[e] <= rcv_nxt'[e]
            /\ rcv_nxt'[e] - Len(rcv_queue'[e]) = rcv_nxt[e] - Len(queue)
            /\ \A k \in Nat : k < rcv_nxt[e] \/ k \in D => Holds(e, k)'
            /\ \A p \in Endpoints : p # e => UNCHANGED <<rcv_nxt[p], rcv_buf[p], rcv_queue[p]>>
        <5>1. UNCHANGED <<log[s], snd_nxt[s]>>
          BY <1>1
        <5> QED BY <2>4, <4>1, <4>3, <4>4, <4>5, <5>1, MoveEffect, ZenonT(60)
      <4> QED BY <4>6, <4>7 DEF Holds
    <3>2. CASE ~ new
      <4>1. UNCHANGED <<rcv_nxt, rcv_buf, rcv_queue>>
        BY <1>3, <3>2 DEF RxPush
      <4>2. Held(s, e)'
        BY <1>1, <4>1 DEF Flow, Held, Carries
      <4>3. inWindow => sn < rcv_nxt[e]
        BY <2>4, <2>6, <3>2
      <4> QED BY <2>4, <4>1, <4>2, <4>3 DEF Holds
    <3> QED BY <3>1, <3>2
  <2>9. Grows(e)
    <3>1. /\ Len(log[e]) <= Len(log'[e]) /\ snd_nxt[e] <= snd_nxt'[e]
          /\ \A i \in 1 .. Len(log[e]) : log'[e][i] = log[e][i]
      BY <1>1, Kinds
    <3> QED BY <2>8, <3>1 DEF Grows
  <2>10. \A i \in 1 .. Len(acklist'[e]) :
           \/ Holds(e, acklist[e][i])'
           \/ \E j \in 1 .. Len(acklist[e]) : acklist'[e][i] = acklist[e][j]
    <3>1. CASE ~ inWindow
      BY <2>7, <3>1
    <3>2. CASE inWindow
      <4>1. acklist'[e] = Append(acklist[e], sn)
        BY <2>7, <3>2 DEF AckPush, TypeOK
      <4>2. PICK acks \in Seq(Sn) : acks = acklist[e]
        BY Kinds
      <4>3. sn \in Sn
        BY <2>1, <2>2 DEF Segment
      <4>4. /\ Len(acklist'[e]) = Len(acks) + 1
            /\ \A i \in 1 .. Len(acks) : acklist'[e][i] = acks[i]
            /\ acklist'[e][Len(acks) + 1] = sn
        BY <4>1, <4>2, <4>3, AppendProperties
      <4>5. \A i \in 1 .. Len(acks) + 1 : i \in 1 .. Len(acks) \/ i = Len(acks) + 1
        BY <4>2, LenProperties
      <4>6. Holds(e, sn)'
        BY <2>8, <3>2
      <4> QED BY <4>2, <4>4, <4>5, <4>6 DEF Holds
    <3> QED BY <3>1, <3>2
  <2>11. \A p \in Endpoints : p # e => UNCHANGED acklist[p]
    BY <2>7 DEF AckPush, TypeOK
  <2> QED BY <2>8, <2>9, <2>10, <2>11
<1>4. RxPush(e) \/ (UNCHANGED <<rcv_nxt, rcv_buf, rcv_queue>> /\ UNCHANGED acklist)
  BY DEF RxSegment, RxAck, RxProbe, rcvVars
<1> QED BY <1>2, <1>3, <1>4

\* An iteration of ikcp_input.
LEMMA RxSegmentFlow ==
  ASSUME TypeOK, TypeOK', ShortSession, FlowInv, NEW e \in Endpoints, RxSegment(e)
  PROVE  FlowInv'
<1> SUFFICES ASSUME NEW s \in Endpoints PROVE Flow(s, Peer(s))'
  BY DEF FlowInv
<1>0. PICK r \in Endpoints : r = Peer(s) /\ s = Peer(r) /\ r # s /\ (s = e \/ (s # e /\ r = e))
  BY TwoEnds, PeerTwice
<1>1. Flow(s, r) /\ Flow(r, s)
  BY <1>0 DEF FlowInv
<1>2. /\ UNCHANGED <<sent, log, delivered, snd_queue, snd_nxt, net>>
      /\ \A p \in Endpoints : p # e => UNCHANGED <<snd_buf[p], snd_una[p], rx[p]>>
      /\ rx[e].segs # <<>>
  <2>1. /\ UNCHANGED <<sent, log, delivered, snd_queue, snd_nxt, net>>
        /\ rx[e].segs # <<>>
    BY DEF RxSegment, history
  <2>2. RxUna(e) \/ RxAck(e)
    BY DEF RxSegment, RxPush, RxProbe
  <2>3. \A p \in Endpoints : p # e => UNCHANGED <<snd_buf[p], snd_una[p]>>
    BY ZenonT(40), <2>2 DEF RxUna, RxAck, TypeOK, AreBuffers
  <2>4. \A p \in Endpoints : p # e => UNCHANGED rx[p]
    BY <2>2 DEF RxUna, RxAck, RxNext, TypeOK
  <2> QED BY <2>1, <2>3, <2>4
<1>3. rx'[e].una = rx[e].una /\ rx'[e].segs = Tail(rx[e].segs)
  <2>1. rx[e] \in Call /\ rx \in [Endpoints -> Call]
    BY DEF TypeOK
  <2>2. RxNext(e)[e].una = rx[e].una /\ RxNext(e)[e].segs = Tail(rx[e].segs)
    BY <2>1 DEF RxNext, Call
  <2>3. CASE RxUna(e)
    BY <2>2, <2>3 DEF RxUna
  <2>4. CASE RxAck(e)
    BY <2>1, <2>4 DEF RxAck, RxNext, Call
  <2> QED BY <2>3, <2>4 DEF RxSegment, RxPush, RxProbe
<1>4. CASE s = e
  <2>1. /\ Held(r, s)'
        /\ Grows(s)
        /\ \A i \in 1 .. Len(acklist'[s]) :
             \/ Holds(s, acklist[s][i])'
             \/ \E j \in 1 .. Len(acklist[s]) : acklist'[s][i] = acklist[s][j]
        /\ UNCHANGED <<rcv_nxt[r], rcv_buf[r], rcv_queue[r], acklist[r]>>
    BY <1>0, <1>1, <1>4, RxGrows
  <2>2. /\ DOMAIN snd_buf'[s] \subseteq DOMAIN snd_buf[s]
        /\ \A sn \in DOMAIN snd_buf'[s] : snd_buf'[s][sn] = snd_buf[s][sn]
        /\ \A sn \in DOMAIN snd_buf[s] : sn \in DOMAIN snd_buf'[s] \/ Holds(r, sn)
        /\ snd_una'[s] <= snd_nxt[s]
        /\ \A sn \in DOMAIN snd_buf'[s] : snd_una'[s] <= sn
    BY <1>0, <1>1, <1>4, RxFrees DEF Flow
  <2>3. Cut(s)' /\ Joined(s)' /\ Queued(s)'
    BY <1>1, <1>2, SenderFrame DEF Flow, Queued
  <2>4. Buffered(s)'
    BY <1>1, <1>2, <2>2 DEF Flow, Buffered, Carries
  <2>5. OnTheWay(s, r)'
    <3>1. net'[r] \subseteq net[r] /\ rx'[r].una = rx[r].una /\ rx'[r].segs = rx[r].segs
      BY <1>0, <1>2, <1>4
    <3> QED BY <1>1, <2>1, <3>1, WayGrows DEF Flow
  <2>6. Kept(s, r)'
    BY <1>1, <1>2, <2>1, <2>2 DEF Flow, Kept, Holds
  <2>7. Held(s, r)' /\ Read(s, r)'
    <3>1. /\ UNCHANGED <<rcv_nxt[r], rcv_buf[r], rcv_queue[r], delivered[r]>>
          /\ UNCHANGED <<sent[s], log[s], snd_nxt[s]>>
      BY <1>2, <2>1
    <3>2. Held(s, r) /\ Read(s, r)
      BY <1>1 DEF Flow
    <3>3. Held(s, r)'
      BY <3>1, <3>2 DEF Held, Carries
    <3>4. Read(s, r)'
      BY <3>1, <3>2 DEF Read, BeginsAt
    <3> QED BY <3>3, <3>4
  <2> QED BY <1>0, <2>3, <2>4, <2>5, <2>6, <2>7 DEF Flow
<1>5. CASE r = e
  <2>1. /\ Held(s, r)'
        /\ Grows(r)
        /\ rcv_nxt'[r] - Len(rcv_queue'[r]) = rcv_nxt[r] - Len(rcv_queue[r])
        /\ UNCHANGED <<rcv_nxt[s], rcv_buf[s], rcv_queue[s], acklist[s]>>
    BY <1>0, <1>1, <1>5, RxGrows
  <2>2. SenderSame(s)
    BY <1>0, <1>2, <1>5 DEF SenderSame
  <2>3. Cut(s)' /\ Joined(s)' /\ Queued(s)' /\ Buffered(s)'
    BY <1>1, <2>2, SenderFrame, SenderKept DEF Flow, SenderSame
  <2>4. Grows(s)
    BY <1>2, <2>1, Kinds DEF Grows, Holds
  <2>5. OnTheWay(s, r)'
    <3>1. /\ net'[r] \subseteq net[r] /\ rx'[r].una = rx[r].una
          /\ rx'[r].segs = Tail(rx[r].segs) /\ rx[r].segs # <<>>
      BY <1>2, <1>3, <1>5
    <3>2. \A i \in 1 .. Len(acklist'[s]) :
            \E j \in 1 .. Len(acklist[s]) : acklist'[s][i] = acklist[s][j]
      BY <2>1
    <3> QED BY <1>1, <2>4, <3>1, <3>2, WayGrows DEF Flow
  <2>6. Kept(s, r)'
    <3>1. \A sn \in 0 .. snd_nxt[s] - 1 : Holds(r, sn)' \/ sn \in DOMAIN snd_buf[s]
      <4>1. \A sn \in 0 .. snd_nxt[s] - 1 : sn \in Nat
        BY Kinds
      <4> QED BY <1>1, <2>1, <4>1 DEF Flow, Kept, Grows
    <3> QED BY <1>2, <2>2, <3>1 DEF Kept, SenderSame
  <2>7. Read(s, r)'
    BY <1>1, <1>2, <2>1 DEF Flow, Read, BeginsAt
  <2> QED BY <1>0, <2>1, <2>3, <2>5, <2>6, <2>7 DEF Flow
<1> QED BY <1>0, <1>4, <1>5

\* ikcp_recv takes the fragments of exactly one message, the next one.
LEMMA MergedIsMessage ==
  ASSUME TypeOK, NEW s \in Endpoints, NEW r \in Endpoints, Flow(s, r), Readable(r),
         NEW n \in Merged(rcv_queue[r])
  PROVE  /\ Len(delivered[r]) + 1 \in 1 .. Len(sent[s])
         /\ n = Len(sent[s][Len(delivered[r]) + 1])
         /\ \A i \in 1 .. n : rcv_queue[r][i] = sent[s][Len(delivered[r]) + 1][i]
         /\ BeginsAt(s, rcv_nxt[r] - Len(rcv_queue[r]) + n, Len(delivered[r]) + 2)
<1>1. PICK nxt \in Nat, len \in Nat, m \in Nat, total \in Nat :
        /\ nxt = rcv_nxt[r] /\ len = Len(rcv_queue[r])
        /\ m = Len(delivered[r]) + 1 /\ total = Len(log[s])
  <2>1. Len(delivered[r]) + 1 \in Nat
    BY Kinds
  <2> QED BY <2>1, Kinds
<1>2. /\ len > 0 /\ len >= rcv_queue[r][1].frg + 1
  <2>1. rcv_queue[r] # <<>> /\ len >= Head(rcv_queue[r]).frg + 1
    BY <1>1 DEF Readable, WholeMessage
  <2>2. rcv_queue[r] \in Seq(Fragment)
    BY Kinds
  <2>3. Head(rcv_queue[r]) = rcv_queue[r][1] /\ Len(rcv_queue[r]) # 0
    BY <2>1, <2>2, HeadTailProperties, EmptySeq
  <2> QED BY <1>1, <2>1, <2>3
<1>3. /\ len <= nxt /\ nxt <= total
      /\ \A i \in 1 .. len : rcv_queue[r][i] = log[s][nxt - len + i]
  <2>1. rcv_nxt[r] <= snd_nxt[s] /\ snd_nxt[s] <= Len(log[s]) /\ snd_nxt[s] \in Nat
    BY Places, Kinds
  <2> QED BY <1>1, <2>1 DEF Flow, Held
<1>4. PICK pos \in Nat : pos = nxt - len /\ pos # total /\ pos \in 0 .. total
  <2>1. nxt - len \in Nat /\ nxt - len # total /\ nxt - len \in 0 .. total
    BY <1>2, <1>3
  <2> QED BY <2>1
<1>5. BeginsAt(s, pos, m)
  BY <1>1, <1>4 DEF Flow, Read
<1>6. m \in 1 .. Len(sent[s]) /\ log[s][pos + 1] = [msg |-> m, frg |-> Len(sent[s][m]) - 1]
  <2>1. m >= 1
    BY <1>1, Kinds
  <2>2. m <= Len(sent[s]) /\ log[s][pos + 1] = [msg |-> m, frg |-> Len(sent[s][m]) - 1]
    BY <1>1, <1>4, <1>5 DEF BeginsAt
  <2> QED BY <2>1, <2>2, Kinds
<1>7. Follows(s, pos, m)
  BY <1>1, <1>4, <1>5, <1>6 DEF Flow, Joined
<1>8. PICK count \in Nat : /\ count = Len(sent[s][m]) /\ count >= 1
                           /\ \A i \in 1 .. count : sent[s][m][i] = [msg |-> m, frg |-> count - i]
  <2>1. /\ Len(sent[s][m]) \in 1 .. RcvWnd - 1
        /\ \A i \in 1 .. Len(sent[s][m]) : sent[s][m][i] = [msg |-> m, frg |-> Len(sent[s][m]) - i]
    BY <1>6 DEF Flow, Cut
  <2>2. Len(sent[s][m]) \in Nat /\ Len(sent[s][m]) >= 1
    BY <2>1, Kinds
  <2> QED BY <2>1, <2>2
<1>9. len >= count
  <2>1. 1 \in 1 .. len /\ rcv_queue[r][1] = log[s][pos + 1]
    BY <1>2, <1>3, <1>4
  <2>2. rcv_queue[r][1].frg = count - 1
    BY <1>6, <1>8, <2>1
  <2> QED BY <1>2, <1>8, <2>2
<1>10. \A i \in 1 .. count : /\ rcv_queue[r][i] = sent[s][m][i]
                             /\ rcv_queue[r][i].frg = count - i
  <2> TAKE i \in 1 .. count
  <2>1. i \in 1 .. len
    BY <1>8, <1>9
  <2>2. rcv_queue[r][i] = log[s][pos + i]
    BY <1>3, <1>4, <2>1
  <2>3. rcv_queue[r][i] = sent[s][m][i]
    BY <1>7, <1>8, <2>2 DEF Follows
  <2>4. sent[s][m][i] = [msg |-> m, frg |-> count - i]
    BY <1>8
  <2>5. [msg |-> m, frg |-> count - i].frg = count - i
    OBVIOUS
  <2> QED BY <2>3, <2>4, <2>5
<1>11. n = count
  <2>1. /\ n \in 1 .. len
        /\ \A i \in 1 .. n - 1 : rcv_queue[r][i].frg # 0
        /\ rcv_queue[r][n].frg = 0 \/ n = len
    BY <1>1 DEF Merged
  <2>2. ~ (count < n)
    <3> SUFFICES ASSUME count < n PROVE FALSE
      OBVIOUS
    <3>1. count \in 1 .. n - 1 /\ count \in 1 .. count
      BY <1>8, <2>1
    <3>2. rcv_queue[r][count].frg = count - count
      BY <1>10, <3>1
    <3> QED BY <1>8, <2>1, <3>1, <3>2
  <2>3. ~ (n < count)
    <3> SUFFICES ASSUME n < count PROVE FALSE
      OBVIOUS
    <3>1. n \in 1 .. count /\ n # len
      BY <1>8, <1>9, <2>1
    <3>2. rcv_queue[r][n].frg = count - n
      BY <1>10, <3>1
    <3> QED BY <1>8, <2>1, <3>1, <3>2
  <2> QED BY <1>8, <2>1, <2>2, <2>3
<1>12. BeginsAt(s, pos + n, m + 1)
  BY <1>7, <1>8, <1>11 DEF Follows
<1>13. Len(delivered[r]) + 2 = m + 1 /\ rcv_nxt[r] - Len(rcv_queue[r]) + n = pos + n
  BY <1>1, <1>4, Kinds
<1>14. Len(delivered[r]) + 1 = m
  BY <1>1
<1> QED BY <1>6, <1>8, <1>10, <1>11, <1>12, <1>13, <1>14

\* What ikcp_recv changes: the next message is delivered, and what fits then moves up.
LEMMA RecvEffect ==
  ASSUME TypeOK, ShortSession, NEW e \in Endpoints, NEW s \in Endpoints, Flow(s, e), Recv(e)
  PROVE  /\ Len(delivered[e]) + 1 \in 1 .. Len(sent[s])
         /\ delivered' = [delivered EXCEPT ![e] = Append(@, sent[s][Len(delivered[e]) + 1])]
         /\ Held(s, e)'
         /\ BeginsAt(s, rcv_nxt'[e] - Len(rcv_queue'[e]), Len(delivered[e]) + 2)
         /\ rcv_nxt[e] <= rcv_nxt'[e]
         /\ \A sn \in Nat : Holds(e, sn) => Holds(e, sn)'
         /\ \A p \in Endpoints : p # e => UNCHANGED <<rcv_nxt[p], rcv_buf[p], rcv_queue[p]>>
<1>1. Flow(s, e)
  OBVIOUS
<1>2. UNCHANGED <<log, snd_nxt>> /\ Readable(e)
  BY DEF Recv, sndVars
<1>3. PICK n \in Merged(rcv_queue[e]) :
        /\ delivered' = [delivered EXCEPT ![e] = Append(@, SubSeq(rcv_queue[e], 1, n))]
        /\ MoveReady(e, rcv_buf[e], SubSeq(rcv_queue[e], n + 1, Len(rcv_queue[e])))
  BY DEF Recv
<1>4. PICK m \in Nat : /\ m = Len(delivered[e]) + 1 /\ m \in 1 .. Len(sent[s])
                       /\ n = Len(sent[s][m])
                       /\ \A i \in 1 .. n : rcv_queue[e][i] = sent[s][m][i]
                       /\ BeginsAt(s, rcv_nxt[e] - Len(rcv_queue[e]) + n, m + 1)
  <2>1. Len(delivered[e]) + 1 \in Nat /\ Len(delivered[e]) + 2 = Len(delivered[e]) + 1 + 1
    BY Kinds
  <2>2. /\ Len(delivered[e]) + 1 \in 1 .. Len(sent[s])
        /\ n = Len(sent[s][Len(delivered[e]) + 1])
        /\ \A i \in 1 .. n : rcv_queue[e][i] = sent[s][Len(delivered[e]) + 1][i]
        /\ BeginsAt(s, rcv_nxt[e] - Len(rcv_queue[e]) + n, Len(delivered[e]) + 2)
    BY <1>1, <1>2, MergedIsMessage
  <2> QED BY <2>1, <2>2
<1>5. PICK queue \in Seq(Fragment), nxt \in Nat, len \in Nat :
        queue = rcv_queue[e] /\ nxt = rcv_nxt[e] /\ len = Len(queue)
  BY Kinds
<1>6. n \in 1 .. len /\ n \in Nat
  BY <1>5 DEF Merged
<1>7. /\ len <= RcvWnd /\ len <= nxt
      /\ \A i \in 1 .. len : queue[i] = log[s][nxt - len + i]
      /\ RcvWnd \in Nat
  BY <1>1, <1>5, Kinds DEF Flow, Held
<1>8. PICK rest \in Seq(Fragment) :
        /\ rest = SubSeq(queue, n + 1, len) /\ Len(rest) = len - n
        /\ \A i \in 1 .. len - n : rest[i] = queue[n + i]
  <2>1. /\ SubSeq(queue, n + 1, len) \in Seq(Fragment)
        /\ Len(SubSeq(queue, n + 1, len)) = len - n
        /\ \A i \in 1 .. len - n : SubSeq(queue, n + 1, len)[i] = queue[n + i]
    BY <1>5, <1>6, SubSeqProperties
  <2> QED BY <2>1
<1>9. /\ Held(s, e)'
      /\ rcv_nxt[e] <= rcv_nxt'[e]
      /\ rcv_nxt'[e] - Len(rcv_queue'[e]) = rcv_nxt[e] - Len(rest)
      /\ \A sn \in Nat : sn < rcv_nxt[e] \/ sn \in DOMAIN rcv_buf[e] => Holds(e, sn)'
      /\ \A p \in Endpoints : p # e => UNCHANGED <<rcv_nxt[p], rcv_buf[p], rcv_queue[p]>>
  <2>1. \A sn \in DOMAIN rcv_buf[e] : /\ rcv_nxt[e] <= sn /\ sn < rcv_nxt[e] + RcvWnd
                                      /\ Carries(s, sn, rcv_buf[e][sn])
    BY <1>1 DEF Flow, Held
  <2>2. /\ Len(rest) <= RcvWnd /\ Len(rest) <= rcv_nxt[e]
        /\ \A i \in 1 .. Len(rest) : rest[i] = log[s][rcv_nxt[e] - Len(rest) + i]
    <3>1. len - n <= RcvWnd /\ len - n <= nxt
      BY <1>6, <1>7
    <3>2. ASSUME NEW i \in 1 .. len - n PROVE rest[i] = log[s][nxt - (len - n) + i]
      <4>1. n + i \in 1 .. len /\ nxt - len + (n + i) = nxt - (len - n) + i
        BY <1>6
      <4> QED BY <1>7, <1>8, <4>1
    <3>3. Len(rest) = len - n /\ rcv_nxt[e] = nxt
      BY <1>5, <1>8
    <3> QED BY <3>1, <3>2, <3>3
  <2>3. DOMAIN rcv_buf[e] \in SUBSET Nat /\ rcv_buf[e] \in [DOMAIN rcv_buf[e] -> Fragment]
    BY Kinds, BufferType DEF TypeOK
  <2>4. MoveReady(e, rcv_buf[e], rest)
    BY <1>3, <1>5, <1>8
  <2>5. snd_nxt[s] <= MaxSegs[s] /\ rcv_nxt[e] <= snd_nxt[s]
    <3>1. snd_nxt[s] \in Nat /\ Len(log[s]) \in Nat /\ MaxSegs[s] \in Nat
      BY Kinds
    <3> QED BY <1>1, <3>1, Places
  <2>6. UNCHANGED <<log[s], snd_nxt[s]>>
    BY <1>2
  <2> QED BY <2>1, <2>2, <2>3, <2>4, <2>5, <2>6, MoveEffect, ZenonT(60)
<1>10. SubSeq(queue, 1, n) = sent[s][m]
  <2>1. SubSeq(queue, 1, n) \in Seq(Fragment) /\ sent[s][m] \in Seq(Fragment)
    <3>1. sent[s] \in Seq(Seq(Fragment))
      BY Kinds
    <3>2. sent[s][m] \in Seq(Fragment)
      BY <1>4, <3>1
    <3>3. SubSeq(queue, 1, n) \in Seq(Fragment)
      BY <1>5, <1>6, SubSeqProperties
    <3> QED BY <3>2, <3>3
  <2>2. /\ Len(SubSeq(queue, 1, n)) = n
        /\ \A i \in 1 .. n : SubSeq(queue, 1, n)[i] = queue[i]
    BY <1>5, <1>6, SubSeqProperties
  <2> QED BY <1>4, <1>5, <2>1, <2>2, SeqEqual
<1>11. rcv_nxt'[e] - Len(rcv_queue'[e]) = rcv_nxt[e] - Len(rcv_queue[e]) + n
  <2>1. nxt - (len - n) = nxt - len + n
    BY <1>6
  <2> QED BY <1>5, <1>8, <1>9, <2>1
<1>12. Len(delivered[e]) + 2 = m + 1 /\ Len(delivered[e]) + 1 = m
  BY <1>4, Kinds
<1>13. BeginsAt(s, rcv_nxt'[e] - Len(rcv_queue'[e]), Len(delivered[e]) + 2)
  BY <1>4, <1>11, <1>12
<1>14. delivered' = [delivered EXCEPT ![e] = Append(@, sent[s][Len(delivered[e]) + 1])]
  BY <1>3, <1>5, <1>10, <1>12
<1>15. \A sn \in Nat : Holds(e, sn) => Holds(e, sn)'
  BY <1>9 DEF Holds
<1> QED BY <1>4, <1>9, <1>12, <1>13, <1>14, <1>15

\* ikcp_recv.
LEMMA RecvFlow ==
  ASSUME TypeOK, TypeOK', ShortSession, FlowInv, NEW e \in Endpoints, Recv(e)
  PROVE  FlowInv'
<1> SUFFICES ASSUME NEW z \in Endpoints PROVE Flow(z, Peer(z))'
  BY DEF FlowInv
<1>0. PICK s \in Endpoints : s = Peer(e) /\ s # e /\ e = Peer(s) /\ (z = s \/ z = e)
  BY TwoEnds, PeerTwice
<1>1. Flow(s, e) /\ Flow(e, s)
  BY <1>0 DEF FlowInv
<1>2. UNCHANGED <<sent, log, snd_queue, snd_buf, snd_una, snd_nxt, acklist, rx, net>>
  BY DEF Recv, sndVars
<1>3. PICK m \in Nat : m = Len(delivered[e]) + 1
  BY Kinds
<1>9. /\ m \in 1 .. Len(sent[s])
      /\ delivered' = [delivered EXCEPT ![e] = Append(@, sent[s][m])]
      /\ Held(s, e)'
      /\ BeginsAt(s, rcv_nxt'[e] - Len(rcv_queue'[e]), m + 1)
      /\ rcv_nxt[e] <= rcv_nxt'[e]
      /\ \A sn \in Nat : Holds(e, sn) => Holds(e, sn)'
      /\ \A p \in Endpoints : p # e => UNCHANGED <<rcv_nxt[p], rcv_buf[p], rcv_queue[p]>>
  <2>1. Len(delivered[e]) + 2 = m + 1
    BY <1>3, Kinds
  <2> QED BY <1>1, <1>3, <2>1, RecvEffect
<1>10. CASE z = e
  <2>1. Grows(e)
    <3>1. /\ Len(log[e]) <= Len(log'[e]) /\ snd_nxt[e] <= snd_nxt'[e]
          /\ \A i \in 1 .. Len(log[e]) : log'[e][i] = log[e][i]
      BY <1>2, Kinds
    <3> QED BY <1>9, <3>1 DEF Grows
  <2>2. OnTheWay(e, s)'
    <3>1. net'[s] \subseteq net[s] /\ rx'[s].una = rx[s].una /\ rx'[s].segs = rx[s].segs
      BY <1>2
    <3>2. \A i \in 1 .. Len(acklist'[e]) :
            \E j \in 1 .. Len(acklist[e]) : acklist'[e][i] = acklist[e][j]
      BY <1>2
    <3> QED BY <1>1, <2>1, <3>1, <3>2, WayGrows DEF Flow
  <2>3. SenderSame(e)
    BY <1>2 DEF SenderSame
  <2>4. ReceiverSame(s)
    BY <1>0, <1>9 DEF ReceiverSame, TypeOK
  <2>5. Cut(e)' /\ Joined(e)' /\ Queued(e)' /\ Buffered(e)' /\ Held(e, s)' /\ Read(e, s)'
    BY <1>1, <2>3, <2>4, SenderFrame, SenderKept, ReceiverKept DEF Flow, SenderSame
  <2>6. Kept(e, s)'
    BY <1>1, <2>3, <2>4 DEF Flow, Kept, Holds, SenderSame, ReceiverSame
  <2> QED BY <1>0, <1>10, <2>2, <2>5, <2>6 DEF Flow
<1>11. CASE z = s
  <2>1. SenderSame(s)
    BY <1>2 DEF SenderSame
  <2>2. WaySame(s, e)
    BY <1>0, <1>2, <1>9 DEF WaySame
  <2>3. Cut(s)' /\ Joined(s)' /\ Queued(s)' /\ Buffered(s)' /\ OnTheWay(s, e)'
    BY <1>1, <2>1, <2>2, SenderFrame, SenderKept, WayKept DEF Flow, SenderSame
  <2>4. Kept(s, e)'
    <3>1. \A sn \in 0 .. snd_nxt[s] - 1 : sn \in Nat
      BY Kinds
    <3>2. \A sn \in 0 .. snd_nxt[s] - 1 : Holds(e, sn) => Holds(e, sn)'
      BY <1>9, <3>1
    <3>3. \A sn \in 0 .. snd_nxt[s] - 1 : Holds(e, sn)' \/ sn \in DOMAIN snd_buf[s]
      BY <1>1, <3>2 DEF Flow, Kept
    <3> QED BY <2>1, <3>3 DEF Kept, SenderSame
  <2>5. /\ Len(delivered'[e]) = m
        /\ \A i \in 1 .. m - 1 : delivered'[e][i] = delivered[e][i]
        /\ delivered'[e][m] = sent[s][m]
    <3>1. delivered[e] \in Seq(Seq(Fragment)) /\ sent[s] \in Seq(Seq(Fragment))
      BY Kinds
    <3>2. sent[s][m] \in Seq(Fragment)
      BY <1>9, <3>1
    <3>3. delivered'[e] = Append(delivered[e], sent[s][m])
      BY <1>9 DEF TypeOK
    <3> QED BY <1>3, <3>1, <3>2, <3>3, AppendProperties
  <2>6. Read(s, e)'
    <3>1. \A i \in 1 .. m : delivered'[e][i] = sent[s][i]
      <4>1. \A i \in 1 .. m - 1 : delivered[e][i] = sent[s][i]
        BY <1>1, <1>3, Kinds DEF Flow, Read
      <4>2. \A i \in 1 .. m : i \in 1 .. m - 1 \/ i = m
        OBVIOUS
      <4> QED BY <2>5, <4>1, <4>2
    <3>2. m <= Len(sent[s])
      BY <1>9, Kinds
    <3> QED BY <1>2, <1>9, <2>5, <3>1, <3>2 DEF Read, BeginsAt
  <2> QED BY <1>0, <1>9, <1>11, <2>3, <2>4, <2>6 DEF Flow
<1> QED BY <1>0, <1>10, <1>11

\* Every step keeps both directions sound.
LEMMA FlowNext ==
  ASSUME ShortSession PROVE TypeOK /\ TypeOK' /\ FlowInv /\ [Next]_vars => FlowInv'
<1> SUFFICES ASSUME TypeOK, TypeOK', FlowInv, [Next]_vars PROVE FlowInv'
  OBVIOUS
<1>1. CASE UNCHANGED vars
  <2> SUFFICES ASSUME NEW s \in Endpoints PROVE Flow(s, Peer(s))'
    BY DEF FlowInv
  <2>1. PICK r \in Endpoints : r = Peer(s)
    BY PeerType
  <2>2. Flow(s, r) /\ SenderSame(s) /\ WaySame(s, r) /\ ReceiverSame(r)
    BY <1>1, <2>1 DEF FlowInv, vars, history, sndVars, rcvVars, SenderSame, WaySame, ReceiverSame
  <2> QED BY <2>1, <2>2, FlowKept
<1>2. CASE Next
  BY <1>2, SendFlow, UpdateFlow, ReceiveFlow, LoseFlow, RxSegmentFlow, RxEndFlow, RecvFlow
     DEF Next
<1> QED BY <1>1, <1>2

\* The invariant holds in every short session.
LEMMA FlowAlways == ASSUME ShortSession PROVE Spec => [](TypeOK /\ FlowInv)
<1>1. Init => TypeOK /\ FlowInv
  BY InitType, InitFlow
<1>2. (TypeOK /\ FlowInv) /\ [Next]_vars => (TypeOK /\ FlowInv)'
  BY NextType, FlowNext
<1> QED BY <1>1, <1>2, PTL DEF Spec

\* The messages of a short session are read whole, once and in order, whatever the
\* network loses, repeats and reorders.
THEOREM MessagesInOrder == ASSUME ShortSession PROVE Spec => []OrderedDelivery
<1>1. TypeOK /\ FlowInv => OrderedDelivery
  <2> SUFFICES ASSUME TypeOK, FlowInv, NEW e \in Endpoints
               PROVE  IsPrefixOf(delivered[e], sent[Peer(e)])
    BY DEF OrderedDelivery
  <2>1. PICK s \in Endpoints : s = Peer(e) /\ e = Peer(s)
    BY PeerType, PeerTwice
  <2>2. Flow(s, e)
    BY <2>1 DEF FlowInv
  <2> QED BY <2>1, <2>2 DEF Flow, Read, IsPrefixOf
<1> QED BY <1>1, FlowAlways, PTL

\* The comparison of any number with one that has not wrapped around.
LEMMA Beside ==
  ASSUME NEW a \in Sn, NEW b \in Nat, 2 * b < SeqMod
  PROVE  /\ Diff(a, b) >= 0 => b <= a /\ 2 * (a - b) < SeqMod
         /\ Diff(a, b) < 0 => a < b \/ 2 * (a - b) >= SeqMod
<1>1. a \in Nat /\ a < SeqMod /\ SeqMod \in Nat /\ b < SeqMod
  BY SeqModAssumption DEF Sn
<1>2. CASE a >= b
  <2>1. a - b \in 0 .. SeqMod - 1
    BY <1>1, <1>2
  <2>2. (a - b) % SeqMod = a - b
    BY <1>1, <2>1
  <2> QED BY <1>1, <1>2, <2>1, <2>2 DEF Diff
<1>3. CASE a < b
  <2>1. a - b + SeqMod \in 0 .. SeqMod - 1
    BY <1>1, <1>3
  <2>2. (a - b) % SeqMod = a - b + SeqMod
    BY <1>1, <2>1
  <2>3. ~ 2 * (a - b + SeqMod) < SeqMod
    BY <1>1
  <2> QED BY <1>1, <1>3, <2>1, <2>2, <2>3 DEF Diff
<1> QED BY <1>1, <1>2, <1>3

\* What the receiver still waits for is in the send buffer or has arrived.
THEOREM NumbersKept == ASSUME ShortSession PROVE Spec => []NothingLost
<1>1. TypeOK /\ FlowInv => NothingLost
  <2> SUFFICES ASSUME TypeOK, FlowInv, NEW e \in Endpoints, NEW sn \in Awaited(e)
               PROVE  sn \in DOMAIN snd_buf[e] \cup DOMAIN rcv_buf[Peer(e)]
    BY DEF NothingLost
  <2>1. PICK r \in Endpoints : r = Peer(e)
    BY PeerType
  <2>2. Flow(e, r)
    BY <2>1 DEF FlowInv
  <2>3. sn \in Sn /\ Diff(sn, rcv_nxt[r]) >= 0 /\ Diff(sn, snd_nxt[e]) < 0
    BY <2>1 DEF Awaited
  <2>4. PICK low \in Nat, high \in Nat :
          low = rcv_nxt[r] /\ high = snd_nxt[e] /\ low <= high /\ 2 * high < SeqMod
    <3>1. rcv_nxt[r] <= snd_nxt[e] /\ snd_nxt[e] <= Len(log[e]) /\ Len(log[e]) <= MaxSegs[e]
      BY <2>2, Places
    <3>2. 2 * (MaxSegs[e] + RcvWnd) < SeqMod /\ SeqMod \in Nat
      BY SeqModAssumption DEF ShortSession
    <3>3. /\ rcv_nxt[r] \in Nat /\ snd_nxt[e] \in Nat /\ Len(log[e]) \in Nat
          /\ MaxSegs[e] \in Nat /\ RcvWnd \in Nat
      BY Kinds
    <3>4. 2 * snd_nxt[e] < SeqMod
      BY <3>1, <3>2, <3>3
    <3> QED BY <3>1, <3>3, <3>4
  <2>5. sn \in Nat /\ SeqMod \in Nat
    BY <2>3, SeqModAssumption DEF Sn
  <2>6. low <= sn /\ 2 * (sn - low) < SeqMod
    <3>1. 2 * low < SeqMod
      BY <2>4, <2>5
    <3> QED BY <2>3, <2>4, <3>1, Beside
  <2>7. sn < high \/ 2 * (sn - high) >= SeqMod
    BY <2>3, <2>4, Beside
  <2>8. sn < high
    BY <2>4, <2>5, <2>6, <2>7
  <2>9. sn \in 0 .. snd_nxt[e] - 1 /\ ~ sn < rcv_nxt[r]
    BY <2>4, <2>5, <2>6, <2>8
  <2> QED BY <2>1, <2>2, <2>9 DEF Flow, Kept, Holds
<1> QED BY <1>1, FlowAlways, PTL

\* snd_una and rcv_nxt never decrease.
LEMMA NumbersGrow ==
  ASSUME ShortSession, TypeOK, TypeOK', FlowInv, [Next]_vars, NEW a \in Endpoints
  PROVE  snd_una[a] <= snd_una'[a] /\ rcv_nxt[a] <= rcv_nxt'[a]
<1>9. PICK b \in Endpoints : b = Peer(a) /\ a = Peer(b) /\ a # b
  BY TwoEnds, PeerTwice
<1>10. Flow(a, b) /\ Flow(b, a)
  BY <1>9 DEF FlowInv
<1>0. snd_una[a] \in Nat /\ rcv_nxt[a] \in Nat
  BY Kinds
<1>1. CASE UNCHANGED <<snd_una, rcv_nxt>>
  BY <1>0, <1>1
<1>2. ASSUME NEW e \in Endpoints, RxSegment(e) PROVE snd_una[a] <= snd_una'[a] /\ rcv_nxt[a] <= rcv_nxt'[a]
  <2>1. CASE a = e
    <3>1. snd_una[a] <= snd_una'[a]
      <4>1. OnTheWay(b, a)
        BY <1>10 DEF Flow
      <4> QED BY <1>9, <1>10, <1>2, <2>1, <4>1, RxFrees
    <3>2. Grows(a)
      BY <1>9, <1>10, <1>2, <2>1, RxGrows
    <3> QED BY <3>1, <3>2 DEF Grows
  <2>2. CASE a # e
    <3>1. b = e /\ b \in Endpoints /\ a = Peer(e)
      BY <1>9, <2>2, TwoEnds
    <3>2. UNCHANGED rcv_nxt[a]
      BY <1>9, <1>10, <1>2, <2>2, <3>1, RxGrows
    <3>3. UNCHANGED snd_una[a]
      BY <1>2, <2>2 DEF RxSegment, RxAck, RxPush, RxProbe, RxUna, TypeOK
    <3> QED BY <1>0, <3>2, <3>3
  <2> QED BY <2>1, <2>2
<1>3. ASSUME NEW e \in Endpoints, Recv(e) PROVE snd_una[a] <= snd_una'[a] /\ rcv_nxt[a] <= rcv_nxt'[a]
  <2>1. snd_una' = snd_una
    BY <1>3 DEF Recv, sndVars
  <2>2. Flow(Peer(e), e) /\ Peer(e) \in Endpoints
    BY PeerTwice, PeerType DEF FlowInv
  <2>3. /\ rcv_nxt[e] <= rcv_nxt'[e]
        /\ \A p \in Endpoints : p # e => UNCHANGED <<rcv_nxt[p], rcv_buf[p], rcv_queue[p]>>
    BY <1>3, <2>2, RecvEffect
  <2> QED BY <1>0, <2>1, <2>3
<1>4. ASSUME NEW e \in Endpoints, Send(e) PROVE UNCHANGED <<snd_una, rcv_nxt>>
  BY <1>4 DEF Send, rcvVars
<1>5. ASSUME NEW e \in Endpoints, Update(e) PROVE UNCHANGED <<snd_una, rcv_nxt>>
  BY <1>5 DEF Update, Flush
<1>6. ASSUME NEW e \in Endpoints, NEW d \in net[e], Receive(e, d) \/ Lose(e, d)
      PROVE  UNCHANGED <<snd_una, rcv_nxt>>
  BY <1>6 DEF Receive, Lose, sndVars, rcvVars
<1>7. ASSUME NEW e \in Endpoints, RxEnd(e) PROVE UNCHANGED <<snd_una, rcv_nxt>>
  BY <1>7 DEF RxEnd, rcvVars
<1>8. UNCHANGED vars => UNCHANGED <<snd_una, rcv_nxt>>
  BY DEF vars, sndVars, rcvVars
<1> QED BY <1>1, <1>2, <1>3, <1>4, <1>5, <1>6, <1>7, <1>8 DEF Next

\* ikcp_flush numbers no segment beyond the send window.
LEMMA NumberedInside ==
  ASSUME TypeOK, ShortSession, NEW e \in Endpoints, Flow(e, Peer(e)), Update(e)
  PROVE  /\ snd_nxt'[e] = snd_nxt[e] \/ snd_nxt'[e] <= snd_una[e] + SndWnd[e]
         /\ \A p \in Endpoints : p # e => UNCHANGED snd_nxt[p]
<1>1. PICK expired \in SUBSET (DOMAIN snd_buf[e]), probeExpired \in BOOLEAN :
        Flush(e, expired, probeExpired, TRUE)
  BY DEF Update
<1>2. PICK n \in Released(e) : snd_nxt' = [snd_nxt EXCEPT ![e] = SeqAdd(@, n)]
  BY <1>1 DEF Flush
<1>3. snd_nxt'[e] = SeqAdd(snd_nxt[e], n) /\ \A p \in Endpoints : p # e => UNCHANGED snd_nxt[p]
  BY <1>2 DEF TypeOK
<1>4. PICK una \in Nat, nxt \in Nat, wnd \in Nat, max \in Nat, rcv \in Nat :
        /\ una = snd_una[e] /\ nxt = snd_nxt[e] /\ wnd = SndWnd[e]
        /\ max = MaxSegs[e] /\ rcv = RcvWnd
  BY Kinds, KcpAssumption
<1>5. una <= nxt /\ nxt + Len(snd_queue[e]) <= max /\ Len(snd_queue[e]) \in Nat
  <2>1. snd_nxt[e] + Len(snd_queue[e]) = Len(log[e]) /\ Len(log[e]) <= MaxSegs[e]
    BY DEF Flow, Queued, Joined
  <2>2. snd_una[e] <= snd_nxt[e]
    BY Places, PeerType
  <2> QED BY <1>4, <2>1, <2>2, Kinds
<1>6. n \in 0 .. Len(snd_queue[e])
  BY <1>2 DEF Released
<1>7. snd_nxt'[e] = nxt + n
  <2>1. n \in Nat /\ nxt + n <= max + rcv
    BY <1>4, <1>5, <1>6
  <2> QED BY <1>3, <1>4, <2>1, Plain
<1>8. CASE n = 0
  BY <1>3, <1>4, <1>7, <1>8
<1>11. CASE n > 0
  <2>1. PICK lesser \in Nat : /\ lesser = Lesser(SndWnd[e], rmt_wnd[e])
                              /\ lesser <= wnd /\ lesser <= rcv
    <3>1. rmt_wnd[e] \in 0 .. RcvWnd
      BY DEF TypeOK
    <3> QED BY <1>4, <3>1 DEF Lesser
  <2>2. Diff(SeqAdd(snd_nxt[e], n - 1), SeqAdd(snd_una[e], lesser)) < 0
    <3>1. n - 1 \in 0 .. n - 1
      BY <1>6, <1>11, <1>5
    <3> QED BY <1>2, <2>1, <3>1 DEF Released
  <2>3. SeqAdd(snd_nxt[e], n - 1) = nxt + (n - 1) /\ SeqAdd(snd_una[e], lesser) = una + lesser
    <3>1. /\ n - 1 \in Nat /\ nxt + (n - 1) <= max + rcv
          /\ una + lesser <= max + rcv
      BY <1>5, <1>6, <1>11, <2>1
    <3> QED BY <1>4, <2>1, <3>1, Plain
  <2>4. PICK last \in 0 .. max + rcv, limit \in 0 .. max + rcv :
          last = nxt + (n - 1) /\ limit = una + lesser
    <3>1. nxt + (n - 1) \in 0 .. max + rcv
      BY <1>5, <1>6, <1>11
    <3>2. una + lesser \in 0 .. max + rcv
      BY <1>5, <2>1
    <3> QED BY <3>1, <3>2
  <2>5. Diff(last, limit) = last - limit
    BY <1>4, Plain
  <2>6. nxt + n <= una + wnd
    <3>1. last - limit < 0
      BY <2>2, <2>3, <2>4, <2>5
    <3> QED BY <1>6, <2>1, <2>4, <3>1
  <2> QED BY <1>3, <1>4, <1>7, <2>6
<1> QED BY <1>5, <1>6, <1>8, <1>11

\* No end has more than snd_wnd segments on their way.
SendsInside == \A e \in Endpoints : snd_nxt[e] <= snd_una[e] + SndWnd[e]

LEMMA SendsInsideNext ==
  ASSUME ShortSession, TypeOK, TypeOK', FlowInv, SendsInside, [Next]_vars
  PROVE  SendsInside'
<1> SUFFICES ASSUME NEW a \in Endpoints PROVE snd_nxt'[a] <= snd_una'[a] + SndWnd[a]
  BY DEF SendsInside
<1>1. snd_una[a] <= snd_una'[a]
  BY NumbersGrow
<1>2. snd_nxt'[a] = snd_nxt[a] \/ snd_nxt'[a] <= snd_una[a] + SndWnd[a]
  <2>1. ASSUME NEW e \in Endpoints, Update(e)
        PROVE  snd_nxt'[a] = snd_nxt[a] \/ snd_nxt'[a] <= snd_una[a] + SndWnd[a]
    <3>1. Flow(e, Peer(e))
      BY DEF FlowInv
    <3> QED BY <2>1, <3>1, NumberedInside
  <2>2. ASSUME NEW e \in Endpoints, Send(e) PROVE UNCHANGED snd_nxt
    BY <2>2 DEF Send
  <2>3. ASSUME NEW e \in Endpoints, NEW d \in net[e], Receive(e, d) \/ Lose(e, d)
        PROVE  UNCHANGED snd_nxt
    BY <2>3 DEF Receive, Lose, sndVars
  <2>4. ASSUME NEW e \in Endpoints, RxSegment(e) PROVE UNCHANGED snd_nxt
    BY <2>4 DEF RxSegment, RxAck, RxPush, RxProbe, RxUna
  <2>5. ASSUME NEW e \in Endpoints, RxEnd(e) \/ Recv(e) PROVE UNCHANGED snd_nxt
    BY <2>5 DEF RxEnd, Recv, sndVars
  <2>6. UNCHANGED vars => UNCHANGED snd_nxt
    BY DEF vars, sndVars
  <2> QED BY <2>1, <2>2, <2>3, <2>4, <2>5, <2>6 DEF Next
<1>3. /\ snd_nxt[a] \in Nat /\ snd_una[a] \in Nat /\ SndWnd[a] \in Nat
      /\ snd_nxt'[a] \in Nat /\ snd_una'[a] \in Nat
  BY Kinds, NumsAfter, KcpAssumption
<1>4. snd_nxt[a] <= snd_una[a] + SndWnd[a]
  BY DEF SendsInside
<1> QED BY <1>1, <1>2, <1>3, <1>4

\* The sender is never more than its window ahead of what was acknowledged, and the
\* receiver keeps nothing outside of its own.
THEOREM InsideWindow == ASSUME ShortSession PROVE Spec => []WindowKept
<1>1. TypeOK /\ FlowInv /\ SendsInside => WindowKept
  <2> SUFFICES ASSUME TypeOK, FlowInv, SendsInside, NEW e \in Endpoints
               PROVE  /\ Diff(snd_nxt[e], snd_una[e]) \in 0 .. SndWnd[e]
                      /\ Len(rcv_queue[e]) <= RcvWnd
                      /\ \A sn \in DOMAIN rcv_buf[e] : Diff(sn, rcv_nxt[e]) \in 0 .. RcvWnd - 1
    BY DEF WindowKept
  <2>1. PICK s \in Endpoints : s = Peer(e) /\ e = Peer(s)
    BY PeerType, PeerTwice
  <2>2. Flow(s, e)
    BY <2>1 DEF FlowInv
  <2>3. ASSUME NEW sn \in DOMAIN rcv_buf[e] PROVE Diff(sn, rcv_nxt[e]) \in 0 .. RcvWnd - 1
    <3>1. /\ rcv_nxt[e] <= sn /\ sn < rcv_nxt[e] + RcvWnd
          /\ sn < snd_nxt[s] /\ snd_nxt[s] <= Len(log[s]) /\ Len(log[s]) <= MaxSegs[s]
      BY <2>2, Places DEF Flow, Held
    <3>2. /\ sn \in Nat /\ rcv_nxt[e] \in Nat /\ snd_nxt[s] \in Nat /\ Len(log[s]) \in Nat
          /\ MaxSegs[s] \in Nat /\ RcvWnd \in Nat
      BY Kinds
    <3>3. sn \in 0 .. MaxSegs[s] + RcvWnd /\ rcv_nxt[e] \in 0 .. MaxSegs[s] + RcvWnd
      BY <3>1, <3>2
    <3>4. Diff(sn, rcv_nxt[e]) = sn - rcv_nxt[e]
      BY <3>3, Plain
    <3> QED BY <3>1, <3>2, <3>4
  <2>4. Diff(snd_nxt[e], snd_una[e]) \in 0 .. SndWnd[e]
    <3>1. /\ snd_una[e] <= snd_nxt[e] /\ snd_nxt[e] <= Len(log[e])
          /\ Len(log[e]) <= MaxSegs[e]
      BY <2>1, Places DEF FlowInv
    <3>2. /\ snd_una[e] \in Nat /\ snd_nxt[e] \in Nat /\ Len(log[e]) \in Nat
          /\ MaxSegs[e] \in Nat /\ RcvWnd \in Nat /\ SndWnd[e] \in Nat
      BY Kinds, KcpAssumption
    <3>3. snd_nxt[e] \in 0 .. MaxSegs[e] + RcvWnd /\ snd_una[e] \in 0 .. MaxSegs[e] + RcvWnd
      BY <3>1, <3>2
    <3>4. Diff(snd_nxt[e], snd_una[e]) = snd_nxt[e] - snd_una[e]
      BY <3>3, Plain
    <3>5. snd_nxt[e] <= snd_una[e] + SndWnd[e]
      BY DEF SendsInside
    <3> QED BY <3>1, <3>2, <3>4, <3>5
  <2> QED BY <2>2, <2>3, <2>4 DEF Flow, Held
<1>2. Init => SendsInside
  BY KcpAssumption DEF Init, SendsInside
<1>3. (TypeOK /\ FlowInv) /\ (TypeOK /\ FlowInv)' /\ SendsInside /\ [Next]_vars => SendsInside'
  BY SendsInsideNext
<1> QED BY <1>1, <1>2, <1>3, FlowAlways, PTL DEF Spec

\* A full receive queue holds a message that can be read.
THEOREM FullQueueHasMessage == ASSUME ShortSession PROVE Spec => []QueueNeverStuck
<1>1. TypeOK /\ FlowInv => QueueNeverStuck
  <2> SUFFICES ASSUME TypeOK, FlowInv, NEW r \in Endpoints, Len(rcv_queue[r]) >= RcvWnd
               PROVE  WholeMessage(r)
    BY DEF QueueNeverStuck
  <2>1. PICK s \in Endpoints : s = Peer(r) /\ r = Peer(s)
    BY PeerType, PeerTwice
  <2>2. Flow(s, r)
    BY <2>1 DEF FlowInv
  <2>3. PICK nxt \in Nat, len \in Nat, total \in Nat, window \in Nat :
          /\ nxt = rcv_nxt[r] /\ len = Len(rcv_queue[r]) /\ total = Len(log[s])
          /\ window = RcvWnd
    BY Kinds
  <2>4. /\ window > 0 /\ len >= window /\ len <= nxt /\ nxt <= total
        /\ \A i \in 1 .. len : rcv_queue[r][i] = log[s][nxt - len + i]
    <3>1. rcv_nxt[r] <= snd_nxt[s] /\ snd_nxt[s] <= Len(log[s]) /\ snd_nxt[s] \in Nat
      BY <2>2, Places, Kinds
    <3>2. /\ Len(rcv_queue[r]) <= rcv_nxt[r]
          /\ \A i \in 1 .. Len(rcv_queue[r]) :
               rcv_queue[r][i] = log[s][rcv_nxt[r] - Len(rcv_queue[r]) + i]
      BY <2>2 DEF Flow, Held
    <3> QED BY <2>3, <3>1, <3>2, Kinds
  <2>5. PICK m \in Nat : m = Len(delivered[r]) + 1 /\ m >= 1
    <3>1. Len(delivered[r]) + 1 \in Nat /\ Len(delivered[r]) + 1 >= 1
      BY Kinds
    <3> QED BY <3>1
  <2>6. BeginsAt(s, nxt - len, m)
    BY <2>2, <2>3, <2>5 DEF Flow, Read
  <2>7. m <= Len(sent[s]) /\ log[s][nxt - len + 1].frg = Len(sent[s][m]) - 1
    <3>1. nxt - len # total
      BY <2>4
    <3> QED BY <2>3, <2>6, <3>1 DEF BeginsAt
  <2>8. Len(sent[s][m]) \in 1 .. window - 1
    <3>1. m \in 1 .. Len(sent[s])
      BY <2>5, <2>7, Kinds
    <3> QED BY <2>2, <2>3, <3>1 DEF Flow, Cut
  <2>9. rcv_queue[r][1].frg + 1 <= len
    <3>1. rcv_queue[r][1] = log[s][nxt - len + 1]
      BY <2>4
    <3>2. PICK count \in Nat : count = Len(sent[s][m]) /\ count <= window - 1
      BY <2>8
    <3>3. rcv_queue[r][1].frg = count - 1
      BY <2>7, <3>1, <3>2
    <3>4. count - 1 + 1 <= len
      BY <2>4, <3>2
    <3> QED BY <3>3, <3>4
  <2>10. rcv_queue[r] # <<>> /\ Head(rcv_queue[r]) = rcv_queue[r][1]
    <3>1. rcv_queue[r] \in Seq(Fragment) /\ Len(rcv_queue[r]) # 0
      BY <2>3, <2>4, Kinds
    <3> QED BY <3>1, EmptySeq, HeadTailProperties
  <2> QED BY <2>3, <2>9, <2>10 DEF WholeMessage
<1> QED BY <1>1, FlowAlways, PTL

\* A late or repeated datagram never moves snd_una or rcv_nxt back.
THEOREM NumbersAdvance == ASSUME ShortSession PROVE Spec => NeverBack
<1> DEFINE Advance == \A e \in Endpoints : /\ Diff(snd_una'[e], snd_una[e]) >= 0
                                           /\ Diff(rcv_nxt'[e], rcv_nxt[e]) >= 0
<1>1. ASSUME TypeOK, TypeOK', FlowInv, FlowInv', [Next]_vars PROVE Advance
  <2> SUFFICES ASSUME NEW a \in Endpoints
               PROVE  /\ Diff(snd_una'[a], snd_una[a]) >= 0
                      /\ Diff(rcv_nxt'[a], rcv_nxt[a]) >= 0
    OBVIOUS
  <2>1. PICK b \in Endpoints : b = Peer(a) /\ a = Peer(b) /\ a # b
    BY TwoEnds, PeerTwice
  <2>2. Flow(a, b) /\ Flow(b, a)
    BY <1>1, <2>1 DEF FlowInv
  <2>3. /\ snd_una[a] \in 0 .. MaxSegs[a] + RcvWnd /\ snd_una'[a] \in 0 .. MaxSegs[a] + RcvWnd
        /\ rcv_nxt[a] \in 0 .. MaxSegs[b] + RcvWnd /\ rcv_nxt'[a] \in 0 .. MaxSegs[b] + RcvWnd
    <3>1. ASSUME NEW s \in Endpoints, NEW r \in Endpoints, Flow(s, r)
          PROVE  snd_una[s] \in 0 .. MaxSegs[s] + RcvWnd /\ rcv_nxt[r] \in 0 .. MaxSegs[s] + RcvWnd
      <4>1. /\ snd_una[s] <= snd_nxt[s] /\ snd_nxt[s] <= Len(log[s])
            /\ Len(log[s]) <= MaxSegs[s] /\ rcv_nxt[r] <= snd_nxt[s]
        BY <1>1, <3>1, Places
      <4>2. /\ snd_una[s] \in Nat /\ snd_nxt[s] \in Nat /\ Len(log[s]) \in Nat
            /\ MaxSegs[s] \in Nat /\ rcv_nxt[r] \in Nat /\ RcvWnd \in Nat
        BY <1>1, Kinds
      <4> QED BY <4>1, <4>2
    <3>2. ASSUME NEW s \in Endpoints, NEW r \in Endpoints, Flow(s, r)'
          PROVE  snd_una'[s] \in 0 .. MaxSegs[s] + RcvWnd /\ rcv_nxt'[r] \in 0 .. MaxSegs[s] + RcvWnd
      <4>1. /\ snd_una'[s] <= snd_nxt'[s] /\ rcv_nxt'[r] <= snd_nxt'[s]
            /\ snd_nxt'[s] + Len(snd_queue'[s]) = Len(log'[s]) /\ Len(log'[s]) <= MaxSegs[s]
        BY <3>2 DEF Flow, Buffered, Held, Queued, Joined
      <4>2. Len(snd_queue'[s]) \in Nat /\ Len(log'[s]) \in Nat
        BY <1>1, LenProperties DEF TypeOK
      <4>3. /\ snd_una'[s] \in Nat /\ snd_nxt'[s] \in Nat /\ rcv_nxt'[r] \in Nat
            /\ MaxSegs[s] \in Nat /\ RcvWnd \in Nat
        BY <1>1, NumsAfter, Kinds
      <4>4. snd_nxt'[s] <= MaxSegs[s]
        BY <4>1, <4>2, <4>3
      <4>5. snd_una'[s] <= MaxSegs[s] + RcvWnd /\ rcv_nxt'[r] <= MaxSegs[s] + RcvWnd
        BY <4>1, <4>3, <4>4
      <4> QED BY <4>3, <4>5
    <3>3. Flow(a, b)' /\ Flow(b, a)'
      <4>1. Peer(a) = b /\ Peer(b) = a
        BY <2>1
      <4> QED BY <1>1, <4>1 DEF FlowInv
    <3> QED BY <2>2, <3>1, <3>2, <3>3
  <2>4. snd_una[a] <= snd_una'[a] /\ rcv_nxt[a] <= rcv_nxt'[a]
    BY <1>1, NumbersGrow
  <2>5. /\ Diff(snd_una'[a], snd_una[a]) = snd_una'[a] - snd_una[a]
        /\ Diff(rcv_nxt'[a], rcv_nxt[a]) = rcv_nxt'[a] - rcv_nxt[a]
    BY <1>1, <2>1, <2>3, Plain
  <2> QED BY <1>1, <2>4, <2>5, Kinds, NumsAfter
<1>2. (TypeOK /\ FlowInv) /\ (TypeOK /\ FlowInv)' /\ [Next]_vars => [Advance]_vars
  BY <1>1
<1> QED BY <1>2, FlowAlways, PTL DEF Spec, NeverBack

\* The messages read are the next ones of the other end, and nothing else changes what
\* the programs at the two ends see: the protocol implements KcpStream.
THEOREM StreamImplemented == ASSUME ShortSession PROVE Spec => ReliableStream
<1>1. Init => Stream!Init
  BY DEF Init, InitMsgs, Stream!Init
<1>2. ASSUME TypeOK, FlowInv, [Next]_vars PROVE [Stream!Next]_(Stream!vars)
  <2>1. ASSUME NEW e \in Endpoints, Send(e) PROVE Stream!Accept(e)
    <3>1. PICK message \in Seq(Fragment) :
            sent' = [sent EXCEPT ![e] = Append(@, message)] /\ UNCHANGED delivered
      <4> DEFINE frags(count) == [i \in 1 .. count |-> [msg |-> Len(sent[e]) + 1, frg |-> count - i]]
      <4>1. PICK count \in 1 .. MaxFrags :
              sent' = [sent EXCEPT ![e] = Append(@, frags(count))] /\ UNCHANGED delivered
        BY <2>1 DEF Send
      <4>2. frags(count) \in Seq(Fragment)
        <5>1. count \in Nat /\ Len(sent[e]) + 1 \in Nat
          <6>1. Len(sent[e]) \in Nat /\ MaxFrags \in Nat
            BY <1>2, KcpAssumption, Kinds
          <6> QED BY <6>1
        <5>2. frags(count) \in [1 .. count -> Fragment]
          BY <5>1 DEF Fragment
        <5> QED BY <5>1, <5>2, FunctionIsSeq
      <4> HIDE DEF frags
      <4> QED BY <4>1, <4>2
    <3>2. sent[e] \in Seq(Seq(Fragment)) /\ DOMAIN sent = Endpoints
      BY <1>2 DEF TypeOK
    <3>3. sent'[e] = Append(sent[e], message)
      BY <3>1, <3>2
    <3>4. /\ Len(sent'[e]) > Len(sent[e])
          /\ sent'[e][Len(sent[e]) + 1] = message
      BY <3>2, <3>3, AppendProperties, LenProperties
    <3> QED BY <3>1, <3>4 DEF Stream!Accept
  <2>2. ASSUME NEW e \in Endpoints, Recv(e) PROVE Stream!Deliver(e)
    <3>1. PICK s \in Endpoints : s = Peer(e) /\ e = Peer(s)
      BY PeerType, PeerTwice
    <3>2. Flow(s, e)
      BY <1>2, <3>1 DEF FlowInv
    <3>3. /\ Len(delivered[e]) + 1 \in 1 .. Len(sent[s])
          /\ delivered' = [delivered EXCEPT ![e] = Append(@, sent[s][Len(delivered[e]) + 1])]
      BY <1>2, <2>2, <3>2, RecvEffect
    <3>4. Len(delivered[e]) < Len(sent[s])
      BY <1>2, <3>3, Kinds
    <3>5. UNCHANGED sent
      BY <2>2 DEF Recv
    <3>6. Stream!Other(e) = s
      BY <3>1 DEF Stream!Other, Peer
    <3> QED BY <3>3, <3>4, <3>5, <3>6 DEF Stream!Deliver
  <2>3. ASSUME NEW e \in Endpoints, Update(e) PROVE UNCHANGED Stream!vars
    BY <2>3 DEF Update, Flush, history, Stream!vars
  <2>4. ASSUME NEW e \in Endpoints, NEW d \in net[e], Receive(e, d) \/ Lose(e, d)
        PROVE  UNCHANGED Stream!vars
    BY <2>4 DEF Receive, Lose, history, Stream!vars
  <2>5. ASSUME NEW e \in Endpoints, RxSegment(e) \/ RxEnd(e) PROVE UNCHANGED Stream!vars
    BY <2>5 DEF RxSegment, RxEnd, history, Stream!vars
  <2>6. UNCHANGED vars => UNCHANGED Stream!vars
    BY DEF vars, history, Stream!vars
  <2> QED BY <1>2, <2>1, <2>2, <2>3, <2>4, <2>5, <2>6 DEF Next, Stream!Next
<1> QED BY <1>1, <1>2, FlowAlways, PTL DEF Spec, ReliableStream, Stream!Spec
============================================================================
