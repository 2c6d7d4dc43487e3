-------------------------- MODULE CmdBufferProofs --------------------------
(***************************************************************************)
(* Theorems about the buffer between the two threads, for every size of    *)
(* buffer, header and mark, and for any number of messages of any length,  *)
(* none included.  The parser adds the payload length to recv_Head, not    *)
(* the length of the frame, and finds the next frame by its mark: the      *)
(* invariant says where the frames are, and between which two of them      *)
(* recv_Head is.  A message without a payload holds recv_Head where it is. *)
(***************************************************************************)
EXTENDS CmdBuffer, TLAPS

Filled == 0 .. recv_Tail - 1

\* The frame of message msg is at p.
FrameAt(p, msg) == \A i \in 0 .. Size(len[msg]) - 1 : recvBuf[p + i] = Byte(msg, i)

VarsOK ==
  /\ TypeOK
  /\ recvBuf \in [Cells -> [msg : 0 .. MaxMessages, off : Nat]]
  /\ recv_Head <= recv_Tail
  /\ worker.pc = "check" => worker.n \in Lens

\* The message that is copied, behind recv_Tail.
Pending ==
  worker.pc = "publish" =>
    /\ Len(len) > 0 /\ worker.n = len[Len(len)]
    /\ recv_Tail + Size(worker.n) <= ReceMax
    /\ FrameAt(recv_Tail, Len(len))

\* Every byte in front of recv_Tail belongs to a whole frame of a published message.
WholeAt(p) ==
  LET b == recvBuf[p]
  IN  /\ b.msg \in 1 .. Published
      /\ b.off <= p /\ b.off < Size(len[b.msg])
      /\ p - b.off + Size(len[b.msg]) <= recv_Tail
      /\ FrameAt(p - b.off, b.msg)

Whole == \A p \in Filled : WholeAt(p)

\* The frames have the order of the messages, and none is missing.
Ordered == \A p, q \in Filled : p <= q => recvBuf[p].msg <= recvBuf[q].msg

\* A message has one frame.
Once ==
  \A p, q \in Filled :
    recvBuf[p].msg = recvBuf[q].msg => p - recvBuf[p].off = q - recvBuf[q].off

Present == \A msg \in 1 .. Published : \E p \in Filled : recvBuf[p] = Byte(msg, 0)

\* The buffer is rewound only before the first message: later recv_Head never
\* catches up with recv_Tail.
Behind == IF Published = 0 THEN recv_Head = 0 /\ recv_Tail = 0 ELSE recv_Head < recv_Tail

\* The message whose command was executed last, and that there is no getting past it.
Latest == IF executed = <<>> THEN 0 ELSE executed[Len(executed)]

Stuck == Latest > 0 /\ len[Latest] = 0

History ==
  /\ \A i \in 1 .. Len(executed) :
       /\ executed[i] \in 1 .. Published
       /\ executed[i] = IF i = 1 THEN 1
                        ELSE IF len[executed[i - 1]] = 0 THEN executed[i - 1]
                        ELSE executed[i - 1] + 1
  /\ Latest \in 0 .. Published
  /\ ~ Stuck => Latest = Len(executed)
  /\ Stuck => main \in {"loop", "advance"}

\* What was executed begins in front of recv_Head, or at it when it has not moved on yet.
Place ==
  IF main = "advance" \/ Stuck
    THEN /\ recv_Head \in Filled /\ recvBuf[recv_Head] = Byte(Latest, 0)
         /\ \A p \in Filled : recvBuf[p].off = 0 =>
              (p <= recv_Head <=> recvBuf[p].msg <= Latest)
    ELSE \A p \in Filled : recvBuf[p].off = 0 =>
           (p < recv_Head <=> recvBuf[p].msg <= Latest)

Executed == History /\ Place

BufInv ==
  VarsOK /\ Pending /\ Whole /\ Ordered /\ Once /\ Present /\ Behind /\ Executed

\* The invariant without the threads: it says where the frames are.
Layout == Whole /\ Ordered /\ Once /\ Present
----------------------------------------------------------------------------
(* What the main thread reads. *)

\* The two parts of a byte.
LEMMA ByteFields == \A m, o : Byte(m, o).msg = m /\ Byte(m, o).off = o
BY DEF Byte

\* A stored message has a payload length.
LEMMA PayloadLength ==
  ASSUME VarsOK, NEW m \in 1 .. Len(len)
  PROVE  len[m] \in Lens /\ len[m] \in Nat
<1>1. len \in Seq(Lens)
  BY DEF VarsOK, TypeOK
<1>2. len[m] \in Lens
  BY <1>1
<1> QED BY <1>2, CmdBufferAssumption

\* The part of recvBuf that is filled.
LEMMA FilledType ==
  ASSUME VarsOK
  PROVE  /\ recv_Tail \in Nat /\ recv_Head \in Nat /\ ReceMax \in Nat /\ HeadSize \in Nat \ {0}
         /\ \A p \in Filled : p \in Nat /\ p < recv_Tail /\ p \in Cells
         /\ \A p \in Filled : recvBuf[p].msg \in 0 .. MaxMessages /\ recvBuf[p].off \in Nat
<1>1. recv_Tail \in Nat /\ recv_Head \in Nat /\ ReceMax \in Nat /\ HeadSize \in Nat \ {0}
  BY CmdBufferAssumption DEF VarsOK, TypeOK
<1>2. \A p \in Filled : p \in Nat /\ p < recv_Tail /\ p \in Cells
  BY <1>1 DEF VarsOK, TypeOK, Filled, Cells
<1> QED BY <1>1, <1>2 DEF VarsOK

\* A frame begins where the first byte of one is, and recv_Tail covers it.
LEMMA FrameStart ==
  ASSUME VarsOK, Whole, NEW p \in Filled, recvBuf[p].off = 0
  PROVE  LET m == recvBuf[p].msg
         IN  /\ m \in 1 .. Published /\ m \in 1 .. Len(len) /\ len[m] \in Nat
             /\ p + Size(len[m]) <= recv_Tail
             /\ FrameAt(p, m)
<1> DEFINE m == recvBuf[p].msg
<1>2. p - recvBuf[p].off = p
  BY DEF VarsOK, TypeOK, Filled
<1>1. m \in 1 .. Published /\ p + Size(len[m]) <= recv_Tail /\ FrameAt(p, m)
  BY <1>2 DEF Whole, WholeAt
<1>3. m \in 1 .. Len(len)
  BY <1>1 DEF Published, VarsOK, TypeOK
<1>4. len[m] \in Nat
  BY <1>3, PayloadLength
<1> QED BY <1>1, <1>2, <1>3, <1>4

\* The test of the mark finds the first byte of a frame and nothing else, although a part
\* of the bytes it reads is of another frame.
LEMMA MarkFinds ==
  ASSUME VarsOK, Whole, Enough
  PROVE  /\ recv_Head \in Filled /\ At(recv_Head) = recvBuf[recv_Head]
         /\ MarkAt(recv_Head) <=> recvBuf[recv_Head].off = 0
         /\ MarkAt(recv_Head) => LenAt(recv_Head) = len[recvBuf[recv_Head].msg]
<1>1. \A i \in 0 .. MarkSize : recv_Head + i \in Filled /\ recv_Head + i \in Cells
  BY CmdBufferAssumption DEF VarsOK, TypeOK, Enough, Filled, Cells
<1>2. \A i \in 0 .. MarkSize : At(recv_Head + i) = recvBuf[recv_Head + i]
  BY <1>1 DEF At
<1>3. recv_Head + 0 = recv_Head /\ 0 \in 0 .. MarkSize /\ 0 \in 0 .. MarkSize - 1
  BY CmdBufferAssumption DEF VarsOK, TypeOK
<1>4. MarkAt(recv_Head) => recvBuf[recv_Head].off = 0
  BY <1>2, <1>3 DEF MarkAt
<1>5. ASSUME recvBuf[recv_Head].off = 0
      PROVE  MarkAt(recv_Head) /\ LenAt(recv_Head) = len[recvBuf[recv_Head].msg]
  <2> DEFINE m == recvBuf[recv_Head].msg
  <2>1. m \in Nat \ {0} /\ len[m] \in Nat /\ FrameAt(recv_Head, m)
    BY <1>1, <1>3, <1>5, FrameStart DEF VarsOK, TypeOK
  <2>2. \A i \in 0 .. MarkSize : i \in 0 .. Size(len[m]) - 1
    BY <2>1, CmdBufferAssumption DEF Size
  <2>3. \A i \in 0 .. MarkSize : recvBuf[recv_Head + i] = Byte(m, i)
    BY <2>1, <2>2 DEF FrameAt
  <2>4. \A i \in 0 .. MarkSize : At(recv_Head + i) = Byte(m, i)
    BY <1>2, <2>3
  <2>5. \A i \in 0 .. MarkSize : At(recv_Head + i).msg = m /\ At(recv_Head + i).off = i
    BY <2>4, ByteFields
  <2>6. MarkAt(recv_Head) /\ At(recv_Head + MarkSize).msg = m
    BY <2>1, <2>5, CmdBufferAssumption DEF MarkAt
  <2> QED BY <2>5, <2>6 DEF LenAt
<1> QED BY <1>1, <1>2, <1>3, <1>4, <1>5
----------------------------------------------------------------------------
(* The worker. *)

\* The frames stay where they are if recv_Tail does and nothing in front of it changes.
LEMMA LayoutKept ==
  ASSUME VarsOK, Layout, UNCHANGED recv_Tail, Published' = Published,
         \A p \in Filled : recvBuf'[p] = recvBuf[p],
         \A m \in 1 .. Published : len'[m] = len[m]
  PROVE  Layout'
<1>1. Filled' = Filled
  BY DEF Filled
<1>2. Ordered' /\ Once' /\ Present'
  BY <1>1 DEF Layout, Ordered, Once, Present
<1>3. ASSUME NEW p \in Filled PROVE WholeAt(p)'
  <2> DEFINE m == recvBuf[p].msg
             q == p - recvBuf[p].off
  <2>1. /\ m \in 1 .. Published /\ recvBuf[p].off <= p /\ recvBuf[p].off < Size(len[m])
        /\ q + Size(len[m]) <= recv_Tail /\ FrameAt(q, m)
    BY DEF Layout, Whole, WholeAt
  <2>2. len[m] \in Nat /\ HeadSize \in Nat /\ q \in Nat
    <3>1. m \in 1 .. Len(len)
      BY <2>1 DEF Published, VarsOK, TypeOK
    <3> QED BY SMTT(20), <2>1, <3>1, PayloadLength, FilledType
  <2>3. \A i \in 0 .. Size(len[m]) - 1 : q + i \in Filled
    BY <2>1, <2>2, FilledType DEF Size, Filled
  <2>4. recvBuf'[p] = recvBuf[p] /\ len'[m] = len[m]
    BY <2>1
  <2>5. \A i \in 0 .. Size(len[m]) - 1 : recvBuf'[q + i] = Byte(m, i)
    BY <2>1, <2>3 DEF FrameAt
  <2> QED BY <2>1, <2>4, <2>5 DEF WholeAt, FrameAt
<1> QED BY <1>1, <1>2, <1>3 DEF Layout, Whole

\* What was executed stays so when messages are added.
LEMMA HistoryKept ==
  ASSUME VarsOK, History, UNCHANGED executed, Stuck => main' \in {"loop", "advance"},
         Published' \in {Published, Published + 1}, \A m \in 1 .. Published : len'[m] = len[m]
  PROVE  History' /\ Latest' = Latest /\ (Stuck' <=> Stuck)
<1>1. Published \in Int /\ 1 .. Published \subseteq 1 .. Published'
  BY DEF Published, VarsOK, TypeOK
<1>2. Latest' = Latest /\ (Latest > 0 => Latest \in 1 .. Published)
  BY <1>1 DEF Latest, History
<1>3. Stuck' <=> Stuck
  BY <1>2 DEF Stuck
<1>4. ASSUME NEW i \in 1 .. Len(executed)
      PROVE  /\ executed[i] \in 1 .. Published'
             /\ executed[i] = IF i = 1 THEN 1
                              ELSE IF len'[executed[i - 1]] = 0 THEN executed[i - 1]
                              ELSE executed[i - 1] + 1
  <2>1. executed[i] \in 1 .. Published
    BY DEF History
  <2>2. i # 1 => executed[i - 1] \in 1 .. Published
    <3> SUFFICES ASSUME i # 1 PROVE executed[i - 1] \in 1 .. Published
      OBVIOUS
    <3>1. Len(executed) \in Nat
      BY DEF VarsOK, TypeOK
    <3>2. i - 1 \in 1 .. Len(executed)
      BY <3>1
    <3> QED BY <3>2 DEF History
  <2>3. i # 1 => len'[executed[i - 1]] = len[executed[i - 1]]
    BY <2>2
  <2>4. executed[i] = IF i = 1 THEN 1
                      ELSE IF len[executed[i - 1]] = 0 THEN executed[i - 1]
                      ELSE executed[i - 1] + 1
    BY DEF History
  <2> QED BY <1>1, <2>1, <2>3, <2>4
<1>5. Latest \in 0 .. Published'
  BY <1>1 DEF History
<1> QED BY <1>2, <1>3, <1>4, <1>5 DEF History

\* The invariant needs no more if the main thread does not move.
LEMMA WorkerKeeps ==
  ASSUME VarsOK, VarsOK', Layout, Layout', Executed, Behind, UNCHANGED <<executed, main>>,
         recv_Head' = recv_Head, recv_Tail' = recv_Tail, Published' = Published,
         \A p \in Filled : recvBuf'[p] = recvBuf[p],
         \A m \in 1 .. Published : len'[m] = len[m]
  PROVE  Executed' /\ Behind'
<1>1. History' /\ Latest' = Latest /\ (Stuck' <=> Stuck)
  BY HistoryKept DEF Executed, History
<1>2. Behind'
  BY DEF Behind
<1>3. Filled' = Filled
  BY DEF Filled
<1>4. Place'
  BY <1>1, <1>3 DEF Executed, Place
<1> QED BY <1>1, <1>2, <1>4 DEF Executed

\* A message arrives; a rewound buffer was empty and at its beginning.
LEMMA RecvKeeps ==
  ASSUME BufInv, Recv
  PROVE  BufInv'
<1>1. recv_Head' = recv_Head /\ recv_Tail' = recv_Tail
  BY DEF BufInv, Recv, Behind, VarsOK, TypeOK
<1>2. PICK n \in Lens : worker' = [pc |-> "check", n |-> n]
  BY DEF Recv
<1>3. /\ worker.pc = "recv" /\ worker'.pc = "check" /\ worker'.n \in Lens
      /\ UNCHANGED <<len, executed, recvBuf, is_RecvCompleted, main>>
  BY <1>2 DEF Recv
<1>4. Published' = Published
  BY <1>3 DEF Published
<1>5. VarsOK'
  BY <1>1, <1>2, <1>3 DEF BufInv, VarsOK, TypeOK
<1>6. Layout'
  BY <1>1, <1>3, <1>4, LayoutKept DEF BufInv, Layout
<1>7. Pending'
  BY <1>3 DEF Pending
<1>8. Executed' /\ Behind'
  BY <1>1, <1>3, <1>4, <1>5, <1>6, WorkerKeeps DEF BufInv, Layout
<1> QED BY <1>5, <1>6, <1>7, <1>8 DEF BufInv, Layout

\* The message is refused, or is_RecvCompleted is set.
LEMMA RefuseKeeps ==
  ASSUME BufInv, Refuse \/ Complete
  PROVE  BufInv'
<1>1. /\ worker.pc \in {"check", "complete"} /\ worker' = [pc |-> "recv", n |-> 0]
      /\ UNCHANGED <<len, executed, recvBuf, recv_Head, recv_Tail, main>>
      /\ is_RecvCompleted' \in BOOLEAN
  BY DEF Refuse, Complete, BufInv, VarsOK, TypeOK
<1>2. Published' = Published
  BY <1>1 DEF Published
<1>3. VarsOK'
  BY <1>1 DEF BufInv, VarsOK, TypeOK
<1>4. Layout'
  BY <1>1, <1>2, LayoutKept DEF BufInv, Layout
<1>5. Executed' /\ Behind'
  BY <1>1, <1>2, <1>3, <1>4, WorkerKeeps DEF BufInv, Layout
<1>6. Pending'
  BY <1>1 DEF Pending
<1> QED BY <1>3, <1>4, <1>5, <1>6 DEF BufInv, Layout

\* The bytes of the message are copied behind recv_Tail.
LEMMA CopyKeeps ==
  ASSUME BufInv, Copy
  PROVE  BufInv'
<1> DEFINE n == worker.n
           M == Len(len) + 1
<1>1. /\ worker.pc = "check" /\ n \in Lens /\ n \in Nat
      /\ recv_Tail + Size(n) < ReceMax /\ M <= MaxMessages
      /\ len' = Append(len, n) /\ recvBuf' = Copied(M, n)
      /\ worker' = [worker EXCEPT !.pc = "publish"]
      /\ UNCHANGED <<executed, recv_Head, recv_Tail, is_RecvCompleted, main>>
  BY CmdBufferAssumption DEF Copy, Full, Size, BufInv, VarsOK, TypeOK
<1>2. /\ worker'.pc = "publish" /\ worker'.n = n
      /\ worker' \in [pc : {"recv", "check", "publish", "complete"}, n : Lens \cup {0}]
  BY <1>1 DEF BufInv, VarsOK, TypeOK
<1>3. /\ len' \in Seq(Lens) /\ Len(len') = M /\ len'[M] = n
      /\ \A m \in 1 .. Len(len) : len'[m] = len[m]
  BY <1>1 DEF BufInv, VarsOK, TypeOK
<1>4. M \in 1 .. MaxMessages /\ Size(n) \in Nat /\ recv_Tail \in Nat
  BY <1>1, CmdBufferAssumption DEF Size, BufInv, VarsOK, TypeOK
<1>5. \A p \in Cells :
        recvBuf'[p] = IF p \in recv_Tail .. recv_Tail + Size(n) - 1
                        THEN Byte(M, p - recv_Tail) ELSE recvBuf[p]
  BY <1>1 DEF Copied
<1>6. recvBuf' \in [Cells -> [msg : 0 .. MaxMessages, off : Nat]]
  <2>1. \A p \in recv_Tail .. recv_Tail + Size(n) - 1 :
          Byte(M, p - recv_Tail) \in [msg : 0 .. MaxMessages, off : Nat]
    BY <1>4 DEF Byte
  <2>2. recvBuf \in [Cells -> [msg : 0 .. MaxMessages, off : Nat]]
    BY DEF BufInv, VarsOK
  <2> QED BY <1>1, <2>1, <2>2 DEF Copied
<1>7. VarsOK'
  BY <1>1, <1>2, <1>3, <1>6 DEF BufInv, VarsOK, TypeOK
<1>8. Published' = Published
  BY <1>1, <1>2, <1>3 DEF Published, BufInv, VarsOK, TypeOK
<1>9. \A p \in Filled : recvBuf'[p] = recvBuf[p]
  <2> SUFFICES ASSUME NEW p \in Filled PROVE recvBuf'[p] = recvBuf[p]
    OBVIOUS
  <2>1. p \in Cells /\ p \notin recv_Tail .. recv_Tail + Size(n) - 1
    BY <1>4, FilledType DEF BufInv
  <2> QED BY <1>5, <2>1
<1>13. \A m \in 1 .. Published : len'[m] = len[m]
  BY <1>1, <1>3 DEF Published
<1>10. Layout'
  BY <1>1, <1>8, <1>9, <1>13, LayoutKept DEF BufInv, Layout
<1>11. Executed' /\ Behind'
  BY <1>1, <1>7, <1>8, <1>9, <1>10, <1>13, WorkerKeeps DEF BufInv, Layout
<1>12. Pending'
  <2>1. \A i \in 0 .. Size(n) - 1 : recvBuf'[recv_Tail + i] = Byte(M, i)
    <3> SUFFICES ASSUME NEW i \in 0 .. Size(n) - 1
                 PROVE  recvBuf'[recv_Tail + i] = Byte(M, i)
      OBVIOUS
    <3>1. /\ recv_Tail + i \in Cells /\ recv_Tail + i \in recv_Tail .. recv_Tail + Size(n) - 1
          /\ recv_Tail + i - recv_Tail = i
      BY SMTT(20), <1>1, <1>4, CmdBufferAssumption DEF Cells
    <3> DEFINE p == recv_Tail + i
    <3>2. p \in Cells /\ p \in recv_Tail .. recv_Tail + Size(n) - 1 /\ p - recv_Tail = i
      BY <1>4, <3>1
    <3> HIDE DEF p, M
    <3>3. recvBuf'[p] = Byte(M, p - recv_Tail)
      BY <1>5, <3>2
    <3> QED BY <3>2, <3>3 DEF p
  <2>2. recv_Tail + Size(n) <= ReceMax
    BY <1>1, <1>4, FilledType DEF BufInv
  <2> QED BY <1>1, <1>2, <1>3, <1>4, <2>1, <2>2 DEF Pending, FrameAt
<1> QED BY <1>7, <1>10, <1>11, <1>12 DEF BufInv, Layout
\* recv_Tail is advanced over the bytes copied: one more message is published.
LEMMA PublishKeeps ==
  ASSUME BufInv, Publish
  PROVE  BufInv'
<1> DEFINE n == worker.n
           M == Len(len)
           T == recv_Tail
<1>1. /\ worker.pc = "publish" /\ recv_Tail' = T + Size(n)
      /\ worker' = [worker EXCEPT !.pc = "complete"]
      /\ UNCHANGED <<len, executed, recvBuf, recv_Head, is_RecvCompleted, main>>
  BY DEF Publish
<1>2. /\ M \in Nat \ {0} /\ M \in 1 .. Len(len) /\ n = len[M]
      /\ T + Size(n) <= ReceMax /\ FrameAt(T, M)
  BY <1>1 DEF BufInv, Pending, VarsOK, TypeOK
<1>3. n \in Nat /\ Size(n) \in Nat \ {0} /\ T \in Nat /\ recv_Tail' \in Nat
  BY <1>1, <1>2, PayloadLength, FilledType DEF BufInv, Size
<1>4. worker'.pc = "complete" /\ Published = M - 1 /\ Published' = M
  BY <1>1, <1>2 DEF Published, BufInv, VarsOK, TypeOK
<1>5. VarsOK'
  <2>1. recv_Tail' \in 0 .. ReceMax /\ recv_Head' <= recv_Tail'
    BY <1>1, <1>2, <1>3, FilledType DEF BufInv, VarsOK
  <2>2. worker' \in [pc : {"recv", "check", "publish", "complete"}, n : Lens \cup {0}]
    BY <1>1 DEF BufInv, VarsOK, TypeOK
  <2> QED BY <1>1, <1>4, <2>1, <2>2 DEF BufInv, VarsOK, TypeOK
<1>6. \A p \in Filled' : p \in Filled \/ (p \in Nat /\ p >= T /\ p - T \in 0 .. Size(n) - 1)
  BY <1>1, <1>3 DEF Filled
<1>7. Filled \subseteq Filled' /\ T \in Filled'
  BY <1>1, <1>3 DEF Filled
<1>8. \A p \in Filled' : p \notin Filled =>
        p \in Nat /\ p >= T /\ recvBuf[p].msg = M /\ recvBuf[p].off = p - T
  <2> SUFFICES ASSUME NEW p \in Filled', p \notin Filled
               PROVE  p \in Nat /\ p >= T /\ recvBuf[p] = Byte(M, p - T)
    BY ByteFields
  <2>1. p \in Nat /\ p >= T /\ p - T \in 0 .. Size(n) - 1
    BY <1>6
  <2> DEFINE i == p - T
  <2>2. i \in 0 .. Size(len[M]) - 1 /\ T + i = p
    BY <1>2, <1>3, <2>1
  <2> HIDE DEF i, T, M
  <2>3. recvBuf[T + i] = Byte(M, i)
    BY <1>2, <2>2 DEF FrameAt
  <2> QED BY <2>1, <2>2, <2>3 DEF i
<1>9. Whole'
  <2> SUFFICES ASSUME NEW p \in Filled' PROVE WholeAt(p)'
    BY DEF Whole
  <2> DEFINE m == recvBuf[p].msg
             q == p - recvBuf[p].off
  <2> SUFFICES /\ m \in 1 .. M /\ recvBuf[p].off <= p /\ recvBuf[p].off < Size(len[m])
               /\ q + Size(len[m]) <= T + Size(n) /\ FrameAt(q, m)
    BY <1>1, <1>4 DEF WholeAt, FrameAt
  <2>1. CASE p \in Filled
    <3>1. /\ m \in 1 .. M - 1 /\ recvBuf[p].off <= p /\ recvBuf[p].off < Size(len[m])
          /\ q + Size(len[m]) <= T /\ FrameAt(q, m)
      BY <1>4, <2>1 DEF BufInv, Whole, WholeAt
    <3>2. m \in 1 .. Len(len) /\ p \in Nat /\ recvBuf[p].off \in Nat
      BY <1>2, <2>1, <3>1, FilledType DEF BufInv
    <3>3. len[m] \in Nat /\ Size(len[m]) \in Nat
      BY SMTT(20), <3>2, PayloadLength, FilledType DEF BufInv, Size
    <3> QED BY SMTT(20), <1>2, <1>3, <3>1, <3>2, <3>3
  <2>2. CASE p \notin Filled
    <3>1. p \in Nat /\ p >= T /\ m = M /\ recvBuf[p].off = p - T
      BY <1>8, <2>2
    <3>2. q = T /\ p - T < Size(n) /\ p - T <= p
      BY <1>3, <1>6, <2>2, <3>1
    <3> QED BY <1>2, <1>3, <3>1, <3>2
  <2> QED BY <2>1, <2>2
<1>10. \A p \in Filled : p \in Nat /\ p < T /\ recvBuf[p].msg \in 1 .. M - 1
  BY <1>4, FilledType DEF BufInv, Whole, WholeAt
<1>11. Ordered'
  <2> SUFFICES ASSUME NEW p \in Filled', NEW q \in Filled', p <= q
               PROVE  recvBuf[p].msg <= recvBuf[q].msg
    BY <1>1 DEF Ordered
  <2>1. CASE q \in Filled
    BY <1>2, <1>3, <1>8, <1>10, <2>1 DEF BufInv, Ordered
  <2>2. CASE q \notin Filled
    BY <1>2, <1>8, <1>10, <2>2
  <2> QED BY <2>1, <2>2
<1>12. Once'
  <2> SUFFICES ASSUME NEW p \in Filled', NEW q \in Filled', recvBuf[p].msg = recvBuf[q].msg
               PROVE  p - recvBuf[p].off = q - recvBuf[q].off
    BY <1>1 DEF Once
  <2>1. CASE p \in Filled /\ q \in Filled
    BY <2>1 DEF BufInv, Once
  <2>2. CASE p \notin Filled /\ q \notin Filled
    BY <1>3, <1>8, <2>2
  <2>3. CASE (p \in Filled) # (q \in Filled)
    BY <1>2, <1>8, <1>10, <2>3
  <2> QED BY <2>1, <2>2, <2>3
<1>13. Present'
  <2> SUFFICES ASSUME NEW m \in 1 .. M PROVE \E p \in Filled' : recvBuf[p] = Byte(m, 0)
    BY <1>1, <1>4 DEF Present
  <2>1. CASE m = M
    <3>1. 0 \in 0 .. Size(len[M]) - 1 /\ T + 0 = T
      BY <1>2, <1>3
    <3>2. recvBuf[T + 0] = Byte(M, 0)
      BY <1>2, <3>1 DEF FrameAt
    <3> QED BY <1>7, <2>1, <3>1, <3>2
  <2>2. CASE m # M
    BY <1>2, <1>4, <1>7, <2>2 DEF BufInv, Present
  <2> QED BY <2>1, <2>2
<1>14. Behind' /\ Pending'
  BY <1>1, <1>2, <1>3, <1>4, FilledType DEF BufInv, Behind, Pending, VarsOK
<1>15. Executed'
  <2>1. Latest \in Nat /\ Latest <= M - 1 /\ recv_Head <= T /\ recv_Head \in Nat
    BY <1>4, FilledType DEF BufInv, Executed, History, VarsOK, TypeOK
  <2>2. \A p \in Filled' : p \notin Filled =>
          /\ ~ (p < recv_Head) /\ ~ (recvBuf[p].msg <= Latest)
          /\ recv_Head \in Filled => ~ (p <= recv_Head)
    BY SMTT(20), <1>2, <1>3, <1>8, <1>10, <2>1
  <2>3. History' /\ Latest' = Latest /\ (Stuck' <=> Stuck)
    <3>1. Published' = Published + 1 /\ UNCHANGED <<executed, len, main>>
      BY <1>1, <1>2, <1>4
    <3> QED BY <3>1, HistoryKept DEF BufInv, Executed, History
  <2>4. Place'
    <3>1. CASE main = "advance" \/ Stuck
      <4>1. /\ recv_Head \in Filled /\ recvBuf[recv_Head] = Byte(Latest, 0)
            /\ \A p \in Filled : recvBuf[p].off = 0 =>
                 (p <= recv_Head <=> recvBuf[p].msg <= Latest)
        BY <3>1 DEF BufInv, Executed, Place
      <4> QED BY <1>1, <1>7, <2>2, <2>3, <3>1, <4>1 DEF Place
    <3>2. CASE ~ (main = "advance" \/ Stuck)
      <4>1. \A p \in Filled : recvBuf[p].off = 0 => (p < recv_Head <=> recvBuf[p].msg <= Latest)
        BY <3>2 DEF BufInv, Executed, Place
      <4> QED BY <1>1, <1>7, <2>2, <2>3, <3>2, <4>1 DEF Place
    <3> QED BY <3>1, <3>2
  <2> QED BY <2>3, <2>4 DEF Executed
<1> QED BY <1>5, <1>9, <1>11, <1>12, <1>13, <1>14, <1>15 DEF BufInv
----------------------------------------------------------------------------
(* The main thread. *)

\* The main thread does not touch the frames.
LEMMA MainKeeps ==
  ASSUME BufInv, UNCHANGED <<len, recvBuf, recv_Tail, worker>>, VarsOK', Behind', Executed'
  PROVE  BufInv'
<1>1. Published' = Published
  BY DEF Published
<1>2. Layout'
  BY <1>1, LayoutKept DEF BufInv, Layout
<1>3. Pending'
  BY DEF BufInv, Pending, FrameAt
<1> QED BY <1>2, <1>3 DEF BufInv, Layout

\* A message without a payload is executed again.
LEMMA StuckRepeats ==
  ASSUME BufInv, Stuck
  PROVE  Enough /\ Executable
<1>1. recv_Head \in Filled /\ recvBuf[recv_Head].off = 0 /\ recvBuf[recv_Head].msg = Latest
  BY ByteFields DEF BufInv, Executed, Place
<1>2. recv_Head + Size(0) <= recv_Tail
  BY <1>1, FrameStart DEF BufInv, Stuck
<1>3. Enough /\ recv_Tail >= recv_Head
  BY <1>2, FilledType DEF BufInv, Enough, Size
<1>4. MarkAt(recv_Head) /\ LenAt(recv_Head) = 0
  BY <1>1, <1>3, MarkFinds DEF BufInv, Stuck
<1> QED BY <1>3, <1>4, FilledType DEF BufInv, Executable

\* Steps that read only.
LEMMA TestKeeps ==
  ASSUME BufInv, Test \/ LoopEnd \/ Clear
  PROVE  BufInv'
<1>1. /\ UNCHANGED <<len, executed, recvBuf, recv_Head, recv_Tail, worker>>
      /\ main # "advance" /\ main' \in {"test", "loop", "clear"}
      /\ is_RecvCompleted' \in BOOLEAN
  BY DEF Test, LoopEnd, Clear, BufInv, VarsOK, TypeOK
<1>2. VarsOK' /\ Behind'
  BY <1>1 DEF BufInv, VarsOK, TypeOK, Behind, Published
<1>3. ~ Stuck
  BY StuckRepeats DEF Test, LoopEnd, Clear, BufInv, Executed, History
<1>4. Published' = Published /\ Filled' = Filled
  BY <1>1 DEF Published, Filled
<1>5. History' /\ Latest' = Latest /\ ~ Stuck'
  BY <1>1, <1>3, <1>4, HistoryKept DEF BufInv, Executed
<1>6. Executed'
  BY <1>1, <1>3, <1>4, <1>5 DEF BufInv, Executed, Place
<1> QED BY <1>1, <1>2, <1>6, MainKeeps

\* No frame begins at a byte that is skipped.
LEMMA SkipKeeps ==
  ASSUME BufInv, Skip
  PROVE  BufInv'
<1>1. /\ UNCHANGED <<len, executed, recvBuf, recv_Tail, is_RecvCompleted, worker>>
      /\ main = "loop" /\ main' = "test" /\ Enough
      /\ recv_Head' = IF MarkAt(recv_Head) THEN recv_Head ELSE recv_Head + 1
  BY DEF Skip
<1>2. /\ recv_Head \in Filled /\ recv_Head \in Nat /\ recv_Tail \in Nat
      /\ MarkAt(recv_Head) <=> recvBuf[recv_Head].off = 0
      /\ recv_Head + 1 < recv_Tail
  <2>1. recv_Head + HeadSize <= recv_Tail /\ HeadSize >= 2
    BY <1>1, FilledType, CmdBufferAssumption DEF BufInv, Enough
  <2> QED BY <1>1, <2>1, MarkFinds, FilledType DEF BufInv
<1>3. VarsOK'
  <2>1. recv_Head' \in 0 .. ReceMax /\ recv_Head' <= recv_Tail
    BY <1>1, <1>2, FilledType DEF BufInv, VarsOK, TypeOK
  <2> QED BY <1>1, <2>1 DEF BufInv, VarsOK, TypeOK
<1>4. Behind'
  BY <1>1, <1>2 DEF BufInv, Behind, Published
<1>6. ~ Stuck
  BY StuckRepeats DEF Skip
<1>5. Executed'
  <2>1. \A p \in Filled : recvBuf[p].off = 0 => (p < recv_Head' <=> p < recv_Head)
    <3> SUFFICES ASSUME NEW p \in Filled, recvBuf[p].off = 0
                 PROVE  p < recv_Head' <=> p < recv_Head
      OBVIOUS
    <3>1. p \in Nat
      BY FilledType DEF BufInv
    <3>2. recv_Head' = recv_Head \/ (recv_Head' = recv_Head + 1 /\ p # recv_Head)
      BY <1>1, <1>2
    <3> QED BY <1>2, <3>1, <3>2
  <2>2. Published' = Published /\ Filled' = Filled
    BY <1>1 DEF Published, Filled
  <2>3. History' /\ Latest' = Latest /\ ~ Stuck'
    BY <1>1, <1>6, <2>2, HistoryKept DEF BufInv, Executed
  <2> QED BY <1>1, <1>6, <2>1, <2>2, <2>3 DEF BufInv, Executed, Place
<1> QED BY <1>1, <1>3, <1>4, <1>5, MainKeeps

\* The frame at recv_Head is the one of the next message, or again that of a message
\* without a payload.
LEMMA ExecuteKeeps ==
  ASSUME BufInv, Execute
  PROVE  BufInv'
<1> DEFINE E == Latest
           L == Len(executed)
           m == recvBuf[recv_Head].msg
<1>1. /\ UNCHANGED <<len, recvBuf, recv_Head, recv_Tail, is_RecvCompleted, worker>>
      /\ main = "loop" /\ main' = "advance" /\ Enough /\ MarkAt(recv_Head)
      /\ executed' = IF Len(executed) > MaxMessages THEN executed
                     ELSE Append(executed, At(recv_Head).msg)
  BY DEF Execute, Executable
<1>2. /\ recv_Head \in Filled /\ At(recv_Head) = recvBuf[recv_Head]
      /\ recvBuf[recv_Head].off = 0
  BY <1>1, MarkFinds DEF BufInv
<1>3. /\ m \in 1 .. Published /\ m \in 1 .. Len(len) /\ m \in Nat /\ m <= MaxMessages
      /\ E \in Nat /\ E <= Published /\ recv_Head \in Nat /\ Published \in Nat
      /\ L \in Nat /\ MaxMessages \in Nat /\ Published <= MaxMessages
  <2>1. m \in 1 .. Published /\ m \in 1 .. Len(len)
    BY <1>2, FrameStart DEF BufInv
  <2>2. E \in Nat /\ E <= Published /\ Len(len) \in Nat /\ Len(len) <= MaxMessages /\ L \in Nat
    BY DEF BufInv, Executed, History, VarsOK, TypeOK
  <2>3. Published \in Nat /\ Published <= Len(len)
    BY <2>1, <2>2 DEF Published
  <2> QED BY <2>1, <2>2, <2>3, FilledType, CmdBufferAssumption DEF BufInv
<1>4. recvBuf[recv_Head] = Byte(m, 0)
  <2>1. recvBuf[recv_Head] \in [msg : 0 .. MaxMessages, off : Nat]
    BY <1>2, FilledType DEF BufInv, VarsOK
  <2> QED BY <1>2, <2>1 DEF Byte
<1>5. executed \in Seq(Messages) /\ m \in Messages
  BY <1>3 DEF BufInv, VarsOK, TypeOK, Messages
<1>6. CASE Stuck
  <2>1. m = E /\ \A p \in Filled : recvBuf[p].off = 0 => (p <= recv_Head <=> recvBuf[p].msg <= E)
    BY <1>6, ByteFields DEF BufInv, Executed, Place
  <2>2. L > 0 /\ E = executed[L] /\ len[E] = 0
    BY <1>5, <1>6 DEF Stuck, Latest
  <2>3. executed' = executed \/ executed' = Append(executed, m)
    BY <1>1, <1>2
  <2>4. executed' \in Seq(Messages) /\ Len(executed') \in Nat /\ Len(executed') >= L
        /\ (\A i \in 1 .. L : executed'[i] = executed[i])
        /\ (\A i \in 1 .. Len(executed') : i > L => i = L + 1 /\ executed'[i] = E)
        /\ executed'[Len(executed')] = E
    <3>1. CASE executed' = executed
      BY <1>3, <1>5, <2>2, <3>1
    <3>2. CASE executed' = Append(executed, m)
      BY <1>3, <1>5, <2>1, <3>2
    <3> QED BY <2>3, <3>1, <3>2
  <2>5. Latest' = E /\ Published' = Published /\ Stuck' /\ Filled' = Filled
    <3>1. executed' # <<>>
      BY <1>3, <2>2, <2>4
    <3> QED BY <1>1, <1>6, <2>4, <3>1 DEF Latest, Stuck, Published, Filled
  <2>6. History'
    <3>1. ASSUME NEW i \in 1 .. Len(executed')
          PROVE  /\ executed'[i] \in 1 .. Published
                 /\ executed'[i] = IF i = 1 THEN 1
                                   ELSE IF len[executed'[i - 1]] = 0 THEN executed'[i - 1]
                                   ELSE executed'[i - 1] + 1
      <4>1. CASE i <= L
        <5>1. i \in 1 .. L /\ executed'[i] = executed[i]
          BY <1>3, <2>4, <4>1
        <5>2. i # 1 => i - 1 \in 1 .. L /\ executed'[i - 1] = executed[i - 1]
          BY <1>3, <2>4, <5>1
        <5> QED BY <5>1, <5>2 DEF BufInv, Executed, History
      <4>2. CASE i > L
        <5>1. i = L + 1 /\ executed'[i] = E /\ i - 1 = L /\ L \in 1 .. L /\ i # 1
          BY <1>3, <2>2, <2>4, <4>2
        <5>2. executed'[i - 1] = E
          BY <2>2, <2>4, <5>1
        <5> QED BY <1>3, <2>1, <2>2, <5>1, <5>2
      <4> QED BY <1>3, <4>1, <4>2
    <3> QED BY <1>1, <1>3, <2>5, <3>1 DEF History
  <2>7. Place'
    BY <1>1, <1>2, <1>4, <2>1, <2>5 DEF Place
  <2>8. VarsOK' /\ Behind'
    BY <1>1, <2>4 DEF BufInv, VarsOK, TypeOK, Behind, Published
  <2> QED BY <1>1, <2>6, <2>7, <2>8, MainKeeps DEF Executed
<1>7. CASE ~ Stuck
  <2>0. /\ L = E
        /\ \A p \in Filled : recvBuf[p].off = 0 => (p < recv_Head <=> recvBuf[p].msg <= E)
    BY <1>1, <1>7 DEF BufInv, Executed, History, Place
  <2>1. m > E
    <3>1. recv_Head < recv_Head <=> m <= E
      BY <1>2, <2>0
    <3> QED BY <1>3, <3>1
  <2>2. m = E + 1
    <3>1. E + 1 \in 1 .. Published
      BY <1>3, <2>1
    <3>2. PICK p \in Filled : recvBuf[p] = Byte(E + 1, 0)
      BY <3>1 DEF BufInv, Present
    <3>3. recvBuf[p].msg = E + 1 /\ recvBuf[p].off = 0
      BY <3>2, ByteFields
    <3>4. p < recv_Head <=> E + 1 <= E
      BY <2>0, <3>3
    <3>5. recv_Head <= p
      BY <1>3, <3>4, FilledType DEF BufInv
    <3>6. m <= E + 1
      BY <1>2, <3>3, <3>5 DEF BufInv, Ordered
    <3> QED BY <1>3, <2>1, <3>6
  <2>3. executed' = Append(executed, m)
    BY <1>1, <1>2, <1>3, <2>0
  <2>4. /\ Len(executed') = E + 1 /\ executed'[E + 1] = E + 1 /\ executed' \in Seq(Messages)
        /\ \A i \in 1 .. E : executed'[i] = executed[i]
    BY <1>3, <1>5, <2>0, <2>2, <2>3
  <2>5. Latest' = E + 1 /\ Published' = Published /\ Filled' = Filled
    <3>1. executed' # <<>>
      BY <1>3, <2>4
    <3> QED BY <1>1, <2>4, <3>1 DEF Latest, Published, Filled
  <2>6. History'
    <3>1. ASSUME NEW i \in 1 .. E + 1
          PROVE  /\ executed'[i] \in 1 .. Published
                 /\ executed'[i] = IF i = 1 THEN 1
                                   ELSE IF len[executed'[i - 1]] = 0 THEN executed'[i - 1]
                                   ELSE executed'[i - 1] + 1
      <4>1. CASE i \in 1 .. E
        <5>1. i \in 1 .. L /\ executed'[i] = executed[i]
          BY <2>0, <2>4, <4>1
        <5>2. i # 1 => i - 1 \in 1 .. E /\ executed'[i - 1] = executed[i - 1]
          BY <1>3, <2>4, <4>1
        <5> QED BY <5>1, <5>2 DEF BufInv, Executed, History
      <4>2. CASE i = E + 1
        <5>1. executed'[i] = E + 1 /\ E + 1 \in 1 .. Published
          BY <1>3, <2>2, <2>4, <4>2
        <5>2. CASE E = 0
          BY <4>2, <5>1, <5>2
        <5>3. CASE E > 0
          <6>1. i # 1 /\ i - 1 = E /\ E \in 1 .. E
            BY <1>3, <4>2, <5>3
          <6>2. executed[E] = E
            BY <1>3, <1>5, <2>0, <5>3 DEF Latest
          <6>3. executed'[i - 1] = E
            BY <2>4, <6>1, <6>2
          <6>4. len[E] # 0
            BY <1>7, <5>3 DEF Stuck
          <6> QED BY <4>2, <5>1, <6>1, <6>3, <6>4
        <5> QED BY <1>3, <5>2, <5>3
      <4> QED BY <1>3, <4>1, <4>2
    <3>2. E + 1 \in 0 .. Published
      BY <1>3, <2>2
    <3> QED BY <1>1, <2>4, <2>5, <3>1, <3>2 DEF History
  <2>7. ASSUME NEW p \in Filled, recvBuf[p].off = 0
        PROVE  p <= recv_Head <=> recvBuf[p].msg <= E + 1
    <3>1. p < recv_Head <=> recvBuf[p].msg <= E
      BY <2>0, <2>7
    <3>2. p > recv_Head => recvBuf[p].msg > E + 1
      <4> SUFFICES ASSUME p > recv_Head PROVE recvBuf[p].msg > E + 1
        OBVIOUS
      <4>1. p - 0 # recv_Head - 0
        BY <1>3, FilledType DEF BufInv
      <4>2. recvBuf[p].msg # E + 1
        BY <1>2, <2>2, <2>7, <4>1 DEF BufInv, Once
      <4> QED BY <1>3, <3>1, <4>2, FilledType DEF BufInv
    <3> QED BY <1>3, <2>2, <3>1, <3>2, FilledType DEF BufInv
  <2>8. Place'
    BY <1>1, <1>2, <1>4, <2>2, <2>5, <2>7 DEF Place
  <2>9. VarsOK' /\ Behind'
    BY <1>1, <2>4 DEF BufInv, VarsOK, TypeOK, Behind, Published
  <2> QED BY <1>1, <2>6, <2>8, <2>9, MainKeeps DEF Executed
<1> QED BY <1>6, <1>7

\* recv_Head is advanced by the length of the payload, which leaves it in the frame.
LEMMA AdvanceKeeps ==
  ASSUME BufInv, Advance
  PROVE  BufInv'
<1> DEFINE E == Latest
           n == len[E]
<1>1. /\ UNCHANGED <<len, executed, recvBuf, recv_Tail, is_RecvCompleted, worker>>
      /\ main = "advance" /\ main' = "loop" /\ recv_Head' = recv_Head + LenAt(recv_Head)
  BY DEF Advance, Advanced
<1>2. /\ recv_Head \in Filled /\ recvBuf[recv_Head].off = 0 /\ recvBuf[recv_Head].msg = E
      /\ recv_Head \in Nat /\ recv_Tail \in Nat
  <2>1. recv_Head \in Filled /\ recvBuf[recv_Head] = Byte(E, 0)
    BY <1>1 DEF BufInv, Executed, Place
  <2> QED BY <2>1, ByteFields, FilledType DEF BufInv
<1>3. /\ E \in 1 .. Published /\ n \in Nat /\ HeadSize \in Nat \ {0}
      /\ recv_Head + HeadSize + n <= recv_Tail /\ FrameAt(recv_Head, E)
  <2>1. /\ E \in 1 .. Published /\ n \in Nat
        /\ recv_Head + Size(n) <= recv_Tail /\ FrameAt(recv_Head, E)
    BY <1>2, FrameStart DEF BufInv
  <2> QED BY <1>2, <2>1, FilledType DEF BufInv, Size
<1>4. recv_Head' = recv_Head + n
  <2>1. Enough
    BY <1>2, <1>3 DEF Enough
  <2> QED BY <1>1, <1>2, <2>1, MarkFinds DEF BufInv
<1>5. ASSUME n # 0
      PROVE  \A p \in Filled : recvBuf[p].off = 0 => (p < recv_Head' <=> p <= recv_Head)
  <2> SUFFICES ASSUME NEW p \in Filled, p > recv_Head, p < recv_Head' PROVE recvBuf[p].off # 0
    BY <1>2, <1>3, <1>4, <1>5, FilledType DEF BufInv
  <2> DEFINE i == p - recv_Head
  <2>1. p \in Nat /\ i \in Nat \ {0} /\ i \in 0 .. Size(n) - 1 /\ recv_Head + i = p
    <3>1. p \in Nat /\ recv_Head \in Nat /\ n \in Nat /\ HeadSize \in Nat \ {0}
      BY <1>2, <1>3, FilledType DEF BufInv
    <3>2. p > recv_Head /\ p < recv_Head + n
      BY <1>4
    <3> HIDE DEF n
    <3> QED BY <3>1, <3>2 DEF Size
  <2> HIDE DEF i
  <2>2. recvBuf[p] = Byte(E, i)
    BY <1>3, <2>1 DEF FrameAt
  <2> QED BY <2>1, <2>2, ByteFields
<1>6. VarsOK' /\ Behind'
  <2>1. recv_Head' \in 0 .. ReceMax /\ recv_Head' < recv_Tail
    BY SMTT(20), <1>2, <1>3, <1>4, FilledType DEF BufInv, VarsOK, TypeOK
  <2>2. Published # 0 /\ Published' = Published
    <3>1. Published' = Published
      BY <1>1 DEF Published
    <3> QED BY <1>3, <3>1
  <2>3. VarsOK'
    BY <1>1, <1>2, <2>1 DEF BufInv, VarsOK, TypeOK
  <2>4. Behind'
    BY <1>1, <2>1, <2>2 DEF Behind
  <2> QED BY <2>3, <2>4
<1>7. Published' = Published /\ Filled' = Filled
  BY <1>1 DEF Published, Filled
<1>8. History' /\ Latest' = E /\ (Stuck' <=> Stuck)
  BY <1>1, <1>7, HistoryKept DEF BufInv, Executed
<1>9. E > 0 /\ (Stuck <=> n = 0)
  BY <1>3 DEF Stuck
<1>10. \A p \in Filled : recvBuf[p].off = 0 => (p <= recv_Head <=> recvBuf[p].msg <= E)
  BY <1>1 DEF BufInv, Executed, Place
<1>11. Place'
  <2>1. CASE n = 0
    <3>1. recv_Head' = recv_Head
      BY <1>2, <1>4, <2>1
    <3> QED BY <1>1, <1>7, <1>8, <1>9, <2>1, <3>1 DEF BufInv, Executed, Place
  <2>2. CASE n # 0
    BY <1>1, <1>5, <1>7, <1>8, <1>9, <1>10, <2>2 DEF Place
  <2> QED BY <2>1, <2>2
<1>12. Executed'
  BY <1>8, <1>11 DEF Executed
<1> QED BY <1>1, <1>6, <1>12, MainKeeps
----------------------------------------------------------------------------
\* The buffer is empty at first.
LEMMA InitBufInv == Init => BufInv
<1> SUFFICES ASSUME Init PROVE BufInv
  OBVIOUS
<1>1. /\ len = <<>> /\ executed = <<>> /\ recv_Head = 0 /\ recv_Tail = 0
      /\ worker = [pc |-> "recv", n |-> 0] /\ main = "test" /\ is_RecvCompleted = TRUE
      /\ recvBuf = [p \in Cells |-> Byte(0, 0)]
  BY DEF Init, Blank
<1>2. recvBuf \in [Cells -> [msg : 0 .. MaxMessages, off : Nat]]
  BY <1>1, CmdBufferAssumption DEF Byte
<1>3. VarsOK
  BY <1>1, <1>2, CmdBufferAssumption DEF VarsOK, TypeOK
<1>4. Filled = {} /\ Published = 0
  BY <1>1 DEF Filled, Published
<1> QED BY <1>1, <1>3, <1>4 DEF BufInv, Pending, Whole, Ordered, Once, Present, Behind, Executed,
          History, Place, Latest, Stuck

\* Every step keeps the invariant.
LEMMA NextBufInv == BufInv /\ [Next]_vars => BufInv'
<1> SUFFICES ASSUME BufInv, [Next]_vars PROVE BufInv'
  OBVIOUS
<1>1. CASE SaveData
  BY <1>1, RecvKeeps, RefuseKeeps, CopyKeeps, PublishKeeps DEF SaveData
<1>2. CASE Parse
  BY <1>2, TestKeeps, SkipKeeps, ExecuteKeeps, AdvanceKeeps DEF Parse
<1>3. CASE UNCHANGED vars
  BY <1>3 DEF vars, BufInv, VarsOK, TypeOK, Pending, FrameAt, Whole, WholeAt, Filled, Published,
              Ordered, Once, Present, Behind, Executed, History, Place, Latest, Stuck
<1> QED BY <1>1, <1>2, <1>3 DEF Next

\* Every variable has its type: in particular neither onRecv_SaveData nor parseCommand
\* leaves recvBuf.
THEOREM BufferTypeCorrect == Spec => []TypeOK
<1>1. BufInv => TypeOK
  BY DEF BufInv, VarsOK
<1> QED BY <1>1, InitBufInv, NextBufInv, PTL DEF Spec

\* The commands are executed in the order of the messages, each once and none skipped,
\* whatever their lengths: the parser, which skips too few bytes, always comes to the next
\* mark before it comes to another one.  A message without a payload is executed over and
\* over, and no message behind it ever.
THEOREM CommandsInOrder == Spec => []ExecutedInOrder
<1>1. BufInv => ExecutedInOrder
  <2> SUFFICES ASSUME BufInv, NEW i \in 1 .. Len(executed) PROVE executed[i] <= Len(len)
    BY DEF BufInv, Executed, History, ExecutedInOrder
  <2>1. executed[i] \in 1 .. Published /\ Len(len) \in Nat
    BY DEF BufInv, Executed, History, VarsOK, TypeOK
  <2> QED BY <2>1 DEF Published
<1> QED BY <1>1, InitBufInv, NextBufInv, PTL DEF Spec

\* The command that is executed has its whole frame in the buffer, although parseCommand
\* waits for no more than the header and compares what follows with the payload length.
THEOREM WholeFrameThere == Spec => []WholeFrame
<1>1. BufInv => WholeFrame
  <2> SUFFICES ASSUME BufInv, main = "advance"
               PROVE  LET m == At(recv_Head).msg
                      IN  \A i \in 0 .. Size(len[m]) - 1 : At(recv_Head + i) = Byte(m, i)
    BY DEF WholeFrame
  <2> DEFINE m == recvBuf[recv_Head].msg
  <2>1. recv_Head \in Filled /\ recvBuf[recv_Head].off = 0
    BY ByteFields DEF BufInv, Executed, Place
  <2>2. At(recv_Head) = recvBuf[recv_Head]
    BY <2>1, FilledType DEF BufInv, At
  <2>3. recv_Head + Size(len[m]) <= recv_Tail /\ len[m] \in Nat /\ FrameAt(recv_Head, m)
    BY <2>1, FrameStart DEF BufInv
  <2>4. recv_Head \in Nat /\ recv_Tail \in Nat /\ recv_Tail <= ReceMax /\ ReceMax \in Nat
          /\ Size(len[m]) \in Nat
    BY SMTT(20), <2>3, FilledType DEF BufInv, VarsOK, TypeOK, Size
  <2>5. \A i \in 0 .. Size(len[m]) - 1 : recv_Head + i \in Cells
    BY <2>3, <2>4 DEF Cells
  <2> QED BY <2>2, <2>3, <2>5 DEF FrameAt, At
<1> QED BY <1>1, InitBufInv, NextBufInv, PTL DEF Spec

\* Why a buffer that was filled stays full: once a message is there, recv_Head never comes
\* to recv_Tail again, although all commands were executed, and Recv rewinds nothing.
NeverDrained == Len(len) > 0 /\ worker.pc # "publish" => recv_Head < recv_Tail

\* NeverDrained holds: Recv rewinds the buffer before its first message only.
THEOREM BufferNeverDrained == Spec => []NeverDrained
<1>1. BufInv => NeverDrained
  BY DEF BufInv, Behind, Published, VarsOK, TypeOK, NeverDrained
<1> QED BY <1>1, InitBufInv, NextBufInv, PTL DEF Spec
============================================================================
