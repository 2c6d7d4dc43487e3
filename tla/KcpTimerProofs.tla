-------------------------- MODULE KcpTimerProofs --------------------------
(***************************************************************************)
(* Theorems about the timers of KCP, for every interval, limit and rto.    *)
(* The code only sees remainders of the time.  The first lemmas say when   *)
(* their difference is a difference of times; the invariant then speaks of *)
(* real times: flush, resend and probe are when the next flush, the next   *)
(* flight and the next probe are due, and the fields of the control block  *)
(* are what the clock shows at these times.                                *)
(***************************************************************************)
EXTENDS KcpTimer, TLAPS

\* A number has one quotient and one remainder.
LEMMA OneRemainder ==
  ASSUME NEW N \in Nat \ {0}, NEW a \in Int, NEW q \in Int, NEW r \in Int,
         a = q * N + r, 0 <= r, r < N
  PROVE  a % N = r
  OBVIOUS

\* The quotient and the remainder of TLA+.
LEMMA Division ==
  ASSUME NEW N \in Nat \ {0}, NEW a \in Int
  PROVE  a \div N \in Int /\ a % N \in 0 .. N - 1 /\ a = (a \div N) * N + (a % N)
  OBVIOUS

\* Whole turns of the clock do not show.
LEMMA Turns ==
  ASSUME NEW N \in Nat \ {0}, NEW a \in Int, NEW k \in Int
  PROVE  (a + k * N) % N = a % N
<1> DEFINE q == a \div N
           r == a % N
<1>1. q \in Int /\ r \in Int /\ 0 <= r /\ r < N /\ a = q * N + r
  BY Division
<1> HIDE DEF q, r
<1>2. k * N \in Int /\ q + k \in Int /\ q * N \in Int
  BY <1>1
<1>3. (q + k) * N = q * N + k * N
  BY <1>1
<1>4. a + k * N = (q + k) * N + r
  BY <1>1, <1>2, <1>3
<1>5. (a + k * N) % N = r
  BY <1>1, <1>2, <1>4, OneRemainder
<1> QED BY <1>5 DEF r

\* A number is its remainder and whole turns.
LEMMA Divided ==
  ASSUME NEW N \in Nat \ {0}, NEW a \in Int
  PROVE  \E q, r \in Int : r = a % N /\ q * N \in Int /\ a = q * N + r
<1> DEFINE q == a \div N
           r == a % N
<1>1. q \in Int /\ r \in Int /\ a = q * N + r
  BY Division
<1> HIDE DEF q, r
<1>2. q * N \in Int
  BY <1>1
<1>3. \E x, y \in Int : y = r /\ x * N \in Int /\ a = x * N + y
  BY <1>1, <1>2
<1> QED BY <1>3 DEF r

\* The remainders of two numbers differ as the numbers do, but for whole turns.
LEMMA RemainderDifference ==
  ASSUME NEW N \in Nat \ {0}, NEW a \in Int, NEW b \in Int
  PROVE  ((a % N) - (b % N)) % N = (a - b) % N
<1>1. PICK q, r \in Int : r = a % N /\ q * N \in Int /\ a = q * N + r
  BY Divided, Zenon
<1>2. PICK p, s \in Int : s = b % N /\ p * N \in Int /\ b = p * N + s
  BY Divided, Zenon
<1>3. r - s \in Int /\ q - p \in Int /\ (q - p) * N = q * N - p * N
  BY <1>1, <1>2
<1>4. a - b = (r - s) + (q - p) * N
  BY <1>1, <1>2, <1>3
<1>5. ((r - s) + (q - p) * N) % N = (r - s) % N
  BY <1>3, Turns, Zenon
<1>6. (a - b) % N = (r - s) % N
  BY <1>4, <1>5, Zenon
<1>7. r = a % N /\ s = b % N
  BY <1>1, <1>2
<1>8. (a % N) - (b % N) = r - s
  BY <1>7
<1> QED BY <1>6, <1>8, Zenon

\* Adding to a remainder is adding to the number.
LEMMA RemainderSum ==
  ASSUME NEW N \in Nat \ {0}, NEW a \in Int, NEW n \in Int
  PROVE  ((a % N) + n) % N = (a + n) % N
<1>1. PICK q, r \in Int : r = a % N /\ q * N \in Int /\ a = q * N + r
  BY Divided, Zenon
<1>2. r + n \in Int /\ a + n = (r + n) + q * N
  BY <1>1
<1>3. ((r + n) + q * N) % N = (r + n) % N
  BY <1>1, <1>2, Turns, Zenon
<1>4. (a + n) % N = (r + n) % N
  BY <1>2, <1>3, Zenon
<1> QED BY <1>1, <1>4, Zenon

\* What the clock shows.
LEMMA ClockType ==
  ASSUME boot \in Int, NEW t \in Int
  PROVE  ClockAt(t) \in Int /\ ClockAt(t) = (boot + t) % ClockMod
  BY TimerAssumption DEF ClockAt, Ms!SeqAdd

\* Counting on from what the clock shows.
LEMMA ClockPlus ==
  ASSUME boot \in Int, NEW t \in Int, NEW n \in Int
  PROVE  Ms!SeqAdd(ClockAt(t), n) = ClockAt(t + n)
<1>1. (((boot + t) % ClockMod) + n) % ClockMod = ((boot + t) + n) % ClockMod
  <2>1. boot + t \in Int /\ ClockMod \in Nat \ {0}
    BY TimerAssumption
  <2> QED BY <2>1, RemainderSum, Zenon
<1>2. (boot + t) + n = boot + (t + n)
  OBVIOUS
<1> QED BY <1>1, <1>2, Zenon DEF ClockAt, Ms!SeqAdd

\* Two times that are less than half a turn of the clock apart: the difference of what
\* the clock showed is the time between them, although the clock may have wrapped.
LEMMA ClockDiff ==
  ASSUME boot \in Int, NEW a \in Int, NEW b \in Int,
         2 * (a - b) < ClockMod, 2 * (b - a) <= ClockMod
  PROVE  Ms!Diff(ClockAt(a), ClockAt(b)) = a - b
<1> DEFINE d == (ClockAt(a) - ClockAt(b)) % ClockMod
<1>1. ClockMod \in Nat \ {0}
  BY TimerAssumption
<1>2. d = (a - b) % ClockMod
  <2>1. boot + a \in Int /\ boot + b \in Int
    OBVIOUS
  <2>2. d = ((boot + a) - (boot + b)) % ClockMod
    <3>1. d = (((boot + a) % ClockMod) - ((boot + b) % ClockMod)) % ClockMod
      <4>1. ClockAt(a) = (boot + a) % ClockMod /\ ClockAt(b) = (boot + b) % ClockMod
        BY ClockType, Zenon
      <4> QED BY <4>1, Zenon
    <3>2. (((boot + a) % ClockMod) - ((boot + b) % ClockMod)) % ClockMod
            = ((boot + a) - (boot + b)) % ClockMod
      BY <1>1, <2>1, RemainderDifference, Zenon
    <3> QED BY <3>1, <3>2, Zenon
  <2>3. (boot + a) - (boot + b) = a - b
    OBVIOUS
  <2> QED BY <2>2, <2>3, Zenon
<1>3. Ms!Diff(ClockAt(a), ClockAt(b)) = IF 2 * d < ClockMod THEN d ELSE d - ClockMod
  BY Zenon DEF Ms!Diff
<1> HIDE DEF d
<1>4. CASE a >= b
  <2>1. a - b = 0 * ClockMod + (a - b) /\ a - b \in Int /\ 0 <= a - b /\ a - b < ClockMod
    BY <1>1, <1>4
  <2>2. (a - b) % ClockMod = a - b
    BY <1>1, <2>1, OneRemainder
  <2>3. d = a - b
    BY <1>2, <2>2
  <2> QED BY <1>3, <2>3
<1>5. CASE a < b
  <2>1. /\ a - b = (0 - 1) * ClockMod + (a - b + ClockMod)
        /\ a - b + ClockMod \in Int /\ 0 <= a - b + ClockMod /\ a - b + ClockMod < ClockMod
    BY <1>1, <1>5
  <2>2. (a - b) % ClockMod = a - b + ClockMod
    BY <1>1, <2>1, OneRemainder
  <2>3. d = a - b + ClockMod
    BY <1>2, <2>2
  <2>4. ~ 2 * d < ClockMod
    BY <1>1, <2>3
  <2> QED BY <1>1, <1>3, <2>3, <2>4
<1> QED BY <1>4, <1>5

\* The longest rto there is before anything is sent again.
TopRto == Larger(DefRto, MaxRto)

\* What is known of the constants, one by one.
LEMMA Constants ==
  /\ ClockMod \in Nat \ {0} /\ Horizon \in Nat /\ JumpLimit \in Nat
  /\ NoDelay \in Nat /\ FastLimit \in Int
  /\ Interval \in Nat \ {0} /\ MinRto \in Nat \ {0} /\ DefRto \in Nat \ {0}
  /\ MaxRto \in Nat \ {0} /\ ProbeInit \in Nat \ {0} /\ ProbeLimit \in Nat \ {0}
  /\ MaxGap \in Nat \ {0} /\ MinRto <= MaxRto /\ ProbeInit <= ProbeLimit
  /\ TopRto \in Nat \ {0} /\ DefRto <= TopRto /\ MaxRto <= TopRto
  BY TimerAssumption DEF TopRto, Larger

\* A time of the clock.
LEMMA StampType == \A a, n \in Int : Ms!SeqAdd(a, n) \in Ms!Sn
  BY TimerAssumption DEF Ms!SeqAdd, Ms!Sn

\* Adding a wait to a time of the clock.
LEMMA StampAfter == \A a \in Ms!Sn : \A n \in Nat : Ms!SeqAdd(a, n) \in Ms!Sn
  BY TimerAssumption DEF Ms!SeqAdd, Ms!Sn

\* Times of the clock are integers.
LEMMA StampInt == Ms!Sn \subseteq Int /\ 0 \in Ms!Sn
  BY TimerAssumption DEF Ms!Sn

\* So are their differences.
LEMMA DiffInt == \A a, b \in Int : Ms!Diff(a, b) \in Int
  BY TimerAssumption DEF Ms!Diff

-----------------------------------------------------------------------------
(* Types *)

Rto == {DefRto} \cup MinRto .. MaxRto

Control == [current : Ms!Sn, updated : BOOLEAN, ts_flush : Ms!Sn,
            rx_srtt : Nat, rx_rttval : Nat, rx_rto : Rto,
            probe_wait : 0 .. ProbeLimit, ts_probe : Ms!Sn, rmt_wnd : BOOLEAN]

Segment == [xmit : Nat \cup {-1}, rto : Nat, resendts : Ms!Sn, skipped : BOOLEAN]

\* An rto that was measured.
LEMMA RtoType == Rto \subseteq Nat \ {0} /\ \A r \in Rto : r <= TopRto
  BY Constants DEF Rto

\* The probe timer set anew.
LEMMA ControlWith ==
  ASSUME NEW k \in Control, NEW n \in 0 .. ProbeLimit, NEW ts \in Ms!Sn
  PROVE  /\ [k EXCEPT !.probe_wait = n, !.ts_probe = ts] \in Control
         /\ [k EXCEPT !.ts_probe = ts, !.probe_wait = n] \in Control
  BY DEF Control

\* The probe timer after a flush.
LEMMA ProbedType == ASSUME NEW k \in Control PROVE Probed(k) \in Control
<1> DEFINE grown == Larger(k.probe_wait, ProbeInit) + Larger(k.probe_wait, ProbeInit) \div 2
           wait == Bounded(0, grown, ProbeLimit)
           Wait(n) == [k EXCEPT !.probe_wait = n, !.ts_probe = Ms!SeqAdd(k.current, n)]
<1>1. grown \in Nat
  BY Constants DEF Control, Larger
<1> HIDE DEF grown
<1>2. wait \in 0 .. ProbeLimit
  BY <1>1, Constants DEF Bounded
<1> HIDE DEF wait
<1>3. ASSUME NEW n \in 0 .. ProbeLimit PROVE Wait(n) \in Control
  <2>1. Ms!SeqAdd(k.current, n) \in Ms!Sn
    <3>1. k.current \in Ms!Sn /\ n \in Nat
      BY Constants DEF Control
    <3> QED BY <3>1, StampAfter
  <2> QED BY <2>1, ControlWith
<1>4. [k EXCEPT !.ts_probe = 0, !.probe_wait = 0] \in Control
  <2>1. 0 \in 0 .. ProbeLimit
    BY Constants
  <2> QED BY <2>1, StampInt, ControlWith
<1>5. Wait(ProbeInit) \in Control /\ Wait(wait) \in Control
  <2>1. ProbeInit \in 0 .. ProbeLimit
    BY Constants
  <2> HIDE DEF Wait
  <2> QED BY <1>2, <1>3, <2>1
<1> QED BY <1>4, <1>5 DEF Probed, wait, grown

\* The rto of a segment sent again.
LEMMA BackedOffType ==
  ASSUME NEW k \in Control, NEW rto \in Nat
  PROVE  BackedOff(k, rto) \in Nat /\ rto <= BackedOff(k, rto)
           /\ BackedOff(k, rto) <= 2 * rto + TopRto
  BY RtoType, Constants DEF BackedOff, Larger, Control

\* The segment after a flush.
LEMMA FlushedType == ASSUME TimerTypeOK, NEW k \in Control PROVE Flushed(k) \in Segment
<1>1. FirstSent(k) \in Segment
  <2> DEFINE rtomin == IF NoDelay = 0 THEN k.rx_rto \div 8 ELSE 0
  <2>1. k.current \in Ms!Sn /\ k.rx_rto \in Nat
    BY RtoType DEF Control
  <2>2. k.rx_rto + rtomin \in Nat
    BY <2>1
  <2> HIDE DEF rtomin
  <2>3. Ms!SeqAdd(k.current, k.rx_rto + rtomin) \in Ms!Sn
    BY <2>1, <2>2, StampAfter
  <2> QED BY <2>1, <2>3 DEF FirstSent, Segment, rtomin
<1>2. ASSUME NEW rto \in Nat, seg.xmit > 0 PROVE SentAgain(k, rto) \in Segment
  <2>1. Ms!SeqAdd(k.current, rto) \in Ms!Sn
    BY StampAfter DEF Control
  <2>2. seg.xmit + 1 \in Nat
    BY <1>2 DEF TimerTypeOK
  <2> QED BY <2>1, <2>2 DEF SentAgain, Segment
<1>3. seg \in Segment /\ seg.rto \in Nat
  BY DEF TimerTypeOK, Segment
<1>4. CASE TimedOut(k)
  <2>1. SentAgain(k, BackedOff(k, seg.rto)) \in Segment
    BY <1>2, <1>3, <1>4, BackedOffType DEF TimedOut
  <2>2. [SentAgain(k, BackedOff(k, seg.rto)) EXCEPT !.skipped = seg.skipped] \in Segment
    BY <1>3, <2>1 DEF Segment
  <2> QED BY <1>1, <1>3, <1>4, <2>2 DEF Flushed
<1>5. CASE ~ TimedOut(k)
  BY <1>1, <1>2, <1>3, <1>5 DEF Flushed, SentFast
<1> QED BY <1>4, <1>5

\* A measured round trip.
LEMMA UpdateAckType ==
  ASSUME NEW k \in Control, NEW rtt \in Nat
  PROVE  UpdateAck(k, rtt) \in Control
<1> DEFINE delta == IF rtt < k.rx_srtt THEN k.rx_srtt - rtt ELSE rtt - k.rx_srtt
           rttval == IF k.rx_srtt = 0 THEN rtt \div 2 ELSE (3 * k.rx_rttval + delta) \div 4
           srtt == IF k.rx_srtt = 0 THEN rtt ELSE Larger((7 * k.rx_srtt + rtt) \div 8, 1)
           rto == Bounded(MinRto, srtt + Larger(Interval, 4 * rttval), MaxRto)
<1>1. k.rx_srtt \in Nat /\ k.rx_rttval \in Nat
  BY DEF Control
<1>2. delta \in Nat
  BY <1>1
<1> HIDE DEF delta
<1>3. rttval \in Nat /\ srtt \in Nat
  BY <1>1, <1>2 DEF Larger
<1> HIDE DEF rttval, srtt
<1>4. rto \in Rto
  BY <1>3, Constants DEF Bounded, Larger, Rto
<1> HIDE DEF rto
<1>5. [k EXCEPT !.rx_srtt = srtt, !.rx_rttval = rttval, !.rx_rto = rto] \in Control
  BY <1>3, <1>4 DEF Control
<1> QED BY <1>5 DEF UpdateAck, rto, rttval, srtt, delta

\* The clock shows a time of the clock.
LEMMA ClockStamp == ASSUME boot \in Int, NEW t \in Int PROVE ClockAt(t) \in Ms!Sn
  BY StampType DEF ClockAt

\* The real times are natural numbers.
LEMMA BootInt == TimerTypeOK => boot \in Nat /\ clock \in Nat
  BY TimerAssumption DEF TimerTypeOK

\* The first state.
LEMMA InitTimerType == TimerInit => TimerTypeOK
<1> SUFFICES ASSUME TimerInit PROVE TimerTypeOK
  OBVIOUS
<1>1. 0 \in 0 .. Horizon /\ 0 \in 0 .. ProbeLimit /\ 0 \in Ms!Sn
  BY Constants, StampInt
<1>2. kcp \in Control
  BY <1>1 DEF TimerInit, Control, Rto
<1>3. seg \in Segment
  BY <1>1 DEF TimerInit, NoSegment, Segment
<1>4. seen.sent \in SUBSET (0 .. Horizon)
  BY DEF TimerInit
<1> QED BY <1>1, <1>2, <1>3, <1>4 DEF TimerInit, TimerTypeOK, Control, Rto, Segment

\* When the next flush is due.
LEMMA NextFlushType ==
  \A ts, current \in Ms!Sn : NextFlush(ts, current) \in Ms!Sn
<1>1. Interval \in Nat
  BY Constants
<1> QED BY <1>1, StampAfter DEF NextFlush

\* The control block as ikcp_update leaves it before the flush.
LEMMA UpdatedControl ==
  ASSUME TimerTypeOK
  PROVE  /\ Now \in Ms!Sn /\ FlushTime(kcp, Now) \in Ms!Sn /\ kcp \in Control
         /\ \A ts \in Ms!Sn :
              [kcp EXCEPT !.current = Now, !.updated = TRUE, !.ts_flush = ts] \in Control
<1>1. boot \in Int /\ clock \in Int
  BY BootInt
<1>2. Now \in Ms!Sn
  BY <1>1, ClockStamp DEF Now
<1>3. kcp \in Control
  BY DEF TimerTypeOK, Control, Rto
<1>4. FlushTime(kcp, Now) \in Ms!Sn
  BY <1>2, <1>3 DEF FlushTime, Control
<1>5. \A ts \in Ms!Sn :
        [kcp EXCEPT !.current = Now, !.updated = TRUE, !.ts_flush = ts] \in Control
  BY <1>2, <1>3 DEF Control
<1> QED BY <1>2, <1>3, <1>4, <1>5

\* A flush.
LEMMA FlushType ==
  ASSUME TimerTypeOK, NEW k \in Control, Flush(k), UNCHANGED <<clock, boot>>
  PROVE  TimerTypeOK'
<1>1. kcp' \in Control
  BY ProbedType DEF Flush
<1>2. seg' \in Segment
  BY FlushedType DEF Flush
<1>3. clock \in 0 .. Horizon /\ boot \in Boots
  BY DEF TimerTypeOK
<1> DEFINE Times == 0 .. Horizon
<1>4. Ms!Diff(seg'.resendts, k.current) \in Int
  <2>1. seg'.resendts \in Int /\ k.current \in Int
    BY <1>2, StampInt DEF Segment, Control
  <2> QED BY <2>1, DiffInt
<1>5. seen \in [update : Times, sent : SUBSET Times, armed : Int, probe : Times]
        /\ clock \in Times
  BY <1>3 DEF TimerTypeOK
<1> HIDE DEF Times
<1>6. seen' \in [update : Times, sent : SUBSET Times, armed : Int, probe : Times]
  BY <1>4, <1>5 DEF Flush
<1> QED BY <1>1, <1>2, <1>3, <1>6 DEF TimerTypeOK, Control, Rto, Segment, Times

\* Every step keeps the types.
LEMMA NextTimerType == TimerTypeOK /\ [TimerNext]_timerVars => TimerTypeOK'
<1> SUFFICES ASSUME TimerTypeOK, [TimerNext]_timerVars PROVE TimerTypeOK'
  OBVIOUS
<1> DEFINE Times == 0 .. Horizon
           Seen == [update : Times, sent : SUBSET Times, armed : Int, probe : Times]
<1>1. /\ clock \in Times /\ boot \in Boots /\ kcp \in Control /\ seg \in Segment
      /\ seen \in Seen
  BY DEF TimerTypeOK, Control, Rto, Segment
<1>2. ASSUME clock' \in Times, boot' \in Boots, kcp' \in Control, seg' \in Segment,
             seen' \in Seen
      PROVE  TimerTypeOK'
  BY <1>2 DEF TimerTypeOK, Control, Rto, Segment
<1>3. NoSegment \in Segment /\ [NoSegment EXCEPT !.xmit = 0] \in Segment
  BY StampInt DEF NoSegment, Segment
<1>4. \A open \in BOOLEAN : \A k \in Control : Hears(k, open) \in Control
  BY DEF Hears, Control
<1>5. \A open \in BOOLEAN : HearsAt(open) \in Seen
  <2> HIDE DEF Times
  <2> QED BY <1>1 DEF HearsAt
<1>6. CASE ClockTick
  <2>1. clock' \in Times
    BY <1>1, <1>6, Constants DEF ClockTick
  <2> QED BY <1>1, <1>2, <1>6, <2>1 DEF ClockTick
<1>7. CASE Update
  <2> DEFINE ts == FlushTime(kcp, Now)
             k == [kcp EXCEPT !.current = Now, !.updated = TRUE, !.ts_flush = ts]
  <2>1. UNCHANGED <<clock, boot>>
    BY <1>7 DEF Update
  <2>2. CASE FlushesAt(kcp, Now)
    <3>1. [k EXCEPT !.ts_flush = NextFlush(ts, Now)] \in Control
      <4>1. [k EXCEPT !.ts_flush = NextFlush(ts, Now)]
              = [kcp EXCEPT !.current = Now, !.updated = TRUE, !.ts_flush = NextFlush(ts, Now)]
        BY <1>1 DEF Control
      <4>2. NextFlush(ts, Now) \in Ms!Sn
        BY UpdatedControl, NextFlushType
      <4> QED BY <4>1, <4>2, UpdatedControl
    <3>2. Flush([k EXCEPT !.ts_flush = NextFlush(ts, Now)])
      BY <1>7, <2>2 DEF Update
    <3> QED BY <2>1, <3>1, <3>2, FlushType
  <2>3. CASE ~ FlushesAt(kcp, Now)
    <3>1. k \in Control
      BY UpdatedControl
    <3>2. kcp' = k /\ seen' = [seen EXCEPT !.update = clock] /\ seg' = seg
      BY <1>7, <2>3 DEF Update
    <3>3. seen' \in Seen
      <4> HIDE DEF Times
      <4> QED BY <1>1, <3>2
    <3> HIDE DEF k
    <3> QED BY <1>1, <1>2, <2>1, <3>1, <3>2, <3>3
  <2> QED BY <2>2, <2>3
<1>8. CASE Send
  <2>1. seen' \in Seen
    <3> HIDE DEF Times
    <3> QED BY <1>1, <1>8 DEF Send
  <2> QED BY <1>1, <1>2, <1>3, <1>8, <2>1 DEF Send
<1>9. ASSUME NEW open \in BOOLEAN, NEW time \in seen.sent, Ack(time, open)
      PROVE  TimerTypeOK'
  <2> DEFINE rtt == Ms!Diff(kcp.current, ClockAt(time))
  <2>1. rtt \in Int
    <3>1. kcp.current \in Int
      BY <1>1, StampInt DEF Control
    <3>2. ClockAt(time) \in Int
      BY <1>1, BootInt, ClockType
    <3> QED BY <3>1, <3>2, DiffInt
  <2>2. kcp' = IF rtt >= 0 THEN UpdateAck(Hears(kcp, open), rtt) ELSE Hears(kcp, open)
    BY <1>9 DEF Ack
  <2> HIDE DEF rtt
  <2>3. Hears(kcp, open) \in Control
    BY <1>1, <1>4
  <2>4. kcp' \in Control
    BY <2>1, <2>2, <2>3, UpdateAckType
  <2>5. seen' \in Seen
    <3>1. HearsAt(open) \in Seen
      BY <1>5
    <3>2. seen' = [HearsAt(open) EXCEPT !.sent = {}]
      BY <1>9 DEF Ack
    <3> HIDE DEF Times
    <3> QED BY <3>1, <3>2
  <2> QED BY <1>1, <1>2, <1>3, <1>9, <2>4, <2>5 DEF Ack
<1>10. ASSUME NEW open \in BOOLEAN, NEW skips \in BOOLEAN, Hear(open, skips)
       PROVE  TimerTypeOK'
  <2>1. seg' \in Segment
    BY <1>1, <1>10 DEF Hear, Segment
  <2> QED BY <1>1, <1>2, <1>4, <1>5, <1>10, <2>1 DEF Hear
<1>11. CASE UNCHANGED timerVars
  BY <1>1, <1>2, <1>11 DEF timerVars
<1> QED BY <1>6, <1>7, <1>8, <1>9, <1>10, <1>11 DEF TimerNext

\* Every field keeps its type: the rto measured stays between its limits, and the wait for
\* the next probe of the window does not grow beyond its own.
THEOREM TimerTypeCorrect == TimerSpec => []TimerTypeOK
  BY InitTimerType, NextTimerType, PTL DEF TimerSpec

-----------------------------------------------------------------------------
(* The round trip *)

\* No flight is half a turn of the clock old: 24 days in the code.
ShortTrip == 2 * Horizon < ClockMod

\* current is what the clock showed at the last ikcp_update, and no flight is later.
TripInv ==
  /\ \A time \in seen.sent : time <= seen.update
  /\ IF kcp.updated THEN kcp.current = ClockAt(seen.update)
     ELSE seen.sent = {} /\ seen.update = 0 /\ seg.xmit <= 0 /\ kcp.probe_wait = 0
  /\ seen.update <= clock /\ clock <= seen.update + MaxGap

-----------------------------------------------------------------------------
(* The schedule *)

\* No rto is longer than this while the time is in 0 .. Horizon: nothing else bounds the
\* back-off, but a segment is sent again only when the rto before has gone by.
LongestWait == 2 * (Horizon + TopRto)

\* All that is scheduled is in 0 .. Far, and Far is less than half a turn of the clock:
\* in the code, eight days of a session.
Far == Horizon + LongestWait + ProbeLimit + Interval

SlowClock == 2 * Far < ClockMod

\* The next flush.
FlushDue(flush) ==
  /\ kcp.updated => kcp.ts_flush = ClockAt(flush)
  /\ seen.update < flush /\ flush <= seen.update + Interval

\* The segment is sent again at resend, or at the first flush after that.
ResendDue(flush, resend) ==
  seg.xmit > 0 =>
    \E last \in seen.sent :
      /\ \A time \in seen.sent : time <= last
      /\ resend = last + seen.armed
      /\ seg.resendts = ClockAt(resend)
      /\ 0 < seg.rto /\ seg.rto <= seen.armed /\ seen.armed <= LongestWait
      /\ flush < resend + Interval

LongestProbe == Larger(ProbeInit + Interval + MaxGap - 1, ProbeLimit)

\* The window is probed at probe, or at the first flush after that.  If no probe is
\* armed, the next flush arms one.
ProbeDue(flush, probe) ==
  /\ seen.probe <= clock
  /\ kcp.probe_wait # 0 => /\ kcp.ts_probe = ClockAt(probe)
                           /\ probe <= seen.probe + LongestProbe
                           /\ probe <= clock + ProbeLimit
                           /\ flush < probe + Interval
  /\ kcp.probe_wait = 0 /\ ~ kcp.rmt_wnd => flush <= seen.probe + Interval

Schedule(flush, resend, probe) ==
  FlushDue(flush) /\ ResendDue(flush, resend) /\ ProbeDue(flush, probe)

Scheduled == \E flush, resend, probe \in 0 .. Far : Schedule(flush, resend, probe)

TimerInv == TripInv /\ Scheduled

\* The window probe changes nothing but its own timer.
LEMMA ProbedKeeps ==
  ASSUME NEW k \in Control
  PROVE  /\ Probed(k).current = k.current /\ Probed(k).updated = k.updated
         /\ Probed(k).ts_flush = k.ts_flush /\ Probed(k).rmt_wnd = k.rmt_wnd
  BY DEF Probed, Control

\* An ack changes nothing but the estimates and what is known of the window.
LEMMA HearsKeeps ==
  ASSUME NEW k \in Control, NEW open \in BOOLEAN
  PROVE  /\ Hears(k, open) \in Control
         /\ \A f \in {"current", "updated", "ts_flush", "probe_wait", "ts_probe"} :
              Hears(k, open)[f] = k[f]
         /\ Hears(k, open).rmt_wnd = open
  BY DEF Hears, Control

\* Neither does the measuring.
LEMMA UpdateAckKeeps ==
  ASSUME NEW k \in Control, NEW rtt
  PROVE  \A f \in {"current", "updated", "ts_flush", "probe_wait", "ts_probe", "rmt_wnd"} :
           UpdateAck(k, rtt)[f] = k[f]
  BY DEF UpdateAck, Control

\* What is left of the control block after an ack.
LEMMA AckKeeps ==
  ASSUME TimerTypeOK, NEW open \in BOOLEAN, NEW time \in seen.sent, Ack(time, open)
  PROVE  /\ kcp'.current = kcp.current /\ kcp'.updated = kcp.updated
         /\ kcp'.ts_flush = kcp.ts_flush /\ kcp'.ts_probe = kcp.ts_probe
         /\ kcp'.probe_wait = kcp.probe_wait /\ kcp'.rmt_wnd = open
<1>1. kcp \in Control
  BY DEF TimerTypeOK, Control, Rto
<1>2. Hears(kcp, open) \in Control
  BY <1>1, HearsKeeps
<1> DEFINE rtt == Ms!Diff(kcp.current, ClockAt(time))
<1>3. kcp' = IF rtt >= 0 THEN UpdateAck(Hears(kcp, open), rtt) ELSE Hears(kcp, open)
  BY DEF Ack
<1> HIDE DEF rtt
<1> QED BY <1>1, <1>2, <1>3, HearsKeeps, UpdateAckKeeps

\* What every ikcp_update does.
LEMMA UpdateReads ==
  ASSUME TimerTypeOK, Update
  PROVE  /\ kcp'.current = Now /\ kcp'.updated = TRUE
         /\ seen'.update = clock /\ seen'.sent \subseteq seen.sent \cup {clock}
         /\ boot' = boot /\ clock' = clock
<1> DEFINE ts == FlushTime(kcp, Now)
           k == [kcp EXCEPT !.current = Now, !.updated = TRUE, !.ts_flush = ts]
           due == [k EXCEPT !.ts_flush = NextFlush(ts, Now)]
<1>1. k \in Control /\ kcp \in Control
  BY UpdatedControl
<1>2. k.current = Now /\ k.updated = TRUE
  BY <1>1 DEF Control
<1>3. seen \in [update : 0 .. Horizon, sent : SUBSET (0 .. Horizon), armed : Int,
                probe : 0 .. Horizon]
  BY DEF TimerTypeOK
<1>4. boot' = boot /\ clock' = clock
  BY DEF Update
<1>5. CASE FlushesAt(kcp, Now)
  <2>1. Flush(due)
    BY <1>5 DEF Update
  <2>2. due \in Control /\ due.current = Now /\ due.updated = TRUE
    <3>1. NextFlush(ts, Now) \in Ms!Sn
      BY UpdatedControl, NextFlushType
    <3> HIDE DEF k
    <3> QED BY <1>1, <1>2, <3>1 DEF Control
  <2> HIDE DEF due, k, ts
  <2>3. kcp' = Probed(due) /\ seen'.update = clock /\ seen'.sent \subseteq seen.sent \cup {clock}
    BY <1>3, <2>1 DEF Flush
  <2> QED BY <1>4, <2>2, <2>3, ProbedKeeps
<1>6. CASE ~ FlushesAt(kcp, Now)
  <2>1. kcp' = k /\ seen' = [seen EXCEPT !.update = clock]
    BY <1>6 DEF Update
  <2> HIDE DEF k
  <2> QED BY <1>2, <1>3, <1>4, <2>1
<1> QED BY <1>5, <1>6

\* TripInv is inductive together with the types.
LEMMA InitTrip == TimerInit => TripInv
  BY Constants DEF TimerInit, TripInv, NoSegment

\* ... and every step keeps it.
LEMMA NextTrip == TimerTypeOK /\ TripInv /\ [TimerNext]_timerVars => TripInv'
<1> SUFFICES ASSUME TimerTypeOK, TripInv, [TimerNext]_timerVars PROVE TripInv'
  OBVIOUS
<1>1. /\ seen \in [update : 0 .. Horizon, sent : SUBSET (0 .. Horizon), armed : Int,
                   probe : 0 .. Horizon]
      /\ kcp \in Control /\ seg \in Segment /\ clock \in Nat /\ MaxGap \in Nat
  BY Constants DEF TimerTypeOK, Control, Rto, Segment
<1>2. ASSUME boot' = boot PROVE \A t : ClockAt(t)' = ClockAt(t)
  BY <1>2 DEF ClockAt
<1>3. CASE ClockTick
  BY <1>1, <1>2, <1>3 DEF ClockTick, TripInv, ClockAt
<1>4. CASE Update
  <2>1. /\ kcp'.current = ClockAt(clock) /\ kcp'.updated = TRUE /\ boot' = boot
        /\ clock' = clock /\ seen'.update = clock /\ seen'.sent \subseteq seen.sent \cup {clock}
    BY <1>4, UpdateReads DEF Now
  <2>2. \A time \in seen'.sent : time <= clock
    BY <1>1, <2>1 DEF TripInv
  <2>3. clock <= clock + MaxGap
    BY <1>1
  <2>4. kcp'.current = ClockAt(seen.update)'
    BY <2>1 DEF ClockAt
  <2> QED BY <1>1, <2>1, <2>2, <2>3, <2>4 DEF TripInv
<1>5. CASE Send
  <2>1. seen'.update = seen.update /\ seen'.sent = {}
    BY <1>1, <1>5 DEF Send
  <2>2. seg'.xmit = 0 /\ boot' = boot /\ kcp' = kcp /\ clock' = clock
    BY <1>5 DEF Send, NoSegment
  <2> QED BY <2>1, <2>2 DEF TripInv, ClockAt
<1>6. \A open \in BOOLEAN : HearsAt(open).update = seen.update /\ HearsAt(open).sent = seen.sent
                            /\ HearsAt(open) \in [update : 0 .. Horizon, sent : SUBSET (0 .. Horizon),
                                                  armed : Int, probe : Int]
  BY <1>1 DEF HearsAt
<1>7. ASSUME NEW open \in BOOLEAN, NEW time \in seen.sent, Ack(time, open)
      PROVE  TripInv'
  <2>1. seen'.update = seen.update /\ seen'.sent = {}
    <3>1. seen' = [HearsAt(open) EXCEPT !.sent = {}]
      BY <1>7 DEF Ack
    <3> QED BY <1>6, <3>1
  <2>2. seg'.xmit = -1 /\ boot' = boot /\ clock' = clock
    BY <1>7 DEF Ack, NoSegment
  <2>3. kcp'.current = kcp.current /\ kcp'.updated = kcp.updated
          /\ kcp'.probe_wait = kcp.probe_wait
    BY <1>7, AckKeeps
  <2> QED BY <2>1, <2>2, <2>3 DEF TripInv, ClockAt
<1>8. ASSUME NEW open \in BOOLEAN, NEW skips \in BOOLEAN, Hear(open, skips)
      PROVE  TripInv'
  <2>1. seen'.update = seen.update /\ seen'.sent = seen.sent
    BY <1>6, <1>8 DEF Hear
  <2>2. seg'.xmit = seg.xmit /\ boot' = boot /\ clock' = clock
    BY <1>1, <1>8 DEF Hear, Segment
  <2>3. kcp'.current = kcp.current /\ kcp'.updated = kcp.updated
          /\ kcp'.probe_wait = kcp.probe_wait
    BY <1>1, <1>8, HearsKeeps DEF Hear
  <2> QED BY <2>1, <2>2, <2>3 DEF TripInv, ClockAt
<1>9. CASE UNCHANGED timerVars
  BY <1>9 DEF timerVars, TripInv, ClockAt
<1> QED BY <1>3, <1>4, <1>5, <1>7, <1>8, <1>9 DEF TimerNext

\* ikcp_input measures with the time of the last ikcp_update, which may be stale; the
\* round trip is never negative and never longer than it was, also when the clock has
\* wrapped around.
THEOREM RoundTripMeasured == ASSUME ShortTrip PROVE TimerSpec => []RttMeasured
<1>1. TimerTypeOK /\ TripInv => RttMeasured
  <2> SUFFICES ASSUME TimerTypeOK, TripInv, NEW time \in seen.sent
               PROVE  seen.update >= time
                        /\ Ms!Diff(kcp.current, ClockAt(time)) = seen.update - time
    BY DEF RttMeasured
  <2>1. /\ time \in Int /\ seen.update \in Int /\ boot \in Int
        /\ 0 <= time /\ time <= seen.update /\ seen.update <= Horizon
    BY BootInt DEF TimerTypeOK, TripInv
  <2>2. kcp.current = ClockAt(seen.update)
    BY DEF TripInv
  <2>3. Horizon \in Int /\ ClockMod \in Int
    BY Constants
  <2>4. 2 * (seen.update - time) < ClockMod /\ 2 * (time - seen.update) <= ClockMod
    BY <2>1, <2>3 DEF ShortTrip
  <2>5. Ms!Diff(ClockAt(seen.update), ClockAt(time)) = seen.update - time
    BY <2>1, <2>4, ClockDiff
  <2> QED BY <2>1, <2>2, <2>5
<1>2. TimerInit => TimerTypeOK /\ TripInv
  BY InitTimerType, InitTrip
<1>3. (TimerTypeOK /\ TripInv) /\ [TimerNext]_timerVars => (TimerTypeOK /\ TripInv)'
  BY NextTimerType, NextTrip
<1> QED BY <1>1, <1>2, <1>3, PTL DEF TimerSpec

-----------------------------------------------------------------------------
(* ikcp_check *)

\* Any time of the clock, seen from another one.
LEMMA StampFrom ==
  ASSUME boot \in Int, NEW t \in Int, NEW a \in Ms!Sn, NEW d, d = Ms!Diff(a, ClockAt(t))
  PROVE  d \in Int /\ 2 * d < ClockMod /\ a = ClockAt(t + d)
<1>1. PICK c \in Int : c = ClockAt(t)
  BY ClockType
<1>2. PICK N \in Nat \ {0} : N = ClockMod
  BY Constants
<1>3. PICK r \in Int : r = (a - c) % N /\ 0 <= r /\ r < N
  <2>1. a - c \in Int
    BY <1>1, StampInt
  <2> QED BY <2>1, Division
<1>4. d = IF 2 * r < N THEN r ELSE r - N
  BY <1>1, <1>2, <1>3 DEF Ms!Diff
<1>5. a \in Int /\ 0 <= a /\ a < N
  BY <1>2, Constants DEF Ms!Sn
<1>6. a % N = a
  <2>1. a = 0 * N + a
    BY <1>5
  <2> QED BY <1>5, <2>1, OneRemainder
<1>7. (c + r) % N = a
  <2>1. PICK q, x \in Int : x = (a - c) % N /\ q * N \in Int /\ a - c = q * N + x
    BY <1>5, Divided
  <2>2. a - c = q * N + r
    BY <1>3, <2>1
  <2>3. a = (c + r) + q * N
    BY <1>5, <2>1, <2>2
  <2>4. ((c + r) + q * N) % N = (c + r) % N
    <3>1. c + r \in Int /\ q \in Int
      OBVIOUS
    <3> QED BY <3>1, Turns, Zenon
  <2> QED BY <1>6, <2>3, <2>4
<1>8. (c + d) % N = a
  <2>1. CASE 2 * r < N
    BY <1>4, <1>7, <2>1
  <2>2. CASE ~ 2 * r < N
    <3>1. c + d = (c + r) + (0 - 1) * N
      BY <1>4, <2>2
    <3>2. ((c + r) + (0 - 1) * N) % N = (c + r) % N
      <4>1. c + r \in Int /\ 0 - 1 \in Int
        OBVIOUS
      <4> QED BY <4>1, Turns, Zenon
    <3> QED BY <1>7, <3>1, <3>2
  <2> QED BY <2>1, <2>2
<1>9. d \in Int /\ 2 * d < N
  BY <1>3, <1>4
<1>10. ClockAt(t + d) = (c + d) % N
  <2>1. Ms!SeqAdd(c, d) = ClockAt(t + d)
    BY <1>1, <1>9, ClockPlus
  <2> QED BY <1>2, <2>1 DEF Ms!SeqAdd
<1> QED BY <1>2, <1>8, <1>9, <1>10

\* Two intervals are less than half a turn of the clock; in the code an interval is at
\* most 5 seconds.
ShortInterval == 4 * Interval < ClockMod

\* ikcp_check names no time after a flush is due.
LEMMA CheckInTime ==
  ASSUME ShortInterval, TimerTypeOK, NEW wait \in 0 .. 2 * Interval,
         Ms!Diff(Check(Now), ClockAt(clock + wait)) > 0
  PROVE  ~ FlushesAt(kcp, ClockAt(clock + wait))
<1>1. /\ boot \in Int /\ clock \in Int /\ wait \in Int /\ Interval \in Int /\ ClockMod \in Int
      /\ JumpLimit \in Int
      /\ 0 <= wait /\ wait <= 2 * Interval /\ 0 < Interval /\ 4 * Interval < ClockMod
  BY BootInt, Constants DEF ShortInterval
<1>2. kcp \in Control /\ seg \in Segment
  BY DEF TimerTypeOK, Control, Rto, Segment
<1> DEFINE flush == Ms!Diff(FlushTime(kcp, Now), Now)
           packet == IF seg.xmit > 0 THEN Ms!Diff(seg.resendts, Now) ELSE flush
           minimal == IF packet < flush THEN packet ELSE flush
           m == Bounded(0, minimal, Interval)
<1>3. Check(Now) = IF ~ kcp.updated \/ flush <= 0 \/ packet <= 0 THEN Now
                   ELSE Ms!SeqAdd(Now, m)
  BY DEF Check
<1>4. Now \in Ms!Sn /\ Now \in Int /\ Now = ClockAt(clock)
  BY <1>1, UpdatedControl, StampInt DEF Now
<1>5. Ms!Diff(Now, ClockAt(clock + wait)) = 0 - wait
  <2>1. clock - (clock + wait) = 0 - wait /\ clock + wait \in Int
        /\ 2 * (clock - (clock + wait)) < ClockMod /\ 2 * ((clock + wait) - clock) <= ClockMod
    BY <1>1
  <2> QED BY <1>1, <1>4, <2>1, ClockDiff
<1>6. Check(Now) # Now
  BY <1>1, <1>5
<1>7. kcp.updated /\ ~ flush <= 0 /\ ~ packet <= 0
  BY <1>3, <1>6
<1>8. flush \in Int /\ 2 * flush < ClockMod /\ FlushTime(kcp, Now) = ClockAt(clock + flush)
  BY <1>1, <1>4, UpdatedControl, StampFrom
<1>9. packet \in Int
  <2>1. seg.resendts \in Int
    BY <1>2, StampInt DEF Segment
  <2> QED BY <1>4, <1>8, <2>1, DiffInt
<1>10. Ms!Diff(Now, Now) = 0
  BY <1>4, TimerAssumption DEF Ms!Diff
<1>11. /\ FlushTime(kcp, Now) = kcp.ts_flush
       /\ ~ Ms!Diff(Now, kcp.ts_flush) < -JumpLimit
  <2>1. FlushTime(kcp, Now) # Now
    BY <1>7, <1>8, <1>10
  <2> QED BY <2>1 DEF FlushTime
<1>12. Check(Now) = Ms!SeqAdd(Now, m)
  BY <1>3, <1>7
<1> HIDE DEF flush, packet
<1>13. m \in Int /\ m <= flush /\ m <= Interval /\ 0 <= m
  BY <1>1, <1>7, <1>8, <1>9 DEF Bounded
<1> HIDE DEF m
<1>14. Check(Now) = ClockAt(clock + m)
  BY <1>1, <1>4, <1>12, <1>13, ClockPlus
<1>15. wait < flush
  <2>1. clock + m \in Int /\ clock + wait \in Int
        /\ (clock + m) - (clock + wait) = m - wait
        /\ 2 * ((clock + m) - (clock + wait)) < ClockMod
        /\ 2 * ((clock + wait) - (clock + m)) <= ClockMod
    BY <1>1, <1>13
  <2>2. Ms!Diff(Check(Now), ClockAt(clock + wait)) = m - wait
    BY <1>1, <1>14, <2>1, ClockDiff
  <2> QED BY <1>1, <1>8, <1>13, <2>2
<1>16. \A w \in Int : 0 <= w /\ w < flush
         => Ms!Diff(ClockAt(clock + w), kcp.ts_flush) = w - flush
  <2> SUFFICES ASSUME NEW w \in Int, 0 <= w, w < flush
               PROVE  Ms!Diff(ClockAt(clock + w), kcp.ts_flush) = w - flush
    OBVIOUS
  <2>1. clock + w \in Int /\ clock + flush \in Int
        /\ (clock + w) - (clock + flush) = w - flush
        /\ 2 * ((clock + w) - (clock + flush)) < ClockMod
        /\ 2 * ((clock + flush) - (clock + w)) <= ClockMod
    BY <1>1, <1>8
  <2> QED BY <1>1, <1>8, <1>11, <2>1, ClockDiff
<1>17. Ms!Diff(Now, kcp.ts_flush) = 0 - flush
  <2>1. clock + 0 = clock /\ 0 \in Int /\ 0 < flush
    BY <1>1, <1>7, <1>8
  <2> QED BY <1>4, <1>16, <2>1
<1>18. flush <= JumpLimit
  BY <1>1, <1>8, <1>11, <1>17
<1>19. Ms!Diff(ClockAt(clock + wait), kcp.ts_flush) = wait - flush
  BY <1>1, <1>15, <1>16
<1>20. FlushTime(kcp, ClockAt(clock + wait)) = kcp.ts_flush
  <2>1. ~ wait - flush >= JumpLimit /\ ~ wait - flush < -JumpLimit
    BY <1>1, <1>8, <1>15, <1>18, Constants
  <2> QED BY <1>7, <1>19, <2>1 DEF FlushTime
<1> QED BY <1>1, <1>8, <1>15, <1>19, <1>20 DEF FlushesAt

\* Whoever sleeps until the time that ikcp_check names misses no flush, whatever the
\* clock has been set to.
THEOREM SleeperInTime == ASSUME ShortInterval PROVE TimerSpec => []CheckNotLate
<1>1. TimerTypeOK => CheckNotLate
  BY CheckInTime DEF CheckNotLate
<1> QED BY <1>1, InitTimerType, NextTimerType, PTL DEF TimerSpec

-----------------------------------------------------------------------------
(* The schedule is kept *)

\* The constants of the schedule.
LEMMA FarTypes ==
  /\ LongestWait \in Nat /\ Far \in Nat /\ LongestProbe \in Nat
  /\ 2 * TopRto <= LongestWait /\ 2 * Horizon + TopRto <= LongestWait
  /\ Horizon + LongestWait <= Far /\ Horizon + ProbeLimit <= Far /\ Horizon + Interval <= Far
  /\ ProbeInit + Interval + MaxGap - 1 <= LongestProbe /\ ProbeLimit <= LongestProbe
  BY Constants DEF Far, LongestWait, LongestProbe, Larger

\* The clock tells all times of the schedule apart.
LEMMA FarDiff ==
  ASSUME SlowClock, boot \in Int, NEW a \in 0 .. Far, NEW b \in 0 .. Far
  PROVE  Ms!Diff(ClockAt(a), ClockAt(b)) = a - b
<1>1. a \in Int /\ b \in Int /\ 2 * (a - b) < ClockMod /\ 2 * (b - a) <= ClockMod
  BY FarTypes, Constants DEF SlowClock
<1> QED BY <1>1, ClockDiff

\* The times in a state.
LEMMA Present ==
  ASSUME TimerTypeOK
  PROVE  /\ boot \in Int /\ clock \in Int /\ 0 <= clock /\ clock <= Horizon /\ clock \in 0 .. Far
         /\ Now = ClockAt(clock) /\ kcp \in Control /\ seg \in Segment
         /\ seen.update \in 0 .. Horizon /\ seen.probe \in 0 .. Horizon /\ seen.armed \in Int
         /\ seen.sent \subseteq 0 .. Horizon
<1>1. clock \in 0 .. Horizon /\ Horizon \in Nat /\ Horizon <= Far /\ Far \in Nat
  BY Constants, FarTypes DEF TimerTypeOK
<1> QED BY <1>1, BootInt DEF TimerTypeOK, Control, Rto, Segment, Now

\* An ikcp_update after the time of the next flush flushes, and plans the flush after it.
LEMMA FlushSchedule ==
  ASSUME SlowClock, TimerTypeOK, TripInv, NEW flush \in 0 .. Far, FlushDue(flush)
  PROVE  /\ flush <= clock => FlushesAt(kcp, Now)
         /\ ~ FlushesAt(kcp, Now) => kcp.updated /\ FlushTime(kcp, Now) = kcp.ts_flush
         /\ \E next \in 0 .. Far :
              /\ FlushesAt(kcp, Now) => NextFlush(FlushTime(kcp, Now), Now) = ClockAt(next)
              /\ clock < next /\ next <= clock + Interval
<1>1. /\ boot \in Int /\ clock \in 0 .. Far /\ clock \in Int /\ 0 <= clock /\ clock <= Horizon
      /\ Now = ClockAt(clock) /\ flush \in Int /\ 0 <= flush
  BY Present, FarTypes
<1>2. /\ Interval \in Int /\ 0 < Interval /\ Horizon \in Int /\ Far \in Int
      /\ Horizon + Interval <= Far
  BY Constants, FarTypes
<1>3. Ms!Diff(Now, Now) = 0
  <2>1. clock - clock = 0
    BY <1>1
  <2> QED BY <1>1, <2>1, FarDiff
<1>4. ASSUME kcp.updated
      PROVE  kcp.ts_flush = ClockAt(flush) /\ Ms!Diff(Now, kcp.ts_flush) = clock - flush
  <2>1. kcp.ts_flush = ClockAt(flush)
    BY <1>4 DEF FlushDue
  <2> QED BY <1>1, <2>1, FarDiff
<1>5. FlushTime(kcp, Now) = Now \/ (kcp.updated /\ FlushTime(kcp, Now) = kcp.ts_flush)
  BY DEF FlushTime
<1>6. CASE FlushTime(kcp, Now) = Now
  <2>1. FlushesAt(kcp, Now)
    BY <1>3, <1>6 DEF FlushesAt
  <2> DEFINE next == clock + Interval
  <2>2. next \in 0 .. Far /\ clock < next /\ next <= clock + Interval
    BY <1>1, <1>2
  <2>3. Ms!SeqAdd(Now, Interval) = ClockAt(next)
    BY <1>1, <1>2, ClockPlus
  <2>4. NextFlush(Now, Now) = ClockAt(next)
    BY <2>3 DEF NextFlush
  <2> HIDE DEF next
  <2> QED BY <1>6, <2>1, <2>2, <2>4
<1>7. CASE kcp.updated /\ FlushTime(kcp, Now) = kcp.ts_flush
  <2>1. FlushesAt(kcp, Now) <=> clock - flush >= 0
    BY <1>4, <1>7 DEF FlushesAt
  <2>2. CASE ~ FlushesAt(kcp, Now)
    <3>1. clock + Interval \in 0 .. Far
      BY <1>1, <1>2
    <3>2. clock < clock + Interval /\ clock + Interval <= clock + Interval
      BY <1>1, <1>2
    <3>3. ~ flush <= clock
      BY <1>1, <2>1, <2>2
    <3> QED BY <1>7, <2>2, <3>1, <3>2, <3>3
  <2>3. CASE FlushesAt(kcp, Now)
    <3>1. flush <= clock
      BY <1>1, <2>1, <2>3
    <3> DEFINE due == flush + Interval
               late == clock + Interval
    <3>2. due \in 0 .. Far /\ late \in 0 .. Far
      BY <1>1, <1>2, <3>1
    <3>3. Ms!SeqAdd(kcp.ts_flush, Interval) = ClockAt(due)
            /\ Ms!SeqAdd(Now, Interval) = ClockAt(late)
      BY <1>1, <1>2, <1>4, <1>7, ClockPlus
    <3>4. Ms!Diff(Now, ClockAt(due)) = clock - due
      BY <1>1, <3>2, FarDiff
    <3>5. NextFlush(kcp.ts_flush, Now) = IF clock - due >= 0 THEN ClockAt(late) ELSE ClockAt(due)
      BY <3>3, <3>4 DEF NextFlush
    <3>6. clock < late /\ late <= clock + Interval
            /\ (~ clock - due >= 0 => clock < due /\ due <= clock + Interval)
      BY <1>1, <1>2, <3>1
    <3> HIDE DEF due, late
    <3> QED BY <1>7, <2>3, <3>2, <3>5, <3>6
  <2> QED BY <2>2, <2>3
<1> QED BY <1>5, <1>6, <1>7

\* A flush sends the segment again if and only if its time has come, or later segments have
\* been acked; with the new rto it is due again in time.
LEMMA SegmentSchedule ==
  ASSUME SlowClock, TimerTypeOK, NEW flush \in 0 .. Far, NEW resend \in 0 .. Far,
         ResendDue(flush, resend), NEW k \in Control, k.current = Now
  PROVE  \/ Flushed(k) = seg /\ (seg.xmit > 0 => clock < resend)
         \/ /\ Flushed(k).xmit > Larger(seg.xmit, 0)
            /\ \E w \in 0 .. LongestWait :
                 /\ Flushed(k).resendts = ClockAt(clock + w)
                 /\ 0 < Flushed(k).rto /\ Flushed(k).rto <= w
            /\ seg.xmit > 0 /\ ~ seg.skipped =>
                 \E last \in seen.sent : /\ \A time \in seen.sent : time <= last
                                         /\ clock - last >= seg.rto
<1>1. /\ boot \in Int /\ clock \in 0 .. Far /\ clock \in Int /\ 0 <= clock /\ clock <= Horizon
      /\ Now = ClockAt(clock) /\ seg \in Segment
  BY Present
<1>2. /\ LongestWait \in Int /\ TopRto \in Int /\ Horizon \in Int
      /\ 2 * TopRto <= LongestWait /\ 2 * Horizon + TopRto <= LongestWait
  BY Constants, FarTypes
<1>3. k.rx_rto \in Int /\ 0 < k.rx_rto /\ k.rx_rto <= TopRto
  <2>1. k.rx_rto \in Rto
    BY DEF Control
  <2>2. k.rx_rto \in Nat \ {0} /\ k.rx_rto <= TopRto
    BY <2>1, RtoType, Zenon
  <2> QED BY <2>2
<1>4. seg.xmit \in Nat \cup {-1} /\ seg.rto \in Nat /\ seg.skipped \in BOOLEAN
  BY <1>1 DEF Segment
<1>5. CASE seg.xmit = 0 /\ k.rmt_wnd
  <2> DEFINE rtomin == IF NoDelay = 0 THEN k.rx_rto \div 8 ELSE 0
             w == k.rx_rto + rtomin
  <2>1. w \in 0 .. LongestWait /\ k.rx_rto <= w /\ w \in Int
    BY <1>2, <1>3
  <2>2. Flushed(k) = FirstSent(k)
    BY <1>5 DEF Flushed
  <2>3. FirstSent(k).resendts = Ms!SeqAdd(Now, w) /\ FirstSent(k).rto = k.rx_rto
          /\ FirstSent(k).xmit = 1
    BY DEF FirstSent
  <2> HIDE DEF w
  <2>4. Ms!SeqAdd(Now, w) = ClockAt(clock + w)
    BY <1>1, <2>1, ClockPlus
  <2>5. 1 > Larger(seg.xmit, 0)
    BY <1>5 DEF Larger
  <2> QED BY <1>3, <1>5, <2>1, <2>2, <2>3, <2>4, <2>5
<1>6. CASE seg.xmit = 0 /\ ~ k.rmt_wnd
  BY <1>6 DEF Flushed
<1>7. CASE seg.xmit < 0
  BY <1>4, <1>7 DEF Flushed, TimedOut, SentFast
<1>8. CASE seg.xmit > 0
  <2>1. PICK last \in seen.sent :
          /\ \A time \in seen.sent : time <= last
          /\ resend = last + seen.armed
          /\ seg.resendts = ClockAt(resend)
          /\ 0 < seg.rto /\ seg.rto <= seen.armed /\ seen.armed <= LongestWait
    BY <1>8 DEF ResendDue
  <2>2. last \in Int /\ 0 <= last /\ seen.armed \in Int /\ resend \in Int
    BY Present, <2>1
  <2>3. seg.xmit + 1 > Larger(seg.xmit, 0) /\ seg.xmit # 0
    BY <1>4, <1>8 DEF Larger
  <2>4. Ms!Diff(k.current, seg.resendts) = clock - resend
    BY <1>1, <2>1, FarDiff
  <2>5. TimedOut(k) <=> resend <= clock
    BY <1>1, <1>8, <2>2, <2>4 DEF TimedOut
  <2>6. CASE TimedOut(k)
    <3>1. seg.rto <= clock - last
      BY <1>1, <1>4, <2>1, <2>2, <2>5, <2>6
    <3> DEFINE w == BackedOff(k, seg.rto)
    <3>2. w \in Nat /\ seg.rto <= w /\ w <= 2 * seg.rto + TopRto
      BY <1>4, BackedOffType
    <3>3. Flushed(k) = [SentAgain(k, w) EXCEPT !.skipped = seg.skipped]
      BY <2>3, <2>6 DEF Flushed
    <3> HIDE DEF w
    <3>4. w \in 0 .. LongestWait /\ 0 < w
      BY <1>1, <1>2, <1>4, <2>1, <2>2, <3>1, <3>2
    <3>5. Ms!SeqAdd(Now, w) = ClockAt(clock + w)
      BY <1>1, <3>2, ClockPlus
    <3>6. /\ Flushed(k).resendts = ClockAt(clock + w) /\ Flushed(k).rto = w
          /\ Flushed(k).xmit = seg.xmit + 1
      BY <3>3, <3>5 DEF SentAgain
    <3>7. clock - last >= seg.rto
      BY <1>1, <1>4, <2>2, <3>1
    <3>8. w <= w
      BY <3>2
    <3> QED BY <2>1, <2>3, <3>4, <3>6, <3>7, <3>8
  <2>7. CASE ~ TimedOut(k) /\ SentFast
    <3>1. Flushed(k) = SentAgain(k, seg.rto)
      BY <1>8, <2>3, <2>7 DEF Flushed
    <3>2. Ms!SeqAdd(Now, seg.rto) = ClockAt(clock + seg.rto)
      <4>1. seg.rto \in Int
        BY <1>4
      <4> QED BY <1>1, <4>1, ClockPlus
    <3>3. /\ Flushed(k).resendts = ClockAt(clock + seg.rto) /\ Flushed(k).rto = seg.rto
          /\ Flushed(k).xmit = seg.xmit + 1
      BY <3>1, <3>2 DEF SentAgain
    <3>4. seg.rto \in 0 .. LongestWait /\ seg.rto <= seg.rto
      BY <1>2, <1>4, <2>1, <2>2
    <3>5. seg.skipped
      BY <2>7 DEF SentFast
    <3> QED BY <2>1, <2>3, <2>7, <3>3, <3>4, <3>5
  <2>8. CASE ~ TimedOut(k) /\ ~ SentFast
    <3>1. Flushed(k) = seg
      BY <2>3, <2>8 DEF Flushed
    <3>2. clock < resend
      BY <1>1, <2>2, <2>5, <2>8
    <3> QED BY <3>1, <3>2
  <2> QED BY <2>6, <2>7, <2>8
<1> QED BY <1>4, <1>5, <1>6, <1>7, <1>8

\* A flush probes a closed window if and only if the time of the probe has come, and it
\* always leaves the next probe armed.
LEMMA ProbeSchedule ==
  ASSUME SlowClock, TimerTypeOK, TripInv, NEW flush \in 0 .. Far, NEW probe \in 0 .. Far,
         FlushDue(flush), ProbeDue(flush, probe),
         NEW k \in Control, k.current = Now, k.rmt_wnd = kcp.rmt_wnd,
         k.probe_wait = kcp.probe_wait, k.ts_probe = kcp.ts_probe,
         NEW next \in 0 .. Far, next <= clock + Interval,
         NEW asked, asked = IF Asks(k) THEN clock ELSE seen.probe
  PROVE  \E p \in 0 .. Far :
           /\ asked <= clock
           /\ Probed(k).probe_wait # 0 => /\ Probed(k).ts_probe = ClockAt(p)
                                          /\ p <= asked + LongestProbe
                                          /\ p <= clock + ProbeLimit
                                          /\ next < p + Interval
           /\ Probed(k).probe_wait = 0 => Probed(k).rmt_wnd
<1>1. /\ boot \in Int /\ clock \in 0 .. Far /\ clock \in Int /\ 0 <= clock /\ clock <= Horizon
      /\ Now = ClockAt(clock) /\ seen.probe \in Int /\ seen.update \in Int /\ kcp \in Control
  BY Present
<1>2. /\ Interval \in Int /\ 0 < Interval /\ ProbeInit \in Int /\ 0 < ProbeInit
      /\ ProbeLimit \in Int /\ ProbeInit <= ProbeLimit /\ LongestProbe \in Int /\ Horizon \in Int
      /\ MaxGap \in Int /\ Far \in Int /\ Horizon + ProbeLimit <= Far
      /\ ProbeInit + Interval + MaxGap - 1 <= LongestProbe /\ ProbeLimit <= LongestProbe
  BY Constants, FarTypes
<1>3. seen.probe <= clock
  BY DEF ProbeDue
<1>4. probe \in Int /\ next \in Int /\ flush \in Int
  BY <1>2
<1>5. asked \in Int /\ asked <= clock
  BY <1>1, <1>3
<1>6. CASE k.rmt_wnd
  <2>1. Probed(k).probe_wait = 0 /\ Probed(k).rmt_wnd
    BY <1>6 DEF Probed, Control
  <2> QED BY <1>5, <2>1
<1>7. ASSUME ~ k.rmt_wnd, NEW n \in Int, 0 < n, n <= ProbeLimit,
             Probed(k).probe_wait = n, Probed(k).ts_probe = Ms!SeqAdd(k.current, n),
             clock + n <= asked + LongestProbe
      PROVE  \E p \in 0 .. Far :
               /\ asked <= clock
               /\ Probed(k).probe_wait # 0 => /\ Probed(k).ts_probe = ClockAt(p)
                                              /\ p <= asked + LongestProbe
                                              /\ p <= clock + ProbeLimit
                                              /\ next < p + Interval
               /\ Probed(k).probe_wait = 0 => Probed(k).rmt_wnd
  <2>1. PICK p \in Int : p = clock + n
    BY <1>1
  <2>2. p \in 0 .. Far /\ p <= asked + LongestProbe /\ p <= clock + ProbeLimit
          /\ next < p + Interval
    BY <1>1, <1>2, <1>4, <1>7, <2>1
  <2>3. Probed(k).ts_probe = ClockAt(p)
    BY <1>1, <1>7, <2>1, ClockPlus
  <2>4. Probed(k).probe_wait # 0
    BY <1>7
  <2> QED BY <1>5, <2>2, <2>3, <2>4
<1>8. CASE ~ k.rmt_wnd /\ k.probe_wait = 0
  <2>1. /\ Probed(k).probe_wait = ProbeInit
        /\ Probed(k).ts_probe = Ms!SeqAdd(k.current, ProbeInit)
    BY <1>8 DEF Probed, Control
  <2>2. asked = seen.probe
    BY <1>8 DEF Asks
  <2>3. clock <= seen.update + MaxGap /\ seen.update < flush /\ flush <= seen.probe + Interval
    BY <1>8 DEF TripInv, FlushDue, ProbeDue
  <2>4. clock + ProbeInit <= asked + LongestProbe
    BY <1>1, <1>2, <1>4, <2>2, <2>3
  <2> QED BY <1>2, <1>7, <1>8, <2>1, <2>4
<1>9. CASE ~ k.rmt_wnd /\ k.probe_wait # 0 /\ Asks(k)
  <2> DEFINE grown == Larger(k.probe_wait, ProbeInit) + Larger(k.probe_wait, ProbeInit) \div 2
             n == Bounded(0, grown, ProbeLimit)
  <2>1. k.probe_wait \in Int
    BY Constants DEF Control
  <2>2. grown \in Int /\ 0 < grown
    BY <1>2, <2>1 DEF Larger
  <2>3. /\ Probed(k).probe_wait = n
        /\ Probed(k).ts_probe = Ms!SeqAdd(k.current, n)
    BY <1>9 DEF Probed, Control
  <2> HIDE DEF grown
  <2>4. n \in Int /\ 0 < n /\ n <= ProbeLimit
    BY <1>2, <2>2 DEF Bounded
  <2> HIDE DEF n
  <2>5. clock + n <= asked + LongestProbe
    BY <1>1, <1>2, <1>9, <2>4
  <2> QED BY <1>7, <1>9, <2>3, <2>4, <2>5
<1>10. CASE ~ k.rmt_wnd /\ k.probe_wait # 0 /\ ~ Asks(k)
  <2>1. Probed(k) = k /\ asked = seen.probe
    BY <1>10 DEF Probed
  <2>2. kcp.ts_probe = ClockAt(probe) /\ probe <= seen.probe + LongestProbe
          /\ probe <= clock + ProbeLimit
    BY <1>10 DEF ProbeDue
  <2>3. Ms!Diff(k.current, k.ts_probe) = clock - probe
    BY <1>1, <2>2, FarDiff
  <2>4. clock < probe
    BY <1>1, <1>4, <1>10, <2>3 DEF Asks
  <2>5. next < probe + Interval
    BY <1>1, <1>2, <1>4, <2>4
  <2> QED BY <1>5, <1>10, <2>1, <2>2, <2>5
<1> QED BY <1>6, <1>8, <1>9, <1>10

\* The first ikcp_update always flushes; to plan its flush for the time 1 is late enough.
LEMMA InitSchedule == TimerInit => Scheduled
<1> SUFFICES ASSUME TimerInit PROVE Scheduled
  OBVIOUS
<1>1. 0 \in 0 .. Far /\ 1 \in 0 .. Far /\ 0 < 1 /\ 1 <= 0 + Interval /\ 0 <= 0
  BY Constants, FarTypes
<1>2. FlushDue(1)
  BY <1>1 DEF TimerInit, FlushDue
<1>3. ResendDue(1, 0)
  BY DEF TimerInit, NoSegment, ResendDue
<1>4. ProbeDue(1, 0)
  BY <1>1 DEF TimerInit, ProbeDue
<1> QED BY <1>1, <1>2, <1>3, <1>4 DEF Schedule, Scheduled

\* Any ikcp_update keeps the schedule.
LEMMA UpdateSchedule ==
  ASSUME SlowClock, TimerTypeOK, TripInv, Update,
         NEW flush \in 0 .. Far, NEW resend \in 0 .. Far, NEW probe \in 0 .. Far,
         Schedule(flush, resend, probe)
  PROVE  Scheduled'
<1>1. /\ boot \in Int /\ clock \in 0 .. Far /\ clock \in Int /\ 0 <= clock /\ clock <= Horizon
      /\ Now = ClockAt(clock) /\ kcp \in Control /\ seg \in Segment
      /\ seen.update \in 0 .. Horizon /\ seen.probe \in 0 .. Horizon /\ seen.armed \in Int
      /\ seen.sent \subseteq 0 .. Horizon
  BY Present
<1>2. seen \in [update : 0 .. Horizon, sent : SUBSET (0 .. Horizon), armed : Int,
                probe : 0 .. Horizon]
  BY DEF TimerTypeOK
<1>3. /\ boot' = boot /\ clock' = clock /\ seen'.update = clock /\ kcp'.updated = TRUE
      /\ kcp'.current = Now
  BY UpdateReads
<1>4. \A t : ClockAt(t)' = ClockAt(t)
  BY <1>3 DEF ClockAt
<1>5. FlushDue(flush) /\ ResendDue(flush, resend) /\ ProbeDue(flush, probe)
  BY DEF Schedule
<1>6. seen.update <= clock /\ seen.update \in Int /\ flush \in Int /\ Interval \in Int
        /\ Horizon \in Int
  BY <1>1, Constants, FarTypes DEF TripInv
<1> DEFINE ts == FlushTime(kcp, Now)
           k == [kcp EXCEPT !.current = Now, !.updated = TRUE, !.ts_flush = ts]
           due == [k EXCEPT !.ts_flush = NextFlush(ts, Now)]
<1>7. CASE ~ FlushesAt(kcp, Now)
  <2>1. kcp' = k /\ seen' = [seen EXCEPT !.update = clock] /\ seg' = seg
    BY <1>7 DEF Update
  <2>2. kcp.updated /\ ts = kcp.ts_flush /\ ~ flush <= clock
    BY <1>5, <1>7, FlushSchedule
  <2>3. /\ kcp'.ts_flush = kcp.ts_flush /\ kcp'.ts_probe = kcp.ts_probe
        /\ kcp'.probe_wait = kcp.probe_wait /\ kcp'.rmt_wnd = kcp.rmt_wnd
    BY <1>1, <2>1, <2>2 DEF Control
  <2>4. /\ seen'.sent = seen.sent /\ seen'.armed = seen.armed /\ seen'.probe = seen.probe
    BY <1>2, <2>1
  <2>5. FlushDue(flush)'
    <3>1. clock < flush /\ flush <= clock + Interval
      BY <1>1, <1>5, <1>6, <2>2 DEF FlushDue
    <3>2. kcp'.ts_flush = ClockAt(flush)
      BY <1>5, <2>2, <2>3 DEF FlushDue
    <3> QED BY <1>3, <1>4, <3>1, <3>2 DEF FlushDue
  <2>6. ResendDue(flush, resend)'
    BY <1>4, <1>5, <2>1, <2>4 DEF ResendDue
  <2>7. ProbeDue(flush, probe)'
    BY <1>3, <1>4, <1>5, <2>3, <2>4 DEF ProbeDue
  <2> QED BY <2>5, <2>6, <2>7 DEF Scheduled, Schedule
<1>8. CASE FlushesAt(kcp, Now)
  <2>1. Flush(due)
    BY <1>8 DEF Update
  <2>2. PICK next \in 0 .. Far : /\ NextFlush(ts, Now) = ClockAt(next)
                                 /\ clock < next /\ next <= clock + Interval
    BY <1>5, <1>8, FlushSchedule
  <2>3. due \in Control /\ due.current = Now /\ due.ts_flush = ClockAt(next)
          /\ due.rmt_wnd = kcp.rmt_wnd /\ due.probe_wait = kcp.probe_wait
          /\ due.ts_probe = kcp.ts_probe
    <3>1. NextFlush(ts, Now) \in Ms!Sn /\ k \in Control
      BY UpdatedControl, NextFlushType
    <3>2. k.current = Now /\ k.rmt_wnd = kcp.rmt_wnd /\ k.probe_wait = kcp.probe_wait
            /\ k.ts_probe = kcp.ts_probe
      BY <1>1 DEF Control
    <3> HIDE DEF k
    <3> QED BY <2>2, <3>1, <3>2 DEF Control
  <2> HIDE DEF due, k, ts
  <2>4. kcp' = Probed(due) /\ seg' = Flushed(due)
    BY <2>1 DEF Flush
  <2>5. /\ seen'.sent = IF seg'.xmit > Larger(seg.xmit, 0) THEN seen.sent \cup {clock}
                        ELSE seen.sent
        /\ seen'.armed = IF seg'.xmit > Larger(seg.xmit, 0)
                         THEN Ms!Diff(seg'.resendts, due.current) ELSE seen.armed
        /\ seen'.probe = IF Asks(due) THEN clock ELSE seen.probe
    BY <1>2, <2>1 DEF Flush
  <2>6. FlushDue(next)'
    BY <1>3, <1>4, <2>2, <2>3, <2>4, ProbedKeeps DEF FlushDue
  <2>7. \E r \in 0 .. Far : ResendDue(next, r)'
    <3>1. CASE seg' = seg /\ (seg.xmit > 0 => clock < resend)
      <4>1. ~ seg.xmit > Larger(seg.xmit, 0)
        BY <1>1 DEF Segment, Larger
      <4>2. seen'.sent = seen.sent /\ seen'.armed = seen.armed
        BY <2>5, <3>1, <4>1
      <4>3. seg.xmit > 0 => next < resend + Interval
        BY <1>1, <1>6, <2>2, <3>1, FarTypes
      <4>4. ResendDue(next, resend)'
        BY <1>4, <1>5, <3>1, <4>2, <4>3 DEF ResendDue
      <4> QED BY <4>4
    <3>2. ASSUME seg'.xmit > Larger(seg.xmit, 0), NEW w \in 0 .. LongestWait,
                 seg'.resendts = ClockAt(clock + w), 0 < seg'.rto, seg'.rto <= w
          PROVE  \E r \in 0 .. Far : ResendDue(next, r)'
      <4>1. PICK r \in Int : r = clock + w
        BY <1>1
      <4>2. w \in Int /\ 0 <= w /\ w <= LongestWait /\ r \in 0 .. Far /\ r - clock = w
        BY <1>1, <1>6, <4>1, FarTypes
      <4>3. seen'.armed = w
        <5>1. Ms!Diff(ClockAt(r), ClockAt(clock)) = r - clock
          BY <1>1, <4>2, FarDiff
        <5> QED BY <1>1, <2>3, <2>5, <3>2, <4>1, <4>2, <5>1
      <4>4. seen'.sent = seen.sent \cup {clock}
        BY <2>5, <3>2
      <4>5. clock \in seen'.sent /\ \A time \in seen'.sent : time <= clock
        <5>1. \A time \in seen.sent : time <= clock
          BY <1>1, <1>6 DEF TripInv
        <5>2. clock <= clock
          BY <1>1
        <5> QED BY <4>4, <5>1, <5>2
      <4>6. next < r + Interval
        <5>1. 0 < w
          <6>1. seg' \in Segment
            BY <2>3, <2>4, FlushedType
          <6>2. seg'.rto \in Nat
            BY <6>1 DEF Segment
          <6> QED BY <3>2, <4>2, <6>2
        <5> QED BY <1>1, <1>6, <2>2, <4>1, <4>2, <5>1, FarTypes
      <4>7. ResendDue(next, r)'
        BY <1>4, <3>2, <4>1, <4>2, <4>3, <4>5, <4>6 DEF ResendDue
      <4> QED BY <4>2, <4>7
    <3> QED BY <1>5, <2>3, <2>4, <3>1, <3>2, SegmentSchedule
  <2>8. \E p \in 0 .. Far : ProbeDue(next, p)'
    <3>1. PICK p \in 0 .. Far :
            /\ seen'.probe <= clock
            /\ Probed(due).probe_wait # 0 => /\ Probed(due).ts_probe = ClockAt(p)
                                             /\ p <= seen'.probe + LongestProbe
                                             /\ p <= clock + ProbeLimit
                                             /\ next < p + Interval
            /\ Probed(due).probe_wait = 0 => Probed(due).rmt_wnd
      BY <1>5, <2>2, <2>3, <2>5, ProbeSchedule
    <3>2. ProbeDue(next, p)'
      BY <1>3, <1>4, <2>4, <3>1 DEF ProbeDue
    <3> QED BY <3>2
  <2> QED BY <2>6, <2>7, <2>8 DEF Scheduled, Schedule
<1> QED BY <1>7, <1>8

\* Every step keeps a schedule; those other than ikcp_update keep its times.
LEMMA NextSchedule ==
  ASSUME SlowClock, TimerTypeOK, TripInv, Scheduled, [TimerNext]_timerVars
  PROVE  Scheduled'
<1>1. PICK flush \in 0 .. Far, resend \in 0 .. Far, probe \in 0 .. Far :
        Schedule(flush, resend, probe)
  BY DEF Scheduled
<1>2. FlushDue(flush) /\ ResendDue(flush, resend) /\ ProbeDue(flush, probe)
  BY <1>1 DEF Schedule
<1>3. /\ clock \in Int /\ kcp \in Control /\ seg \in Segment /\ Horizon \in Int
      /\ seen.update \in 0 .. Horizon /\ seen.probe \in 0 .. Horizon /\ flush \in Int
      /\ ProbeLimit \in Int /\ probe \in Int /\ Interval \in Int
  BY Present, Constants, FarTypes
<1>4. seen \in [update : 0 .. Horizon, sent : SUBSET (0 .. Horizon), armed : Int,
                probe : 0 .. Horizon]
  BY DEF TimerTypeOK
<1>5. ASSUME FlushDue(flush)', ResendDue(flush, resend)', ProbeDue(flush, probe)'
      PROVE  Scheduled'
  BY <1>5 DEF Scheduled, Schedule
<1>6. CASE ClockTick
  <2>1. /\ clock' = clock + 1 /\ boot' = boot /\ kcp' = kcp /\ seg' = seg /\ seen' = seen
    BY <1>6 DEF ClockTick
  <2>2. seen.probe <= clock + 1
    BY <1>2, <1>3 DEF ProbeDue
  <2>3. probe <= clock + ProbeLimit => probe <= (clock + 1) + ProbeLimit
    BY <1>3
  <2>4. ProbeDue(flush, probe)'
    BY <1>2, <2>1, <2>2, <2>3 DEF ProbeDue, ClockAt
  <2>5. FlushDue(flush)' /\ ResendDue(flush, resend)'
    BY <1>2, <2>1 DEF FlushDue, ResendDue, ClockAt
  <2> QED BY <1>5, <2>4, <2>5
<1>7. CASE Update
  BY <1>1, <1>7, UpdateSchedule
<1>8. CASE Send
  <2>1. /\ seg'.xmit = 0 /\ clock' = clock /\ boot' = boot /\ kcp' = kcp
        /\ seen'.update = seen.update /\ seen'.probe = seen.probe
    BY <1>4, <1>8 DEF Send, NoSegment
  <2>2. FlushDue(flush)' /\ ResendDue(flush, resend)' /\ ProbeDue(flush, probe)'
    BY <1>2, <2>1 DEF FlushDue, ResendDue, ProbeDue, ClockAt
  <2> QED BY <1>5, <2>2
<1>9. \A open \in BOOLEAN :
        /\ HearsAt(open).update = seen.update /\ HearsAt(open).sent = seen.sent
        /\ HearsAt(open).armed = seen.armed
        /\ HearsAt(open).probe = IF kcp.rmt_wnd /\ ~ open THEN clock ELSE seen.probe
        /\ HearsAt(open) \in [update : Int, sent : SUBSET (0 .. Horizon), armed : Int, probe : Int]
  BY <1>3, <1>4 DEF HearsAt
\* The report of a window that closes starts the wait for the next probe.
<1>10. ASSUME NEW open \in BOOLEAN, boot' = boot, clock' = clock,
              kcp'.ts_probe = kcp.ts_probe, kcp'.probe_wait = kcp.probe_wait,
              kcp'.rmt_wnd = open,
              seen'.probe = IF kcp.rmt_wnd /\ ~ open THEN clock ELSE seen.probe
       PROVE  ProbeDue(flush, probe)'
  <2>1. seen.probe <= clock /\ clock <= clock /\ seen.update <= clock
          /\ flush <= seen.update + Interval
    BY <1>2, <1>3 DEF ProbeDue, FlushDue, TripInv
  <2>2. seen'.probe \in Int /\ seen.probe <= seen'.probe /\ seen'.probe <= clock
    BY <1>3, <1>10, <2>1
  <2>3. kcp.probe_wait # 0 => /\ kcp.ts_probe = ClockAt(probe)
                              /\ probe <= seen'.probe + LongestProbe
                              /\ probe <= clock + ProbeLimit
                              /\ flush < probe + Interval
    <3>1. LongestProbe \in Int
      BY FarTypes
    <3> QED BY <1>2, <1>3, <2>2, <3>1 DEF ProbeDue
  <2>4. kcp.probe_wait = 0 /\ ~ open => flush <= seen'.probe + Interval
    <3>1. CASE kcp.rmt_wnd /\ ~ open
      BY <1>3, <1>10, <2>1, <3>1
    <3>2. CASE ~ kcp.rmt_wnd
      BY <1>2, <1>3, <1>10, <3>2 DEF ProbeDue
    <3> QED BY <3>1, <3>2
  <2> QED BY <1>10, <2>2, <2>3, <2>4 DEF ProbeDue, ClockAt
<1>11. ASSUME NEW open \in BOOLEAN, NEW time \in seen.sent, Ack(time, open)
       PROVE  Scheduled'
  <2>1. /\ kcp'.updated = kcp.updated /\ kcp'.ts_flush = kcp.ts_flush
        /\ kcp'.ts_probe = kcp.ts_probe /\ kcp'.probe_wait = kcp.probe_wait
        /\ kcp'.rmt_wnd = open
    BY <1>11, AckKeeps
  <2>2. seg'.xmit = -1 /\ boot' = boot /\ clock' = clock
    BY <1>11 DEF Ack, NoSegment
  <2>3. /\ seen'.update = seen.update
        /\ seen'.probe = IF kcp.rmt_wnd /\ ~ open THEN clock ELSE seen.probe
    <3>1. seen' = [HearsAt(open) EXCEPT !.sent = {}]
      BY <1>11 DEF Ack
    <3> QED BY <1>9, <3>1
  <2>4. FlushDue(flush)'
    BY <1>2, <2>1, <2>2, <2>3 DEF FlushDue, ClockAt
  <2>5. ResendDue(flush, resend)'
    BY <2>2 DEF ResendDue
  <2> QED BY <1>5, <1>10, <2>1, <2>2, <2>3, <2>4, <2>5
<1>12. ASSUME NEW open \in BOOLEAN, NEW skips \in BOOLEAN, Hear(open, skips)
       PROVE  Scheduled'
  <2>1. /\ kcp'.updated = kcp.updated /\ kcp'.ts_flush = kcp.ts_flush
        /\ kcp'.ts_probe = kcp.ts_probe /\ kcp'.probe_wait = kcp.probe_wait
        /\ kcp'.rmt_wnd = open
    BY <1>3, <1>12, HearsKeeps DEF Hear
  <2>2. /\ seg'.xmit = seg.xmit /\ seg'.rto = seg.rto /\ seg'.resendts = seg.resendts
        /\ boot' = boot /\ clock' = clock
    BY <1>3, <1>12 DEF Hear, Segment
  <2>3. /\ seen'.update = seen.update /\ seen'.sent = seen.sent /\ seen'.armed = seen.armed
        /\ seen'.probe = IF kcp.rmt_wnd /\ ~ open THEN clock ELSE seen.probe
    BY <1>9, <1>12 DEF Hear
  <2>4. FlushDue(flush)' /\ ResendDue(flush, resend)'
    BY <1>2, <2>1, <2>2, <2>3 DEF FlushDue, ResendDue, ClockAt
  <2> QED BY <1>5, <1>10, <2>1, <2>2, <2>3, <2>4
<1>13. CASE UNCHANGED timerVars
  BY <1>2, <1>5, <1>13 DEF timerVars, FlushDue, ResendDue, ProbeDue, ClockAt
<1> QED BY <1>6, <1>7, <1>8, <1>11, <1>12, <1>13 DEF TimerNext

\* The invariant holds while the times stay within half a turn of the clock.
LEMMA TimerAlways == ASSUME SlowClock PROVE TimerSpec => [](TimerTypeOK /\ TimerInv)
<1>1. TimerInit => TimerTypeOK /\ TimerInv
  BY InitTimerType, InitTrip, InitSchedule DEF TimerInv
<1>2. (TimerTypeOK /\ TimerInv) /\ [TimerNext]_timerVars => (TimerTypeOK /\ TimerInv)'
  BY NextTimerType, NextTrip, NextSchedule DEF TimerInv
<1> QED BY <1>1, <1>2, PTL DEF TimerSpec

-----------------------------------------------------------------------------
(* What the schedule promises *)

\* The last flight.
LEMMA LastIs ==
  ASSUME TimerTypeOK, NEW last \in seen.sent, \A time \in seen.sent : time <= last
  PROVE  LastFlight = last
<1>1. \A time \in seen.sent : time \in Int
  BY DEF TimerTypeOK
<1>2. LastFlight \in seen.sent /\ \A other \in seen.sent : other <= LastFlight
  BY DEF LastFlight
<1> QED BY <1>1, <1>2

\* A segment without an ack is in the air again at most one interval and one round of the
\* owner's loop after its timer has run out, for every sequence of round trips, late
\* updates, acks of later segments and jumps of the schedule.
THEOREM NoSegmentLeftBehind == ASSUME SlowClock PROVE TimerSpec => []ResentInTime
<1>1. TimerTypeOK /\ TimerInv => ResentInTime
  <2> SUFFICES ASSUME TimerTypeOK, TimerInv, seg.xmit > 0
               PROVE  clock - LastFlight <= seen.armed + Interval + MaxGap - 2
    BY DEF ResentInTime
  <2>1. PICK flush \in 0 .. Far, resend \in 0 .. Far, probe \in 0 .. Far :
          Schedule(flush, resend, probe)
    BY DEF TimerInv, Scheduled
  <2>2. PICK last \in seen.sent : /\ \A time \in seen.sent : time <= last
                                  /\ resend = last + seen.armed
                                  /\ flush < resend + Interval
    BY <2>1 DEF Schedule, ResendDue
  <2>3. LastFlight = last
    BY <2>2, LastIs
  <2>4. /\ clock \in Int /\ last \in Int /\ seen.armed \in Int /\ flush \in Int
        /\ seen.update \in Int /\ Interval \in Int /\ MaxGap \in Int
    BY <2>1, <2>2, Present, Constants, FarTypes
  <2>5. seen.update < flush /\ clock <= seen.update + MaxGap
    BY <2>1 DEF Schedule, FlushDue, TimerInv, TripInv
  <2> QED BY <2>2, <2>3, <2>4, <2>5
<1> QED BY <1>1, TimerAlways, PTL

\* While the other end reports a closed window, the probes keep coming: the wait for each is
\* bounded, although it grows, and although every report may interrupt it.
THEOREM ClosedWindowProbed == ASSUME SlowClock PROVE TimerSpec => []ProbesKeepComing
<1>1. TimerTypeOK /\ TimerInv => ProbesKeepComing
  <2> SUFFICES ASSUME TimerTypeOK, TimerInv, ~ kcp.rmt_wnd
               PROVE  clock - seen.probe <= LongestProbe + Interval + MaxGap - 2
    BY DEF ProbesKeepComing, LongestProbe
  <2>1. PICK flush \in 0 .. Far, resend \in 0 .. Far, probe \in 0 .. Far :
          Schedule(flush, resend, probe)
    BY DEF TimerInv, Scheduled
  <2>2. /\ clock \in Int /\ seen.probe \in Int /\ flush \in Int /\ probe \in Int
        /\ seen.update \in Int /\ Interval \in Int /\ MaxGap \in Int /\ LongestProbe \in Int
        /\ 0 < Interval /\ 0 < ProbeInit /\ ProbeInit \in Int
        /\ ProbeInit + Interval + MaxGap - 1 <= LongestProbe /\ 0 < MaxGap
    BY <2>1, Present, Constants, FarTypes
  <2>3. seen.update < flush /\ clock <= seen.update + MaxGap
    BY <2>1 DEF Schedule, FlushDue, TimerInv, TripInv
  <2>4. CASE kcp.probe_wait = 0
    <3>1. flush <= seen.probe + Interval
      BY <2>1, <2>4 DEF Schedule, ProbeDue
    <3> QED BY <2>2, <2>3, <3>1
  <2>5. CASE kcp.probe_wait # 0
    <3>1. probe <= seen.probe + LongestProbe /\ flush < probe + Interval
      BY <2>1, <2>5 DEF Schedule, ProbeDue
    <3> QED BY <2>2, <2>3, <3>1
  <2> QED BY <2>4, <2>5
<1> QED BY <1>1, TimerAlways, PTL

\* The timer sends a segment again only when its rto has really gone by since its last
\* flight: a retransmission is never due to the wrap of the clock or to a flush that the
\* schedule made early.
THEOREM RtoRespected == ASSUME SlowClock PROVE TimerSpec => NotResentEarly
<1> DEFINE Early == seg.xmit > 0 /\ seg'.xmit > seg.xmit /\ ~ seg.skipped
                      => clock - LastFlight >= seg.rto
<1>1. ASSUME TimerTypeOK, TimerInv, [TimerNext]_timerVars PROVE Early
  <2> SUFFICES ASSUME seg.xmit > 0, seg'.xmit > seg.xmit, ~ seg.skipped
               PROVE  clock - LastFlight >= seg.rto
    OBVIOUS
  <2>1. seg \in Segment /\ kcp \in Control
    BY <1>1, Present
  <2>2. seg.xmit \in Nat
    BY <2>1 DEF Segment
  <2>3. ~ seg'.xmit = seg.xmit /\ ~ seg'.xmit = -1
    BY <2>2
  <2>4. Update
    <3>1. ~ UNCHANGED timerVars /\ ~ ClockTick /\ ~ Send
      BY <2>2, <2>3 DEF timerVars, ClockTick, Send
    <3>2. \A open \in BOOLEAN : \A time \in seen.sent : ~ Ack(time, open)
      BY <2>3 DEF Ack, NoSegment
    <3>3. \A open, skips \in BOOLEAN : ~ Hear(open, skips)
      BY <2>1, <2>3 DEF Hear, Segment
    <3> QED BY <1>1, <3>1, <3>2, <3>3 DEF TimerNext
  <2> DEFINE ts == FlushTime(kcp, Now)
             k == [kcp EXCEPT !.current = Now, !.updated = TRUE, !.ts_flush = ts]
             due == [k EXCEPT !.ts_flush = NextFlush(ts, Now)]
  <2>5. seg' = Flushed(due)
    BY <2>3, <2>4 DEF Update, Flush
  <2>6. due \in Control /\ due.current = Now
    <3>1. NextFlush(ts, Now) \in Ms!Sn /\ k \in Control
      BY <1>1, UpdatedControl, NextFlushType
    <3>2. k.current = Now
      BY <2>1 DEF Control
    <3> HIDE DEF k, ts
    <3> QED BY <3>1, <3>2 DEF Control
  <2> HIDE DEF due
  <2>7. PICK flush \in 0 .. Far, resend \in 0 .. Far, probe \in 0 .. Far :
          Schedule(flush, resend, probe)
    BY <1>1 DEF TimerInv, Scheduled
  <2>8. PICK last \in seen.sent : /\ \A time \in seen.sent : time <= last
                                  /\ clock - last >= seg.rto
    <3>1. Flushed(due) # seg
      BY <2>3, <2>5
    <3> QED BY <1>1, <2>6, <2>7, <3>1, SegmentSchedule DEF Schedule
  <2> QED BY <1>1, <2>8, LastIs
<1>2. (TimerTypeOK /\ TimerInv) /\ [TimerNext]_timerVars => [Early]_timerVars
  BY <1>1
<1> HIDE DEF Early
<1>3. TimerSpec => [][Early]_timerVars
  BY <1>2, TimerAlways, PTL DEF TimerSpec
<1> QED BY <1>3 DEF NotResentEarly, Early
===========================================================================
