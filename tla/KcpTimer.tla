----------------------------- MODULE KcpTimer -----------------------------
(***************************************************************************)
(* The clock-driven side of one end of a session, which Kcp leaves open:   *)
(* when ikcp_update flushes, when a segment is sent again, how the round   *)
(* trip is measured and when a closed window is probed.  The clock of the  *)
(* code is an IUINT32 of milliseconds, so it wraps around; clock is the    *)
(* real time.  One segment is followed, from ikcp_send to its ack; the     *)
(* others only make it "skipped".                                          *)
(***************************************************************************)
EXTENDS Integers, FiniteSets

CONSTANTS
  ClockMod,   \* 2^32
  Boots,      \* values of the millisecond clock at time 0
  Interval,   \* kcp->interval
  JumpLimit,  \* 10000: ikcp_update starts over when it is this late or early
  MinRto,     \* kcp->rx_minrto
  DefRto,     \* IKCP_RTO_DEF
  MaxRto,     \* IKCP_RTO_MAX
  NoDelay,    \* kcp->nodelay
  FastLimit,  \* kcp->fastlimit, no limit if it is not positive
  ProbeInit,  \* IKCP_PROBE_INIT
  ProbeLimit, \* IKCP_PROBE_LIMIT
  MaxGap,     \* the longest time between two rounds of the loop that calls ikcp_update
  Horizon     \* bound on the real time

\* The values of the code and those that ikcp_nodelay can set.
ASSUME TimerAssumption ==
  /\ ClockMod \in Nat \ {0} /\ ClockMod % 2 = 0
  /\ Boots \subseteq Nat
  /\ {JumpLimit, NoDelay, Horizon} \subseteq Nat /\ FastLimit \in Int
  /\ {Interval, MinRto, DefRto, MaxRto, ProbeInit, ProbeLimit, MaxGap} \subseteq Nat \ {0}
  /\ MinRto <= MaxRto /\ ProbeInit <= ProbeLimit

VARIABLES
  clock,  \* real time
  boot,   \* the millisecond clock at real time 0
  kcp,    \* the fields of ikcpcb that the timers use
  seg,    \* the segment: xmit is -1 when there is none, 0 while it is in snd_queue
  seen    \* history: when the last update, flight and probe really were

Ms == INSTANCE KcpSeq WITH SeqMod <- ClockMod

\* iclock() at a real time
ClockAt(time) == Ms!SeqAdd(boot, time)

Now == ClockAt(clock)

NoSegment == [xmit |-> -1, rto |-> 0, resendts |-> 0, skipped |-> FALSE]

\* The first ikcp_update sets current and ts_flush before they are used.
TimerInit ==
  /\ clock = 0
  /\ boot \in Boots
  /\ kcp = [current |-> 0, updated |-> FALSE, ts_flush |-> 0,
            rx_srtt |-> 0, rx_rttval |-> 0, rx_rto |-> DefRto,
            probe_wait |-> 0, ts_probe |-> 0, rmt_wnd |-> TRUE]
  /\ seg = NoSegment
  /\ seen = [update |-> 0, sent |-> {}, armed |-> 0, probe |-> 0]

Larger(a, b) == IF a >= b THEN a ELSE b
Bounded(low, n, high) == IF n < low THEN low ELSE IF n > high THEN high ELSE n

-----------------------------------------------------------------------------
(* ikcp_flush *)

\* kcp->probe |= IKCP_ASK_SEND
Asks(k) == ~k.rmt_wnd /\ k.probe_wait # 0 /\ Ms!Diff(k.current, k.ts_probe) >= 0

\* The window probe timer.
Probed(k) ==
  LET grown == Larger(k.probe_wait, ProbeInit) + Larger(k.probe_wait, ProbeInit) \div 2
      Wait(n) == [k EXCEPT !.probe_wait = n, !.ts_probe = Ms!SeqAdd(k.current, n)]
  IN  IF k.rmt_wnd THEN [k EXCEPT !.ts_probe = 0, !.probe_wait = 0]
      ELSE IF k.probe_wait = 0 THEN Wait(ProbeInit)
      ELSE IF Asks(k) THEN Wait(Bounded(0, grown, ProbeLimit))
      ELSE k

\* The rto of a segment that has timed out.
BackedOff(k, rto) ==
  CASE NoDelay = 0 -> rto + Larger(rto, k.rx_rto)
    [] NoDelay = 1 -> rto + rto \div 2
    [] OTHER -> rto + k.rx_rto \div 2

\* Armed for the first time; rx_rto >> 3 is added unless nodelay is on.
FirstSent(k) ==
  LET rtomin == IF NoDelay = 0 THEN k.rx_rto \div 8 ELSE 0
  IN  [xmit |-> 1, rto |-> k.rx_rto, skipped |-> FALSE,
       resendts |-> Ms!SeqAdd(k.current, k.rx_rto + rtomin)]

\* Mutant: a segment that is sent again keeps its old time.
SentAgainAtOnce(k, rto) ==
  [xmit |-> seg.xmit + 1, rto |-> rto, skipped |-> FALSE, resendts |-> seg.resendts]

SentAgain(k, rto) ==
  [xmit |-> seg.xmit + 1, rto |-> rto, skipped |-> FALSE,
   resendts |-> Ms!SeqAdd(k.current, rto)]

\* Mutant: the clocks are compared as unsigned integers.
TimedOutUnsigned(k) == seg.xmit > 0 /\ k.current >= seg.resendts

TimedOut(k) == seg.xmit > 0 /\ Ms!Diff(k.current, seg.resendts) >= 0

\* A segment that enough acks have skipped is sent again, unless that was done too often.
SentFast == seg.xmit > 0 /\ seg.skipped /\ (FastLimit <= 0 \/ seg.xmit <= FastLimit)

\* The segment after a flush; it leaves snd_queue only if the window is open.
Flushed(k) ==
  IF seg.xmit = 0 THEN IF k.rmt_wnd THEN FirstSent(k) ELSE seg
  ELSE IF TimedOut(k) THEN [SentAgain(k, BackedOff(k, seg.rto)) EXCEPT !.skipped = seg.skipped]
  ELSE IF SentFast THEN SentAgain(k, seg.rto)
  ELSE seg

Flush(k) ==
  /\ kcp' = Probed(k)
  /\ seg' = Flushed(k)
  /\ seen' = [seen EXCEPT !.update = clock,
                          !.sent = IF seg'.xmit > Larger(seg.xmit, 0) THEN @ \cup {clock} ELSE @,
                          !.armed = IF seg'.xmit > Larger(seg.xmit, 0)
                                    THEN Ms!Diff(seg'.resendts, k.current) ELSE @,
                          !.probe = IF Asks(k) THEN clock ELSE @]

-----------------------------------------------------------------------------
(* ikcp_update and ikcp_check *)

\* ts_flush after a flush that was due at ts.
NextFlush(ts, current) ==
  LET next == Ms!SeqAdd(ts, Interval)
  IN  IF Ms!Diff(current, next) >= 0 THEN Ms!SeqAdd(current, Interval) ELSE next

\* kcp->ts_flush as ikcp_update and ikcp_check take it: the present when the
\* clock is too far from it.
FlushTime(k, current) ==
  LET slap == Ms!Diff(current, k.ts_flush)
  IN  IF ~k.updated \/ slap >= JumpLimit \/ slap < -JumpLimit THEN current ELSE k.ts_flush

FlushesAt(k, current) == Ms!Diff(current, FlushTime(k, current)) >= 0

Update ==
  LET ts == FlushTime(kcp, Now)
      k == [kcp EXCEPT !.current = Now, !.updated = TRUE, !.ts_flush = ts]
  IN  /\ IF FlushesAt(kcp, Now)
         THEN Flush([k EXCEPT !.ts_flush = NextFlush(ts, Now)])
         ELSE /\ kcp' = k
              /\ seen' = [seen EXCEPT !.update = clock]
              /\ UNCHANGED seg
      /\ UNCHANGED <<clock, boot>>

\* Mutant: the next flush is not looked at.
CheckPacketOnly(current) ==
  LET packet == IF seg.xmit > 0 THEN Ms!Diff(seg.resendts, current) ELSE 2 * Interval
  IN  IF FlushesAt(kcp, current) THEN current
      ELSE Ms!SeqAdd(current, Bounded(0, packet, 2 * Interval))

\* ikcp_check: when the caller should call ikcp_update next.
Check(current) ==
  LET flush == Ms!Diff(FlushTime(kcp, current), current)
      packet == IF seg.xmit > 0 THEN Ms!Diff(seg.resendts, current) ELSE flush
      minimal == IF packet < flush THEN packet ELSE flush
  IN  IF ~kcp.updated \/ flush <= 0 \/ packet <= 0 THEN current
      ELSE Ms!SeqAdd(current, Bounded(0, minimal, Interval))

-----------------------------------------------------------------------------
(* What the two threads do with the segment. *)

Send ==
  /\ seg.xmit = -1
  /\ seg' = [NoSegment EXCEPT !.xmit = 0]
  /\ seen' = [seen EXCEPT !.sent = {}]
  /\ UNCHANGED <<clock, boot, kcp>>

\* ikcp_update_ack
UpdateAck(k, rtt) ==
  LET delta == IF rtt < k.rx_srtt THEN k.rx_srtt - rtt ELSE rtt - k.rx_srtt
      rttval == IF k.rx_srtt = 0 THEN rtt \div 2 ELSE (3 * k.rx_rttval + delta) \div 4
      srtt == IF k.rx_srtt = 0 THEN rtt ELSE Larger((7 * k.rx_srtt + rtt) \div 8, 1)
  IN  [k EXCEPT !.rx_srtt = srtt, !.rx_rttval = rttval,
                !.rx_rto = Bounded(MinRto, srtt + Larger(Interval, 4 * rttval), MaxRto)]

\* Mutant: every report of a closed window starts the probe timer over.
HearsAgain(k, open) == [k EXCEPT !.rmt_wnd = open, !.probe_wait = 0]

\* ikcp_input with the window of the other end; it does not read the clock.
Hears(k, open) == [k EXCEPT !.rmt_wnd = open]

HearsAt(open) ==
  IF kcp.rmt_wnd /\ ~open THEN [seen EXCEPT !.probe = clock] ELSE seen

\* The ack of the flight that left at this time; it carries the ts of that flight.
Ack(time, open) ==
  LET rtt == Ms!Diff(kcp.current, ClockAt(time))
      k == Hears(kcp, open)
  IN  /\ seg.xmit > 0
      /\ kcp' = IF rtt >= 0 THEN UpdateAck(k, rtt) ELSE k
      /\ seg' = NoSegment
      /\ seen' = [HearsAt(open) EXCEPT !.sent = {}]
      /\ UNCHANGED <<clock, boot>>

\* A segment of another kind, or the acks of later segments.
Hear(open, skips) ==
  /\ kcp' = Hears(kcp, open)
  /\ seg' = IF seg.xmit > 0 /\ skips THEN [seg EXCEPT !.skipped = TRUE] ELSE seg
  /\ seen' = HearsAt(open)
  /\ UNCHANGED <<clock, boot>>

ClockTick ==
  /\ clock < Horizon
  /\ clock - seen.update < MaxGap
  /\ clock' = clock + 1
  /\ UNCHANGED <<boot, kcp, seg, seen>>

TimerNext ==
  \/ ClockTick
  \/ Update
  \/ Send
  \/ \E open \in BOOLEAN : (\E time \in seen.sent : Ack(time, open))
                           \/ \E skips \in BOOLEAN : Hear(open, skips)

timerVars == <<clock, boot, kcp, seg, seen>>

TimerSpec == TimerInit /\ [][TimerNext]_timerVars

-----------------------------------------------------------------------------
(* Properties. *)

\* Every field has its type: the rto measured stays between its limits, and the wait for
\* the next probe of the window does not grow beyond its own.
TimerTypeOK ==
  /\ clock \in 0 .. Horizon
  /\ boot \in Boots
  /\ kcp \in [current : Ms!Sn, updated : BOOLEAN, ts_flush : Ms!Sn,
              rx_srtt : Nat, rx_rttval : Nat, rx_rto : {DefRto} \cup MinRto .. MaxRto,
              probe_wait : 0 .. ProbeLimit, ts_probe : Ms!Sn, rmt_wnd : BOOLEAN]
  /\ seg \in [xmit : Nat \cup {-1}, rto : Nat, resendts : Ms!Sn, skipped : BOOLEAN]
  /\ seen \in [update : 0 .. Horizon, sent : SUBSET (0 .. Horizon), armed : Int,
               probe : 0 .. Horizon]

LastFlight == CHOOSE time \in seen.sent : \A other \in seen.sent : other <= time

\* A segment without an ack is in the air again at most one interval and one
\* round of the owner's loop after its timer has run out: neither the wrap of
\* the clock, nor a flush that came late or was put off, nor a loop that stood
\* still for longer than JumpLimit, leaves it behind.
ResentInTime ==
  seg.xmit > 0 => clock - LastFlight <= seen.armed + Interval + MaxGap - 2

\* The timer sends a segment again only when its rto has really gone by since its
\* last flight; only acks of later segments make that sooner.
NotResentEarly ==
  [][seg.xmit > 0 /\ seg'.xmit > seg.xmit /\ ~seg.skipped
       => clock - LastFlight >= seg.rto]_timerVars

\* kcp->current may be stale when an ack comes in, but the round trip measured
\* for any flight is never negative and is the real time from that flight to the
\* last ikcp_update: at most MaxGap too short, also when the clock has wrapped.
RttMeasured ==
  \A time \in seen.sent :
    /\ seen.update >= time
    /\ Ms!Diff(kcp.current, ClockAt(time)) = seen.update - time

\* While the other end reports a closed window, the time from one probe to the
\* next (the first one has to be armed by a flush before) exceeds the limit by at
\* most one interval and one round of the loop, so that a report of the opening
\* that was lost is asked for again.
ProbesKeepComing ==
  ~kcp.rmt_wnd =>
    clock - seen.probe <=
      Larger(ProbeInit + Interval + MaxGap - 1, ProbeLimit) + Interval + MaxGap - 2

\* An owner who sleeps until the time that ikcp_check names misses no flush.
CheckNotLate ==
  \A wait \in 0 .. 2 * Interval :
    Ms!Diff(Check(Now), ClockAt(clock + wait)) > 0 =>
      ~FlushesAt(kcp, ClockAt(clock + wait))
===========================================================================
