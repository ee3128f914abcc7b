---------------------------- MODULE ClientStats -----------------------------
(***************************************************************************)
(* What the client measures (client-core/src/stats): the clock of the      *)
(* agent, the latency of a frame, the rate received, and the cadence of    *)
(* what was presented; and the de-jitter, which acts on the latencies      *)
(* (client-core/src/lib, dejitter_release). Times are in one unit;         *)
(* functions from the records kept and an event to the records after it.   *)
(***************************************************************************)
EXTENDS Integers, Sequences, SequencesExt

CONSTANTS
  Wrap,             \* timestamps on the wire are numbers below it, 2^32
  MaxLatency,       \* a latency from here on is an artifact
  Window, Recent,   \* samples kept, and those of them that are recent
  RateWindow,       \* BITRATE_WINDOW_US
  EpisodeGap, Warmup, EpisodeMinBreaks, StutterFactor, StutterMin, Freeze,
  MaxSourceGap      \* a gap between captures from here on is an artifact

\* saturating_sub
Since(then, now) == IF now > then THEN now - then ELSE 0

Larger(a, b) == IF a < b THEN b ELSE a

\* push_capped
Capped(samples, x) == (IF Len(samples) = Window THEN Tail(samples) ELSE samples) \o <<x>>

\* tail
Latest(samples, n) ==
  SubSeq(samples, Larger(Len(samples) - n, 0) + 1, Len(samples))

\* percentile: the sample whose rank, rounded down, is p percent of the way.
Percentile(samples, p) ==
  IF samples = <<>> THEN <<>>
  ELSE <<SortSeq(samples, <)[(p * (Len(samples) - 1)) \div 100 + 1]>>

-----------------------------------------------------------------------------
(* ClockSync: the offset by the exchange with the shortest round trip.     *)

NoSync == <<>>

Record(best, sent, received, agent) ==
  LET rtt == Since(sent, received)
  IN  IF best = NoSync \/ (best # NoSync /\ rtt < best.rtt)
      THEN [rtt |-> rtt, offset |-> agent - (sent + rtt \div 2)]
      ELSE best

\* The agent's clock now, against the truncated time of capture.
FrameLatency(best, now, captured) ==
  IF best = NoSync \/ (best # NoSync /\ now + best.offset < 0) THEN <<>>
  ELSE LET latency == (now + best.offset - captured) % Wrap
       IN  IF latency < MaxLatency THEN <<latency>> ELSE <<>>

-----------------------------------------------------------------------------
(* LatencyStats: the frames of the last second and the sum of their bytes. *)

NoFrames == [complete |-> 0, window |-> <<>>, sum |-> 0]

\* Eviction stops at the first frame that is young enough.
FrameComplete(stats, bytes, now) ==
  LET window == Append(stats.window, [at |-> now, bytes |-> bytes])
      young  == {i \in DOMAIN window : Since(window[i].at, now) <= RateWindow}
      first  == CHOOSE i \in young : \A j \in young : i <= j
      gone   == FoldLeft(LAMBDA n, f : n + f.bytes, 0, SubSeq(window, 1, first - 1))
  IN  [complete |-> stats.complete + 1,
       window   |-> SubSeq(window, first, Len(window)),
       sum      |-> stats.sum + bytes - gone]

\* recv_bitrate_bps, as the bytes and the time they are divided by: the
\* oldest frame only marks where the time starts.
Received(stats) ==
  IF stats.window = <<>> THEN <<>>
  ELSE <<[bytes |-> Since(Head(stats.window).bytes, stats.sum),
          span  |-> Larger(Since(Head(stats.window).at, Last(stats.window).at),
                           RateWindow \div 2)]>>

-----------------------------------------------------------------------------
(* PresentStats: gaps between the frames presented, those that break the   *)
(* cadence, and the episodes that breaks close together make.              *)

NonePresented ==
  [presented |-> 0, first |-> <<>>, last |-> <<>>, captured |-> <<>>, gaps |-> <<>>,
   stutters |-> 0, srcStutters |-> 0, freezes |-> 0, frozen |-> 0,
   episodes |-> 0, worst |-> 0,
   ep |-> [breaks |-> 0, start |-> 0, last |-> 0, counted |-> FALSE]]

\* The source itself missed a beat.
SourceStutters(stats, captured) ==
  /\ stats.captured # <<>>
  /\ LET gap == (captured - stats.captured[1]) % Wrap
     IN  gap > StutterMin /\ gap < MaxSourceGap

\* What the gap that ends now is: nothing while the stream starts up.
Break(stats, gap, now) ==
  LET median == Percentile(stats.gaps, 50) IN
  CASE Since(IF stats.first = <<>> THEN now ELSE stats.first[1], now) <= Warmup -> "none"
    [] gap >= Freeze -> "freeze"
    [] median # <<>> /\ gap > StutterFactor * median[1] /\ gap > StutterMin -> "stutter"
    [] OTHER -> "none"

\* A break joins the episode of the one before, or starts one, which counts
\* from its third break on, or once it holds a freeze.
Episode(stats, break, now) ==
  LET joins   == Since(stats.ep.last, now) <= EpisodeGap
      start   == IF joins THEN stats.ep.start ELSE stats.last[1]
      breaks  == IF joins THEN stats.ep.breaks + 1 ELSE 1
      was     == joins /\ stats.ep.counted
      counted == was \/ breaks >= EpisodeMinBreaks \/ break = "freeze"
  IN  [stats EXCEPT
         !.ep = [breaks |-> breaks, start |-> start, last |-> now, counted |-> counted],
         !.episodes = IF counted /\ ~ was THEN @ + 1 ELSE @,
         !.worst = IF counted THEN Larger(@, Since(start, now)) ELSE @]

\* The counters of one kind of break.
Tallied(stats, break, gap) ==
  CASE break = "freeze"  -> [stats EXCEPT !.freezes = @ + 1, !.frozen = @ + gap]
    [] break = "stutter" -> [stats EXCEPT !.stutters = @ + 1]
    [] OTHER             -> stats

OnPresented(stats, captured, now) ==
  LET seen == [stats EXCEPT
                 !.srcStutters = IF SourceStutters(stats, captured) THEN @ + 1 ELSE @,
                 !.captured = <<captured>>, !.presented = @ + 1,
                 !.first = IF @ = <<>> THEN <<now>> ELSE @]
      gap    == Since(stats.last[1], now)
      break  == Break(seen, gap, now)
      tally  == Tallied(seen, break, gap)
      broken == IF break = "none" THEN tally ELSE Episode(tally, break, now)
  IN  IF stats.last = <<>> THEN [seen EXCEPT !.last = <<now>>]
      ELSE [broken EXCEPT !.gaps = Capped(@, gap), !.last = <<now>>]

\* Frames a unit of time, average and by the gap of the 99th percentile.
MeanRate(stats, unit) ==
  LET sum == FoldLeft(LAMBDA n, g : n + g, 0, stats.gaps)
  IN  IF sum > 0 THEN (Len(stats.gaps) * unit) \div sum ELSE 0

LowRate(stats, unit) ==
  LET worst == Percentile(stats.gaps, 99)
  IN  IF worst = <<>> \/ worst = <<0>> THEN 0 ELSE unit \div worst[1]

-----------------------------------------------------------------------------
(* De-jitter: a frame that came early is held until it is as old as most   *)
(* of the late ones.                                                       *)

CONSTANTS
  JitterWindow, \* WIN: the latencies remembered
  On, Off,      \* JITTER_ON, JITTER_OFF: spreads that engage, and keep engaged
  MostWait,     \* DEJITTER_MAX
  JitterWarmup

NewJitter == [latencies |-> <<>>, active |-> FALSE, first |-> <<>>, jitter |-> 0]

Smaller(a, b) == IF a < b THEN a ELSE b

\* The latencies a tenth and nine tenths of the way up.
Tenth(latencies, n) == SortSeq(latencies, <)[(Len(latencies) * n) \div 10 + 1]

\* The frame's latency at arrival is known if the clock is.
Noted(buffer, latency, now) ==
  LET kept == IF Len(buffer.latencies) = JitterWindow /\ latency # <<>>
              THEN Tail(buffer.latencies) ELSE buffer.latencies
  IN  [buffer EXCEPT !.latencies = kept \o latency,
                     !.first = IF @ = <<>> THEN <<now>> ELSE @]

Spread(buffer) == Tenth(buffer.latencies, 9) - Tenth(buffer.latencies, 1)

Target(buffer) ==
  Smaller(Tenth(buffer.latencies, 9), Tenth(buffer.latencies, 1) + MostWait)

Settled(buffer, now) == now - buffer.first[1] >= JitterWarmup

\* Engaged by a wide spread, disengaged by a narrow one.
High(buffer) == Spread(buffer) >= IF buffer.active THEN Off ELSE On

\* How long a frame is held that was `arrived` old when it arrived, and is
\* this old now: not at all with others queued behind it, nor while the
\* buffer is off, warming up or not engaged.
Release(buffer, arrived, latency, now, backlog, enabled) ==
  LET noted    == Noted(buffer, arrived, now)
      measured == [noted EXCEPT !.jitter = Spread(noted)]
      judged   == [measured EXCEPT !.active = High(measured)]
      early    == Target(judged) - latency[1]
  IN  IF Len(noted.latencies) < JitterWindow \div 2 THEN [buffer |-> noted, wait |-> 0]
      ELSE IF backlog \/ ~ enabled \/ ~ Settled(noted, now)
      THEN [buffer |-> measured, wait |-> 0]
      ELSE [buffer |-> judged,
            wait |-> IF judged.active /\ latency # <<>> /\ early > 0
                     THEN Smaller(early, MostWait) ELSE 0]
=============================================================================
