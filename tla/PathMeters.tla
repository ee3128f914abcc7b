----------------------------- MODULE PathMeters -----------------------------
(***************************************************************************)
(* What the bandwidth estimator measures (session/src/bwe).                *)
(*                                                                         *)
(* The delay detector (delay): packets are gathered into groups by their   *)
(* send times, the variation of delay from group to group is smoothed into *)
(* a history, and the slope of the history against its adaptive threshold  *)
(* is the hypothesis.  A trend is kept as a fraction, compared exactly; the*)
(* smoothed delay is scaled by Scale and rounded.                          *)
(*                                                                         *)
(* The meters: the delivered rate over windows of receive time             *)
(* (acked_bitrate_estimator), the budget that tells when the application   *)
(* sends less than the link would carry (alr_detector), and the rate of a  *)
(* probe cluster (probe/estimator).                                        *)
(*                                                                         *)
(* All operators are functions of the state before; a detector, a meter is *)
(* a record.  Times and sizes are whole numbers; a rate is a size per unit *)
(* of time.                                                                *)
(***************************************************************************)
EXTENDS Integers, Sequences, SequencesExt

CONSTANTS
  BurstInterval,   \* BURST_TIME_INTERVAL
  GroupLength,     \* SEND_TIME_GROUP_LENGTH
  MaxBurst,        \* MAX_BURST_DURATION
  Window,          \* window_size of the trendline, 20 in the code
  Scale,           \* fineness of the smoothed delay
  Initial,         \* OVER_USE_THRESHOLD_DEFAULT_MS, scaled
  LowThreshold,    \* the bounds of the adaptive threshold, scaled
  HighThreshold,
  MaxAdoptOffset,  \* MAX_ADOPT_OFFSET_MS, scaled
  OveruseTime,     \* OVER_USE_TIME_THRESHOLD
  FirstWindow,     \* INITIAL_BITRATE_WINDOW
  RateWindow,      \* BITRATE_WINDOW
  RateFloor,       \* ESTIMATE_FLOOR
  BudgetWindow,    \* WINDOW of the interval budget
  UsagePercent,    \* bandwidth_usage_ratio
  StartPercent,    \* start_budget_level_ratio
  StopPercent      \* stop_budget_level_ratio

Greater(a, b) == IF a >= b THEN a ELSE b
Lesser(a, b)  == IF a <= b THEN a ELSE b
Magnitude(a)  == IF a < 0 THEN -a ELSE a

-----------------------------------------------------------------------------
(* Groups of packets.                                                      *)

NoGroup == [size |-> 0]

Belongs(g, p) ==
  IF g = NoGroup THEN "Yes"
  ELSE IF p.sent < g.first.sent THEN "Skipped"
  ELSE LET departed == p.sent - g.sent
           arrived  == p.arrived - g.arrived
           burst    == /\ arrived - departed < 0 /\ arrived <= BurstInterval
                       /\ p.arrived - g.first.arrived < MaxBurst
       IN  IF departed = 0 \/ burst THEN "Yes"
           ELSE IF p.sent - g.first.sent > GroupLength THEN "NewGroup"
           ELSE "Yes"

WithPacket(g, p) ==
  IF g = NoGroup THEN [first |-> p, sent |-> p.sent, arrived |-> p.arrived, size |-> 1]
  ELSE [g EXCEPT !.sent = Greater(@, p.sent), !.arrived = Greater(@, p.arrived),
                 !.size = @ + 1]

NoGroups == [previous |-> NoGroup, current |-> NoGroup, variation |-> <<>>]

\* The groups after packet p, with the variation between the last two that
\* were closed if p closes one.
Accumulate(groups, p) ==
  LET previous == groups.previous
      current  == groups.current
  IN  CASE Belongs(current, p) = "Skipped" -> [groups EXCEPT !.variation = <<>>]
        [] Belongs(current, p) = "Yes" ->
             [groups EXCEPT !.current = WithPacket(@, p), !.variation = <<>>]
        [] OTHER ->
             [previous |-> current, current |-> WithPacket(NoGroup, p),
              variation |->
                IF previous = NoGroup THEN <<>>
                ELSE <<[send    |-> current.sent - previous.sent,
                        arrival |-> current.arrived - previous.arrived,
                        at      |-> current.arrived]>>]

-----------------------------------------------------------------------------
(* The trendline.                                                          *)

NoOveruse == [count |-> 0, time |-> 0]

NoTrend ==
  [history |-> <<>>, observed |-> 0, accumulated |-> 0, smoothed |-> 0,
   threshold |-> Initial, updated |-> -1, trend |-> <<0, 1>>,
   overuse |-> NoOveruse, hypothesis |-> "Normal"]

\* do_add_to_history: a sample goes behind the last one that is not later.
Position(history, at) ==
  LET upTo == {i \in 1 .. Len(history) : history[i].at <= at}
  IN  IF upTo = {} THEN 0 ELSE CHOOSE i \in upTo : \A j \in upTo : j <= i

WithSample(t, v) ==
  LET accumulated == t.accumulated + Scale * (v.arrival - v.send)
      smoothed    == (9 * t.smoothed + accumulated) \div 10
  IN  [t EXCEPT !.observed = Lesser(@ + 1, 1000),
                !.accumulated = accumulated, !.smoothed = smoothed,
                !.history = InsertAt(@, Position(@, v.at) + 1, [at |-> v.at, delay |-> smoothed])]

\* The window: the oldest samples go.
Windowed(history) ==
  IF Len(history) <= Window THEN history
  ELSE SubSeq(history, Len(history) - Window + 1, Len(history))

Sum(f(_), history) == FoldLeft(LAMBDA sum, s : sum + f(s), 0, history)

\* linear_fit: the slope as a fraction; none when all arrived at once.
LinearFit(history) ==
  LET n == Len(history)
      x(s) == s.at
      y(s) == s.delay
      xy(s) == s.at * s.delay
      xx(s) == s.at * s.at
  IN  <<n * Sum(xy, history) - Sum(x, history) * Sum(y, history),
        n * Sum(xx, history) - Sum(x, history) * Sum(x, history)>>

\* Comparison of fractions with positive denominators.
Above(a, b) == a[1] * b[2] > b[1] * a[2]

Negated(a) == <<-a[1], a[2]>>

\* The trend weighed by the number of samples and THRESHOLD_GAIN.
Modified(t, trend) == <<4 * Lesser(t.observed, 60) * trend[1], trend[2]>>

\* The threshold moves toward the trend by a fraction, faster down than up,
\* and not at all for a spike.
Adapted(t, modified, at) ==
  LET size    == Magnitude(modified[1]) \div modified[2]
      elapsed == IF t.updated = -1 THEN 0 ELSE Greater(0, Lesser(at - t.updated, 100))
      k       == IF size < t.threshold THEN 390 ELSE 87
      moved   == t.threshold + (k * (size - t.threshold) * elapsed) \div 10000
  IN  [t EXCEPT !.updated = at,
                !.threshold = IF size > @ + MaxAdoptOffset THEN @
                              ELSE Greater(LowThreshold, Lesser(moved, HighThreshold))]

\* detect
Detect(t, v) ==
  LET fit      == LinearFit(t.history)
      trend    == IF fit[2] = 0 THEN t.trend ELSE fit
      modified == Modified(t, trend)
      limit    == <<t.threshold, 1>>
      overuse  == IF t.overuse = NoOveruse THEN [count |-> 1, time |-> v.send \div 2]
                  ELSE [count |-> t.overuse.count + 1, time |-> t.overuse.time + v.send]
      over     == /\ overuse.time > OveruseTime /\ overuse.count > 1
                  /\ Above(trend, t.trend)
      judged   == CASE Above(modified, limit) ->
                         [t EXCEPT !.overuse = IF over THEN NoOveruse ELSE overuse,
                                   !.hypothesis = IF over THEN "Overuse" ELSE @]
                    [] Above(Negated(modified), limit) ->
                         [t EXCEPT !.overuse = NoOveruse, !.hypothesis = "Underuse"]
                    [] OTHER -> [t EXCEPT !.overuse = NoOveruse, !.hypothesis = "Normal"]
  IN  Adapted([judged EXCEPT !.trend = trend], modified, v.at)

\* add_delay_observation
Observe(t, v) ==
  LET added == WithSample(t, v)
      kept  == [added EXCEPT !.history = Windowed(@)]
  IN  IF Len(kept.history) = Window THEN Detect(kept, v) ELSE kept

-----------------------------------------------------------------------------
(* The detector: what DelayController::update does with a batch.           *)

NewDetector == [groups |-> NoGroups, line |-> NoTrend]

OnPacket(d, p) ==
  LET groups == Accumulate(d.groups, p)
  IN  [groups |-> groups,
       line   |-> IF groups.variation = <<>> THEN d.line ELSE Observe(d.line, groups.variation[1])]

\* Packets of a batch are taken in the order they were received.
OnBatch(d, packets) ==
  FoldLeft(OnPacket, d, SortSeq(packets, LAMBDA p, q : p.arrived < q.arrived))

-----------------------------------------------------------------------------
(* What is true of the detector after any packets.                         *)

\* The assertion of add_delay_observation: the history is in order of arrival.
HistoryInOrder(t) ==
  \A i \in 1 .. Len(t.history) - 1 : t.history[i].at <= t.history[i + 1].at

WindowKept(t) == Len(t.history) <= Window

ThresholdKept(t) == t.threshold \in LowThreshold .. HighThreshold

\* From one state to the next: overuse is never concluded from one sample.
NoHastyOveruse(t, after) ==
  after.hypothesis = "Overuse" /\ t.hypothesis # "Overuse" => t.overuse.count >= 1

-----------------------------------------------------------------------------
(* Meters.                                                                 *)

-----------------------------------------------------------------------------
(* The delivered rate.                                                     *)

NoRate == 0
Never  == -1

NewMeter == [estimate |-> NoRate, sum |-> 0, window |-> 0, last |-> Never]

WindowFor(m) == IF m.estimate = NoRate THEN FirstWindow ELSE RateWindow

\* update_window, with the sample that ends a window or none.
UpdateWindow(m, at, size) ==
  LET length == WindowFor(m)
      gap    == IF m.last = Never THEN 0 ELSE at - m.last
      passed == m.window + gap
      open   == IF gap >= length THEN [sum |-> 0, window |-> passed % length]
                ELSE [sum |-> m.sum, window |-> passed]
      ends   == open.window >= length
  IN  IF m.last # Never /\ at < m.last
      THEN [meter |-> [m EXCEPT !.sum = 0, !.window = 0, !.last = at], samples |-> {}]
      ELSE [meter   |-> [m EXCEPT !.last = at,
                                  !.sum = IF ends THEN size ELSE open.sum + size,
                                  !.window = IF ends THEN open.window - length ELSE open.window],
            samples |-> IF ends THEN {open.sum \div length} ELSE {}]

\* The Bayesian update: somewhere from the estimate to the sample, the floor
\* apart, rounded up.
Blended(estimate, sample) ==
  {Greater(e, RateFloor) : e \in Lesser(estimate, sample) .. Greater(estimate, sample)}

\* The meters that a packet received at `at` may leave.
OnReceived(m, at, size) ==
  LET u == UpdateWindow(m, at, size)
  IN  {u.meter : s \in {0} \ u.samples} \cup
      UNION {IF m.estimate = NoRate THEN {[u.meter EXCEPT !.estimate = s]}
             ELSE {[u.meter EXCEPT !.estimate = e] : e \in Blended(m.estimate, s)}
               : s \in u.samples}

-----------------------------------------------------------------------------
(* The budget and the application-limited region.                          *)

NewBudget == [target |-> 0, remaining |-> 0, limited |-> FALSE, last |-> Never]

Most(b) == b.target * BudgetWindow

\* set_estimated_bitrate: the target is a share of the estimate.
SetEstimate(b, estimate) ==
  LET to == [b EXCEPT !.target = (estimate * UsagePercent) \div 100]
  IN  [to EXCEPT !.remaining = Greater(-Most(to), Lesser(@, Most(to)))]

Used(b, bytes)      == [b EXCEPT !.remaining = Greater(@ - bytes, -Most(b))]
Increased(b, delta) == [b EXCEPT !.remaining = Lesser(@ + b.target * delta, Most(b))]

\* The share of the budget that is left exceeds, or is below, so many percent.
LevelAbove(b, percent) == Most(b) # 0 /\ 100 * b.remaining > percent * Most(b)
LevelBelow(b, percent) == Most(b) = 0 \/ 100 * b.remaining < percent * Most(b)

\* on_bytes_sent: use, then increase, then the transitions with hysteresis.
OnSent(b, bytes, at) ==
  LET spent == Increased(Used(b, bytes), Greater(0, at - b.last))
  IN  IF b.last = Never THEN [b EXCEPT !.last = at]
      ELSE [spent EXCEPT !.last = at,
                         !.limited = IF b.limited THEN ~LevelBelow(spent, StopPercent)
                                     ELSE LevelAbove(spent, StartPercent)]

-----------------------------------------------------------------------------
(* What is true of the meters.                                             *)

\* A window that has ended does not stay open, whatever the gaps were; the
\* first, longer window may leave more than a later one holds.
WindowOpen(m) == m.window < FirstWindow /\ m.sum >= 0

\* Once there is a rate it stays.
RateStays(m, after) == m.estimate # NoRate => after.estimate # NoRate

BudgetKept(b) == b.remaining \in -Most(b) .. Most(b)

-----------------------------------------------------------------------------
(* Probe clusters. An estimator is a record: the clusters under            *)
(* measurement in the order they were started, and the count of clusters   *)
(* rejected for arrivals that came compressed. A packet is a record of its *)
(* cluster, when it was sent, when it was received (Lost if it was not)    *)
(* and its size.                                                           *)

CONSTANTS
  MaxActive,       \* MAX_ACTIVE_PROBES
  StaleAfter,      \* STALE_PROBE_THRESHOLD
  MinCluster,      \* MIN_CLUSTER_SIZE
  MaxInterval,     \* MAX_PROBE_INTERVAL
  HistoryPeriod    \* the second for which an ended probe still listens

Lost  == -1

NewEstimator == [states |-> <<>>, clumped |-> 0]

\* A cluster is planned with a target, in packets and in bytes.
NewState(cluster, packets, bytes, now) ==
  [cluster |-> cluster, minPackets |-> packets, targetBytes |-> bytes,
   created |-> now, finalize |-> Never, heard |-> {}, last |-> 0, first |-> 0,
   bytes |-> 0, count |-> 0]

\* probe_start: at the cap the stale ones go; without room the probe is refused.
Fresh(states, now) ==
  IF Len(states) < MaxActive THEN states
  ELSE SelectSeq(states, LAMBDA s : now - s.created < StaleAfter)

CanStart(e, now) == Len(Fresh(e.states, now)) < MaxActive

ProbeStart(e, s, now) ==
  [e EXCEPT !.states = IF CanStart(e, now) THEN Append(Fresh(@, now), s) ELSE Fresh(@, now)]

\* end_probe: the cluster's first state listens on for the period.
IndexOf(e, cluster) ==
  LET at == {i \in 1 .. Len(e.states) : e.states[i].cluster = cluster}
  IN  IF at = {} THEN 0 ELSE CHOOSE i \in at : \A j \in at : i <= j

EndProbe(e, cluster, now) ==
  IF IndexOf(e, cluster) = 0 THEN e
  ELSE [e EXCEPT !.states[IndexOf(e, cluster)].finalize = now + HistoryPeriod]

-----------------------------------------------------------------------------
(* The packets of a cluster.  `heard` is the set of the moments the code's *)
(* four time bounds are the extremes of; `last` and `first` are the sizes  *)
(* of the last packet sent and the first received, which its rates leave   *)
(* out, with the later report winning a tie.                               *)

Moments(s, side) == {m[side] : m \in s.heard}
Earliest(s, side) == CHOOSE t \in Moments(s, side) : \A u \in Moments(s, side) : t <= u
Latest(s, side)   == CHOOSE t \in Moments(s, side) : \A u \in Moments(s, side) : u <= t

Heard(s, p) ==
  IF p.received = Lost THEN s
  ELSE [s EXCEPT
          !.heard = @ \cup {[sent |-> p.sent, received |-> p.received]},
          !.last  = IF \A t \in Moments(s, "sent") : t <= p.sent THEN p.size ELSE @,
          !.first = IF \A t \in Moments(s, "received") : p.received <= t THEN p.size ELSE @,
          !.bytes = @ + p.size,
          !.count = @ + 1]

-----------------------------------------------------------------------------
(* do_calculate_bitrate: the rates are fractions, bytes over time.         *)

Interval(s, side) == Latest(s, side) - Earliest(s, side)

SendRate(s) == <<s.bytes - s.last, Interval(s, "sent")>>
RecvRate(s) == <<s.bytes - s.first, Interval(s, "received")>>

AtMostRate(a, b) == a[1] * b[2] <= b[1] * a[2]
Times(a, n, d)   == <<a[1] * n, a[2] * d>>

Result(s) ==
  CASE s.count < MinCluster -> "ClusterTooSmall"
    [] s.count < (s.minPackets * 80) \div 100 -> "InsufficientPackets"
    [] s.bytes < (s.targetBytes * 80) \div 100 -> "InsufficientBytes"
    [] Interval(s, "sent") = 0 -> "SendIntervalInvalid"
    [] Interval(s, "sent") > MaxInterval -> "SendIntervalTooLong"
    [] Interval(s, "received") \notin 1 .. MaxInterval -> "RecvIntervalInvalid"
    [] s.bytes <= s.last \/ s.bytes <= s.first -> "InvalidDataSize"
    [] ~AtMostRate(RecvRate(s), Times(SendRate(s), 2, 1)) -> "InvalidSendReceiveRatio"
    [] OTHER -> "Estimate"

\* The smaller of both rates; of a link that was saturated, a little less
\* than what came through.
Saturated(s) == ~AtMostRate(Times(SendRate(s), 9, 10), RecvRate(s))

Estimate(s) ==
  IF Saturated(s) THEN Times(RecvRate(s), 95, 100)
  ELSE IF AtMostRate(SendRate(s), RecvRate(s)) THEN SendRate(s) ELSE RecvRate(s)

-----------------------------------------------------------------------------
(* update: a batch of reports; the results of the clusters it touched, in  *)
(* the order in which they were last touched.                              *)

OnReport(step, p) ==
  LET i == IndexOf(step.e, p.cluster)
  IN  IF i = 0 \/ p.received = Lost THEN step
      ELSE [e |-> [step.e EXCEPT !.states[i] = Heard(@, p)],
            touched |-> Append(SelectSeq(step.touched, LAMBDA c : c # p.cluster), p.cluster)]

Update(e, batch) ==
  LET step   == FoldLeft(OnReport, [e |-> e, touched |-> <<>>], batch)
      State(c) == step.e.states[IndexOf(step.e, c)]
      found  == SelectSeq(step.touched, LAMBDA c : Result(State(c)) = "Estimate")
  IN  [e |-> step.e, results |-> [i \in 1 .. Len(found) |-> [cluster |-> found[i],
                                                              rate |-> Estimate(State(found[i]))]]]

\* handle_timeout: clusters past their period go; a compressed one is counted.
Expired(s, now) == s.finalize # Never /\ now >= s.finalize

HandleTimeout(e, now) ==
  [states  |-> SelectSeq(e.states, LAMBDA s : ~Expired(s, now)),
   clumped |-> e.clumped +
     Len(SelectSeq(e.states,
           LAMBDA s : Expired(s, now) /\ Result(s) = "InvalidSendReceiveRatio"))]

-----------------------------------------------------------------------------
(* What is true of a measurement.                                          *)

\* An estimate never promises more than was sent, nor more than came through.
Cautious(s) ==
  Result(s) = "Estimate"
    => AtMostRate(Estimate(s), SendRate(s)) /\ AtMostRate(Estimate(s), RecvRate(s))

\* The order in which the reports of a cluster come does not matter to what
\* is measured, unless two packets share a moment.
Distinct(packets) ==
  \A p, q \in packets : p # q => p.sent # q.sent /\ (p.received = q.received => p.received = Lost)

InAnyOrder(s, packets) ==
  Distinct(packets) =>
    \A a, b \in SetToSeqs(packets) : FoldLeft(Heard, s, a) = FoldLeft(Heard, s, b)

\* There are never more clusters than the cap.
NeverFull(e) == Len(e.states) <= MaxActive
=============================================================================
