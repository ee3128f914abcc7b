----------------------------- MODULE Bandwidth -----------------------------
(***************************************************************************)
(* The send-side bandwidth estimator (session/src/bwe): what a feedback    *)
(* batch and the session's tick make of the estimate.                      *)
(*                                                                         *)
(* Three estimators are composed, as in SendSideBandwidthEstimator: the    *)
(* rate control of the delay controller, driven by the detector's          *)
(* hypothesis; the memory of the link's capacity, fed by probes and by     *)
(* what is delivered under overuse, which puts a floor under the rate      *)
(* control's cuts; and the loss controller, which limits the result.       *)
(*                                                                         *)
(* What the filters over real numbers come to is input: the hypothesis,    *)
(* the delivered rate, the loss controller's best candidate (its           *)
(* likelihood, its hold and its recovery window choose among candidates).  *)
(* Rates are small naturals.  Every feedback and every tick takes one      *)
(* unit of time; ages are units since, up to the largest one compared.     *)
(***************************************************************************)
EXTENDS Integers

CONSTANTS
  Initial,         \* the estimate a session starts from
  MinRate,         \* min_bitrate and max_bitrate of the rate control
  MaxRate,
  Delivered,       \* delivered rates the feedback may show
  Probed,          \* rates a probe may measure
  Candidates,      \* rates the loss controller may settle on, beside its last
                   \* and the delay estimate
  Bounds,          \* the loss controller's instant upper bounds
  Steps,           \* by how much the rate control may grow at once
  Slack,           \* the 10 kb/s of increase_limit
  Sigma,           \* three deviations of the capacity memory
  DiscreditAfter,  \* CAPACITY_DISCREDIT_AFTER
  ReduceInterval,  \* the round trip of time_to_reduce_further
  ValidFor,        \* how long a hypothesis outlives its report
  ResetWindow,     \* DEFAULT_RESET_WINDOW of the capacity memory
  StartupPhase     \* STARTUP_PHASE

ASSUME BandwidthAssumption ==
  /\ {MinRate, MaxRate} \subseteq Nat \ {0} /\ MinRate <= MaxRate
  /\ Initial \in MinRate .. MaxRate
  /\ Delivered \subseteq Nat \ {0}
  /\ Candidates \subseteq Nat \ {0} /\ Bounds \subseteq Nat \ {0}
  /\ Steps \subseteq Nat \ {0} /\ Probed \subseteq Nat \ {0}
  /\ {Slack, Sigma, DiscreditAfter, ReduceInterval, ValidFor, ResetWindow, StartupPhase}
       \subseteq Nat

Hypotheses == {"Normal", "Overuse", "Underuse"}

VARIABLES
  hypothesis,  \* of the delay detector
  heard,       \* age of the last report
  rate,        \* the rate control: its mode, estimate, the age of the last
               \* update, of floored_since (-1 for none), and whether it has
               \* discredited the capacity
  floor,       \* its link_capacity: the conservative capacity, 0 for none
  acked,       \* delivered rate, 0 before the first estimate
  memory,      \* the link capacity estimate, 0 for none
  memoryAge,
  started,     \* age of the first report, -1 before
  loss         \* the loss controller: its state, estimate, the delay estimate
               \* and bound it knows, and whether it has seen an observation

VARIABLES
  event,       \* history: what the last step handled
  pressed      \* history: time since relief, a report of no overuse that is
               \* no probe's answer

estimatorVars ==
  <<hypothesis, heard, rate, floor, acked, memory, memoryAge, started, loss, event, pressed>>

-----------------------------------------------------------------------------

AtMost(a, b) == IF a <= b THEN a ELSE b
Clamp(r) == IF r < MinRate THEN MinRate ELSE AtMost(r, MaxRate)
Beta(r)  == (85 * r) \div 100

\* The age at this step of what had the given age after the last one.
Now(age, most) == AtMost(age + 1, most)

Unlimited == MaxRate + 1

EstimatorInit ==
  /\ hypothesis = "Normal" /\ heard = ValidFor + 1
  /\ rate = [mode |-> "Increase", estimate |-> Initial, touched |-> ReduceInterval,
             floored |-> -1, discredited |-> FALSE]
  /\ floor = 0
  /\ acked = 0 /\ memory = 0 /\ memoryAge = 0
  /\ started = -1
  /\ loss = [state |-> "DelayBased", estimate |-> Initial, delay |-> Unlimited,
             bound |-> Unlimited, seen |-> FALSE]
  /\ event = "none" /\ pressed = 0

-----------------------------------------------------------------------------
(* The rate control, with the hypothesis h and the delivered rate a of     *)
(* this step: every operator is the rate control after it.                 *)

\* A unit of time passes.
Idle == [rate EXCEPT !.touched = Now(@, ReduceInterval),
                     !.floored = IF @ = -1 THEN -1 ELSE Now(@, DiscreditAfter + 1)]

Transition(h) ==
  CASE h = "Overuse" -> "Decrease"
    [] h = "Underuse" -> "Hold"
    [] OTHER -> IF rate.mode = "Decrease" THEN "Hold" ELSE "Increase"

\* Mutant: spikes add up, whatever relief comes between them.
SteppedUnrelieved(h) == [Idle EXCEPT !.mode = Transition(h)]

\* The new mode; relief clears floored_since.
Stepped(h) == [Idle EXCEPT !.mode = Transition(h), !.floored = IF h = "Normal" THEN -1 ELSE @]

\* Growth by a step, near convergence or not, up to 1.5 times the delivered rate.
Increase(r, a, step) ==
  LET limit == (3 * a) \div 2
  IN  [r EXCEPT !.floored = -1, !.touched = 0,
                !.estimate = IF @ >= limit + Slack THEN @
                             ELSE Clamp(AtMost(limit, @ + step))]

TimeToReduceFurther(r, a) == r.touched >= ReduceInterval \/ 2 * a < r.estimate

\* The capacity floor holds this cut up.
HeldUp(r, a) == ~r.discredited /\ Beta(floor) > Beta(a)

\* Mutant: the capacity memory is never given up.
GivesUpNever(r) == FALSE

\* It has held cuts up for too long.
GivesUp(r) == r.floored > DiscreditAfter

Decrease(r, a) ==
  LET quits  == HeldUp(r, a) /\ GivesUp(r)
      target == IF HeldUp(r, a) /\ ~quits THEN Beta(floor) ELSE Beta(a)
  IN  [r EXCEPT !.mode = "Hold", !.touched = 0,
                !.estimate = Clamp(AtMost(@, target)),
                !.floored = IF ~HeldUp(r, a) THEN -1 ELSE IF @ = -1 THEN 0 ELSE @,
                !.discredited = @ \/ quits]

\* RateControl::update
RateControl(h, a, step) ==
  LET r == Stepped(h)
  IN  CASE r.mode = "Increase" -> Increase(r, a, step)
        [] r.mode = "Hold" -> r
        [] OTHER -> IF TimeToReduceFurther(r, a) THEN Decrease(r, a) ELSE r

\* DelayController::update_estimate: a measured rate is the estimate, up or down.
UpdateEstimate(h, a, probe, step) ==
  IF probe # 0 THEN [Idle EXCEPT !.estimate = Clamp(probe), !.touched = 0]
  ELSE IF a # 0 THEN RateControl(h, a, step) ELSE Idle

-----------------------------------------------------------------------------
(* The capacity memory.                                                    *)

\* A probe moves it half of the way.
AfterProbe(m, probe) ==
  IF probe = 0 THEN m ELSE IF m = 0 THEN probe ELSE (m + probe) \div 2

\* A rate delivered under overuse moves it by a twentieth of the way, which
\* is a unit at most here and may be less than one.
AfterOveruse(m, a) ==
  IF hypothesis # "Overuse" \/ a = 0 THEN {m}
  ELSE IF m = 0 THEN {a}
  ELSE {m} \cup {n \in {m - 1, m + 1} : n \in a .. m \/ n \in m .. a}

MemoryAged == IF memory = 0 THEN 0 ELSE Now(memoryAge, ResetWindow + 1)

Remember(a, probe) ==
  /\ memory' \in AfterOveruse(AfterProbe(memory, probe), a)
  /\ memoryAge' = IF probe # 0 \/ (hypothesis = "Overuse" /\ a # 0)
                  THEN 0 ELSE MemoryAged

-----------------------------------------------------------------------------
(* The loss controller, on a batch that left the delay estimate `delay`.   *)

\* loss_based_result, of any state of the controller.
LossResult(l) ==
  IF l.seen THEN AtMost(AtMost(l.estimate, l.delay), l.bound) ELSE l.estimate

\* Mutant: the rate is adopted, the history it should supersede stays.
OnProbeResultLimited(delay) == [loss EXCEPT !.estimate = delay]

\* on_probe_result: a measured probe supersedes the history.
OnProbeResult(delay) ==
  [loss EXCEPT !.state = "DelayBased", !.estimate = delay,
               !.bound = Unlimited, !.seen = FALSE]

\* The states an observation whose best candidate is `best` may lead to.
\* A limited controller that is clipped to its last estimate is still on
\* its way up if it was increasing, or leaves decreasing by a single bit.
NextStates(l, best, delay) ==
  IF best >= delay THEN {"DelayBased"}
  ELSE IF l.state = "DelayBased" THEN {"Decreasing"}
  ELSE IF best > l.estimate \/ (best = l.estimate /\ l.state = "Increasing")
       \* the hold keeps a decreasing controller where it is
       THEN {"Increasing"} \cup (IF l.state = "Decreasing" THEN {"Decreasing"} ELSE {})
  ELSE IF best = l.estimate THEN {"Increasing", "Decreasing"}
  ELSE {"Decreasing"}

\* The result is capped by the delay estimate.
Capped(l, delay) == IF LossResult(l) > delay THEN [l EXCEPT !.estimate = delay] ELSE l

\* What an observation with the best candidate b and the bound u may leave.
Observed(l, delay, b, u) ==
  {[l EXCEPT !.state = s, !.estimate = b, !.delay = delay, !.bound = u, !.seen = TRUE]
     : s \in NextStates(l, b, delay)}

\* update_bandwidth_estimate; a batch too short to end an observation only
\* brings the delay estimate, and the first after a reset always is.
LossUpdates(l, delay, probe) ==
  {[l EXCEPT !.delay = delay]}
    \cup IF probe # 0 THEN {}
         ELSE UNION {Observed(l, delay, b, u) : b \in Candidates \cup {l.estimate, delay},
                                                u \in Bounds}

\* What a batch may do to the loss controller: in startup one without loss
\* only hands the delay estimate over, otherwise a probe's result is adopted
\* and the batch counted.
LossAfter(delay, probe) ==
  LET l == IF probe # 0 THEN OnProbeResult(delay) ELSE loss
  IN  (IF started' <= StartupPhase THEN {[loss EXCEPT !.estimate = delay]} ELSE {})
        \cup {Capped(after, delay) : after \in LossUpdates(l, delay, probe)}

-----------------------------------------------------------------------------
(* The two entry points.                                                   *)

(***************************************************************************)
(* update: a batch of packets, with what the detector, the delivered-rate  *)
(* estimator and the probe estimator make of it.  Once it has formed, the  *)
(* delivered rate stays.                                                   *)
(***************************************************************************)
Feedback(h, a, probe, step) ==
  /\ acked # 0 => a # 0
  /\ acked' = a
  /\ started' = IF started = -1 THEN 0 ELSE Now(started, StartupPhase + 1)
  /\ Remember(a, probe)
  /\ hypothesis' = h
  /\ rate' = UpdateEstimate(h, a, probe, step)
  /\ heard' = 0
  /\ loss' \in LossAfter(rate'.estimate, probe)
  /\ event' = IF probe # 0 THEN "probe" ELSE "feedback"
  /\ pressed' = IF h = "Normal" /\ probe = 0 THEN 0 ELSE Now(pressed, DiscreditAfter + 1)
  /\ UNCHANGED floor

\* The memory counts until it is older than the window.
Remembers == memory # 0 /\ MemoryAged <= ResetWindow

LowerBound == IF memory > Sigma THEN memory - Sigma ELSE 0

(***************************************************************************)
(* handle_timeout: the last hypothesis is applied once more while its      *)
(* report is recent; the floor is taken from the memory, and a memory the  *)
(* rate control has discredited is dropped.  Entering or leaving the       *)
(* application-limited region resets the loss controller's observations.   *)
(***************************************************************************)
Tick(step, alrChanges) ==
  LET r == IF Now(heard, ValidFor + 1) <= ValidFor
           THEN UpdateEstimate(hypothesis, acked, 0, step) ELSE Idle
      dropped == Remembers /\ r.discredited
  IN  /\ rate' = [r EXCEPT !.discredited = FALSE]
      /\ floor' = IF Remembers /\ ~dropped THEN LowerBound ELSE 0
      /\ memory' = IF dropped THEN 0 ELSE memory
      /\ memoryAge' = IF dropped THEN 0 ELSE MemoryAged
      /\ heard' = Now(heard, ValidFor + 1)
      /\ started' = IF started = -1 THEN -1 ELSE Now(started, StartupPhase + 1)
      /\ loss' = IF alrChanges THEN [loss EXCEPT !.bound = Unlimited] ELSE loss
      /\ event' = "tick"
      /\ pressed' = Now(pressed, DiscreditAfter + 1)
      /\ UNCHANGED <<hypothesis, acked>>

Reports ==
  \E h \in Hypotheses, a \in Delivered \cup {0}, probe \in Probed \cup {0},
     step \in Steps :
    Feedback(h, a, probe, step)

Ticks == \E step \in Steps, alrChanges \in BOOLEAN : Tick(step, alrChanges)

EstimatorNext == Reports \/ Ticks

EstimatorSpec == EstimatorInit /\ [][EstimatorNext]_estimatorVars

-----------------------------------------------------------------------------
(* Properties. *)

\* last_estimate: the loss controller limits only in a limiting state.
Published ==
  IF loss.state = "DelayBased" THEN rate.estimate ELSE AtMost(rate.estimate, LossResult(loss))

(***************************************************************************)
(* The floor's promise, "a delay spike on an under-filled link cannot      *)
(* collapse the estimate": while overuse has not lasted, without relief,   *)
(* longer than CAPACITY_DISCREDIT_AFTER, a report of it neither cuts the   *)
(* estimate below what the capacity memory stands for nor raises it,       *)
(* however little is delivered.  Spikes relieved before do not count; but  *)
(* the batch that answers a probe passes the rate control by, and relief   *)
(* that only such a batch brought is not noticed.  A memory discredited    *)
(* before and not yet dropped does not hold.                               *)
(***************************************************************************)
SpikeSpares ==
  [][(event' = "feedback" /\ hypothesis' = "Overuse" /\ pressed' <= DiscreditAfter
        /\ ~rate.discredited)
       => /\ rate'.estimate <= rate.estimate
          /\ rate'.estimate >= AtMost(rate.estimate, Beta(floor))]_estimatorVars

(***************************************************************************)
(* And its limit: congestion that lasts bites.  While the detector sees    *)
(* overuse for good, and reports and ticks keep coming, the estimate comes *)
(* down to what is delivered, however much the memory stands for and       *)
(* however much it is fed meanwhile.                                       *)
(***************************************************************************)
Congested == hypothesis = "Overuse" /\ acked # 0 /\ event # "probe"

CongestionBites ==
  (<>[]Congested /\ []<>(event = "feedback") /\ []<>(event = "tick"))
    => []<>(rate.estimate <= acked)

(***************************************************************************)
(* "When probe succeeds, adopt it over accumulated loss history": the      *)
(* batch that answers a probe leaves the measured rate published, whatever *)
(* was lost before it or in it.  The exception is in the code: during      *)
(* startup a batch without loss returns before the loss controller hears   *)
(* of the probe, and an earlier loss limit stands.                         *)
(***************************************************************************)
ProbeAdopted ==
  (event = "probe" /\ started > StartupPhase) => Published = rate.estimate

(* The modes, and what the ages and rates stay within. *)
EstimatorTypeOK ==
  /\ rate.estimate \in MinRate .. MaxRate
  /\ rate.mode \in {"Increase", "Hold", "Decrease"}
  /\ rate.floored \in -1 .. DiscreditAfter + 1 /\ rate.touched \in 0 .. ReduceInterval
  /\ hypothesis \in Hypotheses
  /\ memory \in Nat /\ floor \in Nat
  /\ loss.state \in {"DelayBased", "Increasing", "Decreasing"}
=============================================================================
