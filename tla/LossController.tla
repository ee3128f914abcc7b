--------------------------- MODULE LossController ---------------------------
(***************************************************************************)
(* The loss controller in detail (session/src/bwe/loss_controller).        *)
(*                                                                         *)
(* Bandwidth.tla keeps of it only its state, its estimate and its bounds,  *)
(* and lets a batch settle on any candidate.  Here are the window of       *)
(* observations, the candidates with their upper bound, the hold after a   *)
(* decrease, the recovery window and the ramp-up limit.  Which candidate   *)
(* the likelihood prefers, and whether the average loss exceeds what it    *)
(* holds inherent, stays a choice.                                         *)
(*                                                                         *)
(* A controller is a record; times and rates are whole numbers, Never a    *)
(* timestamp that is not exact, Unlimited a rate that is not finite.       *)
(***************************************************************************)
EXTENDS Integers, FiniteSetsExt

CONSTANTS
  ObservationWindow,  \* observation_window_size
  MinDuration,        \* observation_duration_lower_bound
  DelayedWindow,      \* delayed_increase_window
  HoldStart,          \* INIT_HOLD_DURATION
  HoldMost,           \* MAX_HOLD_DURATION
  RampPerUnit,        \* units of time per unit of ramp-up acceleration
  BalanceRate,        \* instant_upper_bound_bandwidth_balance
  LeastRate,          \* CONGESTION_CONTROLLER_MIN_BITRATE
  Unlimited

Never == -1

AtMost(a, b)  == IF a <= b THEN a ELSE b
AtLeast(a, b) == IF a >= b THEN a ELSE b
Percent(rate, p) == (rate * p) \div 100

NewHold == [until |-> Never, duration |-> HoldStart, rate |-> Unlimited]
NoPartial == [packets |-> 0, lost |-> 0]

NewController(estimate) ==
  [state |-> "DelayBased", estimate |-> estimate, delay |-> Unlimited, acked |-> Unlimited,
   bound |-> Unlimited, observations |-> {}, num |-> 0, partial |-> NoPartial,
   last |-> Never, reduced |-> Never, recovering |-> Never, limit |-> Unlimited,
   hold |-> NewHold, inAlr |-> FALSE, capacity |-> Unlimited]

-----------------------------------------------------------------------------
(* Observations.                                                           *)

ResetObservations(l) ==
  [l EXCEPT !.partial = NoPartial, !.last = Never, !.observations = {}, !.bound = Unlimited]

SetAlr(l, inAlr) ==
  [(IF inAlr = l.inAlr THEN l ELSE ResetObservations(l)) EXCEPT !.inAlr = inAlr]

\* set_acknowledged_bitrate, set_link_capacity_estimate
SetAcked(l, rate)        == [l EXCEPT !.acked = rate]
SetCapacity(l, capacity) == [l EXCEPT !.capacity = capacity]

\* on_probe_result
AdoptProbe(l, delay) ==
  [ResetObservations(l) EXCEPT !.estimate = delay, !.num = 0, !.state = "DelayBased"]

\* The age of an observation, which indexes the weights.
Age(l, o) == (l.num - 1) - o.id

\* Nine tenths for each step of age.
Weight(l, o) == 9 ^ Age(l, o) * 10 ^ (ObservationWindow - 1 - Age(l, o))

Weighed(l, field) == MapThenSumSet(LAMBDA o : Weight(l, o) * o[field], l.observations)

\* calculate_instant_upper_bound: beyond five percent of loss.
InstantBound(l) ==
  LET total  == Weighed(l, "packets")
      excess == 100 * Weighed(l, "lost") - 5 * total
  IN  IF excess <= 0 THEN Unlimited ELSE (BalanceRate * 100 * total) \div excess

\* maybe_add_observation: a batch that ends one, and one that does not.
Ends(l, batch) == l.last # Never /\ batch.last - l.last > MinDuration

Gathered(l, batch) ==
  [l EXCEPT !.partial = [packets |-> @.packets + batch.packets, lost |-> @.lost + batch.lost],
            !.last = IF @ = Never THEN batch.last ELSE @]

WithObservation(l, batch) ==
  LET all   == Gathered(l, batch)
      slot(id) == id % ObservationWindow
      added == [all EXCEPT
                  !.observations = {o \in @ : slot(o.id) # slot(l.num)} \cup
                    {[id |-> l.num, packets |-> all.partial.packets, lost |-> all.partial.lost]},
                  !.num = @ + 1, !.partial = NoPartial, !.last = batch.last]
  IN  [added EXCEPT !.bound = InstantBound(added)]

-----------------------------------------------------------------------------
(* Candidates.                                                             *)

Limited(l) == l.state # "DelayBased"

\* get_candidate_bandwidth_upper_bound
CandidateBound(l) ==
  LET proven == IF l.inAlr THEN l.capacity ELSE Unlimited
      window == IF Limited(l) THEN l.limit ELSE Unlimited
      base   == AtMost(AtMost(proven, window), AtMost(l.bound, l.delay))
      since  == AtLeast(0, l.last - l.reduced)
  IN  IF l.acked # Unlimited /\ l.last # Never /\ l.reduced # Never
      THEN base + (l.acked * since) \div RampPerUnit ELSE base

\* get_candidates
CandidateRates(l) ==
  LET rates == {Percent(l.estimate, f) : f \in {102, 100, 95}}
                 \cup (IF l.delay # Unlimited /\ l.delay > l.estimate THEN {l.delay} ELSE {})
                 \cup ({l.acked} \ {Unlimited})
  IN  {AtMost(r, AtLeast(l.estimate, CandidateBound(l))) : r \in rates}

\* is_estimate_increasing_when_loss_limited
Increasing(l, rate) ==
  Limited(l) /\ (l.estimate < rate \/ (l.estimate = rate /\ l.state = "Increasing"))

-----------------------------------------------------------------------------
(* update_bandwidth_estimate, once an observation has ended.               *)

\* No increase while the average loss is beyond what is inherent.
Unraised(l, best, lossy) == IF lossy THEN AtMost(best, l.estimate) ELSE best

\* In the recovery window the limit holds.
InWindow(l) == l.recovering # Never /\ l.recovering + DelayedWindow > l.last

Recovering(l, best) == IF Limited(l) /\ InWindow(l) THEN AtMost(best, l.limit) ELSE best

\* Ramping up is limited by what is delivered, less so after a hold.
Held(l) == l.hold.rate # Unlimited /\ 10 * l.acked < 13 * l.hold.rate

RampLimit(l) == Percent(l.acked, IF Held(l) THEN 120 ELSE 150)

Ramped(l, best) ==
  LET ramp == AtLeast(l.estimate, AtMost(best, RampLimit(l)))
  IN  IF ~Increasing(l, best) \/ l.acked = Unlimited THEN best
      ELSE IF l.state = "Decreasing" /\ ramp = l.estimate THEN ramp + 1
      ELSE ramp

\* During the hold a decreasing controller stays where it is.
Holding(l, rate) == l.state = "Decreasing" /\ l.hold.until > l.last /\ rate < l.delay

NewState(l, rate) ==
  IF rate >= l.delay THEN "DelayBased"
  ELSE IF Increasing(l, rate) THEN "Increasing" ELSE "Decreasing"

\* Entering Decreasing starts a hold, twice as long as the one before.
HoldAfter(l, rate) ==
  CASE NewState(l, rate) = "DelayBased" -> NewHold
    [] NewState(l, rate) = "Decreasing" /\ l.state # "Decreasing" ->
         [until |-> l.last + l.hold.duration, duration |-> AtMost(HoldMost, 2 * l.hold.duration),
          rate |-> rate]
    [] OTHER -> l.hold

\* A limited controller opens a recovery window when the last has passed.
WindowOpened(l) ==
  IF Limited(l) /\ (l.recovering = Never \/ l.recovering + DelayedWindow < l.last)
  THEN [l EXCEPT !.limit = AtLeast(LeastRate, Percent(l.estimate, 130)), !.recovering = l.last]
  ELSE l

\* With `best` preferred, and lossy if the loss exceeds what it holds inherent.
Settled(l, best, lossy) ==
  LET known == [l EXCEPT !.reduced = IF best < l.estimate THEN l.last ELSE @]
      rate  == Ramped(known, Recovering(known, Unraised(known, best, lossy)))
  IN  IF Holding(known, rate) THEN [known EXCEPT !.estimate = AtMost(rate, known.hold.rate)]
      ELSE WindowOpened([known EXCEPT !.state = NewState(known, rate), !.estimate = rate,
                                      !.hold = HoldAfter(known, rate)])

\* The controllers that a batch may leave.
OnBatch(l, batch, delay) ==
  LET told == [l EXCEPT !.delay = delay]
  IN  IF batch.packets = 0 THEN {told}
      ELSE IF ~Ends(told, batch) THEN {Gathered(told, batch)}
      ELSE LET now == WithObservation(told, batch)
           IN  {Settled(now, best, lossy) : best \in CandidateRates(now), lossy \in BOOLEAN}

-----------------------------------------------------------------------------
(* What is true of a controller.                                           *)

\* Every observation has a weight: the index never leaves the window, whatever
\* resets came between.
WeightsExist(l) == \A o \in l.observations : Age(l, o) \in 0 .. ObservationWindow - 1

\* From one batch to the next: a decreasing controller that is held neither
\* rises above the rate it was held at nor changes its state.
HoldKept(l, after) ==
  l.state = "Decreasing" /\ l.hold.until > after.last /\ after.estimate < after.delay
    => after.estimate <= AtLeast(l.estimate, l.hold.rate)

\* In a recovery window a limited controller does not pass the window's limit,
\* but for what it has already.
WindowKept(l, after) ==
  Limited(l) /\ l.recovering # Never /\ l.recovering + DelayedWindow > after.last
    => after.estimate <= AtLeast(l.estimate + 1, l.limit)
=============================================================================
