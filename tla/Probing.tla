------------------------------ MODULE Probing ------------------------------
(***************************************************************************)
(* The probe controller: when the agent bursts padding above its estimate  *)
(* to find out whether the link carries more, and the driver that runs one *)
(* tick of it every 250 ms from the session loop.                          *)
(*                                                                         *)
(* A tick has two steps, as in the code.  Feed hands the controller what   *)
(* the rest of the estimator has come to: the demand, the estimate and     *)
(* what limits it, whether the sender is application-limited, the results  *)
(* of earlier clusters; all of that is input here.  The decision then      *)
(* queues at most one kind of probe.  The demand is set on every tick and  *)
(* each time makes the controller due at once, so the schedule that        *)
(* compute_next_timeout builds is never waited for and is not modelled.    *)
(* Neither is the span of a cluster, nor disabling, which nothing calls.   *)
(*                                                                         *)
(* Time is counted in ticks since an event, up to the largest age that is  *)
(* ever compared.                                                          *)
(***************************************************************************)
EXTENDS Integers, Sequences, FiniteSets

CONSTANTS
  Demands,       \* rates the session may ask for
  Estimates,     \* rates the estimator may come to
  Causes,        \* what may limit them, of AllCauses
  Outcomes,      \* what becomes of clusters, of AllOutcomes
  MinProbeRate,  \* the 5 kb/s below which nothing is probed
  ResultWait,    \* MAX_WAITING_TIME_FOR_PROBING_RESULT, in ticks
  AlrEnded,      \* ALR_ENDED_TIMEOUT
  DropTimeout,   \* BITRATE_DROP_TIMEOUT
  AlrInterval,   \* MIN_TIME_BETWEEN_ALR_PROBES
  RecentWindow,  \* RECENT_HIGH_WINDOW
  StagnantTime,  \* MIN_TIME_BETWEEN_STAGNANT_PROBES
  MaxBackoff     \* MAX_STAGNANT_BACKOFF

AllCauses == {"delay", "delay_increased", "loss", "loss_increasing"}
AllOutcomes == {"none", "fruitful", "saturated"}

ASSUME ProbingAssumption ==
  /\ Demands \subseteq Nat \ {0} /\ Estimates \subseteq Nat \ {0}
  /\ Causes \subseteq AllCauses /\ Outcomes \subseteq AllOutcomes
  /\ {MinProbeRate, AlrEnded, RecentWindow} \subseteq Nat
  /\ {DropTimeout, StagnantTime, MaxBackoff} \subseteq Nat \ {0}
  \* A pair of clusters is over before an answer to it is given up.
  /\ ResultWait \in Nat /\ ResultWait > 2 /\ AlrInterval \in Nat /\ AlrInterval > 2

VARIABLES
  due,      \* the controller is to decide
  desired, estimate, cause, \* what was last fed; 0 before the first
  alr,      \* in the application-limited region
  alrAge,   \* ticks since it was left
  pending,  \* queued clusters not yet handed out
  last,     \* the last probe queued, or NoProbe
  drop,     \* the large drop being recovered from, or NoDrop
  high,     \* the recent high-water mark, and its age
  progress, \* the high-water mark of all time, and the age of its last rise
  stagnantAge, backoff, \* the last stagnant probe, and the stretch of the next
  prevDesired           \* the demand last seen in the region; 0 before the first

VARIABLES
  active,   \* driver: ticks until the outstanding cluster is ended; 0 for none
  emitted,  \* the kind of probe this tick handed out, or "none"
  previous  \* history: the estimate when the drop was last tracked

inputVars == <<desired, estimate, cause, alr, alrAge>>
controlVars == <<pending, last, drop, high, progress, stagnantAge, backoff, prevDesired>>
driverVars == <<active, emitted, previous>>
vars == <<due, inputVars, controlVars, driverVars>>

NoProbe == [kind |-> "none", further |-> 0, was |-> 0, age |-> 0]
NoDrop == [before |-> 0, age |-> 0]

Least(a, b) == IF a <= b THEN a ELSE b
Older(age, most) == Least(age + 1, most)
Percent(n, rate) == (n * rate) \div 100
Below(n, rate, level) == 100 * rate < n * level

Init ==
  /\ due = FALSE
  /\ desired = 0 /\ estimate = 0 /\ cause = "delay"
  /\ alr = FALSE /\ alrAge = AlrEnded
  /\ pending = <<>> /\ last = NoProbe /\ drop = NoDrop
  /\ high = [rate |-> 0, age |-> 0]
  /\ progress = [rate |-> 0, age |-> 0]
  /\ stagnantAge = StagnantTime * MaxBackoff
  /\ backoff = 1
  /\ prevDesired = 0
  /\ active = 0 /\ emitted = "none" /\ previous = 0

-----------------------------------------------------------------------------
(* Feed: a tick passes and the estimator hands over its state.             *)

LastCap == 2 * AlrInterval + 1

\* What the result of a cluster does to the interval of stagnant probes.
\* Results come while the estimator keeps the cluster, a second after its end.
BackoffAfter(outcome) ==
  CASE outcome = "fruitful" -> 1
    [] outcome = "saturated" -> MaxBackoff
    [] OTHER -> backoff

\* A change of up to 5 % with the same cause is not taken over.
Dominated(v, c) ==
  /\ estimate # 0 /\ c = cause
  /\ 100 * v <= 105 * estimate /\ 100 * v >= 95 * estimate

SetEstimate(v, c) ==
  IF Dominated(v, c) THEN UNCHANGED <<estimate, cause>> ELSE estimate' = v /\ cause' = c

\* set_alr_start_time and set_alr_stop_time.
SetAlr(in) ==
  /\ alr' = in
  /\ alrAge' = IF alr /\ ~in THEN 0 ELSE Older(alrAge, AlrEnded)

Aged ==
  /\ last' = IF last = NoProbe THEN last ELSE [last EXCEPT !.age = Older(@, LastCap)]
  /\ drop' = IF drop = NoDrop THEN drop ELSE [drop EXCEPT !.age = Older(@, DropTimeout + 1)]
  /\ high' = IF high.rate = 0 THEN high ELSE [high EXCEPT !.age = Older(@, RecentWindow + 1)]
  /\ progress' = IF progress.rate = 0 THEN progress
                 ELSE [progress EXCEPT !.age = Older(@, StagnantTime)]
  /\ stagnantAge' = Older(stagnantAge, StagnantTime * MaxBackoff)

\* The driver ends the outstanding cluster once its time is up.
EndActive == active' = IF active = 0 THEN 0 ELSE active - 1

Feed(d, v, c, in, outcome) ==
  /\ ~due
  /\ due' = TRUE
  /\ outcome # "none" => last # NoProbe /\ last.age <= ResultWait + 2
  /\ desired' = d
  /\ SetEstimate(v, c)
  /\ SetAlr(in)
  /\ backoff' = BackoffAfter(outcome)
  /\ Aged
  /\ EndActive
  /\ emitted' = "none"
  /\ UNCHANGED <<pending, prevDesired, previous>>

-----------------------------------------------------------------------------
(* The decision (handle_timeout).                                          *)

\* Mutant: the mark follows the estimate down instead of up.
HighNowFalling == IF high.rate # 0 /\ estimate >= high.rate /\ high.age <= RecentWindow
                  THEN high ELSE [rate |-> estimate, age |-> 0]

\* track_drop: the high-water mark, re-anchored when it is passed or old,
\* and the drop it makes of the estimate.
HighNow == IF high.rate # 0 /\ estimate <= high.rate /\ high.age <= RecentWindow
           THEN high ELSE [rate |-> estimate, age |-> 0]

DropNow == IF drop = NoDrop /\ Below(50, estimate, HighNow.rate)
           THEN [before |-> HighNow.rate, age |-> 0] ELSE drop

\* The time since a probe that never was is as long as can be.
SinceProbe(ticks) == last = NoProbe \/ last.age >= ticks

CanProbe == cause \in {"delay", "loss_increasing"}
DropRecovery == cause = "loss" /\ DropNow # NoDrop /\ SinceProbe(ResultWait)
StaleLossLimited == cause = "loss" /\ SinceProbe(2 * AlrInterval + 1)
\* Mutant: no exception for an estimate that has gone stale.
GateLossShut == CanProbe \/ DropRecovery

Gate == CanProbe \/ DropRecovery \/ StaleLossLimited

DuringInitial == last.kind \in {"initial", "exponential"} /\ last.age <= ResultWait

InitialDue == last = NoProbe

DropExpired == DropNow # NoDrop /\ DropNow.age > DropTimeout
DropCollapsed == Below(50, estimate, DropNow.before)
LargeDropDue ==
  /\ ~DuringInitial
  /\ DropNow # NoDrop /\ ~DropExpired
  /\ DropCollapsed \/ alr \/ alrAge < AlrEnded
  /\ SinceProbe(IF DropCollapsed THEN ResultWait ELSE AlrInterval)

\* The far end of what is worth probing, and the step of the ladder.
TopRate == 2 * desired
Step == IF cause = "loss_increasing" THEN (1575 * estimate) \div 1000 ELSE 2 * estimate
ProbeCollapsed == last.was # 0 /\ Below(50, estimate, last.was) /\ SinceProbe(AlrInterval)
\* Mutant: does not wait for the result of the last probe.
ExponentialDueUnthrottled ==
  /\ last # NoProbe
  /\ estimate >= last.further \/ ProbeCollapsed
  /\ Step >= TopRate => last.further < Percent(70, TopRate)

ExponentialDue ==
  /\ last # NoProbe
  /\ estimate >= last.further \/ ProbeCollapsed
  /\ estimate = last.was => SinceProbe(ResultWait)
  /\ Step >= TopRate => last.further < Percent(70, TopRate)

DemandSeen == ~DuringInitial /\ alr
IncreaseAlrDue ==
  DemandSeen /\ prevDesired # 0 /\ desired > prevDesired /\ desired > estimate

PeriodicAlrDue == DemandSeen /\ SinceProbe(AlrInterval)

StagnantDue ==
  /\ ~DuringInitial /\ ~alr
  /\ progress.rate # 0 /\ progress.age >= StagnantTime
  /\ desired > estimate
  /\ stagnantAge >= StagnantTime * backoff

\* The first kind that is due.
Kind ==
  CASE InitialDue -> "initial"
    [] ~InitialDue /\ LargeDropDue -> "large_drop"
    [] ~InitialDue /\ ~LargeDropDue /\ ExponentialDue -> "exponential"
    [] ~InitialDue /\ ~LargeDropDue /\ ~ExponentialDue /\ IncreaseAlrDue -> "increase_alr"
    [] ~InitialDue /\ ~LargeDropDue /\ ~ExponentialDue /\ ~IncreaseAlrDue /\ PeriodicAlrDue
         -> "periodic_alr"
    [] OTHER -> IF ~InitialDue /\ StagnantDue THEN "stagnant" ELSE "none"

\* The rates each kind asks for.
AllocationRates ==
  LET limit == 2 * estimate
      first == Least(desired, limit)
  IN  IF 2 * desired <= limit /\ 2 * desired > first THEN <<first, 2 * desired>> ELSE <<first>>

Rates(kind) ==
  CASE kind = "initial" -> <<3 * estimate, 6 * estimate>>
    [] kind = "large_drop" -> <<Percent(85, DropNow.before)>>
    [] kind = "exponential" -> <<Step>>
    [] kind = "increase_alr" -> AllocationRates
    [] kind \in {"periodic_alr", "stagnant"} -> <<Least(2 * estimate, desired)>>
    [] OTHER -> <<>>

\* queue_probe: capped at twice the demand, and dropped when too small.  The
\* rates of a kind increase, so those that are too small come first.
Queued(kind) ==
  LET capped == [i \in DOMAIN Rates(kind) |-> Least(Rates(kind)[i], TopRate)]
      small  == {i \in DOMAIN capped : capped[i] < MinProbeRate}
  IN  SubSeq(capped, Cardinality(small) + 1, Len(capped))

ProbeOf(kind, rate) ==
  [kind |-> kind, further |-> Percent(70, rate), was |-> estimate, age |-> 0]

\* A cluster handed out becomes the driver's outstanding one.
Emit(kind) ==
  /\ emitted' = kind
  /\ active' = 2

Quiet == UNCHANGED active /\ emitted' = "none"

HandOut(clusters) ==
  IF clusters = <<>> THEN Quiet /\ pending' = <<>>
  ELSE Emit(Head(clusters)) /\ pending' = Tail(clusters)

\* A cluster queued earlier goes out before anything else is looked at.
EmitPending ==
  /\ due /\ pending # <<>>
  /\ due' = FALSE
  /\ HandOut(pending)
  /\ UNCHANGED <<last, drop, high, progress, stagnantAge, backoff, prevDesired,
                 previous, inputVars>>

\* The gate is closed; only the drop is tracked.
Blocked ==
  /\ due /\ pending = <<>> /\ ~Gate
  /\ due' = FALSE
  /\ high' = HighNow /\ drop' = DropNow
  /\ previous' = estimate
  /\ Quiet
  /\ UNCHANGED <<pending, last, progress, stagnantAge, backoff, prevDesired, inputVars>>

\* An expired drop is forgotten where maybe_large_drop looks at it.
DropAfter == IF ~InitialDue /\ ~DuringInitial /\ DropExpired THEN NoDrop ELSE DropNow

Grew == progress.rate # 0 /\ 100 * estimate > 105 * progress.rate

Decide ==
  /\ due /\ pending = <<>> /\ Gate
  /\ due' = FALSE
  /\ high' = HighNow
  /\ drop' = DropAfter
  /\ LET kind == Kind
         rates == Queued(kind)
     IN  /\ last' = IF rates = <<>> THEN last ELSE ProbeOf(kind, rates[Len(rates)])
         /\ HandOut([i \in DOMAIN rates |-> kind])
         /\ prevDesired' =
              IF kind \notin {"initial", "large_drop", "exponential"} /\ DemandSeen
              THEN desired ELSE prevDesired
         /\ stagnantAge' = IF kind = "stagnant" THEN 0 ELSE stagnantAge
         /\ backoff' = IF Grew THEN 1
                       ELSE IF kind = "stagnant" THEN Least(2 * backoff, MaxBackoff)
                       ELSE backoff
  /\ progress' = IF progress.rate = 0 \/ Grew THEN [rate |-> estimate, age |-> 0] ELSE progress
  /\ previous' = estimate
  /\ UNCHANGED inputVars

Handle == EmitPending \/ Blocked \/ Decide

Next ==
  \/ \E d \in Demands, v \in Estimates, c \in Causes, in \in BOOLEAN, o \in Outcomes :
       Feed(d, v, c, in, o)
  \/ Handle

(***************************************************************************)
(* The session loop's 250 ms interval keeps ticking: both steps of a tick  *)
(* are taken again and again.  Nothing is assumed of what is fed.          *)
(***************************************************************************)
Spec == Init /\ [][Next]_vars /\ WF_vars(Next)

-----------------------------------------------------------------------------
(***************************************************************************)
(* The controller's fields hold what ProbeControl's can hold; at most one  *)
(* cluster waits behind the one handed out, and while one waits the        *)
(* controller is still in its first second or has been given more demand.  *)
(***************************************************************************)
Kinds == {"initial", "large_drop", "exponential", "increase_alr", "periodic_alr", "stagnant"}

TypeOK ==
  /\ due \in BOOLEAN /\ alr \in BOOLEAN
  /\ desired \in Demands \cup {0} /\ prevDesired \in Demands \cup {0}
  /\ {estimate, high.rate, progress.rate, drop.before, last.was, previous}
       \subseteq Estimates \cup {0}
  /\ cause \in AllCauses
  /\ Len(pending) <= 1
  /\ \A i \in DOMAIN pending : pending[i] = last.kind /\ pending[i] \in {"initial", "increase_alr"}
  /\ last.kind \in Kinds \cup {"none"}
  /\ last.age \in 0 .. LastCap
  /\ emitted \in Kinds \cup {"none"}
  /\ backoff \in 1 .. MaxBackoff
  /\ stagnantAge \in 0 .. StagnantTime * MaxBackoff
  /\ active \in 0 .. 2

(***************************************************************************)
(* An estimate that loses more than half of its level between two looks of *)
(* the drop tracker is taken for a large drop, so that recovery can probe  *)
(* at once.  The one exception is in the code: the look at which the       *)
(* high-water mark has just grown too old re-anchors it to the collapsed   *)
(* estimate, and the drop is never seen.                                   *)
(***************************************************************************)
CollapseSeen ==
  (due /\ pending = <<>> /\ Below(50, estimate, previous)) =>
    (DropNow # NoDrop \/ high.age > RecentWindow)

(***************************************************************************)
(* The driver remembers one outstanding cluster and never ends one that is *)
(* replaced (bwe_driver.rs, on_tick).  That only happens to the second     *)
(* cluster of a pair, to a probe above a new estimate, and to the two      *)
(* kinds that do not look at the last probe: a raised demand, and a        *)
(* stagnant probe.  Never does the controller repeat itself at an estimate *)
(* whose probe may still be answered.                                      *)
(***************************************************************************)
HandsOutNew ==
  (active # 0 /\ Handle /\ emitted' # "none") =>
    \/ pending # <<>>
    \/ estimate # last.was
    \/ emitted' \in {"stagnant", "increase_alr"}

NoRepeatInFlight == [][HandsOutNew]_vars

(***************************************************************************)
(* "The escape for the non-ALR deadlock": as long as there is unmet demand *)
(* and the delay does not grow, probes keep being sent, whatever else      *)
(* limits the estimate, in or out of the application-limited region, with  *)
(* every probe saturating the link.                                        *)
(***************************************************************************)
ProbingResumes ==
  <>[](cause # "delay_increased" /\ desired > estimate) => []<>(emitted # "none")
=============================================================================
