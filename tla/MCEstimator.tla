----------------------------- MODULE MCEstimator ----------------------------
(***************************************************************************)
(* The two controllers of the estimator on small instances: what it        *)
(* publishes (Bandwidth) and what it probes for (Probing).  They share no  *)
(* state here - what one takes of the other is among its inputs - so in a  *)
(* behaviour one of them moves, `part`, and the other stays as it begins.  *)
(*                                                                         *)
(* The parts whose results they take as input are checked here too: the    *)
(* delay detector, the meters, the probe estimator and the loss            *)
(* controller.  These are functions of the state before, and are checked   *)
(* by exploring all their states up to a number of steps.                  *)
(***************************************************************************)
EXTENDS Bandwidth, Probing, Exploration

CONSTANTS Parts

VARIABLE part

MCInit == part \in Parts /\ Init /\ EstimatorInit

MCNext ==
  /\ UNCHANGED part
  /\ \/ part = "probes" /\ Next /\ UNCHANGED estimatorVars
     \/ part = "estimate" /\ EstimatorNext /\ UNCHANGED vars

MCSpec ==
  /\ MCInit /\ [][MCNext]_<<vars, estimatorVars, part>>
  /\ part = "probes" => WF_vars(Next)

-----------------------------------------------------------------------------
(* The loss controller.                                                    *)

L == INSTANCE LossController WITH
       ObservationWindow <- 2, MinDuration <- 1, DelayedWindow <- 4, HoldStart <- 3,
       HoldMost <- 8, RampPerUnit <- 4, BalanceRate <- 6, LeastRate <- 1, Unlimited <- 1000000

LossBatches(l) ==
  UNION {L!OnBatch(L!SetAcked(l, delivered), [packets |-> 10, lost |-> lost, last |-> sent], delay)
    : delivered \in {60, 200}, lost \in {0, 6}, sent \in {IF l.last = -1 THEN 0 ELSE l.last + 2},
      delay \in {100, 160}}

LossSteps(l) == LossBatches(l) \cup {L!AdoptProbe(l, 160), L!SetAlr(l, ~l.inAlr)}

LossPairs == StepsWithin(4, L!NewController(100), LossSteps)

\* The pairs in which the batch ended an observation.
ObservedPairs == {p \in LossPairs : p[2].num = p[1].num + 1}

(***************************************************************************)
(* The weights of the likelihood are indexed by (num_observations - 1) -   *)
(* id, which must stay within the window: whatever resets, probes and      *)
(* changes of the application-limited region come between observations.    *)
(***************************************************************************)
ASSUME LossWeightsExist == \A p \in LossPairs : L!WeightsExist(p[2])

(***************************************************************************)
(* The hold and the recovery window bound the estimate, whichever          *)
(* candidate the likelihood prefers.                                       *)
(***************************************************************************)
ASSUME LossHoldAndWindow ==
  \A p \in ObservedPairs : L!HoldKept(p[1], p[2]) /\ L!WindowKept(p[1], p[2])

(***************************************************************************)
(* Bandwidth's abstraction of the controller is sound: a batch that leaves *)
(* an estimate leaves a state that NextStates allows for that estimate.    *)
(***************************************************************************)
ASSUME LossAbstraction ==
  \A p \in ObservedPairs : p[2].state \in NextStates(p[1], p[2].estimate, p[2].delay)

-----------------------------------------------------------------------------
(* The delay detector, on packets sent and received within a few units.    *)

M == INSTANCE PathMeters WITH
       BurstInterval <- 1, GroupLength <- 1, MaxBurst <- 3, Window <- 3, Scale <- 10,
       Initial <- 20, LowThreshold <- 10, HighThreshold <- 300, MaxAdoptOffset <- 150,
       OveruseTime <- 3,
       FirstWindow <- 5, RateWindow <- 2, RateFloor <- 2, BudgetWindow <- 4,
       UsagePercent <- 65, StartPercent <- 80, StopPercent <- 50,
       MaxActive <- 2, StaleAfter <- 2, MinCluster <- 4, MaxInterval <- 20, HistoryPeriod <- 1

DetectorSteps(d) ==
  {M!OnPacket(d, [sent |-> s, arrived |-> s + r])
     : s \in {IF d.groups.current.size = 0 THEN 0 ELSE d.groups.current.sent + k : k \in {-1, 2, 4}},
       r \in {0, 9}}

DetectorPairs == StepsWithin(6, M!NewDetector, DetectorSteps)

(***************************************************************************)
(* The assertion of add_delay_observation ("Out of order history") holds   *)
(* though packets and groups overtake each other; the window and the       *)
(* adaptive threshold keep their bounds; and overuse is never concluded    *)
(* from one sample.                                                        *)
(***************************************************************************)
ASSUME DetectorSound ==
  \A p \in DetectorPairs :
    /\ M!HistoryInOrder(p[2].line)
    /\ M!WindowKept(p[2].line)
    /\ M!ThresholdKept(p[2].line)
    /\ M!NoHastyOveruse(p[1].line, p[2].line)

\* In a batch it does not matter in which order the packets are reported.
ASSUME DetectorSortsBatch ==
  \A gaps \in [1 .. 3 -> {0, 2, 4}] :
    LET packet(i) == [sent |-> 2 * i, arrived |-> 10 * i + gaps[i]]
    IN  \A order \in {<<1, 2, 3>>, <<2, 3, 1>>, <<3, 2, 1>>} :
          M!OnBatch(M!NewDetector, [i \in 1 .. 3 |-> packet(order[i])]) =
          M!OnBatch(M!NewDetector, [i \in 1 .. 3 |-> packet(i)])

-----------------------------------------------------------------------------
(* The meters.                                                             *)

MeterSteps(m) ==
  UNION {M!OnReceived(m, m.last + gap, size) : gap \in {-1, 0, 1, 3, 7}, size \in {2, 9}}

MeterPairs == StepsWithin(5, M!NewMeter, MeterSteps)

BudgetSteps(b) ==
  {M!SetEstimate(b, share) : share \in {0, 10, 40}}
    \cup {M!OnSent(b, bytes, b.last + gap) : bytes \in {0, 5, 30}, gap \in {-1, 0, 1, 4}}

BudgetPairs == StepsWithin(4, M!NewBudget, BudgetSteps)

(***************************************************************************)
(* Gaps of any length, and a clock that moves back, neither leave a window *)
(* open that has ended nor take away a rate; and the budget of the         *)
(* application-limited region stays within its bounds while the estimate   *)
(* it is a share of changes.                                               *)
(***************************************************************************)
ASSUME MetersSound ==
  /\ \A p \in MeterPairs : M!WindowOpen(p[2]) /\ M!RateStays(p[1], p[2])
  /\ \A p \in BudgetPairs : M!BudgetKept(p[2])

\* A sender that uses what the budget grants is never found limited.
ASSUME BusyIsNotLimited ==
  \A share \in 1 .. 40, gap \in 1 .. 6 :
    LET b    == M!SetEstimate([M!NewBudget EXCEPT !.last = 0], share)
        full == [n \in 1 .. 4 |-> b.target * gap]
        Sent(c, bytes) == M!OnSent(c, bytes, c.last + gap)
    IN  ~M!FoldLeft(Sent, b, full).limited

-----------------------------------------------------------------------------
(* The probe estimator: clusters of five packets over a link that serves   *)
(* one byte per unit of time, in order, and loses at most one of them.     *)

Served(packets, p) ==
  LET before == IF packets = <<>> THEN 0 ELSE packets[Len(packets)].received
      sent   == IF packets = <<>> THEN p.gap ELSE packets[Len(packets)].sent + p.gap
  IN  Append(packets, [cluster |-> 1, sent |-> sent, size |-> p.size,
                       received |-> (IF sent > before THEN sent ELSE before) + p.size])

OverLink == {M!FoldLeft(Served, <<>>, ps) : ps \in [1 .. 5 -> [gap : {0, 3}, size : {1, 4}]]}

Losing(packets, i) == [j \in 1 .. 5 |-> IF j = i THEN [packets[j] EXCEPT !.received = M!Lost]
                                        ELSE packets[j]]

Clusters == OverLink \cup {Losing(packets, i) : packets \in OverLink, i \in 1 .. 5}

Measured(packets) == M!FoldLeft(M!Heard, M!NewState(1, 5, 5, 0), packets)

(***************************************************************************)
(* A measured rate exceeds neither what was sent nor what came through,    *)
(* nor what the link serves, whichever packet was lost: a probe does not   *)
(* promise capacity that is not there.  The order of the reports does not  *)
(* matter.                                                                 *)
(***************************************************************************)
ASSUME ProbesMeasureTheLink ==
  \A packets \in Clusters :
    LET s == Measured(packets)
    IN  /\ M!Cautious(s)
        /\ M!Result(s) = "Estimate" => M!AtMostRate(M!Estimate(s), <<1, 1>>)

ASSUME ProbeReportsInAnyOrder ==
  \A packets \in [1 .. 3 -> [cluster : {1}, sent : {1, 2, 4}, received : {5, 6, 9}, size : {1, 3}]] :
    M!InAnyOrder(M!NewState(1, 3, 3, 0), M!Range(packets))

\* The life of two clusters in an estimator with room for two.
ProbeSteps(x) ==
  {[x EXCEPT !.e = M!ProbeStart(@, M!NewState(c, 1, 1, x.now), x.now)] : c \in 1 .. 3}
    \cup {[x EXCEPT !.e = M!EndProbe(@, c, x.now)] : c \in 1 .. 3}
    \cup {[x EXCEPT !.e = M!HandleTimeout(@, x.now)], [x EXCEPT !.now = @ + 1]}
    \cup {[x EXCEPT !.e = M!Update(@, Served(<<>>, [gap |-> 0, size |-> c])).e] : c \in 1 .. 2}

ProbePairs == StepsWithin(5, [e |-> M!NewEstimator, now |-> 0], ProbeSteps)

(***************************************************************************)
(* The estimator never measures more clusters than it has room for, and    *)
(* though nobody ended the ones it measures it accepts a new one again     *)
(* after a while.                                                          *)
(***************************************************************************)
ASSUME ProbesForgotten ==
  \A p \in ProbePairs : M!NeverFull(p[2].e) /\ M!CanStart(p[2].e, p[2].now + 2)
=============================================================================
