-------------------------- MODULE EstimatorProofs --------------------------
(***************************************************************************)
(* The probes and the estimate, for all rates, causes and timeouts: a      *)
(* collapse is seen, no probe is repeated while its answer may come, one   *)
(* that is answered is adopted, and a spike of delay leaves the estimate   *)
(* above the floor.                                                        *)
(*                                                                         *)
(* The first needs that the high-water mark never lies below the estimate  *)
(* at which the drop was last tracked (Marked).  The second needs to know  *)
(* how old the probe behind an outstanding cluster can be: the driver ends *)
(* the cluster two ticks after it went out, and a second one of the pair   *)
(* goes out one tick after the first (Outstanding), so that the controller *)
(* has queued the probe two ticks ago at most and every kind that looks at *)
(* its age still waits.  The last needs that what the rate control counts  *)
(* towards giving the floor up never runs ahead of the overuse (Pressed).  *)
(***************************************************************************)
EXTENDS Probing, Bandwidth, SequenceTheorems, FiniteSetTheorems, TLAPS

-----------------------------------------------------------------------------
(* The probes.                                                             *)

Pairs == {"initial", "increase_alr"}

Levels == Estimates \cup {0}

FedTyped ==
  /\ due \in BOOLEAN /\ alr \in BOOLEAN /\ cause \in AllCauses
  /\ desired \in Demands \cup {0} /\ estimate \in Levels /\ alrAge \in Nat

HeldTyped ==
  /\ last \in [kind : Kinds \cup {"none"}, further : Nat, was : Levels, age : 0 .. LastCap]
  /\ drop \in [before : Levels, age : Nat]
  /\ high \in [rate : Levels, age : Nat]
  /\ progress \in [rate : Levels, age : Nat]
  /\ previous \in Levels /\ prevDesired \in Demands \cup {0}

CountsTyped ==
  /\ stagnantAge \in 0 .. StagnantTime * MaxBackoff
  /\ backoff \in 1 .. MaxBackoff
  /\ active \in 0 .. 2 /\ emitted \in Kinds \cup {"none"}

\* One cluster waits at most: the second of the pair queued last.
PendingTyped == pending = <<>> \/ (pending = <<last.kind>> /\ last.kind \in Pairs)

\* The mark is no lower than the estimate the drop was last tracked at.
Marked == high.rate >= previous

\* How old the last probe is while a cluster is out, or waits.
Outstanding ==
  /\ active # 0 => last.kind # "none" /\ last.age + active <= 3
  /\ pending # <<>> => last.age = (IF due THEN 1 ELSE 0)

Inv == FedTyped /\ HeldTyped /\ CountsTyped /\ PendingTyped /\ Marked /\ Outstanding

-----------------------------------------------------------------------------
(* Rates.                                                                  *)

(* The rates that are fed, and 0 before the first, are numbers. *)
LEMMA LevelsAreNat == Levels \subseteq Nat /\ Demands \subseteq Nat /\ Estimates \subseteq Levels
BY ProbingAssumption DEF Levels

(* A percentage of a rate is a rate. *)
LEMMA PercentIsNat == ASSUME NEW n \in Nat, NEW r \in Nat PROVE Percent(n, r) \in Nat
<1>1. n * r \in Nat
  OBVIOUS
<1>2. \A x \in Nat : x \div 100 \in Nat
  OBVIOUS
<1> QED
  BY <1>1, <1>2 DEF Percent

(* An age stays within the bound it is counted up to. *)
LEMMA OlderIn ==
  ASSUME NEW most \in Nat, NEW age \in 0 .. most
  PROVE  Older(age, most) \in 0 .. most
BY DEF Older, Least

(* The mark as it stands: no lower than the estimate, and no lower than it *)
(* was unless it had grown too old.                                        *)
LEMMA HighNowTyped ==
  ASSUME FedTyped, HeldTyped
  PROVE  /\ HighNow \in [rate : Levels, age : Nat]
         /\ HighNow.rate >= estimate
<1>1. estimate \in Levels /\ estimate \in Nat /\ high.rate \in Nat
      /\ high \in [rate : Levels, age : Nat]
  BY LevelsAreNat DEF FedTyped, HeldTyped
<1>2. CASE high.rate # 0 /\ estimate <= high.rate /\ high.age <= RecentWindow
  BY <1>1, <1>2 DEF HighNow
<1>3. CASE ~ (high.rate # 0 /\ estimate <= high.rate /\ high.age <= RecentWindow)
  <2>1. HighNow = [rate |-> estimate, age |-> 0]
    BY <1>3 DEF HighNow
  <2> QED
    BY <1>1, <2>1
<1> QED
  BY <1>2, <1>3

(* So is the drop the tracker takes it for. *)
LEMMA DropNowTyped ==
  ASSUME FedTyped, HeldTyped
  PROVE  DropNow \in [before : Levels, age : Nat] /\ DropNow.before \in Nat
<1>1. drop \in [before : Levels, age : Nat] /\ HighNow.rate \in Levels
  BY HighNowTyped DEF HeldTyped
<1>2. DropNow \in [before : Levels, age : Nat]
  BY <1>1 DEF DropNow
<1> QED
  BY <1>2, LevelsAreNat

(* A kind asks for one rate, the two kinds of Pairs for two at most. *)
LEMMA RatesOf ==
  ASSUME FedTyped, HeldTyped, NEW kind
  PROVE  /\ Rates(kind) \in Seq(Nat)
         /\ Len(Rates(kind)) \in 0 .. 2
         /\ Len(Rates(kind)) = 2 => kind \in Pairs
         /\ Len(Rates(kind)) # 0 => kind \in Kinds
<1> DEFINE Fits(rs) == /\ rs \in Seq(Nat) /\ Len(rs) \in 0 .. 2
                       /\ Len(rs) = 2 => kind \in Pairs
                       /\ Len(rs) # 0 => kind \in Kinds
<1>1. estimate \in Nat /\ desired \in Nat /\ DropNow.before \in Nat
  BY LevelsAreNat, DropNowTyped DEF FedTyped
<1>2. ASSUME NEW x \in Nat, kind \in Kinds PROVE Fits(<<x>>)
  BY <1>2
<1>3. ASSUME NEW x \in Nat, NEW y \in Nat, kind \in Pairs PROVE Fits(<<x, y>>)
  BY <1>3 DEF Pairs, Kinds
<1> HIDE DEF Fits
<1>4. CASE kind = "initial"
  <2>1. Rates(kind) = <<3 * estimate, 6 * estimate>>
    BY <1>4 DEF Rates
  <2>2. 3 * estimate \in Nat /\ 6 * estimate \in Nat
    BY <1>1
  <2>3. Fits(Rates(kind))
    BY <1>3, <1>4, <2>1, <2>2 DEF Pairs
  <2> QED
    BY <2>3 DEF Fits
<1>5. CASE kind = "large_drop"
  <2>1. Rates(kind) = <<Percent(85, DropNow.before)>>
    BY <1>5 DEF Rates
  <2>2. Percent(85, DropNow.before) \in Nat
    BY <1>1, PercentIsNat
  <2>3. Fits(Rates(kind))
    BY <1>2, <1>5, <2>1, <2>2 DEF Kinds
  <2> QED
    BY <2>3 DEF Fits
<1>6. CASE kind = "exponential"
  <2>1. Rates(kind) = <<Step>>
    BY <1>6 DEF Rates
  <2>2. Step \in Nat
    BY <1>1 DEF Step
  <2>3. Fits(Rates(kind))
    BY <1>2, <1>6, <2>1, <2>2 DEF Kinds
  <2> QED
    BY <2>3 DEF Fits
<1>7. CASE kind = "increase_alr"
  <2>1. Rates(kind) = AllocationRates
    BY <1>7 DEF Rates
  <2>2. Least(desired, 2 * estimate) \in Nat /\ 2 * desired \in Nat
    BY <1>1 DEF Least
  <2>3. \/ AllocationRates = <<Least(desired, 2 * estimate)>>
        \/ AllocationRates = <<Least(desired, 2 * estimate), 2 * desired>>
    BY Zenon DEF AllocationRates
  <2>4. Fits(Rates(kind))
    BY <1>2, <1>3, <1>7, <2>1, <2>2, <2>3 DEF Kinds, Pairs
  <2> QED
    BY <2>4 DEF Fits
<1>8. CASE kind \in {"periodic_alr", "stagnant"}
  <2>1. Rates(kind) = <<Least(2 * estimate, desired)>>
    BY <1>8 DEF Rates
  <2>2. Least(2 * estimate, desired) \in Nat
    BY <1>1 DEF Least
  <2>3. Fits(Rates(kind))
    BY <1>2, <1>8, <2>1, <2>2 DEF Kinds
  <2> QED
    BY <2>3 DEF Fits
<1>9. CASE kind \notin Kinds
  <2>1. Rates(kind) = <<>>
    BY <1>9 DEF Rates, Kinds
  <2> QED
    BY <2>1
<1> QED
  BY <1>4, <1>5, <1>6, <1>7, <1>8, <1>9 DEF Kinds

(* Capping and dropping rates adds none. *)
LEMMA QueuedOf ==
  ASSUME FedTyped, HeldTyped, NEW kind
  PROVE  /\ Queued(kind) \in Seq(Nat)
         /\ Len(Queued(kind)) \in 0 .. 2
         /\ Len(Queued(kind)) = 2 => kind \in Pairs
         /\ Len(Queued(kind)) # 0 => kind \in Kinds
<1> DEFINE n      == Len(Rates(kind))
           capped == [i \in DOMAIN Rates(kind) |-> Least(Rates(kind)[i], TopRate)]
           small  == {i \in DOMAIN capped : capped[i] < MinProbeRate}
<1>1. /\ Rates(kind) \in Seq(Nat) /\ n \in 0 .. 2
      /\ n = 2 => kind \in Pairs
      /\ n # 0 => kind \in Kinds
  BY RatesOf
<1>2. TopRate \in Nat
  BY LevelsAreNat DEF FedTyped, TopRate
<1>3. DOMAIN Rates(kind) = 1 .. n /\ \A i \in 1 .. n : Rates(kind)[i] \in Nat
  BY <1>1
<1>4. \A i \in 1 .. n : Least(Rates(kind)[i], TopRate) \in Nat
  BY <1>2, <1>3 DEF Least
<1>5. capped \in [1 .. n -> Nat]
  BY <1>3, <1>4
<1>6. capped \in Seq(Nat) /\ Len(capped) = n
  <2> HIDE DEF capped, n
  <2> QED
    BY <1>1, <1>5
<1>7. Cardinality(small) \in Nat
  <2>1. small \in SUBSET (1 .. n)
    BY <1>3
  <2>2. IsFiniteSet(1 .. n)
    BY <1>1, FS_Interval
  <2> HIDE DEF small, n
  <2> QED
    BY <2>1, <2>2, FS_Subset, FS_CardinalityType
<1>8. Queued(kind) = SubSeq(capped, Cardinality(small) + 1, Len(capped))
  BY DEF Queued
<1>9. ASSUME NEW c \in Nat
      PROVE  /\ SubSeq(capped, c + 1, n) \in Seq(Nat)
             /\ Len(SubSeq(capped, c + 1, n)) <= n /\ Len(SubSeq(capped, c + 1, n)) \in Nat
  <2> HIDE DEF capped, n
  <2>1. c + 1 \in 1 .. n + 1 \/ c + 1 > n
    BY <1>1
  <2> QED
    BY <1>1, <1>6
<1> HIDE DEF capped, small, n
<1>10. /\ Queued(kind) \in Seq(Nat)
       /\ Len(Queued(kind)) <= n /\ Len(Queued(kind)) \in Nat
  BY <1>6, <1>7, <1>8, <1>9
<1>11. Len(Queued(kind)) \in 0 .. 2 /\ (Len(Queued(kind)) = 2 => n = 2)
       /\ (Len(Queued(kind)) # 0 => n # 0)
  <2> DEFINE l == Len(Queued(kind))
  <2>1. l <= n /\ l \in Nat /\ n \in 0 .. 2
    BY <1>1, <1>10
  <2> HIDE DEF l
  <2>2. l \in 0 .. 2 /\ (l = 2 => n = 2) /\ (l # 0 => n # 0)
    BY <2>1
  <2> QED
    BY <2>2 DEF l
<1> QED
  BY <1>1, <1>10, <1>11

-----------------------------------------------------------------------------
(* The steps.                                                              *)

(* What a decision does: nothing is queued and the driver is left alone,   *)
(* or one kind of probe replaces the last one, its first cluster goes out  *)
(* and a second one of a pair waits.                                       *)
LEMMA Decision ==
  ASSUME FedTyped, HeldTyped, Decide
  PROVE  \/ last' = last /\ active' = active /\ emitted' = "none" /\ pending' = <<>>
         \/ /\ Kind \in Kinds
            /\ \E r \in Nat : last' = ProbeOf(Kind, r)
            /\ active' = 2 /\ emitted' = Kind
            /\ pending' = <<>> \/ (pending' = <<Kind>> /\ Kind \in Pairs)
<1> DEFINE rates == Queued(Kind)
           n     == Len(rates)
           out   == [i \in DOMAIN rates |-> Kind]
<1>1. /\ rates \in Seq(Nat) /\ n \in 0 .. 2
      /\ n = 2 => Kind \in Pairs
      /\ n # 0 => Kind \in Kinds
  BY QueuedOf
<1>2. /\ last' = IF rates = <<>> THEN last ELSE ProbeOf(Kind, rates[Len(rates)])
      /\ HandOut(out)
  BY DEF Decide
<1>3. out \in Seq({Kind}) /\ Len(out) = n /\ DOMAIN rates = 1 .. n
  <2> HIDE DEF rates
  <2>1. DOMAIN rates = 1 .. Len(rates) /\ Len(rates) \in Nat
    BY <1>1
  <2> QED
    BY <2>1
<1> HIDE DEF rates, out
<1>4. CASE n = 0
  <2>1. rates = <<>> /\ out = <<>>
    BY <1>1, <1>3, <1>4, EmptySeq
  <2>2. last' = last /\ Quiet /\ pending' = <<>>
    BY <1>2, <2>1 DEF HandOut
  <2> QED
    BY <2>2 DEF Quiet
<1>5. CASE n # 0
  <2>1. rates # <<>> /\ out # <<>> /\ rates[n] \in Nat
    BY <1>1, <1>3, <1>5
  <2>2. Emit(Head(out)) /\ pending' = Tail(out) /\ last' = ProbeOf(Kind, rates[n])
    BY <1>2, <2>1 DEF HandOut
  <2>3. Head(out) = Kind
    BY <1>1, <1>3, <1>5
  <2>4. CASE n = 1
    <3>1. Tail(out) \in Seq({Kind}) /\ Len(Tail(out)) = 0
      BY <1>3, <2>1, <2>4
    <3>2. Tail(out) = <<>>
      BY <3>1, EmptySeq
    <3> QED
      BY <1>1, <1>5, <2>1, <2>2, <2>3, <3>2 DEF Emit
  <2>5. CASE n = 2
    <3>1. Tail(out) \in Seq({Kind}) /\ Len(Tail(out)) = 1
      BY <1>3, <2>1, <2>5
    <3>2. Tail(out)[1] = Kind
      BY <3>1
    <3>3. Tail(out) = <<Kind>>
      <4> DEFINE rest == Tail(out)
      <4>1. <<Kind>> \in Seq({Kind}) /\ Len(<<Kind>>) = 1 /\ <<Kind>>[1] = Kind
        OBVIOUS
      <4> HIDE DEF rest
      <4>2. rest \in Seq({Kind}) /\ Len(rest) = 1 /\ rest[1] = Kind
        BY <3>1, <3>2 DEF rest
      <4>3. rest = <<Kind>>
        BY <4>1, <4>2, SeqEqual
      <4> QED
        BY <4>3 DEF rest
    <3> QED
      BY <1>1, <1>5, <2>1, <2>2, <2>3, <2>5, <3>3 DEF Emit
  <2> QED
    BY <1>1, <1>5, <2>4, <2>5
<1> QED
  BY <1>4, <1>5

(* The initial state satisfies the invariant. *)
LEMMA InvInit == Init => Inv
<1> SUFFICES ASSUME Init PROVE Inv
  OBVIOUS
<1>1. /\ StagnantTime * MaxBackoff \in Nat /\ MaxBackoff \in Nat /\ MaxBackoff >= 1
      /\ AlrEnded \in Nat /\ LastCap \in Nat
  BY ProbingAssumption DEF LastCap
<1>2. FedTyped
  BY <1>1 DEF Init, FedTyped, Levels, AllCauses
<1>3. HeldTyped
  <2>1. last = [kind |-> "none", further |-> 0, was |-> 0, age |-> 0]
    BY DEF Init, NoProbe
  <2>2. last \in [kind : Kinds \cup {"none"}, further : Nat, was : Levels, age : 0 .. LastCap]
    BY <1>1, <2>1 DEF Levels
  <2>3. drop \in [before : Levels, age : Nat]
    BY DEF Init, NoDrop, Levels
  <2>4. high \in [rate : Levels, age : Nat] /\ progress \in [rate : Levels, age : Nat]
    BY DEF Init, Levels
  <2>5. previous \in Levels /\ prevDesired \in Demands \cup {0}
    BY DEF Init, Levels
  <2> QED
    BY <2>2, <2>3, <2>4, <2>5 DEF HeldTyped
<1>4. CountsTyped
  BY <1>1 DEF Init, CountsTyped
<1>5. PendingTyped /\ Outstanding
  BY DEF Init, PendingTyped, Outstanding
<1>6. Marked
  BY DEF Init, Marked
<1> QED
  BY <1>2, <1>3, <1>4, <1>5, <1>6 DEF Inv

(* What is fed leaves the last probe what it was, one tick older. *)
LEMMA InvFeed ==
  ASSUME Inv, NEW d \in Demands, NEW v \in Estimates, NEW c \in Causes,
         NEW in \in BOOLEAN, NEW o \in Outcomes, Feed(d, v, c, in, o)
  PROVE  Inv'
<1>1. FedTyped /\ HeldTyped /\ CountsTyped /\ PendingTyped /\ Marked /\ Outstanding
  BY DEF Inv
<1>2. /\ LastCap \in Nat /\ LastCap >= 1 /\ DropTimeout + 1 \in Nat /\ RecentWindow + 1 \in Nat
      /\ StagnantTime \in Nat /\ StagnantTime * MaxBackoff \in Nat
      /\ MaxBackoff \in Nat /\ MaxBackoff >= 1 /\ AlrEnded \in Nat
  BY ProbingAssumption DEF LastCap
<1>3. FedTyped'
  <2>1. desired' \in Demands /\ due' = TRUE /\ alr' \in BOOLEAN
    BY DEF Feed, SetAlr
  <2>2. cause' \in AllCauses /\ estimate' \in Levels
    <3>1. (cause' = cause /\ estimate' = estimate) \/ (cause' = c /\ estimate' = v)
      BY DEF Feed, SetEstimate
    <3>2. c \in AllCauses /\ v \in Levels
      BY ProbingAssumption, LevelsAreNat
    <3> QED
      BY <1>1, <3>1, <3>2 DEF FedTyped
  <2>3. alrAge' \in Nat
    <3>1. alrAge' = 0 \/ alrAge' = Older(alrAge, AlrEnded)
      BY DEF Feed, SetAlr
    <3>2. Older(alrAge, AlrEnded) \in Nat
      BY <1>1, <1>2 DEF FedTyped, Older, Least
    <3> QED
      BY <3>1, <3>2
  <2> QED
    BY <2>1, <2>2, <2>3 DEF FedTyped
<1>4. Aged /\ EndActive /\ emitted' = "none" /\ backoff' = BackoffAfter(o) /\ due = FALSE
      /\ pending' = pending /\ prevDesired' = prevDesired /\ previous' = previous /\ due' = TRUE
  BY DEF Feed
<1>5. /\ last' \in [kind : Kinds \cup {"none"}, further : Nat, was : Levels, age : 0 .. LastCap]
      /\ last'.kind = last.kind
      /\ last # NoProbe => last'.age = Older(last.age, LastCap)
  <2>1. Older(last.age, LastCap) \in 0 .. LastCap
    BY <1>1, <1>2, OlderIn DEF HeldTyped
  <2>2. CASE last = NoProbe
    BY <1>1, <1>4, <2>2 DEF Aged, HeldTyped
  <2>3. CASE last # NoProbe
    <3>1. last' = [last EXCEPT !.age = Older(last.age, LastCap)]
      BY <1>4, <2>3 DEF Aged
    <3> QED
      BY <1>1, <2>1, <3>1 DEF HeldTyped
  <2> QED
    BY <2>2, <2>3
<1>6. drop' \in [before : Levels, age : Nat]
  <2>1. Older(drop.age, DropTimeout + 1) \in Nat
    BY <1>1, <1>2 DEF HeldTyped, Older, Least
  <2>2. drop' = drop \/ drop' = [drop EXCEPT !.age = Older(drop.age, DropTimeout + 1)]
    BY <1>4 DEF Aged
  <2> QED
    BY <1>1, <2>1, <2>2 DEF HeldTyped
<1>7. high' \in [rate : Levels, age : Nat] /\ high'.rate = high.rate
  <2>1. Older(high.age, RecentWindow + 1) \in Nat
    BY <1>1, <1>2 DEF HeldTyped, Older, Least
  <2>2. high' = high \/ high' = [high EXCEPT !.age = Older(high.age, RecentWindow + 1)]
    BY <1>4 DEF Aged
  <2> QED
    BY <1>1, <2>1, <2>2 DEF HeldTyped
<1>8. progress' \in [rate : Levels, age : Nat]
  <2>1. Older(progress.age, StagnantTime) \in Nat
    BY <1>1, <1>2 DEF HeldTyped, Older, Least
  <2>2. progress' = progress \/ progress' = [progress EXCEPT !.age = Older(progress.age, StagnantTime)]
    BY <1>4 DEF Aged
  <2> QED
    BY <1>1, <2>1, <2>2 DEF HeldTyped
<1>9. HeldTyped'
  BY <1>1, <1>4, <1>5, <1>6, <1>7, <1>8 DEF HeldTyped, LastCap
<1>10. CountsTyped'
  <2>1. stagnantAge' \in 0 .. StagnantTime * MaxBackoff
    BY <1>1, <1>2, <1>4, OlderIn DEF CountsTyped, Aged
  <2>2. backoff' \in {1, MaxBackoff, backoff}
    BY <1>4 DEF BackoffAfter
  <2>3. backoff' \in 1 .. MaxBackoff
    BY <1>1, <1>2, <2>2 DEF CountsTyped
  <2>4. active' \in 0 .. 2
    BY <1>1, <1>4 DEF CountsTyped, EndActive
  <2> QED
    BY <1>4, <2>1, <2>3, <2>4 DEF CountsTyped
<1>11. PendingTyped'
  BY <1>1, <1>4, <1>5 DEF PendingTyped
<1>12. Marked'
  BY <1>1, <1>4, <1>7 DEF Marked
<1>13. Outstanding'
  <2>1. ASSUME active' # 0 PROVE last'.kind # "none" /\ last'.age + active' <= 3
    <3>1. active # 0 /\ active' = active - 1 /\ active \in 0 .. 2
      BY <1>1, <1>4, <2>1 DEF EndActive, CountsTyped
    <3>2. last.kind # "none" /\ last.age + active <= 3 /\ last.age \in 0 .. LastCap
      BY <1>1, <3>1 DEF Outstanding, HeldTyped
    <3>3. last # NoProbe
      BY <3>2 DEF NoProbe
    <3>4. last'.age = Older(last.age, LastCap)
      BY <1>5, <3>3
    <3>5. last'.age + active' <= 3
      BY <1>2, <3>1, <3>2, <3>4 DEF Older, Least
    <3> QED
      BY <1>5, <3>2, <3>5
  <2>2. ASSUME pending' # <<>> PROVE last'.age = 1
    <3>1. last.age = 0 /\ last.kind \in Pairs
      BY <1>1, <1>4, <2>2 DEF Outstanding, PendingTyped
    <3>2. last # NoProbe
      BY <3>1 DEF NoProbe, Pairs
    <3> QED
      BY <1>2, <1>5, <3>1, <3>2 DEF Older, Least
  <2> QED
    BY <1>4, <2>1, <2>2 DEF Outstanding
<1> QED
  BY <1>3, <1>9, <1>10, <1>11, <1>12, <1>13 DEF Inv

(* The second cluster of a pair goes out one tick after the first. *)
LEMMA InvEmitPending == ASSUME Inv, EmitPending PROVE Inv'
<1>1. FedTyped /\ HeldTyped /\ CountsTyped /\ PendingTyped /\ Marked /\ Outstanding
  BY DEF Inv
<1>2. pending = <<last.kind>> /\ last.kind \in Pairs /\ last.age = 1
  BY <1>1 DEF EmitPending, PendingTyped, Outstanding
<1>3. emitted' = last.kind /\ active' = 2 /\ pending' = <<>>
  BY <1>2 DEF EmitPending, HandOut, Emit
<1>4. /\ due' = FALSE
      /\ UNCHANGED <<last, drop, high, progress, stagnantAge, backoff, prevDesired,
                     previous, desired, estimate, cause, alr, alrAge>>
  BY DEF EmitPending, inputVars
<1>5. FedTyped' /\ HeldTyped' /\ Marked'
  BY <1>1, <1>4 DEF FedTyped, HeldTyped, Marked, LastCap
<1>6. CountsTyped'
  BY <1>1, <1>2, <1>3, <1>4 DEF CountsTyped, Pairs, Kinds
<1>7. PendingTyped' /\ Outstanding'
  BY <1>2, <1>3, <1>4 DEF PendingTyped, Outstanding, Pairs
<1> QED
  BY <1>5, <1>6, <1>7 DEF Inv

(* With the gate closed only the drop is tracked. *)
LEMMA InvBlocked == ASSUME Inv, Blocked PROVE Inv'
<1>1. FedTyped /\ HeldTyped /\ CountsTyped /\ PendingTyped /\ Marked /\ Outstanding
  BY DEF Inv
<1>2. /\ due' = FALSE /\ pending = <<>> /\ high' = HighNow /\ drop' = DropNow
      /\ previous' = estimate /\ active' = active /\ emitted' = "none"
      /\ UNCHANGED <<pending, last, progress, stagnantAge, backoff, prevDesired,
                     desired, estimate, cause, alr, alrAge>>
  BY DEF Blocked, Quiet, inputVars
<1>3. HighNow \in [rate : Levels, age : Nat] /\ HighNow.rate >= estimate
      /\ DropNow \in [before : Levels, age : Nat]
  BY <1>1, HighNowTyped, DropNowTyped
<1>4. FedTyped' /\ HeldTyped'
  BY <1>1, <1>2, <1>3 DEF FedTyped, HeldTyped, LastCap
<1>5. Marked'
  BY <1>2, <1>3 DEF Marked
<1>6. CountsTyped' /\ PendingTyped'
  BY <1>1, <1>2 DEF CountsTyped, PendingTyped
<1>7. Outstanding'
  BY <1>1, <1>2 DEF Outstanding
<1> QED
  BY <1>4, <1>5, <1>6, <1>7 DEF Inv

(* A decision. *)
LEMMA InvDecide == ASSUME Inv, Decide PROVE Inv'
<1>1. FedTyped /\ HeldTyped /\ CountsTyped /\ PendingTyped /\ Marked /\ Outstanding
  BY DEF Inv
<1>2. /\ due' = FALSE /\ pending = <<>> /\ high' = HighNow /\ drop' = DropAfter
      /\ previous' = estimate
      /\ UNCHANGED <<desired, estimate, cause, alr, alrAge>>
      /\ prevDesired' \in {desired, prevDesired}
      /\ stagnantAge' \in {0, stagnantAge}
      /\ backoff' \in {1, Least(2 * backoff, MaxBackoff), backoff}
      /\ progress' \in {[rate |-> estimate, age |-> 0], progress}
  BY DEF Decide, inputVars
<1>3. HighNow \in [rate : Levels, age : Nat] /\ HighNow.rate >= estimate
      /\ DropAfter \in [before : Levels, age : Nat]
  BY <1>1, HighNowTyped, DropNowTyped DEF DropAfter, NoDrop, Levels
<1>4. LastCap \in Nat /\ MaxBackoff \in Nat /\ MaxBackoff >= 1 /\ StagnantTime * MaxBackoff \in Nat
  BY ProbingAssumption DEF LastCap
<1>5. /\ last' \in [kind : Kinds \cup {"none"}, further : Nat, was : Levels, age : 0 .. LastCap]
      /\ active' \in 0 .. 2 /\ emitted' \in Kinds \cup {"none"}
      /\ PendingTyped' /\ Outstanding'
  <2>1. CASE last' = last /\ active' = active /\ emitted' = "none" /\ pending' = <<>>
    BY <1>1, <2>1 DEF HeldTyped, CountsTyped, PendingTyped, Outstanding
  <2>2. CASE /\ Kind \in Kinds
             /\ \E r \in Nat : last' = ProbeOf(Kind, r)
             /\ active' = 2 /\ emitted' = Kind
             /\ pending' = <<>> \/ (pending' = <<Kind>> /\ Kind \in Pairs)
    <3>1. PICK r \in Nat : last' = ProbeOf(Kind, r)
      BY <2>2
    <3>2. Percent(70, r) \in Nat /\ estimate \in Levels
      BY <1>1, PercentIsNat DEF FedTyped
    <3>3. last' = [kind |-> Kind, further |-> Percent(70, r), was |-> estimate, age |-> 0]
      BY <3>1 DEF ProbeOf
    <3>4. last' \in [kind : Kinds \cup {"none"}, further : Nat, was : Levels, age : 0 .. LastCap]
      BY <1>4, <2>2, <3>2, <3>3
    <3>5. last'.kind = Kind /\ last'.age = 0 /\ Kind # "none"
      BY <2>2, <3>3 DEF Kinds
    <3>6. PendingTyped' /\ Outstanding'
      BY <1>2, <2>2, <3>5 DEF PendingTyped, Outstanding
    <3> QED
      BY <2>2, <3>4, <3>6
  <2> QED
    BY <1>1, <2>1, <2>2, Decision
<1>6. progress' \in [rate : Levels, age : Nat] /\ prevDesired' \in Demands \cup {0}
  BY <1>1, <1>2 DEF HeldTyped, FedTyped
<1>7. FedTyped' /\ HeldTyped'
  BY <1>1, <1>2, <1>3, <1>5, <1>6 DEF FedTyped, HeldTyped, LastCap
<1>8. CountsTyped'
  <2>1. backoff' \in 1 .. MaxBackoff
    BY <1>1, <1>2, <1>4 DEF CountsTyped, Least
  <2>2. stagnantAge' \in 0 .. StagnantTime * MaxBackoff
    BY <1>1, <1>2, <1>4 DEF CountsTyped
  <2> QED
    BY <1>5, <2>1, <2>2 DEF CountsTyped
<1>9. Marked'
  BY <1>2, <1>3 DEF Marked
<1> QED
  BY <1>5, <1>7, <1>8, <1>9 DEF Inv

(* The invariant holds in every reachable state. *)
LEMMA InvAlways == Spec => []Inv
<1>1. Inv /\ [Next]_vars => Inv'
  <2> SUFFICES ASSUME Inv, [Next]_vars PROVE Inv'
    OBVIOUS
  <2>1. ASSUME NEW d \in Demands, NEW v \in Estimates, NEW c \in Causes,
               NEW in \in BOOLEAN, NEW o \in Outcomes, Feed(d, v, c, in, o)
        PROVE  Inv'
    BY <2>1, InvFeed
  <2>2. CASE EmitPending
    BY <2>2, InvEmitPending
  <2>3. CASE Blocked
    BY <2>3, InvBlocked
  <2>4. CASE Decide
    BY <2>4, InvDecide
  <2>5. CASE UNCHANGED vars
    BY <2>5 DEF vars, inputVars, controlVars, driverVars, Inv, FedTyped, HeldTyped, CountsTyped,
                PendingTyped, Marked, Outstanding, LastCap
  <2> QED
    BY <2>1, <2>2, <2>3, <2>4, <2>5 DEF Next, Handle
<1> QED
  BY InvInit, <1>1, PTL DEF Spec

-----------------------------------------------------------------------------
(* Theorems.                                                               *)

(* The fields of the controller and of its driver, however many ticks pass *)
(* without an event (TypeOK).                                              *)
THEOREM TypeCorrect == Spec => []TypeOK
<1>1. Inv => TypeOK
  <2> SUFFICES ASSUME Inv PROVE TypeOK
    OBVIOUS
  <2>1. FedTyped /\ HeldTyped /\ CountsTyped /\ PendingTyped
    BY DEF Inv
  <2>2. Len(pending) <= 1
        /\ \A i \in DOMAIN pending : pending[i] = last.kind /\ pending[i] \in {"initial", "increase_alr"}
    <3>1. CASE pending = <<>>
      BY <3>1
    <3>2. CASE pending = <<last.kind>> /\ last.kind \in Pairs
      BY <3>2 DEF Pairs
    <3> QED
      BY <2>1, <3>1, <3>2 DEF PendingTyped
  <2>3. {estimate, high.rate, progress.rate, drop.before, last.was, previous}
          \subseteq Estimates \cup {0}
    BY <2>1 DEF FedTyped, HeldTyped, Levels
  <2>4. last.kind \in Kinds \cup {"none"} /\ last.age \in 0 .. LastCap
    BY <2>1 DEF HeldTyped
  <2> QED
    BY <2>1, <2>2, <2>3, <2>4 DEF FedTyped, HeldTyped, CountsTyped, TypeOK
<1> QED
  BY <1>1, InvAlways, PTL

(* An estimate that loses more than half of its level between two looks of *)
(* track_drop is taken for a large drop, unless the high-water mark has    *)
(* just grown too old (CollapseSeen).                                      *)
THEOREM CollapsesAreSeen == Spec => []CollapseSeen
<1>1. Inv => CollapseSeen
  <2> SUFFICES ASSUME Inv, Below(50, estimate, previous), high.age <= RecentWindow
               PROVE  DropNow # NoDrop
    <3>1. Inv => high.age \in Nat /\ RecentWindow \in Nat
      BY ProbingAssumption DEF Inv, HeldTyped
    <3>2. Inv => (~ (high.age > RecentWindow) => high.age <= RecentWindow)
      BY <3>1
    <3> QED
      BY <3>2 DEF CollapseSeen
  <2>1. /\ estimate \in Nat /\ previous \in Nat /\ high.rate \in Nat
        /\ high.rate >= previous /\ 100 * estimate < 50 * previous
    BY LevelsAreNat DEF Inv, FedTyped, HeldTyped, Marked, Below
  <2>2. high.rate # 0 /\ estimate <= high.rate /\ 100 * estimate < 50 * high.rate
    BY <2>1
  <2>3. HighNow = high
    BY <2>2 DEF HighNow
  <2>4. CASE drop = NoDrop
    <3>1. DropNow = [before |-> high.rate, age |-> 0]
      BY <2>2, <2>3, <2>4 DEF DropNow, Below
    <3> QED
      BY <2>2, <3>1 DEF NoDrop
  <2>5. CASE drop # NoDrop
    BY <2>5 DEF DropNow
  <2> QED
    BY <2>4, <2>5
<1> QED
  BY <1>1, InvAlways, PTL

(* While a cluster is out, a new probe is the second of its pair, is for   *)
(* another estimate, or is of a kind that does not look at the last probe: *)
(* handle_timeout repeats no probe whose answer may still come.            *)
THEOREM NoneRepeated == Spec => NoRepeatInFlight
<1>1. Inv => HandsOutNew
  <2> SUFFICES ASSUME Inv, active # 0, Handle, emitted' # "none", pending = <<>>,
                      estimate = last.was
               PROVE  emitted' \in {"stagnant", "increase_alr"}
    BY DEF HandsOutNew
  <2>1. last.kind # "none" /\ last.age <= 2 /\ last.age \in Int /\ last # NoProbe
    <3>1. /\ last.kind # "none" /\ last.age + active <= 3 /\ last.age \in 0 .. LastCap
          /\ active \in 0 .. 2
      BY DEF Inv, Outstanding, HeldTyped, CountsTyped
    <3>2. LastCap \in Nat
      BY ProbingAssumption DEF LastCap
    <3> QED
      BY <3>1, <3>2 DEF NoProbe
  <2>2. ~ SinceProbe(ResultWait) /\ ~ SinceProbe(AlrInterval)
    BY <2>1, ProbingAssumption DEF SinceProbe
  <2>3. Decide /\ emitted' = Kind /\ Kind \in Kinds
    <3>1. Decide
      BY DEF Handle, EmitPending, Blocked, Quiet
    <3> QED
      BY <3>1, Decision DEF Inv
  <2>4. ~ InitialDue /\ ~ LargeDropDue /\ ~ ExponentialDue /\ ~ PeriodicAlrDue
    BY <2>1, <2>2 DEF InitialDue, LargeDropDue, ExponentialDue, PeriodicAlrDue
  <2>5. Kind \in {"stagnant", "increase_alr", "none"}
    BY <2>4 DEF Kind
  <2> QED
    BY <2>3, <2>5 DEF Kinds
<1> QED
  BY <1>1, InvAlways, PTL DEF NoRepeatInFlight

-----------------------------------------------------------------------------
(* The estimate.                                                           *)

RateType == [mode : {"Increase", "Hold", "Decrease"}, estimate : MinRate .. MaxRate,
             touched : 0 .. ReduceInterval, floored : -1 .. DiscreditAfter + 1,
             discredited : BOOLEAN]

LossType == [state : {"DelayBased", "Increasing", "Decreasing"}, estimate : Nat,
             delay : Nat, bound : Nat, seen : BOOLEAN]

EstimatorTyped ==
  /\ hypothesis \in Hypotheses /\ heard \in Nat
  /\ rate \in RateType /\ floor \in Nat
  /\ acked \in Nat /\ memory \in Nat /\ memoryAge \in Nat
  /\ started \in Int /\ loss \in LossType
  /\ pressed \in 0 .. DiscreditAfter + 1

\* A floor that holds a cut up has done so for no longer than the pressure
\* has lasted.
Pressed == rate.floored # -1 => acked # 0 /\ rate.floored <= pressed

EstimatorInv == EstimatorTyped /\ Pressed /\ ProbeAdopted

(* The bounds of the rates and of what is counted.                         *)
LEMMA RatesAreNat ==
  /\ MinRate \in Nat \ {0} /\ MaxRate \in Nat \ {0} /\ MinRate <= MaxRate
  /\ Initial \in MinRate .. MaxRate
  /\ Slack \in Nat /\ Sigma \in Nat /\ DiscreditAfter \in Nat /\ ReduceInterval \in Nat
  /\ ValidFor \in Nat /\ ResetWindow \in Nat /\ StartupPhase \in Nat
  /\ Delivered \cup Probed \cup Candidates \cup Bounds \cup Steps \subseteq Nat \ {0}
BY BandwidthAssumption

(* Clamping, and the cut to 85 %.                                          *)
LEMMA Clamped ==
  ASSUME NEW r \in Int
  PROVE  /\ Clamp(r) \in MinRate .. MaxRate
         /\ r <= MaxRate => Clamp(r) >= r
         /\ \A e \in MinRate .. MaxRate : r <= e => Clamp(r) <= e
BY RatesAreNat DEF Clamp, AtMost

LEMMA BetaIsNat == ASSUME NEW n \in Nat PROVE Beta(n) \in Nat
BY DEF Beta

(* The rate control after a unit of time, and after the hypothesis.        *)
LEMMA IdleTyped ==
  ASSUME rate \in RateType
  PROVE  /\ Idle \in RateType /\ Idle.estimate = rate.estimate
         /\ Idle.mode = rate.mode /\ Idle.discredited = rate.discredited
         /\ Idle.floored = IF rate.floored = -1 THEN -1 ELSE AtMost(rate.floored + 1, DiscreditAfter + 1)
<1>1. /\ rate.touched \in 0 .. ReduceInterval /\ rate.floored \in -1 .. DiscreditAfter + 1
  BY DEF RateType
<1>2. AtMost(rate.touched + 1, ReduceInterval) \in 0 .. ReduceInterval
  BY <1>1, RatesAreNat DEF AtMost
<1>3. rate.floored # -1 => AtMost(rate.floored + 1, DiscreditAfter + 1) \in -1 .. DiscreditAfter + 1
  BY <1>1, RatesAreNat DEF AtMost
<1> QED
  BY <1>1, <1>2, <1>3, RatesAreNat DEF RateType, Idle, Now

LEMMA SteppedTyped ==
  ASSUME rate \in RateType, NEW h \in Hypotheses
  PROVE  /\ Stepped(h) \in RateType /\ Stepped(h).estimate = rate.estimate
         /\ Stepped(h).discredited = rate.discredited
         /\ Stepped(h).floored = IF h = "Normal" THEN -1 ELSE Idle.floored
         /\ Stepped(h).mode = Transition(h)
<1>1. Transition(h) \in {"Increase", "Hold", "Decrease"}
  BY DEF Transition, Hypotheses
<1>2. -1 \in -1 .. DiscreditAfter + 1
  BY RatesAreNat
<1> QED
  BY <1>1, <1>2, IdleTyped DEF RateType, Stepped

(* Growing and cutting.                                                    *)
LEMMA IncreaseTyped ==
  ASSUME NEW r \in RateType, NEW a \in Nat, NEW step \in Nat
  PROVE  Increase(r, a, step) \in RateType /\ Increase(r, a, step).floored = -1
<1>1. (3 * a) \div 2 \in Nat
  OBVIOUS
<1>2. r.estimate \in MinRate .. MaxRate
  BY DEF RateType
<1>3. Clamp(AtMost((3 * a) \div 2, r.estimate + step)) \in MinRate .. MaxRate
  <2>1. AtMost((3 * a) \div 2, r.estimate + step) \in Int
    BY <1>1, <1>2 DEF AtMost
  <2> QED
    BY <2>1, Clamped
<1>4. -1 \in -1 .. DiscreditAfter + 1 /\ 0 \in 0 .. ReduceInterval
  BY RatesAreNat
<1> HIDE DEF Clamp
<1> QED
  BY <1>2, <1>3, <1>4 DEF RateType, Increase

LEMMA DecreaseTyped ==
  ASSUME NEW r \in RateType, NEW a \in Nat, floor \in Nat
  PROVE  /\ Decrease(r, a) \in RateType
         /\ Decrease(r, a).floored \in {-1, 0, r.floored}
         /\ Decrease(r, a).estimate <= r.estimate
         /\ ~ r.discredited /\ ~ GivesUp(r) =>
              Decrease(r, a).estimate >= AtMost(r.estimate, Beta(floor))
<1> DEFINE quits  == HeldUp(r, a) /\ GivesUp(r)
           target == IF HeldUp(r, a) /\ ~quits THEN Beta(floor) ELSE Beta(a)
           cut    == AtMost(r.estimate, target)
<1>1. r.estimate \in MinRate .. MaxRate /\ r.floored \in -1 .. DiscreditAfter + 1
      /\ r.discredited \in BOOLEAN
  BY DEF RateType
<1>2. target \in Nat /\ Beta(a) \in Nat /\ Beta(floor) \in Nat
  BY BetaIsNat
<1>3. ~ r.discredited /\ ~ GivesUp(r) => target >= Beta(floor)
  BY <1>2 DEF HeldUp
<1> DEFINE floored == IF ~ HeldUp(r, a) THEN -1 ELSE IF r.floored = -1 THEN 0 ELSE r.floored
<1>4. Decrease(r, a) = [r EXCEPT !.mode = "Hold", !.touched = 0, !.estimate = Clamp(cut),
                                 !.floored = floored, !.discredited = r.discredited \/ quits]
  BY DEF Decrease
<1>5. floored \in -1 .. DiscreditAfter + 1 /\ floored \in {-1, 0, r.floored}
  BY <1>1, RatesAreNat
<1>6. quits \in BOOLEAN /\ (r.discredited \/ quits) \in BOOLEAN
  BY <1>1 DEF HeldUp, GivesUp
<1> HIDE DEF quits, target, floored
<1>7. cut \in Int /\ cut <= r.estimate /\ cut <= MaxRate
      /\ (target >= Beta(floor) => cut >= AtMost(r.estimate, Beta(floor)))
  BY <1>1, <1>2, RatesAreNat DEF AtMost
<1> HIDE DEF cut
<1>8. /\ Clamp(cut) \in MinRate .. MaxRate /\ Clamp(cut) <= r.estimate /\ Clamp(cut) >= cut
  BY <1>1, <1>7, Clamped
<1>9. /\ Decrease(r, a) \in RateType /\ Decrease(r, a).estimate = Clamp(cut)
      /\ Decrease(r, a).floored = floored
  <2> DEFINE c == Clamp(cut)
             d == r.discredited \/ quits
  <2>1. c \in MinRate .. MaxRate /\ d \in BOOLEAN /\ 0 \in 0 .. ReduceInterval
    BY <1>6, <1>8, RatesAreNat
  <2>2. Decrease(r, a) = [r EXCEPT !.mode = "Hold", !.touched = 0, !.estimate = c,
                                   !.floored = floored, !.discredited = d]
    BY <1>4
  <2> HIDE DEF c, d
  <2>3. Decrease(r, a) \in RateType /\ Decrease(r, a).estimate = c
        /\ Decrease(r, a).floored = floored
    BY <1>5, <2>1, <2>2 DEF RateType
  <2> QED
    BY <2>3 DEF c
<1>10. ~ r.discredited /\ ~ GivesUp(r) => Clamp(cut) >= AtMost(r.estimate, Beta(floor))
  <2>1. AtMost(r.estimate, Beta(floor)) \in Int /\ Clamp(cut) \in Int
    BY <1>1, <1>2, <1>8, RatesAreNat DEF AtMost
  <2> QED
    BY <1>3, <1>7, <1>8, <2>1
<1> QED
  BY <1>5, <1>8, <1>9, <1>10

(* What a report or a tick makes of the rate: a floor that holds a cut up   *)
(* did so before, or starts to now, with a rate delivered.                  *)
LEMMA UpdateTyped ==
  ASSUME rate \in RateType, floor \in Nat, NEW h \in Hypotheses, NEW a \in Nat,
         NEW probe \in Nat, NEW step \in Nat
  PROVE  LET r == UpdateEstimate(h, a, probe, step)
         IN  /\ r \in RateType
             /\ r.floored \in {-1, 0, Idle.floored}
             /\ r.floored # -1 => a # 0 \/ r.floored = Idle.floored
             /\ h = "Normal" /\ probe = 0 /\ a # 0 => r.floored = -1
<1>1. /\ Idle \in RateType
  BY IdleTyped
<1>2. CASE probe # 0
  <2>1. Clamp(probe) \in MinRate .. MaxRate /\ 0 \in 0 .. ReduceInterval
    BY Clamped, RatesAreNat
  <2> HIDE DEF Clamp, Idle
  <2> QED
    BY <1>1, <1>2, <2>1 DEF RateType, UpdateEstimate
<1>3. CASE probe = 0 /\ a = 0
  BY <1>1, <1>3 DEF UpdateEstimate
<1>4. CASE probe = 0 /\ a # 0
  <2> DEFINE s == Stepped(h)
  <2>1. /\ s \in RateType /\ s.floored = IF h = "Normal" THEN -1 ELSE Idle.floored
        /\ s.mode = Transition(h)
    BY SteppedTyped
  <2>2. UpdateEstimate(h, a, probe, step) = RateControl(h, a, step)
    BY <1>4 DEF UpdateEstimate
  <2>3. h = "Normal" => s.mode # "Decrease"
    BY <2>1 DEF Transition
  <2>4. /\ Increase(s, a, step) \in RateType /\ Increase(s, a, step).floored = -1
    BY <2>1, IncreaseTyped
  <2>5. /\ Decrease(s, a) \in RateType /\ Decrease(s, a).floored \in {-1, 0, s.floored}
    BY <2>1, DecreaseTyped
  <2>6. RateControl(h, a, step) =
          CASE s.mode = "Increase" -> Increase(s, a, step)
            [] s.mode = "Hold" -> s
            [] OTHER -> IF TimeToReduceFurther(s, a) THEN Decrease(s, a) ELSE s
    BY DEF RateControl
  <2>7. s.mode \in {"Increase", "Hold", "Decrease"}
    BY <2>1 DEF RateType
  <2> HIDE DEF s
  <2>8. CASE s.mode = "Increase"
    BY <1>4, <2>1, <2>2, <2>4, <2>6, <2>8
  <2>9. CASE s.mode = "Hold"
    BY <1>4, <2>1, <2>2, <2>6, <2>9
  <2>10. CASE s.mode = "Decrease"
    BY <1>4, <2>1, <2>2, <2>3, <2>5, <2>6, <2>10
  <2> QED
    BY <2>7, <2>8, <2>9, <2>10
<1> QED
  BY <1>2, <1>3, <1>4

-----------------------------------------------------------------------------
(* The loss controller.                                                    *)

LEMMA LossAfterTyped ==
  ASSUME loss \in LossType, started' \in Int, NEW delay \in Nat, NEW probe \in Nat,
         NEW after \in LossAfter(delay, probe)
  PROVE  /\ after \in LossType
         /\ probe # 0 /\ started' > StartupPhase => after.state = "DelayBased"
<1> DEFINE l == IF probe # 0 THEN OnProbeResult(delay) ELSE loss
           told == [l EXCEPT !.delay = delay]
<1>1. Unlimited \in Nat
  BY RatesAreNat DEF Unlimited
<1>2. l \in LossType /\ (probe # 0 => l.state = "DelayBased")
  BY <1>1 DEF LossType, OnProbeResult
<1> HIDE DEF l
<1>3. told \in LossType /\ told.state = l.state
  BY <1>2 DEF LossType
<1>4. ASSUME NEW u \in LossUpdates(l, delay, probe)
      PROVE  u \in LossType /\ (probe # 0 => u.state = "DelayBased")
  <2>1. CASE u = told
    BY <1>2, <1>3, <2>1
  <2>2. CASE u # told
    <3>1. probe = 0 /\ u \in UNION {Observed(l, delay, b, n) : b \in Candidates \cup {l.estimate, delay},
                                                        n \in Bounds}
      BY <2>2, <1>4 DEF LossUpdates
    <3>2. PICK b \in Candidates \cup {l.estimate, delay}, n \in Bounds :
            u \in Observed(l, delay, b, n)
      BY <3>1
    <3>3. PICK s \in NextStates(l, b, delay) :
            u = [l EXCEPT !.state = s, !.estimate = b, !.delay = delay, !.bound = n,
                          !.seen = TRUE]
      BY <3>2 DEF Observed
    <3>4. s \in {"DelayBased", "Increasing", "Decreasing"}
      BY <3>3 DEF NextStates
    <3>5. b \in Nat /\ n \in Nat
      BY <1>2, RatesAreNat DEF LossType
    <3> QED
      BY <1>2, <3>1, <3>3, <3>4, <3>5 DEF LossType
  <2> QED
    BY <2>1, <2>2
<1>5. ASSUME NEW u \in LossType
      PROVE  Capped(u, delay) \in LossType /\ Capped(u, delay).state = u.state
  BY DEF Capped, LossType
<1>6. CASE started' <= StartupPhase /\ after = [loss EXCEPT !.estimate = delay]
  BY <1>6, RatesAreNat DEF LossType
<1>7. CASE \E u \in LossUpdates(l, delay, probe) : after = Capped(u, delay)
  BY <1>4, <1>5, <1>7
<1> QED
  BY <1>6, <1>7 DEF LossAfter, l

-----------------------------------------------------------------------------
(* The steps.                                                              *)

LEMMA EstimatorInitial == ASSUME EstimatorInit PROVE EstimatorInv
<1>1. rate \in RateType
  BY RatesAreNat DEF EstimatorInit, RateType
<1>2. loss \in LossType
  BY RatesAreNat DEF EstimatorInit, LossType, Unlimited
<1>3. /\ ValidFor + 1 \in Nat /\ 0 \in 0 .. DiscreditAfter + 1
  BY RatesAreNat
<1>4. rate.floored = -1
  BY DEF EstimatorInit
<1> QED
  BY <1>1, <1>2, <1>3, <1>4
     DEF EstimatorInit, EstimatorInv, EstimatorTyped, Hypotheses, Pressed, ProbeAdopted

\* What every step does to the ages, and to the floor of the last cut.
LEMMA AgesKept ==
  ASSUME EstimatorTyped, Pressed
  PROVE  /\ Now(pressed, DiscreditAfter + 1) \in 0 .. DiscreditAfter + 1
         /\ Idle.floored # -1 => acked # 0 /\ Idle.floored <= Now(pressed, DiscreditAfter + 1)
         /\ Now(started, StartupPhase + 1) \in Int
         /\ MemoryAged \in Nat
         /\ Now(heard, ValidFor + 1) \in Nat
<1>1. rate.floored \in -1 .. DiscreditAfter + 1
  BY DEF EstimatorTyped, RateType
<1>2. Idle.floored = IF rate.floored = -1 THEN -1 ELSE AtMost(rate.floored + 1, DiscreditAfter + 1)
  BY IdleTyped DEF EstimatorTyped
<1> QED
  BY <1>1, <1>2, RatesAreNat DEF EstimatorTyped, Pressed, Now, AtMost, MemoryAged

\* The memory stays a rate.
LEMMA Remembered ==
  ASSUME memory \in Nat, NEW a \in Nat, NEW probe \in Nat,
         NEW m \in AfterOveruse(AfterProbe(memory, probe), a)
  PROVE  m \in Nat
<1>1. AfterProbe(memory, probe) \in Nat
  BY DEF AfterProbe
<1> QED
  BY <1>1 DEF AfterOveruse

LEMMA FeedbackKeeps ==
  ASSUME EstimatorInv, NEW h \in Hypotheses, NEW a \in Nat, NEW probe \in Nat,
         NEW step \in Nat, Feedback(h, a, probe, step)
  PROVE  EstimatorInv'
<1> USE DEF EstimatorInv
<1> DEFINE r == UpdateEstimate(h, a, probe, step)
<1>1. rate' = r /\ rate \in RateType /\ floor \in Nat
  BY DEF Feedback, EstimatorTyped
<1>2. /\ r \in RateType
      /\ r.floored \in {-1, 0, Idle.floored}
      /\ r.floored # -1 => a # 0 \/ r.floored = Idle.floored
      /\ h = "Normal" /\ probe = 0 /\ a # 0 => r.floored = -1
  BY <1>1, UpdateTyped
<1> HIDE DEF r
<1>3. r.estimate \in MinRate .. MaxRate /\ r.estimate \in Nat
  BY <1>2, RatesAreNat DEF RateType
<1>4. started' \in Int
  BY AgesKept DEF Feedback, EstimatorTyped
<1>5. loss' \in LossAfter(r.estimate, probe)
  BY <1>1 DEF Feedback
<1>6. loss' \in LossType /\ (probe # 0 /\ started' > StartupPhase => loss'.state = "DelayBased")
  BY <1>3, <1>4, <1>5, LossAfterTyped DEF EstimatorTyped
<1>7. memory' \in Nat /\ memoryAge' \in Nat
  BY Remembered, AgesKept DEF Feedback, Remember, EstimatorTyped
<1>8. pressed' \in 0 .. DiscreditAfter + 1
  BY AgesKept, RatesAreNat DEF Feedback
<1>9. EstimatorTyped'
  BY <1>1, <1>2, <1>4, <1>6, <1>7, <1>8 DEF Feedback, EstimatorTyped
<1>10. Pressed'
  <2>1. SUFFICES ASSUME r.floored # -1
                 PROVE  a # 0 /\ r.floored <= pressed'
    BY <1>1 DEF Pressed, Feedback
  <2>2. a # 0
    BY <1>2, <2>1, AgesKept DEF Feedback
  <2>3. pressed' = Now(pressed, DiscreditAfter + 1)
    BY <1>2, <2>1, <2>2 DEF Feedback
  <2>4. Now(pressed, DiscreditAfter + 1) \in Nat
    BY AgesKept, RatesAreNat
  <2> QED
    BY <1>2, <2>1, <2>2, <2>3, <2>4, AgesKept
<1>11. ProbeAdopted'
  <2>1. SUFFICES ASSUME probe # 0, started' > StartupPhase
                 PROVE  Published' = rate'.estimate
    BY DEF ProbeAdopted, Feedback
  <2> QED
    BY <1>6, <2>1 DEF Published
<1> QED
  BY <1>9, <1>10, <1>11

LEMMA TickKeeps ==
  ASSUME EstimatorInv, NEW step \in Nat, NEW alrChanges \in BOOLEAN, Tick(step, alrChanges)
  PROVE  EstimatorInv'
<1> USE DEF EstimatorInv
<1> DEFINE u == UpdateEstimate(hypothesis, acked, 0, step)
           r == IF Now(heard, ValidFor + 1) <= ValidFor THEN u ELSE Idle
<1>1. /\ u \in RateType
      /\ u.floored \in {-1, 0, Idle.floored}
      /\ u.floored # -1 => acked # 0 \/ u.floored = Idle.floored
  BY UpdateTyped DEF EstimatorTyped
<1>2. Idle \in RateType
  BY IdleTyped DEF EstimatorTyped
<1>3. rate' = [r EXCEPT !.discredited = FALSE]
  BY DEF Tick
<1>4. /\ r \in RateType
      /\ r.floored \in {-1, 0, Idle.floored}
      /\ r.floored # -1 => acked # 0 \/ r.floored = Idle.floored
  BY <1>1, <1>2
<1> HIDE DEF r, u
<1>5. rate' \in RateType /\ rate'.floored = r.floored
  BY <1>3, <1>4 DEF RateType
<1>6. loss' \in LossType
  BY RatesAreNat DEF Tick, EstimatorTyped, LossType, Unlimited
<1>7. floor' \in Nat /\ memory' \in Nat /\ memoryAge' \in Nat
  BY AgesKept, RatesAreNat DEF Tick, LowerBound, EstimatorTyped
<1>8. EstimatorTyped'
  BY <1>5, <1>6, <1>7, AgesKept DEF Tick, EstimatorTyped
<1>9. Pressed'
  <2>1. Now(pressed, DiscreditAfter + 1) \in Nat
    BY AgesKept, RatesAreNat
  <2> QED
    BY <1>4, <1>5, <2>1, AgesKept DEF Pressed, Tick
<1>10. ProbeAdopted'
  BY DEF Tick, ProbeAdopted
<1> QED
  BY <1>8, <1>9, <1>10

LEMMA EstimatorStep == ASSUME EstimatorInv, EstimatorNext PROVE EstimatorInv'
<1>1. CASE Reports
  BY <1>1, FeedbackKeeps, RatesAreNat DEF Reports
<1>2. CASE Ticks
  BY <1>2, TickKeeps, RatesAreNat DEF Ticks
<1> QED
  BY <1>1, <1>2 DEF EstimatorNext

LEMMA EstimatorStutter == ASSUME EstimatorInv, UNCHANGED estimatorVars PROVE EstimatorInv'
BY DEF EstimatorInv, estimatorVars, EstimatorTyped, Pressed, ProbeAdopted, Published, LossResult

LEMMA EstimatorInvariant == EstimatorSpec => []EstimatorInv
<1>1. EstimatorInit => EstimatorInv
  BY EstimatorInitial
<1>2. EstimatorInv /\ [EstimatorNext]_estimatorVars => EstimatorInv'
  BY EstimatorStep, EstimatorStutter
<1> QED
  BY <1>1, <1>2, PTL DEF EstimatorSpec

(***************************************************************************)
(* The rate control stays within its modes, its bounds and its ages,       *)
(* whatever the detector, the loss controller and the link come up with.   *)
(***************************************************************************)
THEOREM EstimatorTypeCorrect == EstimatorSpec => []EstimatorTypeOK
<1>1. EstimatorInv => EstimatorTypeOK
  BY DEF EstimatorInv, EstimatorTyped, EstimatorTypeOK, RateType, LossType
<1> QED
  BY <1>1, EstimatorInvariant, PTL

(***************************************************************************)
(* ProbeAdopted: past startup the batch that answers a probe leaves the    *)
(* loss controller out of the published estimate, whatever it had learned. *)
(***************************************************************************)
THEOREM ProbesAdopted == EstimatorSpec => []ProbeAdopted
<1>1. EstimatorInv => ProbeAdopted
  BY DEF EstimatorInv
<1> QED
  BY <1>1, EstimatorInvariant, PTL

(***************************************************************************)
(* SpikeSpares: overuse that has not lasted without relief leaves the      *)
(* estimate between the floor of the capacity memory and where it was, by  *)
(* Pressed: what the rate control counts towards giving the floor up never *)
(* runs ahead of the overuse itself.                                       *)
(***************************************************************************)
LEMMA SpikeStep ==
  ASSUME EstimatorInv, NEW h \in Hypotheses, NEW a \in Nat, NEW step \in Nat,
         Feedback(h, a, 0, step), h = "Overuse", pressed' <= DiscreditAfter, ~rate.discredited
  PROVE  /\ rate'.estimate <= rate.estimate
         /\ rate'.estimate >= AtMost(rate.estimate, Beta(floor))
<1> USE DEF EstimatorInv
<1> DEFINE s == Stepped(h)
<1>1. /\ rate \in RateType /\ floor \in Nat
      /\ rate.estimate \in MinRate .. MaxRate /\ rate.estimate \in Nat
  BY RatesAreNat DEF EstimatorTyped, RateType
<1>2. /\ s \in RateType /\ s.estimate = rate.estimate /\ s.discredited = rate.discredited
      /\ s.floored = Idle.floored /\ s.mode = "Decrease"
  BY <1>1, SteppedTyped DEF Transition
<1>3. ~GivesUp(s)
  <2>1. Idle.floored # -1 => Idle.floored <= pressed'
    BY AgesKept DEF Feedback
  <2>2. pressed' \in Int /\ Idle.floored \in Int
    BY <1>1, AgesKept, IdleTyped, RatesAreNat DEF Feedback, RateType
  <2> QED
    BY <1>2, <2>1, <2>2, RatesAreNat DEF GivesUp
<1>4. /\ Decrease(s, a).estimate <= s.estimate
      /\ Decrease(s, a).estimate >= AtMost(s.estimate, Beta(floor))
  BY <1>1, <1>2, <1>3, DecreaseTyped
<1>5. AtMost(rate.estimate, Beta(floor)) <= rate.estimate
  BY <1>1, BetaIsNat DEF AtMost
<1>6. rate' \in {Idle, s, Decrease(s, a)}
  BY <1>2 DEF Feedback, UpdateEstimate, RateControl
<1> HIDE DEF s
<1>7. Idle.estimate = rate.estimate
  BY <1>1, IdleTyped
<1> QED
  BY <1>1, <1>2, <1>4, <1>5, <1>6, <1>7

THEOREM SpikesSpared == EstimatorSpec => SpikeSpares
<1> DEFINE Spared ==
      (event' = "feedback" /\ hypothesis' = "Overuse" /\ pressed' <= DiscreditAfter
         /\ ~rate.discredited)
        => /\ rate'.estimate <= rate.estimate
           /\ rate'.estimate >= AtMost(rate.estimate, Beta(floor))
<1>1. ASSUME EstimatorInv, Reports PROVE Spared
  <2>1. PICK h \in Hypotheses, a \in Delivered \cup {0}, probe \in Probed \cup {0}, step \in Steps :
          Feedback(h, a, probe, step)
    BY <1>1 DEF Reports
  <2>2. a \in Nat /\ step \in Nat
    BY RatesAreNat
  <2>3. event' = "feedback" => probe = 0
    BY <2>1 DEF Feedback
  <2>4. hypothesis' = h
    BY <2>1 DEF Feedback
  <2> QED
    BY <1>1, <2>1, <2>2, <2>3, <2>4, SpikeStep
<1>2. ASSUME Ticks PROVE Spared
  BY <1>2 DEF Ticks, Tick
<1>3. EstimatorInv /\ [EstimatorNext]_estimatorVars => [Spared]_estimatorVars
  BY <1>1, <1>2 DEF EstimatorNext
<1> QED
  BY <1>3, EstimatorInvariant, PTL DEF EstimatorSpec, SpikeSpares
=============================================================================
