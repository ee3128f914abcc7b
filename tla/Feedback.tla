------------------------------ MODULE Feedback ------------------------------
(***************************************************************************)
(* The transport sequence loop: the sender task stamps every datagram      *)
(* (session/src/pipeline.rs), the network loses, delays, reorders and      *)
(* duplicates them, the client's receive task asks for the missing ones    *)
(* and batches arrivals (client-core/src/lib.rs, record_arrival), and the  *)
(* agent joins the batches with its send history to tell the bandwidth     *)
(* estimator what arrived and what was lost (session/src/bwe_driver.rs).   *)
(*                                                                         *)
(* Sequence numbers do not wrap here: fewer than 2^32 datagrams are sent.  *)
(* Time enters in two places: `aged` is the first datagram sent less than  *)
(* the grace period (500 ms) ago, and a 50 ms or 1 s window of the client  *)
(* may have passed at any arrival.                                         *)
(*                                                                         *)
(* Requests go out in the order of their numbers, a gap lying above        *)
(* whatever was asked for before.  So a NACK, and what the client keeps of *)
(* its NACKs, are sets: the first and the oldest are the least.            *)
(***************************************************************************)
EXTENDS Integers, Sequences, FiniteSets, SequencesExt

CONSTANTS
  HistoryCap,   \* SEND_HISTORY_CAP: records the send history keeps
  RingCap,      \* RING_CAP: datagrams kept for retransmission
  NackReach,    \* the widest step forward that is read as a gap (64)
  NackBudget,   \* NACK_BUDGET_PER_SEC
  NackedCap,    \* requested sequence numbers remembered
  MaxBatch,     \* MAX_BATCH: arrivals that force a batch out
  MaxSent,      \* bound: datagrams sent in one behaviour
  MaxControl    \* bound: control messages in transit

ASSUME FeedbackAssumption ==
  /\ HistoryCap \in Nat \ {0} /\ RingCap \in Nat \ {0}
  /\ NackReach \in Nat /\ NackBudget \in Nat /\ NackedCap \in Nat \ {0}
  /\ MaxBatch \in Nat \ {0} /\ MaxSent \in Nat /\ MaxControl \in Nat

VARIABLES
  \* the sender task
  nextSeq,    \* next_seq
  history,    \* SendHistory: records not yet joined, oldest first
  ring,       \* video datagrams kept for retransmission, oldest first
  \* the network
  inTransit,  \* copies that may still arrive: <<seq, 0 or 1 (resent)>>
  uplink,     \* control messages, client to agent
  \* the client's receive task
  highest,    \* highest_seq
  nacked,     \* sequence numbers requested lately
  used,       \* requests made in the current NACK window
  batch,      \* feedback_batch, in order of arrival
  \* the bandwidth driver
  pending,    \* sent records awaiting arrival
  acked,      \* records the estimator was told arrived
  lost,       \* records the estimator was told were lost
  aged,       \* datagrams before this one are past the grace period
  \* history variables
  evicted,    \* records the full send history let go of
  arrived,    \* every sequence number that ever reached the client
  asked,      \* every sequence number ever requested
  told,       \* every sequence number in a batch the agent has joined
  beyond      \* those of them past the last sample of their batch

senderVars == <<nextSeq, history, ring>>
clientVars == <<highest, nacked, used, batch, arrived, asked>>
driverVars == <<pending, acked, lost, told, beyond>>
feedbackVars == <<senderVars, clientVars, driverVars, inTransit, uplink, aged, evicted>>

NoSeq == -1

(* VecDeque::push_back with the oldest popped first when it is full. *)
PushCapped(queue, item, cap) ==
  Append(IF Len(queue) = cap THEN Tail(queue) ELSE queue, item)

(* The n least members of a set of numbers, and the n greatest.            *)
First(n, S) == {s \in S : Cardinality({t \in S : t < s}) < n}
Newest(n, S) == {s \in S : Cardinality({t \in S : t > s}) < n}

-----------------------------------------------------------------------------
(* The sender task. *)

(* A datagram is recorded, stamped and sent; video datagrams (not the      *)
(* padding of a probe) also enter the retransmission ring.                 *)
Send(padding) ==
  /\ nextSeq < MaxSent
  /\ nextSeq' = nextSeq + 1
  /\ history' = PushCapped(history, nextSeq, HistoryCap)
  /\ evicted' = IF Len(history) = HistoryCap THEN evicted \cup {Head(history)} ELSE evicted
  /\ ring' = IF padding THEN ring ELSE PushCapped(ring, nextSeq, RingCap)
  /\ inTransit' = inTransit \cup {<<nextSeq, 0>>}
  /\ UNCHANGED <<clientVars, driverVars, uplink, aged>>

(* Retransmissions of what the ring still holds; the rest is ignored.      *)
Retransmit ==
  /\ uplink # <<>> /\ Head(uplink).type = "Nack"
  /\ uplink' = Tail(uplink)
  /\ inTransit' = inTransit \cup
       {<<seq, 1>> : seq \in Head(uplink).seqs \cap ToSet(ring)}
  /\ UNCHANGED <<senderVars, clientVars, driverVars, aged, evicted>>

(* The grace period of one more datagram has passed. *)
TimePasses ==
  /\ aged < nextSeq
  /\ aged' = aged + 1
  /\ UNCHANGED <<senderVars, clientVars, driverVars, inTransit, uplink, evicted>>

-----------------------------------------------------------------------------
(* The receive task. *)

(* Mutant: the gap is taken to include the datagram that revealed it. *)
JumpedInclusive(seq) ==
  IF highest # NoSeq /\ seq - highest > 1 /\ seq - highest <= NackReach
  THEN highest + 1 .. seq ELSE {}

(* The sequence numbers a datagram jumps over, if it is a gap. *)
Jumped(seq) ==
  IF highest # NoSeq /\ seq - highest > 1 /\ seq - highest <= NackReach
  THEN highest + 1 .. seq - 1 ELSE {}

(* Those not asked for before, as many as the budget allows.               *)
Missing(seq, spent) ==
  First(IF spent > NackBudget THEN 0 ELSE NackBudget - spent, Jumped(seq) \ nacked)

(* record_arrival: note the arrival, ask for what was jumped over, send    *)
(* the batch when it is due or full.                                       *)
RecordArrival(seq, newWindow, due) ==
  LET spent   == IF newWindow /\ Jumped(seq) # {} THEN 0 ELSE used
      missing == Missing(seq, spent)
      samples == Append(batch, seq)
      flushes == due \/ Len(samples) >= MaxBatch
  IN  /\ arrived' = arrived \cup {seq}
      /\ used' = spent + Cardinality(missing)
      /\ asked' = asked \cup missing
      /\ nacked' = Newest(NackedCap, nacked \cup missing)
      /\ highest' = IF seq > highest THEN seq ELSE highest
      /\ batch' = IF flushes THEN <<>> ELSE samples
      /\ uplink' = uplink
           \o (IF missing = {} THEN <<>> ELSE <<[type |-> "Nack", seqs |-> missing]>>)
           \o (IF flushes THEN <<[type |-> "Feedback", seqs |-> samples]>> ELSE <<>>)

Arrive(copy, newWindow, due) ==
  /\ copy \in inTransit
  /\ Len(uplink) <= MaxControl
  /\ inTransit' = inTransit \ {copy}
  /\ RecordArrival(copy[1], newWindow, due)
  /\ UNCHANGED <<senderVars, driverVars, aged, evicted>>

-----------------------------------------------------------------------------
(* The bandwidth driver, from the session's loop. *)

(* Mutant: the record of the last sample itself is left in the history.    *)
TakeCountShort(max) ==
  CHOOSE n \in 0 .. Len(history) :
    /\ \A i \in 1 .. n : history[i] < max
    /\ n < Len(history) => history[n + 1] >= max

(* take_upto(max_seq): the records at the front that are not past max_seq. *)
TakeCount(max) ==
  CHOOSE n \in 0 .. Len(history) :
    /\ \A i \in 1 .. n : history[i] <= max
    /\ n < Len(history) => history[n + 1] > max

(* Mutant: matched records stay pending. *)
StillPendingAll(records, samples) ==
  {seq \in records : seq \notin samples \/ seq >= aged}

(* The records neither matched by this batch nor past the grace period. *)
StillPending(records, samples) ==
  {seq \in records : seq \notin samples /\ seq >= aged}

(* on_feedback joins a batch: the history up to the batch's last sample    *)
(* becomes pending, what the batch reports is told as received, what is    *)
(* still pending past the grace period as lost.                            *)
Join ==
  /\ uplink # <<>> /\ Head(uplink).type = "Feedback"
  /\ LET samples == Head(uplink).seqs
         taken   == TakeCount(Last(samples))
         records == pending \cup {history[i] : i \in 1 .. taken}
     IN  /\ history' = SubSeq(history, taken + 1, Len(history))
         /\ acked' = acked \cup (records \cap ToSet(samples))
         /\ lost' = lost \cup {seq \in records \ ToSet(samples) : seq < aged}
         /\ pending' = StillPending(records, ToSet(samples))
         /\ told' = told \cup ToSet(samples)
         /\ beyond' = beyond \cup {seq \in ToSet(samples) : seq > Last(samples)}
  /\ uplink' = Tail(uplink)
  /\ UNCHANGED <<nextSeq, ring, clientVars, inTransit, aged, evicted>>

-----------------------------------------------------------------------------

FeedbackInit ==
  /\ nextSeq = 0 /\ history = <<>> /\ ring = <<>>
  /\ inTransit = {} /\ uplink = <<>>
  /\ highest = NoSeq /\ nacked = {} /\ used = 0 /\ batch = <<>>
  /\ pending = {} /\ acked = {} /\ lost = {} /\ aged = 0
  /\ evicted = {} /\ arrived = {} /\ asked = {} /\ told = {} /\ beyond = {}

FeedbackNext ==
  \/ \E padding \in BOOLEAN : Send(padding)
  \/ Retransmit
  \/ TimePasses
  \/ \E copy \in inTransit, newWindow, due \in BOOLEAN : Arrive(copy, newWindow, due)
  \/ Join

FeedbackSpec == FeedbackInit /\ [][FeedbackNext]_feedbackVars

-----------------------------------------------------------------------------
(* Properties. *)

Sent == 0 .. nextSeq - 1

(* Every sequence number is one that was stamped, every queue in bounds. *)
FeedbackTypeOK ==
  /\ nextSeq \in 0 .. MaxSent /\ aged \in 0 .. nextSeq
  /\ history \in Seq(Sent) /\ Len(history) <= HistoryCap
  /\ ring \in Seq(Sent) /\ Len(ring) <= RingCap
  /\ nacked \subseteq Sent /\ Cardinality(nacked) <= NackedCap
  /\ batch \in Seq(Sent) /\ Len(batch) < MaxBatch
  /\ inTransit \subseteq Sent \X {0, 1}
  /\ \A i \in DOMAIN uplink :
       \/ uplink[i].type = "Nack" /\ uplink[i].seqs \in (SUBSET Sent) \ {{}}
       \/ uplink[i].type = "Feedback" /\ uplink[i].seqs \in Seq(Sent) \ {<<>>}
  /\ highest \in Sent \cup {NoSeq} /\ used \in 0 .. NackBudget
  /\ pending \subseteq Sent /\ acked \subseteq Sent /\ lost \subseteq Sent
  /\ evicted \subseteq Sent /\ arrived \subseteq Sent
  /\ asked \subseteq Sent /\ beyond \subseteq told /\ told \subseteq Sent

(* The estimator gets one verdict on a datagram at most, and none is       *)
(* forgotten: every datagram sent is in the history, pending, reported     *)
(* received, reported lost, or was evicted from a full history - one of    *)
(* these only.  Retransmissions and duplicate samples change nothing.      *)
OneVerdict ==
  LET places == <<ToSet(history), pending, acked, lost, evicted>>
  IN  /\ UNION ToSet(places) = Sent
      /\ \A i, j \in DOMAIN places : i # j => places[i] \cap places[j] = {}

(* A NACK asks for no datagram that has already arrived (by the time it is *)
(* sent) and for none that was asked for before, although only NackedCap   *)
(* requests are remembered.                                                *)
AskedNow ==
  {uplink'[i].seqs : i \in {j \in DOMAIN uplink' : j > Len(uplink) /\ uplink'[j].type = "Nack"}}

AsksOnlyMissing ==
  \A seqs \in AskedNow : seqs \cap arrived' = {} /\ seqs \cap asked = {}

NacksOnlyMissing == [][AsksOnlyMissing]_feedbackVars

(* No datagram whose arrival a batch has reported is told to the estimator *)
(* as lost afterwards, unless it was a sample beyond the last of its batch *)
(* - the one kind that the join does not reach: it takes the last sample   *)
(* for the highest, and a batch lists samples in the order they arrived    *)
(* in.  See ReportedNeverLost.                                             *)
ReportedLostOnlyBeyond ==
  [][(lost' \ lost) \cap told \subseteq beyond]_feedbackVars

(* The comments of the driver taken at their word: "reordering across      *)
(* feedback batches must not read as loss", and `sent`, the records it is  *)
(* given, "must contain every record with seq <= the batch's highest seq"  *)
(* (session/src/bwe_driver.rs).  serve_inner hands over the records up to  *)
(* the last sample instead.                                                *)
ReportedNeverLost == [][(lost' \ lost) \cap told = {}]_feedbackVars

=============================================================================
