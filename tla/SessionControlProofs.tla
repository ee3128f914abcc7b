------------------------- MODULE SessionControlProofs -------------------------
(***************************************************************************)
(* Proofs about the control loop of a connection, for every bitrate band,  *)
(* host cap and set of requests, and for every bound: what the targets of  *)
(* the encoder stay within, which estimate moves them, what is left in the *)
(* registry, and that a client reading its replies inline reads its own.   *)
(*                                                                         *)
(* TypeInv is ControlTypeOK with what the steps need besides it, in four parts,   *)
(* one lemma each: a client without a connection waits for nothing, a loop *)
(* that is over holds no session, the target lies in its band and below    *)
(* the ceiling (here and not in a later invariant, for the clamps of a     *)
(* tick return what their names say only when their bounds are in order),  *)
(* and no point is left over without a session.  Dialogue is the invariant *)
(* of the request and its reply.  That points are announced in the end is  *)
(* liveness and is model-checked.                                          *)
(***************************************************************************)
EXTENDS SessionControl, SequenceTheorems, TLAPS

(* The control stream and the client at its other end.                     *)
LinkTyped ==
  /\ connected \in BOOLEAN /\ conns \in 1 .. MaxConns
  /\ toAgent \in Seq(StreamMessages) /\ Len(toAgent) <= MaxIn
  /\ toClient \in Seq(Replies \cup Events) /\ Len(toClient) <= MaxOut
  /\ phase \in {"new", "greeted", "synced", "streaming", "gone"}
  /\ awaiting \in Replies \cup {"none"}
  /\ ~ connected => phase = "gone" /\ awaiting = "none"

(* The loop, its session and the registry.                                 *)
LoopTyped ==
  /\ loop \in {"serving", "ended", "returned"} /\ helloed \in BOOLEAN
  /\ session \in Sessions \cup {NoSession} /\ nextId \in 1 .. MaxSessions + 1
  /\ registry \subseteq Sessions /\ abandoned \subseteq Sessions
  /\ loop # "serving" => session = NoSession
  /\ LeaksOnlyOnFailedSend

(* The rates, and the band that the target of a session lies in.           *)
RatesTyped ==
  /\ ceiling \in Rates /\ abr \in BOOLEAN /\ fec \in FecFloor .. FecCap
  /\ est \in Estimates \cup {0} /\ estOf \in Sessions \cup {NoSession}
  /\ driver \in {"none", "new", "running"} /\ rate \in Nat /\ byHand \in BOOLEAN
  /\ session = NoSession <=> driver = "none"
  /\ session = NoSession => rate = NoRate
  /\ session # NoSession =>
       MinRate <= rate /\ rate <= ceiling /\ ceiling <= MaxRate /\ (ceiling > Host => byHand)
  /\ driver = "running" => estOf = session

PointsTyped ==
  /\ published \in 0 .. MaxPoints /\ notified \in BOOLEAN
  /\ point \in 0 .. published /\ announced \in 0 .. published
  /\ session = NoSession => point = 0 /\ ~ notified

TypeInv == LinkTyped /\ LoopTyped /\ RatesTyped /\ PointsTyped

-----------------------------------------------------------------------------
(* Bitrates.                                                               *)

(* Clamp returns a value between its bounds when these are in order. *)
LEMMA ClampBounds ==
  ASSUME NEW x \in Int, NEW low \in Nat, NEW high \in Nat, low <= high
  PROVE  Clamp(x, low, high) \in low .. high
BY DEF Clamp, AtMost, AtLeast

(* The host cap in force lies in the band, configured or not. *)
LEMMA HostInBand == Host \in MinRate .. MaxRate
<1>1. MinRate \in Nat /\ MaxRate \in Nat /\ MinRate <= MaxRate /\ HostCap \in Nat
  BY SessionAssumption
<1>2. CASE HostCap = NoRate
  BY <1>1, <1>2 DEF Host
<1>3. CASE HostCap # NoRate
  <2>1. Clamp(HostCap, MinRate, MaxRate) \in MinRate .. MaxRate
    BY <1>1, ClampBounds
  <2> QED
    BY <2>1, <1>3 DEF Host, InBand
<1> QED
  BY <1>2, <1>3

(* So does every bitrate a client asks for, once it is clamped. *)
LEMMA RequestInBand == ASSUME NEW x \in Nat PROVE InBand(x) \in MinRate .. MaxRate
<1>1. MinRate \in Nat /\ MaxRate \in Nat /\ MinRate <= MaxRate
  BY SessionAssumption
<1> QED
  BY <1>1, ClampBounds DEF InBand

(* resolve_bitrates opens a session inside the band and below its ceiling, *)
(* and puts the ceiling above the host cap only for a fixed rate that the  *)
(* client named.                                                           *)
LEMMA ResolvedRates ==
  ASSUME NEW r \in Nat, NEW a \in BOOLEAN
  PROVE  /\ Resolve(r, a).rate \in MinRate .. MaxRate
         /\ Resolve(r, a).ceiling \in MinRate .. MaxRate
         /\ Resolve(r, a).rate <= Resolve(r, a).ceiling
         /\ Resolve(r, a).ceiling > Host => ~ a /\ r # NoRate
<1>1. /\ MinRate \in Nat /\ MaxRate \in Nat /\ AbrStart \in Nat
      /\ MinRate <= AbrStart /\ AbrStart <= MaxRate
  BY SessionAssumption
<1>2. Host \in MinRate .. MaxRate /\ InBand(r) \in MinRate .. MaxRate
  BY HostInBand, RequestInBand
<1>3. AbrCeiling(r) \in MinRate .. MaxRate /\ AbrCeiling(r) <= Host
  BY <1>1, <1>2 DEF AbrCeiling, AtMost
<1>4. CASE a
  BY <1>1, <1>2, <1>3, <1>4 DEF Resolve, AtMost
<1>5. CASE ~ a
  BY <1>1, <1>2, <1>5 DEF Resolve
<1> QED
  BY <1>4, <1>5

(* Parity stays between its floor and its cap. *)
LEMMA FecInBand ==
  ASSUME NEW ratio \in Nat, NEW loss \in Nat
  PROVE  NextFec(ratio, loss) \in FecFloor .. FecCap
<1>1. FecFloor \in Nat /\ FecCap \in Nat /\ FecFloor <= FecCap
  BY SessionAssumption
<1>2. (ratio * 9) \div 10 \in Int /\ loss * 4 \in Int
  OBVIOUS
<1>3. AtLeast((ratio * 9) \div 10, loss * 4) \in Int
  BY <1>2 DEF AtLeast
<1> QED
  BY <1>1, <1>3, ClampBounds DEF NextFec

(* The target of an estimate is a number: nothing is divided by zero. *)
LEMMA TargetInt ==
  ASSUME NEW estimate \in Nat, NEW ratio \in Nat
  PROVE  Target(estimate, ratio) \in Int
<1>1. (estimate * 90) \div 100 \in Int
  OBVIOUS
<1>2. ((estimate * 90) \div 100) * 1000 \in Int /\ 1000 + ratio \in Nat \ {0}
  BY <1>1
<1> QED
  BY <1>2 DEF Target

(* Switching adaptation off pins a rate below the ceiling. *)
LEMMA PinnedInBand ==
  ASSUME NEW estimate \in Nat, NEW limit \in Nat, MinRate <= limit
  PROVE  Pinned(estimate, limit) \in MinRate .. limit
<1>1. MinRate \in Nat /\ (estimate * 90) \div 100 \in Int
  BY SessionAssumption
<1> QED
  BY <1>1, ClampBounds DEF Pinned

-----------------------------------------------------------------------------
(* Messages.                                                               *)

(* The fields that the message arms read are of the types they expect. *)
LEMMA MessageFields ==
  ASSUME NEW m \in StreamMessages
  PROVE  /\ m.type = "SetBitrate" => m.rate \in Nat
         /\ m.type = "SetAbr" => m.enabled \in BOOLEAN
         /\ m.type = "StartSession" => m.rate \in Nat /\ m.abr \in BOOLEAN
<1>1. Requests \cup {NoRate} \subseteq Nat
  BY SessionAssumption DEF NoRate
<1> QED
  BY <1>1 DEF StreamMessages, SessionRequest

(* Taking the first of the waiting messages leaves a shorter queue. *)
LEMMA NextInQueue ==
  ASSUME toAgent \in Seq(StreamMessages), toAgent # <<>>
  PROVE  /\ Head(toAgent) \in StreamMessages /\ Head(toAgent) = toAgent[1]
         /\ Tail(toAgent) \in Seq(StreamMessages)
         /\ Len(Tail(toAgent)) = Len(toAgent) - 1 /\ Tail(toAgent) # toAgent
OBVIOUS

(* Sending into a stream that has the room keeps its type and its bound. *)
LEMMA SendsTyped ==
  ASSUME LinkTyped, NEW ms \in Seq(Replies \cup Events), Len(toClient) + Len(ms) <= MaxOut, Sends(ms)
  PROVE  /\ toClient' \in Seq(Replies \cup Events) /\ Len(toClient') <= MaxOut
         /\ Len(toClient') <= Len(toClient) + Len(ms)
<1>1. toClient \in Seq(Replies \cup Events) /\ MaxOut \in Nat
  BY SessionAssumption DEF LinkTyped
<1>2. CASE phase = "streaming"
  BY <1>1, <1>2, EmptySeq DEF Sends
<1>3. CASE phase # "streaming"
  <2>1. toClient' = toClient \o ms
    BY <1>3 DEF Sends
  <2> QED
    BY <1>1, <2>1
<1> QED
  BY <1>2, <1>3

(* What a message arm does to the control stream. *)
LEMMA MessageOnStream ==
  ASSUME HandleMessage
  PROVE  /\ toAgent # <<>> /\ toAgent' \in {Tail(toAgent), <<>>}
         /\ UNCHANGED <<connected, conns, phase, awaiting>>
         /\ \/ UNCHANGED toClient
            \/ \E m \in Replies \cup Events : connected /\ Room(1) /\ Sends(<<m>>)
<1> USE DEF NextMessage, Greeted, Taken, connVars, clientVars, Replies, Events, ReturnEarly
<1>1. CASE HelloAccepted
  BY <1>1 DEF HelloAccepted
<1>2. CASE HelloRefused
  BY <1>2 DEF HelloRefused, CleanUp
<1>3. CASE HelloFirst
  BY <1>3 DEF HelloFirst, Answer
<1>4. CASE ListSources \/ Ping \/ StartRefused \/ InputBatch
  BY <1>4 DEF ListSources, Ping, StartRefused, InputBatch, Answer
<1>5. CASE StartSession
  BY <1>5 DEF StartSession
<1>6. CASE StopSession \/ SetBitrate \/ SetAbr \/ OtherMessage
  BY <1>6 DEF StopSession, SetBitrate, SetAbr, OtherMessage
<1> QED
  BY <1>1, <1>2, <1>3, <1>4, <1>5, <1>6 DEF HandleMessage

(* What a tick sends is a sequence of events. *)
LEMMA TickEvents ==
  ASSUME NEW fourth
  PROVE  PointEvent(point) \o StatsEvent(fourth) \in Seq(Replies \cup Events)
<1>1. <<>> \in Seq(Replies \cup Events)
  BY EmptySeq
<1>2. <<"RecoveryPoint">> \in Seq(Replies \cup Events)
  BY DEF Events
<1>3. <<"EncodeStats">> \in Seq(Replies \cup Events)
  BY DEF Events
<1>4. PointEvent(point) \in Seq(Replies \cup Events)
  BY <1>1, <1>2 DEF PointEvent
<1>5. StatsEvent(fourth) \in Seq(Replies \cup Events)
  BY <1>1, <1>3 DEF StatsEvent
<1> QED
  BY <1>4, <1>5, ConcatProperties

(* Emptying either direction of the stream, or taking its head, keeps its  *)
(* type and its bound.                                                     *)
LEMMA StreamShrinks ==
  ASSUME NEW S, NEW q \in Seq(S), NEW n \in Nat, Len(q) <= n, NEW r,
         r = <<>> \/ r = q \/ (q # <<>> /\ r = Tail(q))
  PROVE  r \in Seq(S) /\ Len(r) <= n
<1>1. CASE r = <<>>
  BY <1>1, EmptySeq
<1>2. CASE r = q
  BY <1>2
<1>3. CASE r = Tail(q) /\ q # <<>>
  BY <1>3
<1> QED
  BY <1>1, <1>2, <1>3

(* Every step keeps the stream and the client in their types. *)
LEMMA LinkStep == TypeInv /\ [ControlNext]_controlVars => LinkTyped'
<1> SUFFICES ASSUME TypeInv, [ControlNext]_controlVars PROVE LinkTyped'
  OBVIOUS
<1> USE DEF connVars, clientVars
<1>a. LinkTyped /\ MaxOut \in Nat /\ MaxIn \in Nat
  BY SessionAssumption DEF TypeInv
<1>b. <<>> \in Seq(StreamMessages) /\ <<>> \in Seq(Replies \cup Events) /\ Len(<<>>) = 0
  BY EmptySeq
<1>c. ASSUME UNCHANGED <<connected, conns, phase, awaiting, toAgent>>,
             toClient' \in Seq(Replies \cup Events), Len(toClient') <= MaxOut
      PROVE  LinkTyped'
  BY <1>a, <1>c DEF LinkTyped
<1>d. ASSUME UNCHANGED <<connected, conns, phase, awaiting, toClient>>, toAgent' \in {toAgent, <<>>}
      PROVE  LinkTyped'
  <2>1. toAgent' \in Seq(StreamMessages) /\ Len(toAgent') <= MaxIn
    BY <1>a, <1>d, StreamShrinks DEF LinkTyped
  <2> QED
    BY <1>a, <1>d, <2>1 DEF LinkTyped
<1>1. CASE HandleMessage
  <2>1. /\ toAgent # <<>> /\ toAgent' \in {Tail(toAgent), <<>>}
        /\ UNCHANGED <<connected, conns, phase, awaiting>>
        /\ \/ UNCHANGED toClient
           \/ \E m \in Replies \cup Events : connected /\ Room(1) /\ Sends(<<m>>)
    BY <1>1, MessageOnStream
  <2>2. toAgent' \in Seq(StreamMessages) /\ Len(toAgent') <= MaxIn
    BY <1>a, <2>1, StreamShrinks DEF LinkTyped
  <2>3. toClient' \in Seq(Replies \cup Events) /\ Len(toClient') <= MaxOut
    <3>1. CASE UNCHANGED toClient
      BY <1>a, <3>1 DEF LinkTyped
    <3>2. ASSUME NEW m \in Replies \cup Events, connected, Room(1), Sends(<<m>>)
          PROVE  toClient' \in Seq(Replies \cup Events) /\ Len(toClient') <= MaxOut
      <4>1. <<m>> \in Seq(Replies \cup Events) /\ Len(<<m>>) = 1
        OBVIOUS
      <4> QED
        BY <1>a, <3>2, <4>1, SendsTyped DEF Room
    <3> QED
      BY <2>1, <3>1, <3>2
  <2> QED
    BY <1>a, <2>1, <2>2, <2>3 DEF LinkTyped
<1>2. CASE LoopBreaks
  BY <1>d, <1>2 DEF LoopBreaks, CleanUp
<1>3. CASE AnnounceReady
  <2>1. CASE UNCHANGED toAgent /\ Sends(<<>>)
    <3>1. toClient' \in Seq(Replies \cup Events) /\ Len(toClient') <= MaxOut
      <4>1. Len(toClient) + Len(<<>>) <= MaxOut
        BY <1>a, <1>b DEF LinkTyped
      <4> QED
        BY <1>a, <1>b, <2>1, <4>1, SendsTyped
    <3> QED
      BY <1>3, <1>c, <2>1, <3>1 DEF AnnounceReady
  <2>2. CASE connected /\ UNCHANGED toAgent /\ Sends(<<"RecoveryPoint">>)
    <3>1. <<"RecoveryPoint">> \in Seq(Replies \cup Events) /\ Len(<<"RecoveryPoint">>) = 1
      BY DEF Events
    <3>2. toClient' \in Seq(Replies \cup Events) /\ Len(toClient') <= MaxOut
      BY <1>3, <1>a, <2>2, <3>1, SendsTyped DEF AnnounceReady, Room
    <3> QED
      BY <1>3, <1>c, <2>2, <3>2 DEF AnnounceReady
  <2>3. CASE CleanUp /\ UNCHANGED toClient
    BY <1>3, <1>d, <2>3 DEF AnnounceReady, CleanUp
  <2> QED
    BY <1>3, <2>1, <2>2, <2>3 DEF AnnounceReady
<1>4. ASSUME NEW loss \in Losses, NEW news \in Estimates \cup {NoNews}, NEW fourth \in BOOLEAN,
             Tick(loss, news, fourth)
      PROVE  LinkTyped'
  <2> DEFINE events == PointEvent(point) \o StatsEvent(fourth)
  <2>1. events \in Seq(Replies \cup Events)
    BY TickEvents
  <2>2. CASE (connected \/ events = <<>>) /\ Sends(events) /\ UNCHANGED toAgent
    <3>1. Len(toClient) + Len(events) <= MaxOut
      BY <1>4, <1>a, <2>2, EmptySeq DEF Tick, Room, LinkTyped
    <3>2. toClient' \in Seq(Replies \cup Events) /\ Len(toClient') <= MaxOut
      BY <1>a, <2>1, <2>2, <3>1, SendsTyped
    <3> QED
      BY <1>4, <1>c, <2>2, <3>2 DEF Tick
  <2>3. CASE CleanUp /\ UNCHANGED toClient
    BY <1>4, <1>d, <2>3 DEF Tick, CleanUp
  <2> QED
    BY <1>4, <2>2, <2>3 DEF Tick
<1>5. CASE PublishPoint \/ UNCHANGED controlVars
  BY <1>5, <1>d DEF PublishPoint, controlVars
<1>6. ASSUME NEW m \in StreamMessages, NEW reply \in Replies \cup {"none"}, Ask(m, reply)
      PROVE  LinkTyped'
  BY <1>6, <1>a DEF Ask, LinkTyped
<1>7. CASE ClientAsks
  <2>1. /\ \A b \in BOOLEAN : [type |-> "Hello", supported |-> b] \in StreamMessages
        /\ [type |-> "Ping"] \in StreamMessages /\ [type |-> "ListSources"] \in StreamMessages
        /\ \A r \in SessionRequest : r \in StreamMessages
    BY DEF StreamMessages
  <2> QED
    BY <1>6, <1>7, <2>1 DEF ClientAsks, Replies
<1>8. CASE ClientSends
  BY <1>6, <1>8 DEF ClientSends
<1>9. CASE ClientReads
  <2>1. CASE ClientGone
    <3>1. toClient' \in Seq(Replies \cup Events) /\ Len(toClient') <= MaxOut
      BY <1>a, <2>1, StreamShrinks DEF ClientGone, LinkTyped
    <3> QED
      BY <1>9, <1>a, <2>1, <3>1 DEF ClientReads, ClientGone, LinkTyped
  <2>2. CASE ~ ClientGone
    <3>1. /\ toClient # <<>> /\ awaiting' = "none" /\ UNCHANGED <<connected, conns, toAgent>>
          /\ phase' \in {PhaseAfter(awaiting), phase} /\ toClient' \in {<<>>, Tail(toClient)}
          /\ connected
      BY <1>9, <1>a, <2>2 DEF ClientReads, LinkTyped
    <3>2. toClient' \in Seq(Replies \cup Events) /\ Len(toClient') <= MaxOut
      BY <1>a, <3>1, StreamShrinks DEF LinkTyped
    <3>3. PhaseAfter(awaiting) \in {"new", "greeted", "synced", "streaming", "gone"}
      BY <1>a DEF PhaseAfter, LinkTyped
    <3> QED
      BY <1>a, <3>1, <3>2, <3>3 DEF LinkTyped
  <2> QED
    BY <2>1, <2>2
<1>10. CASE ConnectionCloses
  <2>1. toClient' \in Seq(Replies \cup Events) /\ Len(toClient') <= MaxOut
    BY <1>10, <1>a, StreamShrinks DEF ConnectionCloses, ClientGone, LinkTyped
  <2> QED
    BY <1>10, <1>a, <2>1 DEF ConnectionCloses, ClientGone, LinkTyped
<1>11. CASE NextConnection
  BY <1>11, <1>a, <1>b, SessionAssumption DEF NextConnection, Accept, LinkTyped
<1> QED
  BY <1>1, <1>2, <1>3, <1>4, <1>5, <1>7, <1>8, <1>9, <1>10, <1>11 DEF ControlNext

-----------------------------------------------------------------------------
(* Every step keeps the loop, its session and the registry in theirs: a    *)
(* clean-up takes the entry of the session out, and an early return, which *)
(* does not, notes it as abandoned.                                        *)
LEMMA LoopStep == TypeInv /\ [ControlNext]_controlVars => LoopTyped'
<1> SUFFICES ASSUME TypeInv, [ControlNext]_controlVars PROVE LoopTyped'
  OBVIOUS
<1> USE DEF connVars, clientVars, agentVars, NextMessage, Greeted
<1>a. LoopTyped /\ 0 \notin Sessions
  BY DEF TypeInv, Sessions
<1>b. ASSUME UNCHANGED <<loop, helloed, session, registry, nextId, abandoned>> PROVE LoopTyped'
  BY <1>a, <1>b DEF LoopTyped, LeaksOnlyOnFailedSend
<1>c. ASSUME CleanUp, UNCHANGED nextId PROVE LoopTyped'
  BY <1>a, <1>c
  DEF CleanUp, LocalsDropped, Unregister, LoopTyped, LeaksOnlyOnFailedSend, NoSession
<1>d. ASSUME ReturnEarly(session), UNCHANGED <<registry, nextId>> PROVE LoopTyped'
  BY <1>a, <1>d DEF ReturnEarly, LocalsDropped, LoopTyped, LeaksOnlyOnFailedSend, NoSession
<1>e. ASSUME NEW m, Answer(m) PROVE LoopTyped'
  BY <1>b, <1>d, <1>e DEF Answer
<1>1. CASE HelloAccepted
  <2>1. CASE ReturnEarly(session) /\ UNCHANGED <<registry, nextId>>
    BY <1>d, <2>1
  <2>2. CASE helloed' = TRUE /\ UNCHANGED <<loop, session, agentVars>>
    BY <1>a, <2>2 DEF LoopTyped, LeaksOnlyOnFailedSend
  <2> QED
    BY <1>1, <2>1, <2>2 DEF HelloAccepted
<1>2. CASE HelloRefused
  BY <1>2, <1>c, <1>d DEF HelloRefused
<1>3. CASE HelloFirst \/ ListSources \/ Ping \/ StartRefused
  BY <1>3, <1>e DEF HelloFirst, ListSources, Ping, StartRefused
<1>4. CASE StartSession
  <2>1. /\ session = NoSession /\ loop = "serving" /\ nextId \in Sessions
        /\ nextId' = nextId + 1 /\ nextId' \in 1 .. MaxSessions + 1
        /\ registry' = registry \cup {nextId}
    BY <1>4, <1>a, SessionAssumption DEF StartSession, LoopTyped, Sessions
  <2>2. CASE session' = nextId /\ UNCHANGED <<loop, helloed, abandoned>>
    BY <1>a, <2>1, <2>2 DEF LoopTyped, LeaksOnlyOnFailedSend, NoSession
  <2>3. CASE ReturnEarly(nextId)
    BY <1>a, <2>1, <2>3 DEF ReturnEarly, LocalsDropped, LoopTyped, LeaksOnlyOnFailedSend, NoSession
  <2> QED
    BY <1>4, <2>2, <2>3 DEF StartSession
<1>5. CASE StopSession
  BY <1>5, <1>a DEF StopSession, Unregister, LoopTyped, LeaksOnlyOnFailedSend, NoSession
<1>6. CASE SetBitrate \/ SetAbr \/ OtherMessage
  BY <1>6, <1>b DEF SetBitrate, SetAbr, OtherMessage
<1>7. CASE InputBatch
  BY <1>7, <1>b, <1>e DEF InputBatch
<1>8. CASE LoopBreaks
  BY <1>8, <1>c DEF LoopBreaks
<1>9. CASE AnnounceReady
  BY <1>9, <1>b, <1>c DEF AnnounceReady
<1>10. ASSUME NEW loss \in Losses, NEW news \in Estimates \cup {NoNews}, NEW fourth \in BOOLEAN,
              Tick(loss, news, fourth)
       PROVE  LoopTyped'
  BY <1>10, <1>b, <1>c DEF Tick
<1>11. CASE PublishPoint \/ ClientAsks \/ ClientSends \/ ClientReads \/ ConnectionCloses \/ UNCHANGED controlVars
  BY <1>11, <1>b DEF PublishPoint, ClientAsks, ClientSends, ClientReads, ConnectionCloses, Ask, controlVars
<1>12. CASE NextConnection
  BY <1>12, <1>a
  DEF NextConnection, Accept, LocalsDropped, LoopTyped, LeaksOnlyOnFailedSend, NoSession
<1> QED
  BY <1>1, <1>2, <1>3, <1>4, <1>5, <1>6, <1>7, <1>8, <1>9, <1>10, <1>11, <1>12
  DEF ControlNext, HandleMessage

(* Without points there is none to announce. *)
LEMMA PointsReset ==
  ASSUME published' = 0, point' = 0, announced' = 0, notified' = FALSE
  PROVE  PointsTyped'
<1>1. notified' \in BOOLEAN /\ ~ notified'
  BY Zenon
<1>2. MaxPoints \in Nat
  BY SessionAssumption
<1>3. published' \in 0 .. MaxPoints /\ point' \in 0 .. published' /\ announced' \in 0 .. published'
  BY <1>2
<1> QED
  BY <1>1, <1>3 DEF PointsTyped

(* Dropping the locals of the loop resets rates and points. *)
LEMMA LocalsReset == ASSUME LocalsDropped PROVE RatesTyped' /\ PointsTyped'
<1>1. MaxRate \in Nat \ {0} /\ FecFloor \in FecFloor .. FecCap /\ MaxPoints \in Nat
  BY SessionAssumption
<1>2. RatesTyped'
  <2>1. /\ abr' \in BOOLEAN /\ byHand' \in BOOLEAN
        /\ session' = NoSession /\ driver' = "none" /\ rate' = NoRate
        /\ estOf' = NoSession /\ est' = 0
    BY DEF LocalsDropped
  <2>2. ceiling' \in Rates /\ fec' \in FecFloor .. FecCap
    BY <1>1 DEF LocalsDropped, Rates
  <2> QED
    BY <2>1, <2>2 DEF RatesTyped, NoRate
<1>3. PointsTyped'
  BY PointsReset DEF LocalsDropped
<1> QED
  BY <1>2, <1>3

(* Every step keeps the recovery points in their types. *)
LEMMA PointsStep == TypeInv /\ [ControlNext]_controlVars => PointsTyped'
<1> SUFFICES ASSUME TypeInv, [ControlNext]_controlVars PROVE PointsTyped'
  OBVIOUS
<1> USE DEF pointVars
<1>a. PointsTyped
  BY DEF TypeInv
<1>b. ASSUME UNCHANGED <<pointVars, session>> PROVE PointsTyped'
  BY <1>a, <1>b DEF PointsTyped
<1>c. ASSUME LocalsDropped PROVE PointsTyped'
  BY <1>c, LocalsReset
<1>d. ASSUME NEW m, Answer(m) PROVE PointsTyped'
  BY <1>b, <1>c, <1>d DEF Answer, ReturnEarly
<1>1. CASE HelloAccepted \/ HelloRefused
  BY <1>1, <1>b, <1>c DEF HelloAccepted, HelloRefused, CleanUp, ReturnEarly
<1>2. CASE HelloFirst \/ ListSources \/ Ping \/ StartRefused
  BY <1>2, <1>d DEF HelloFirst, ListSources, Ping, StartRefused
<1>3. CASE StartSession
  BY <1>3, <1>c, PointsReset DEF StartSession, ReturnEarly
<1>4. CASE StopSession
  BY <1>4, PointsReset DEF StopSession
<1>5. CASE SetBitrate \/ SetAbr \/ OtherMessage
  BY <1>5, <1>b DEF SetBitrate, SetAbr, OtherMessage
<1>6. CASE InputBatch
  BY <1>6, <1>b, <1>d DEF InputBatch
<1>7. CASE LoopBreaks
  BY <1>7, <1>c DEF LoopBreaks, CleanUp
<1>8. CASE AnnounceReady
  <2>1. CASE /\ notified' = FALSE /\ point' = 0 /\ UNCHANGED published
             /\ announced' = IF point = 0 THEN announced ELSE point
    <3>1. notified' \in BOOLEAN /\ ~ notified'
      BY <2>1, Zenon
    <3> QED
      BY <1>a, <2>1, <3>1 DEF PointsTyped
  <2> QED
    BY <1>8, <1>c, <2>1 DEF AnnounceReady, CleanUp
<1>9. ASSUME NEW loss \in Losses, NEW news \in Estimates \cup {NoNews}, NEW fourth \in BOOLEAN,
             Tick(loss, news, fourth)
      PROVE  PointsTyped'
  <2>1. CASE /\ point' = 0 /\ announced' \in {announced, point}
             /\ UNCHANGED <<published, notified, session>>
    BY <1>a, <2>1 DEF PointsTyped
  <2> QED
    BY <1>9, <1>c, <2>1 DEF Tick, CleanUp
<1>10. CASE PublishPoint
  BY <1>10, <1>a, SessionAssumption DEF PublishPoint, PointsTyped
<1>11. CASE ClientAsks \/ ClientSends \/ ClientReads \/ ConnectionCloses \/ UNCHANGED controlVars
  BY <1>11, <1>b DEF ClientAsks, ClientSends, ClientReads, ConnectionCloses, Ask, controlVars
<1>12. CASE NextConnection
  BY <1>12, <1>c DEF NextConnection
<1> QED
  BY <1>1, <1>2, <1>3, <1>4, <1>5, <1>6, <1>7, <1>8, <1>9, <1>10, <1>11, <1>12
  DEF ControlNext, HandleMessage

-----------------------------------------------------------------------------
(* A tick keeps the target inside the band and under the ceiling. *)
LEMMA AdaptKeepsRates ==
  ASSUME RatesTyped, LoopTyped, UNCHANGED session,
         NEW loss \in Losses, NEW news \in Estimates \cup {NoNews}, Adapt(loss, news)
  PROVE  RatesTyped'
<1>1. CASE session = NoSession /\ UNCHANGED rateVars
  BY <1>1 DEF RatesTyped, rateVars
<1>2. CASE /\ session # NoSession /\ news \in Polled
           /\ driver' = "running"
           /\ est' = IF news = NoNews THEN est ELSE news
           /\ estOf' = IF news = NoNews THEN estOf ELSE session
           /\ fec' = NextFec(fec, loss)
           /\ rate' = IF abr /\ est' > 0 THEN Clamp(Target(est', fec'), MinRate, ceiling) ELSE rate
           /\ UNCHANGED <<ceiling, abr, byHand>>
  <2>1. Estimates \subseteq Nat \ {0} /\ Losses \subseteq Nat /\ FecFloor \in Nat /\ FecCap \in Nat
        /\ MinRate \in Nat
    BY SessionAssumption
  <2>2. est' \in Estimates \cup {0} /\ est' \in Nat
    BY <1>2, <2>1 DEF RatesTyped
  <2>3. fec' \in FecFloor .. FecCap /\ fec' \in Nat
    <3>1. fec \in Nat /\ loss \in Nat
      BY <2>1 DEF RatesTyped
    <3> QED
      BY <1>2, <2>1, <3>1, FecInBand
  <2>4. ceiling \in Nat /\ MinRate <= ceiling
    BY <1>2, <2>1 DEF RatesTyped, Rates
  <2>5. Clamp(Target(est', fec'), MinRate, ceiling) \in MinRate .. ceiling
    BY <2>1, <2>2, <2>3, <2>4, TargetInt, ClampBounds
  <2>6. rate' \in Nat /\ MinRate <= rate' /\ rate' <= ceiling
    BY <1>2, <2>1, <2>4, <2>5 DEF RatesTyped
  <2>7. estOf' = session
    <3>1. CASE driver = "running"
      BY <1>2, <3>1 DEF RatesTyped
    <3>2. CASE driver # "running"
      <4>1. driver = "new"
        BY <1>2, <3>2 DEF RatesTyped
      <4>2. news # NoNews
        BY <1>2, <2>1, <4>1 DEF Polled, NoNews
      <4> QED
        BY <1>2, <4>2
    <3> QED
      BY <3>1, <3>2
  <2>8. session \in Sessions
    BY <1>2 DEF LoopTyped
  <2> QED
    BY <1>2, <2>2, <2>3, <2>6, <2>7, <2>8 DEF RatesTyped
<1> QED
  BY <1>1, <1>2 DEF Adapt

(* Every step keeps the rates in theirs. *)
LEMMA RatesStep == TypeInv /\ [ControlNext]_controlVars => RatesTyped'
<1> SUFFICES ASSUME TypeInv, [ControlNext]_controlVars PROVE RatesTyped'
  OBVIOUS
<1>a. RatesTyped /\ LoopTyped
  BY DEF TypeInv
<1>h. /\ toAgent # <<>> => Head(toAgent) \in StreamMessages
  BY NextInQueue DEF TypeInv, LinkTyped
<1>k. MinRate \in Nat \ {0} /\ MaxRate \in Nat /\ MinRate <= MaxRate
  BY SessionAssumption
<1>b. ASSUME UNCHANGED <<rateVars, session>> PROVE RatesTyped'
  BY <1>a, <1>b DEF RatesTyped, rateVars
<1>c. ASSUME LocalsDropped PROVE RatesTyped'
  BY <1>c, LocalsReset
<1>d. ASSUME NEW m, Answer(m) PROVE RatesTyped'
  BY <1>b, <1>c, <1>d DEF Answer, ReturnEarly
<1>1. CASE HelloAccepted \/ HelloRefused
  BY <1>1, <1>b, <1>c DEF HelloAccepted, HelloRefused, CleanUp, ReturnEarly
<1>2. CASE HelloFirst \/ ListSources \/ Ping \/ StartRefused
  BY <1>2, <1>d DEF HelloFirst, ListSources, Ping, StartRefused
<1>3. CASE StartSession
  <2> DEFINE request == Head(toAgent)
             rates == Resolve(request.rate, request.abr)
  <2>1. CASE ReturnEarly(nextId)
    BY <1>c, <2>1 DEF ReturnEarly
  <2>2. CASE /\ session' = nextId
             /\ ceiling' = rates.ceiling /\ rate' = rates.rate
             /\ abr' = request.abr /\ driver' = "new"
             /\ byHand' = (~request.abr /\ request.rate # NoRate)
             /\ UNCHANGED <<fec, est, estOf>>
    <3>1. request.rate \in Nat /\ request.abr \in BOOLEAN
      BY <1>3, <1>h, MessageFields DEF StartSession, Greeted, NextMessage
    <3>2. /\ rates.rate \in MinRate .. MaxRate /\ rates.ceiling \in MinRate .. MaxRate
          /\ rates.rate <= rates.ceiling
          /\ rates.ceiling > Host => ~ request.abr /\ request.rate # NoRate
      BY <3>1, ResolvedRates
    <3> HIDE DEF rates, request
    <3>3. ceiling' \in Rates /\ rate' \in Nat /\ MinRate <= rate' /\ rate' <= ceiling'
          /\ ceiling' <= MaxRate
      BY <1>k, <2>2, <3>2 DEF Rates
    <3>4. abr' \in BOOLEAN /\ byHand' \in BOOLEAN /\ (ceiling' > Host => byHand')
      BY <2>2, <3>1, <3>2, Zenon
    <3>5. session' # NoSession
      BY <1>a, <2>2, SessionAssumption DEF LoopTyped, NoSession
    <3> QED
      BY <1>a, <2>2, <3>3, <3>4, <3>5 DEF RatesTyped
  <2> QED
    BY <1>3, <2>1, <2>2 DEF StartSession
<1>4. CASE StopSession
  <2>1. byHand' \in BOOLEAN
    BY <1>4, Zenon DEF StopSession
  <2> QED
    BY <1>4, <1>a, <2>1 DEF StopSession, RatesTyped, NoRate
<1>5. CASE SetBitrate
  <2>1. CASE session = NoSession /\ UNCHANGED <<rate, ceiling, byHand>>
    BY <1>5, <1>b, <2>1 DEF SetBitrate, rateVars
  <2>2. CASE session # NoSession /\ rate' = InBand(Head(toAgent).rate)
             /\ ceiling' = InBand(Head(toAgent).rate) /\ byHand' = TRUE
    <3>1. Head(toAgent).rate \in Nat
      BY <1>5, <1>h, MessageFields DEF SetBitrate, Greeted, NextMessage
    <3>2. rate' \in MinRate .. MaxRate /\ ceiling' = rate'
      BY <2>2, <3>1, RequestInBand
    <3>3. byHand' \in BOOLEAN /\ byHand'
      BY <2>2, Zenon
    <3>4. ceiling' \in Rates /\ rate' \in Nat /\ MinRate <= rate' /\ rate' <= ceiling'
          /\ ceiling' <= MaxRate
      BY <1>k, <3>2 DEF Rates
    <3> QED
      BY <1>5, <1>a, <2>2, <3>3, <3>4 DEF SetBitrate, RatesTyped
  <2> QED
    BY <1>5, <2>1, <2>2 DEF SetBitrate
<1>6. CASE SetAbr
  <2>1. Head(toAgent).enabled \in BOOLEAN
    BY <1>6, <1>h, MessageFields DEF SetAbr, Greeted, NextMessage
  <2>2. CASE session # NoSession /\ ~ Head(toAgent).enabled
    <3>1. est \in Nat /\ ceiling \in Nat /\ MinRate <= ceiling
      BY <1>a, <1>k, <2>2, SessionAssumption DEF RatesTyped, Rates
    <3>2. rate' \in MinRate .. ceiling
      BY <1>6, <2>2, <3>1, PinnedInBand DEF SetAbr
    <3> QED
      BY <1>6, <1>a, <1>k, <2>1, <2>2, <3>1, <3>2 DEF SetAbr, RatesTyped
  <2>3. CASE ~ (session # NoSession /\ ~ Head(toAgent).enabled)
    BY <1>6, <1>a, <2>1, <2>3 DEF SetAbr, RatesTyped
  <2> QED
    BY <2>2, <2>3
<1>7. CASE InputBatch \/ OtherMessage
  BY <1>7, <1>b, <1>d DEF InputBatch, OtherMessage
<1>8. CASE LoopBreaks
  BY <1>8, <1>c DEF LoopBreaks, CleanUp
<1>9. CASE AnnounceReady
  BY <1>9, <1>b, <1>c DEF AnnounceReady, CleanUp
<1>10. ASSUME NEW loss \in Losses, NEW news \in Estimates \cup {NoNews}, NEW fourth \in BOOLEAN,
              Tick(loss, news, fourth)
       PROVE  RatesTyped'
  <2>1. CASE Adapt(loss, news) /\ UNCHANGED session
    BY <1>a, <2>1, AdaptKeepsRates
  <2> QED
    BY <1>10, <1>c, <2>1 DEF Tick, CleanUp
<1>11. CASE PublishPoint \/ ClientAsks \/ ClientSends \/ ClientReads \/ ConnectionCloses \/ UNCHANGED controlVars
  BY <1>11, <1>b DEF PublishPoint, ClientAsks, ClientSends, ClientReads, ConnectionCloses, Ask, controlVars
<1>12. CASE NextConnection
  BY <1>12, <1>c DEF NextConnection
<1> QED
  BY <1>1, <1>2, <1>3, <1>4, <1>5, <1>6, <1>7, <1>8, <1>9, <1>10, <1>11, <1>12
  DEF ControlNext, HandleMessage

-----------------------------------------------------------------------------
(* TypeInv holds when the first connection starts. *)
LEMMA TypeInit == ControlInit => TypeInv
<1> SUFFICES ASSUME ControlInit PROVE TypeInv
  OBVIOUS
<1>1. LinkTyped
  BY SessionAssumption, EmptySeq DEF ControlInit, LinkTyped
<1>2. /\ helloed \in BOOLEAN /\ abr \in BOOLEAN
      /\ byHand \in BOOLEAN /\ notified \in BOOLEAN /\ ~ notified
  BY Zenon DEF ControlInit
<1>3. LoopTyped
  BY <1>2, SessionAssumption DEF ControlInit, LoopTyped, LeaksOnlyOnFailedSend
<1>4. RatesTyped
  <2>1. ceiling \in Rates /\ fec \in FecFloor .. FecCap
    BY SessionAssumption DEF ControlInit, Rates
  <2> QED
    BY <1>2, <2>1 DEF ControlInit, RatesTyped, NoRate
<1>5. PointsTyped
  BY <1>2, SessionAssumption DEF ControlInit, PointsTyped
<1> QED
  BY <1>1, <1>3, <1>4, <1>5 DEF TypeInv

(* TypeInv is inductive. *)
LEMMA TypeStep == TypeInv /\ [ControlNext]_controlVars => TypeInv'
BY LinkStep, LoopStep, RatesStep, PointsStep DEF TypeInv

(* TypeInv says what ControlTypeOK says. *)
LEMMA TypeImplies == TypeInv => ControlTypeOK
<1> SUFFICES ASSUME TypeInv PROVE ControlTypeOK
  OBVIOUS
<1>1. MinRate \in Nat \ {0}
  BY SessionAssumption
<1>2. session = NoSession <=> rate = NoRate
  BY <1>1 DEF TypeInv, RatesTyped, NoRate
<1> QED
  BY <1>2 DEF TypeInv, LinkTyped, LoopTyped, RatesTyped, PointsTyped, ControlTypeOK

(* TypeInv holds in every reachable state. *)
LEMMA Typed == ControlSpec => []TypeInv
BY TypeInit, TypeStep, PTL DEF ControlSpec

(* Every variable of the control loop keeps its type, the stream its       *)
(* bounds, and a session always has a driver and a rate.                   *)
THEOREM TypeCorrect == ControlSpec => []ControlTypeOK
BY Typed, TypeImplies, PTL

(* A session's target stays between the floor and the ceiling in force, so *)
(* u32::clamp in the tick never finds its bounds crossed, and only a rate  *)
(* the client has set itself exceeds the configured host cap.              *)
THEOREM TargetsInBand == ControlSpec => []RateBounded
<1>1. TypeInv => RateBounded
  <2> SUFFICES ASSUME TypeInv, session # NoSession
               PROVE  /\ MinRate <= rate /\ rate <= ceiling /\ ceiling <= MaxRate
                      /\ rate > Host => byHand
    BY DEF RateBounded
  <2>1. /\ rate \in Nat /\ ceiling \in Rates
        /\ MinRate <= rate /\ rate <= ceiling /\ ceiling <= MaxRate /\ (ceiling > Host => byHand)
    BY DEF TypeInv, RatesTyped
  <2>2. rate > Host => ceiling > Host
    BY <2>1, HostInBand, SessionAssumption DEF Rates
  <2> QED
    BY <2>1, <2>2
<1> QED
  BY <1>1, Typed, PTL

(* What stays in the registry besides the session of the loop are sessions *)
(* whose loop a failed send ended: no other path out of serve_inner, or    *)
(* out of a session, leaves its entry behind.                              *)
THEOREM RegistryLeaks == ControlSpec => []LeaksOnlyOnFailedSend
<1>1. TypeInv => LeaksOnlyOnFailedSend
  BY DEF TypeInv, LoopTyped
<1> QED
  BY <1>1, Typed, PTL

(* Only the arms of messages, which take one off the queue, and the tick    *)
(* move the target of a session that stays.                                 *)
LEMMA OnlyTicksMoveRate ==
  TypeInv /\ [ControlNext]_controlVars =>
    (session # NoSession /\ session' = session /\ toAgent' = toAgent /\ rate' # rate
       => estOf' = session)
<1> SUFFICES ASSUME TypeInv, [ControlNext]_controlVars, session # NoSession, session' = session,
                    toAgent' = toAgent, rate' # rate
             PROVE  estOf' = session
  OBVIOUS
<1>a. toAgent \in Seq(StreamMessages)
  BY DEF TypeInv, LinkTyped
<1>b. ~ LocalsDropped
  BY DEF LocalsDropped
<1>1. CASE HandleMessage
  <2>1. toAgent # <<>> /\ toAgent' \in {Tail(toAgent), <<>>}
    BY <1>1, MessageOnStream
  <2> QED
    BY <1>a, <2>1, NextInQueue
<1>2. CASE LoopBreaks \/ AnnounceReady
  BY <1>2, <1>b DEF LoopBreaks, AnnounceReady, CleanUp, rateVars
<1>3. ASSUME NEW loss \in Losses, NEW news \in Estimates \cup {NoNews}, NEW fourth \in BOOLEAN,
             Tick(loss, news, fourth)
      PROVE  estOf' = session
  <2>1. driver' = "running"
    BY <1>3, <1>b DEF Tick, CleanUp, Adapt
  <2>2. RatesTyped'
    BY RatesStep
  <2> QED
    BY <2>1, <2>2 DEF RatesTyped
<1>4. CASE PublishPoint \/ ClientAsks \/ ClientSends \/ ClientReads \/ ConnectionCloses \/ UNCHANGED controlVars
  BY <1>4 DEF PublishPoint, ClientAsks, ClientSends, ClientReads, ConnectionCloses, Ask, controlVars, rateVars
<1>5. CASE NextConnection
  BY <1>5, <1>b DEF NextConnection
<1> QED
  BY <1>1, <1>2, <1>3, <1>4, <1>5 DEF ControlNext

(* A tick that moves a session's target does it by an estimate of that     *)
(* session, never by the last_estimate_bps that an earlier one left: the   *)
(* first poll of its driver replaces it before it is used.                 *)
THEOREM EstimatesAreOwn == ControlSpec => TicksUseOwnEstimate
<1>1. TypeInv /\ [ControlNext]_controlVars =>
        [session # NoSession /\ session' = session /\ toAgent' = toAgent /\ rate' # rate
           => estOf' = session]_controlVars
  BY OnlyTicksMoveRate
<1> QED
  BY <1>1, Typed, PTL DEF ControlSpec, TicksUseOwnEstimate

-----------------------------------------------------------------------------
(* The dialogue of a client that still reads its replies inline: it has    *)
(* nothing under way; or its request is the one message on the stream; or  *)
(* the answer is the first message on its way back, and only behind        *)
(* SessionStarted, with the session on, does anything follow it.           *)
RequestFor(reply) ==
  CASE reply = "HelloAck" -> "Hello"
    [] reply = "Pong" -> "Ping"
    [] reply = "Sources" -> "ListSources"
    [] reply = "SessionStarted" -> "StartSession"
    [] OTHER -> "none"

Quiet == awaiting = "none" /\ toAgent = <<>> /\ toClient = <<>> /\ session = NoSession

Asked ==
  /\ awaiting # "none" /\ Len(toAgent) = 1 /\ toAgent[1].type = RequestFor(awaiting)
  /\ toClient = <<>> /\ session = NoSession

Answered ==
  /\ awaiting # "none" /\ toAgent = <<>>
  /\ toClient # <<>> /\ toClient[1] \in {awaiting, "Error"}
  /\ IF session = NoSession
     THEN Len(toClient) = 1
     ELSE awaiting = "SessionStarted" /\ toClient[1] = "SessionStarted"

Inline == phase \notin {"streaming", "gone"}

Dialogue == IF Inline THEN Quiet \/ Asked \/ Answered ELSE awaiting = "none"

(* Appending to a sequence that is not empty leaves its first element. *)
LEMMA FirstStays ==
  ASSUME NEW S, NEW q \in Seq(S), NEW r \in Seq(S), q # <<>>
  PROVE  q \o r # <<>> /\ (q \o r)[1] = q[1]
OBVIOUS

(* A sequence of one element has nothing after the first. *)
LEMMA TailOfOne ==
  ASSUME NEW S, NEW q \in Seq(S), Len(q) = 1
  PROVE  Tail(q) = <<>>
<1>1. Tail(q) \in Seq(S) /\ Len(Tail(q)) = 0
  OBVIOUS
<1> QED
  BY <1>1, EmptySeq

(* Appending nothing changes nothing. *)
LEMMA NothingAdded == ASSUME NEW S, NEW q \in Seq(S) PROVE q \o <<>> = q
OBVIOUS

(* A message sent for the only request under way becomes the answer. *)
LEMMA AnswersAreReplies ==
  ASSUME TypeInv, Inline, Asked, NEW m \in {awaiting, "Error"},
         Sends(<<m>>), toAgent' \in {Tail(toAgent), <<>>}, UNCHANGED clientVars,
         session' = NoSession \/ (m = awaiting /\ m = "SessionStarted")
  PROVE  Answered'
<1>1. toClient' = <<m>>
  BY DEF Sends, Inline, Asked
<1>2. toAgent' = <<>>
  BY TailOfOne DEF Asked, TypeInv, LinkTyped
<1> QED
  BY <1>1, <1>2 DEF Asked, Answered, clientVars

(* Every arm that can take that request sends the reply it asks for, or an *)
(* error; the other arms are for messages that an inline client does not   *)
(* send.                                                                   *)
LEMMA RequestAnswered ==
  ASSUME TypeInv, Inline, Dialogue, HandleMessage
  PROVE  Answered'
<1>a. connected /\ toAgent # <<>> /\ awaiting \in Replies \cup {"none"} /\ toAgent \in Seq(StreamMessages)
  BY MessageOnStream DEF TypeInv, LinkTyped, Inline
<1>b. Asked /\ Head(toAgent).type = RequestFor(awaiting)
  BY <1>a DEF Dialogue, Quiet, Asked, Answered
<1>c. UNCHANGED clientVars /\ toAgent' \in {Tail(toAgent), <<>>}
  BY MessageOnStream DEF clientVars
<1>d. session = NoSession
  BY <1>b DEF Asked
<1>e. ASSUME NEW m \in {awaiting, "Error"}, Answer(m) PROVE Answered'
  BY <1>a, <1>b, <1>c, <1>d, <1>e, AnswersAreReplies DEF Answer
<1>f. /\ RequestFor(awaiting) \in {"Hello", "Ping", "ListSources", "StartSession"}
      /\ RequestFor(awaiting) = "Hello" => awaiting = "HelloAck"
      /\ RequestFor(awaiting) = "Ping" => awaiting = "Pong"
      /\ RequestFor(awaiting) = "ListSources" => awaiting = "Sources"
      /\ RequestFor(awaiting) = "StartSession" => awaiting = "SessionStarted"
  BY <1>a, <1>b DEF Asked, RequestFor, Replies
<1> USE DEF NextMessage, Greeted
<1>1. CASE HelloAccepted
  <2>1. awaiting = "HelloAck"
    BY <1>1, <1>b, <1>f DEF HelloAccepted
  <2>2. Sends(<<"HelloAck">>) /\ session' = NoSession
    BY <1>1, <1>a, <1>d DEF HelloAccepted
  <2> QED
    BY <1>b, <1>c, <2>1, <2>2, AnswersAreReplies
<1>2. CASE HelloRefused
  <2>1. Sends(<<"Error">>) /\ session' = NoSession
    BY <1>2, <1>a DEF HelloRefused, CleanUp, LocalsDropped
  <2> QED
    BY <1>b, <1>c, <2>1, AnswersAreReplies
<1>3. CASE HelloFirst
  BY <1>3, <1>e DEF HelloFirst
<1>4. CASE ListSources
  BY <1>4, <1>b, <1>e, <1>f DEF ListSources
<1>5. CASE Ping
  BY <1>5, <1>b, <1>e, <1>f DEF Ping
<1>6. CASE StartRefused
  BY <1>6, <1>e DEF StartRefused
<1>7. CASE StartSession
  <2>1. awaiting = "SessionStarted"
    BY <1>7, <1>b, <1>f DEF StartSession
  <2>2. Sends(<<"SessionStarted">>)
    BY <1>7, <1>a DEF StartSession
  <2> QED
    BY <1>b, <1>c, <2>1, <2>2, AnswersAreReplies
<1>8. CASE StopSession \/ SetBitrate \/ SetAbr \/ InputBatch \/ OtherMessage
  BY <1>8, <1>b, <1>f DEF StopSession, SetBitrate, SetAbr, InputBatch, OtherMessage
<1> QED
  BY <1>1, <1>2, <1>3, <1>4, <1>5, <1>6, <1>7, <1>8 DEF HandleMessage

(* What the loop pushes on its own goes behind the answer, or is nothing.  *)
LEMMA PushedBehind ==
  ASSUME TypeInv, Inline, Dialogue, NEW ms \in Seq(Replies \cup Events), Sends(ms),
         session = NoSession => ms = <<>>, UNCHANGED <<toAgent, clientVars, session>>
  PROVE  Dialogue'
<1>a. toClient \in Seq(Replies \cup Events)
  BY DEF TypeInv, LinkTyped
<1>b. toClient' = toClient \o ms /\ Inline'
  BY DEF Sends, Inline, clientVars
<1>1. CASE session = NoSession
  <2>1. toClient' = toClient
    BY <1>1, <1>a, <1>b, NothingAdded
  <2> QED
    BY <1>b, <2>1 DEF Dialogue, Quiet, Asked, Answered, clientVars
<1>2. CASE session # NoSession
  <2>1. Answered
    BY <1>2 DEF Dialogue, Quiet, Asked
  <2>2. toClient' # <<>> /\ toClient'[1] = toClient[1]
    BY <1>a, <1>b, <2>1, FirstStays DEF Answered
  <2> QED
    BY <1>2, <1>b, <2>1, <2>2 DEF Dialogue, Answered, clientVars
<1> QED
  BY <1>1, <1>2

(* Every step keeps the dialogue in order. *)
LEMMA DialogueStep == TypeInv /\ Dialogue /\ [ControlNext]_controlVars => Dialogue'
<1> SUFFICES ASSUME TypeInv, Dialogue, [ControlNext]_controlVars PROVE Dialogue'
  OBVIOUS
<1>a. /\ LinkTyped /\ PointsTyped /\ LoopTyped /\ (Inline => connected)
  BY DEF TypeInv, LinkTyped, Inline
<1>b. ASSUME UNCHANGED <<clientVars, toAgent, toClient, session>> PROVE Dialogue'
  BY <1>b DEF Dialogue, Inline, Quiet, Asked, Answered, clientVars
<1>c. ASSUME ~ Inline, UNCHANGED clientVars PROVE Dialogue'
  BY <1>c DEF Dialogue, Inline, clientVars
<1>d. ASSUME ClientGone PROVE Dialogue'
  BY <1>d DEF ClientGone, Dialogue, Inline
<1>1. CASE HandleMessage
  <2>1. UNCHANGED clientVars
    BY <1>1, MessageOnStream DEF clientVars
  <2>2. CASE Inline
    BY <1>1, <2>1, <2>2, RequestAnswered DEF Dialogue, Inline, clientVars
  <2> QED
    BY <1>c, <2>1, <2>2
<1>2. CASE LoopBreaks
  BY <1>2, <1>a, <1>c DEF LoopBreaks, StreamOver
<1>3. CASE AnnounceReady /\ Inline
  <2> DEFINE ms == IF point = 0 THEN <<>> ELSE <<"RecoveryPoint">>
  <2>1. ms \in Seq(Replies \cup Events) /\ session # NoSession
    <3>1. <<>> \in Seq(Replies \cup Events) /\ <<"RecoveryPoint">> \in Seq(Replies \cup Events)
      BY EmptySeq DEF Events
    <3> QED
      BY <1>3, <1>a, <3>1 DEF AnnounceReady, PointsTyped
  <2>2. Sends(ms) /\ UNCHANGED <<toAgent, clientVars, session>>
    BY <1>3, <1>a DEF AnnounceReady
  <2> QED
    BY <1>3, <2>1, <2>2, PushedBehind
<1>4. ASSUME NEW loss \in Losses, NEW news \in Estimates \cup {NoNews}, NEW fourth \in BOOLEAN,
             Tick(loss, news, fourth), Inline
      PROVE  Dialogue'
  <2> DEFINE events == PointEvent(point) \o StatsEvent(fourth)
  <2>1. events \in Seq(Replies \cup Events)
    BY TickEvents
  <2>2. session = NoSession => events = <<>>
    <3> SUFFICES ASSUME session = NoSession PROVE events = <<>>
      OBVIOUS
    <3>1. PointEvent(point) = <<>> /\ StatsEvent(fourth) = <<>>
      BY <1>a DEF PointEvent, StatsEvent, PointsTyped
    <3> QED
      BY <3>1, EmptySeq, NothingAdded
  <2>3. Sends(events) /\ UNCHANGED <<toAgent, clientVars, session>>
    BY <1>4, <1>a DEF Tick
  <2> QED
    BY <1>4, <2>1, <2>2, <2>3, PushedBehind
<1>5. CASE ~ Inline /\ (AnnounceReady \/ \E loss \in Losses, news \in Estimates \cup {NoNews},
                                            fourth \in BOOLEAN : Tick(loss, news, fourth))
  BY <1>5, <1>c DEF AnnounceReady, Tick
<1>6. CASE PublishPoint \/ UNCHANGED controlVars
  BY <1>6, <1>b DEF PublishPoint, controlVars
<1>7. CASE ClientAsks
  <2>1. Quiet /\ Inline
    BY <1>7 DEF ClientAsks, Ask, Inline, Dialogue, Asked, Answered
  <2>2. ASSUME NEW m, NEW reply \in Replies, Ask(m, reply), m.type = RequestFor(reply)
        PROVE  Dialogue'
    <3>1. toAgent' = <<m>> /\ awaiting' = reply /\ reply # "none"
      BY <2>1, <2>2 DEF Ask, Quiet, Replies
    <3> QED
      BY <2>1, <2>2, <3>1 DEF Ask, Dialogue, Inline, Quiet, Asked, clientVars
  <2> QED
    BY <1>7, <2>2 DEF ClientAsks, Replies, RequestFor, SessionRequest
<1>8. CASE ClientSends
  BY <1>8 DEF ClientSends, Ask, Dialogue, Inline
<1>9. CASE ClientReads
  <2>1. Inline /\ Answered /\ toClient \in Seq(Replies \cup Events)
    BY <1>9, <1>a DEF ClientReads, Dialogue, Quiet, Asked, LinkTyped
  <2>2. CASE /\ Head(toClient) = awaiting \/ phase = "synced"
             /\ awaiting' = "none"
             /\ phase' = IF Head(toClient) = awaiting THEN PhaseAfter(awaiting) ELSE phase
             /\ toClient' = IF phase' = "streaming" THEN <<>> ELSE Tail(toClient)
             /\ UNCHANGED <<toAgent, session>>
    <3>1. CASE session = NoSession
      <4>1. Tail(toClient) = <<>>
        BY <2>1, <3>1, TailOfOne DEF Answered
      <4> QED
        BY <2>1, <2>2, <3>1, <4>1 DEF Dialogue, Quiet, Answered
    <3>2. CASE session # NoSession
      BY <2>1, <2>2, <3>2 DEF Dialogue, Inline, Answered, PhaseAfter
    <3> QED
      BY <3>1, <3>2
  <2> QED
    BY <1>9, <1>d, <2>2 DEF ClientReads
<1>10. CASE ConnectionCloses
  BY <1>10, <1>d DEF ConnectionCloses
<1>11. CASE NextConnection
  BY <1>11 DEF NextConnection, Accept, LocalsDropped, Dialogue, Inline, Quiet
<1> QED
  BY <1>1, <1>2, <1>3, <1>4, <1>5, <1>6, <1>7, <1>8, <1>9, <1>10, <1>11 DEF ControlNext

(* The first message that a client finds while it waits for a reply is     *)
(* that reply or an error: nothing the agent pushes on its own gets in     *)
(* front of it.                                                            *)
THEOREM RepliesAreMatched == ControlSpec => []RepliesMatch
<1>1. ControlInit => Dialogue
  BY DEF ControlInit, Dialogue, Inline, Quiet
<1>2. Dialogue => RepliesMatch
  BY DEF Dialogue, Quiet, Asked, Answered, RepliesMatch
<1>3. TypeInv /\ Dialogue /\ [ControlNext]_controlVars => Dialogue'
  BY DialogueStep
<1> QED
  BY <1>1, <1>2, <1>3, Typed, PTL DEF ControlSpec
=============================================================================
