--------------------------- MODULE SessionControl ---------------------------
(***************************************************************************)
(* One client connection's control loop (serve_inner of                    *)
(* session/src/service.rs), the registry of sessions it fills              *)
(* (session/src/state.rs), and the client at the other end of the control  *)
(* stream (connect, start_session, take_control_events and the input       *)
(* sender of client-core/src/lib.rs).                                      *)
(*                                                                         *)
(* A pass of the loop - one branch of its select! with the whole arm it    *)
(* leads to - is one action.  A send fails when the connection is closed;  *)
(* where it fails in a message arm, `?` returns from the function at once, *)
(* in the other branches the loop breaks and cleans up.  Connections share *)
(* only the registry, keyed by ids that are never reused, so one           *)
(* connection at a time is modelled, followed by the next.                 *)
(***************************************************************************)
EXTENDS Integers, Sequences

CONSTANTS
  MinRate, MaxRate, \* BITRATE_MIN_BPS, BITRATE_MAX_BPS
  AbrStart,         \* ABR_START_BPS
  HostCap,          \* config video.bitrate_bps; NoRate when not set
  Requests,         \* bound: the bitrates clients ask for
  Estimates,        \* bound: the estimates the bandwidth driver forms
  Losses,           \* bound: loss ratios of a tick, permille
  FecFloor, FecCap, \* FEC_FLOOR_PERMILLE, FEC_CAP_PERMILLE
  MaxSessions,      \* bound: sessions ever started
  MaxPoints,        \* bound: recovery points one session publishes
  MaxConns,         \* bound: connections, one after the other
  MaxIn, MaxOut     \* bounds: messages waiting for the loop, for the client

NoRate == 0
NoSession == 0

ASSUME SessionAssumption ==
  /\ {MinRate, MaxRate, AbrStart, FecFloor, FecCap} \subseteq Nat \ {0}
  /\ MinRate <= AbrStart /\ AbrStart <= MaxRate /\ FecFloor <= FecCap
  /\ HostCap \in Nat /\ Requests \subseteq Nat \ {0} /\ Losses \subseteq Nat
  /\ Estimates \subseteq Nat \ {0}
  /\ {MaxSessions, MaxPoints, MaxIn, MaxOut} \subseteq Nat /\ MaxConns \in Nat \ {0}

VARIABLES
  \* the connection and its control stream
  connected, conns, \* up?  and how many connections there were
  toAgent,          \* messages read by the reader task, not yet by the loop
  toClient,         \* messages sent, not yet read by the client
  \* the client
  phase,            \* how far the client got
  awaiting,         \* the reply its current call waits for
  \* locals of serve_inner
  loop,             \* "serving", "ended" (cleaned up) or "returned" (by ?)
  helloed, session, ceiling, abr, fec,
  est, estOf,       \* last_estimate_bps, and the session it was measured in
  driver,           \* bwe2: "none", "new", or "running" once polled
  \* the pipeline of the session
  rate,             \* its live target bitrate
  point, notified,  \* recovery_point, and the permit of recovery_ready
  \* shared state of the agent
  registry,         \* ids in AgentState::sessions
  nextId,           \* next_session
  \* history variables
  published, announced, \* recovery points of this session
  byHand,           \* the client has set this session's rate itself
  abandoned         \* sessions whose loop returned by ?

connVars == <<connected, conns>>
clientVars == <<phase, awaiting>>
rateVars == <<ceiling, abr, fec, est, estOf, driver, rate, byHand>>
pointVars == <<point, notified, published, announced>>
agentVars == <<registry, nextId, abandoned>>
controlVars == <<connVars, toAgent, toClient, clientVars, loop, helloed, session,
          rateVars, pointVars, agentVars>>

-----------------------------------------------------------------------------
(* Bitrates. *)

AtMost(x, bound) == IF x <= bound THEN x ELSE bound
AtLeast(x, bound) == IF x >= bound THEN x ELSE bound
Clamp(x, low, high) == AtMost(AtLeast(x, low), high)
InBand(x) == Clamp(x, MinRate, MaxRate)

Host == IF HostCap = NoRate THEN MaxRate ELSE InBand(HostCap)

(* The ceiling of a session that adapts: the request, up to the host cap. *)
AbrCeiling(requested) ==
  IF requested = NoRate THEN Host ELSE AtMost(InBand(requested), Host)

(* resolve_bitrates: the opening rate and the ceiling. *)
Resolve(requested, adapts) ==
  IF adapts
  THEN [rate |-> AtMost(AbrStart, AbrCeiling(requested)), ceiling |-> AbrCeiling(requested)]
  ELSE LET fixed == IF requested = NoRate THEN Host ELSE InBand(requested)
       IN  [rate |-> fixed, ceiling |-> fixed]

(* Parity follows the loss fast and decays slowly. *)
NextFec(ratio, loss) == Clamp(AtLeast((ratio * 9) \div 10, loss * 4), FecFloor, FecCap)

(* Nine tenths of what was measured, less what parity adds to it. *)
Target(estimate, ratio) == (((estimate * 90) \div 100) * 1000) \div (1000 + ratio)

\* a bug to guard against: the measured rate is pinned whatever the ceiling
PinnedAsMeasured(estimate, limit) ==
  IF estimate > 0 THEN AtLeast((estimate * 90) \div 100, MinRate) ELSE limit

(* The rate pinned when adaptation is switched off. *)
Pinned(estimate, limit) ==
  IF estimate > 0 THEN Clamp((estimate * 90) \div 100, MinRate, limit) ELSE limit

-----------------------------------------------------------------------------
(* What the pieces of serve_inner do to its state. *)

(* The loop's locals go with the function, the channel of the reader task  *)
(* among them; dropping the pipeline handle stops the pipeline.            *)
LocalsDropped ==
  /\ helloed' = FALSE /\ session' = NoSession
  /\ ceiling' = MaxRate /\ abr' = FALSE /\ fec' = FecFloor
  /\ est' = 0 /\ estOf' = NoSession /\ driver' = "none"
  /\ rate' = NoRate /\ byHand' = FALSE
  /\ point' = 0 /\ notified' = FALSE /\ published' = 0 /\ announced' = 0

\* a bug to guard against: the entry is left behind
UnregisterNone(sessions, id) == sessions

Unregister(sessions, id) == sessions \ {id}

(* break: the clean-up after the loop. *)
CleanUp ==
  /\ LocalsDropped /\ toAgent' = <<>>
  /\ loop' = "ended"
  /\ registry' = Unregister(registry, session)
  /\ UNCHANGED abandoned

(* `?` in a message arm: no clean-up. *)
ReturnEarly(live) ==
  /\ LocalsDropped /\ toAgent' = <<>>
  /\ loop' = "returned"
  /\ abandoned' = abandoned \cup ({live} \ {NoSession})

(* Once the client streams, its control reader task takes every message    *)
(* off the stream as it comes; until then messages wait for its calls.     *)
Sends(messages) ==
  toClient' = IF phase = "streaming" THEN <<>> ELSE toClient \o messages

Room(n) == connected => Len(toClient) + n <= MaxOut

Taken == toAgent' = Tail(toAgent)

(* An arm that only answers. *)
Answer(message) ==
  /\ Room(1)
  /\ \/ /\ connected
        /\ Taken /\ Sends(<<message>>)
        /\ UNCHANGED <<loop, helloed, session, rateVars, pointVars, agentVars>>
     \/ /\ ~connected
        /\ ReturnEarly(session)
        /\ UNCHANGED <<toClient, registry, nextId>>

NextMessage(type) ==
  /\ loop = "serving" /\ toAgent # <<>> /\ Head(toAgent).type = type
  /\ UNCHANGED <<connVars, clientVars>>

(* Every message but Hello is refused before a Hello. *)
Greeted(type) == NextMessage(type) /\ helloed

-----------------------------------------------------------------------------
(* The message arms. *)

HelloAccepted ==
  /\ NextMessage("Hello") /\ Head(toAgent).supported
  /\ Room(1)
  /\ \/ /\ connected
        /\ helloed' = TRUE
        /\ Taken /\ Sends(<<"HelloAck">>)
        /\ UNCHANGED <<loop, session, rateVars, pointVars, agentVars>>
     \/ /\ ~connected
        /\ ReturnEarly(session)
        /\ UNCHANGED <<toClient, registry, nextId>>

HelloRefused ==
  /\ NextMessage("Hello") /\ ~Head(toAgent).supported
  /\ Room(1)
  /\ UNCHANGED nextId
  /\ \/ connected /\ Sends(<<"Error">>) /\ CleanUp
     \/ ~connected /\ ReturnEarly(session) /\ UNCHANGED <<toClient, registry>>

HelloFirst ==
  /\ \E type \in {"ListSources", "Ping", "StartSession", "StopSession", "SetBitrate",
                  "SetAbr", "InputBatch", "Other"} : NextMessage(type)
  /\ ~helloed
  /\ Answer("Error")

ListSources == Greeted("ListSources") /\ Answer("Sources")
Ping == Greeted("Ping") /\ Answer("Pong")

(* A second session is refused; so is one whose source, encoder or         *)
(* pipeline cannot be set up.                                              *)
StartRefused == Greeted("StartSession") /\ Answer("Error")

StartSession ==
  LET request == Head(toAgent)
      rates == Resolve(request.rate, request.abr)
  IN /\ Greeted("StartSession")
     /\ session = NoSession
     /\ nextId <= MaxSessions
     /\ Room(1)
     /\ nextId' = nextId + 1
     /\ registry' = registry \cup {nextId}
     /\ \/ /\ connected
           /\ session' = nextId
           /\ ceiling' = rates.ceiling /\ rate' = rates.rate
           /\ abr' = request.abr
           /\ driver' = "new"
           /\ byHand' = (~request.abr /\ request.rate # NoRate)
           /\ point' = 0 /\ notified' = FALSE /\ published' = 0 /\ announced' = 0
           /\ Taken /\ Sends(<<"SessionStarted">>)
           /\ UNCHANGED <<loop, helloed, fec, est, estOf, abandoned>>
        \/ /\ ~connected
           /\ ReturnEarly(nextId)
           /\ UNCHANGED toClient

StopSession ==
  /\ Greeted("StopSession") /\ Taken
  /\ session' = NoSession
  /\ registry' = Unregister(registry, session)
  /\ driver' = "none" /\ rate' = NoRate /\ byHand' = FALSE
  /\ point' = 0 /\ notified' = FALSE /\ published' = 0 /\ announced' = 0
  /\ UNCHANGED <<toClient, loop, helloed, ceiling, abr, fec, est, estOf, nextId, abandoned>>

SetBitrate ==
  /\ Greeted("SetBitrate") /\ Taken
  /\ \/ /\ session # NoSession
        /\ rate' = InBand(Head(toAgent).rate)
        /\ ceiling' = InBand(Head(toAgent).rate)
        /\ byHand' = TRUE
     \/ session = NoSession /\ UNCHANGED <<rate, ceiling, byHand>>
  /\ UNCHANGED <<toClient, loop, helloed, session, abr, fec, est, estOf, driver,
                 pointVars, agentVars>>

SetAbr ==
  LET enabled == Head(toAgent).enabled
  IN /\ Greeted("SetAbr") /\ Taken
     /\ abr' = enabled
     /\ rate' = IF session # NoSession /\ ~enabled THEN Pinned(est, ceiling) ELSE rate
     /\ UNCHANGED <<toClient, loop, helloed, session, ceiling, fec, est, estOf, driver,
                    byHand, pointVars, agentVars>>

(* Injecting may report a gamepad coming or going. *)
InputBatch ==
  /\ Greeted("InputBatch")
  /\ \/ session # NoSession /\ Answer("Notification")
     \/ Taken /\ UNCHANGED <<toClient, loop, helloed, session, rateVars, pointVars, agentVars>>

(* Messages for the pipeline or the estimator, and those nothing acts on. *)
OtherMessage ==
  /\ Greeted("Other") /\ Taken
  /\ UNCHANGED <<toClient, loop, helloed, session, rateVars, pointVars, agentVars>>

HandleMessage ==
  \/ HelloAccepted \/ HelloRefused \/ HelloFirst \/ ListSources \/ Ping
  \/ StartRefused \/ StartSession \/ StopSession
  \/ SetBitrate \/ SetAbr \/ InputBatch \/ OtherMessage

-----------------------------------------------------------------------------
(* The other branches of the select. *)

(* The reader task's error arrives after the messages it read before. *)
StreamOver == ~connected /\ toAgent = <<>>

LoopBreaks ==
  /\ loop = "serving" /\ StreamOver
  /\ CleanUp
  /\ UNCHANGED <<connVars, toClient, clientVars, nextId>>

(* The wake-up of the encode thread: the point may be gone by then. *)
AnnounceReady ==
  /\ loop = "serving" /\ notified
  /\ Room(1)
  /\ UNCHANGED <<connVars, clientVars, nextId>>
  /\ \/ /\ connected \/ point = 0
        /\ notified' = FALSE /\ point' = 0
        /\ announced' = IF point = 0 THEN announced ELSE point
        /\ Sends(IF point = 0 THEN <<>> ELSE <<"RecoveryPoint">>)
        /\ UNCHANGED <<toAgent, loop, helloed, session, published, rateVars, registry, abandoned>>
     \/ /\ ~connected /\ point # 0
        /\ CleanUp
        /\ UNCHANGED toClient

\* a bug to guard against: a new driver has nothing to say at first
PolledLate == Estimates \cup {0}

(* The first poll of a driver always brings an estimate, since the         *)
(* estimator starts from the opening rate; later ones only news.           *)
NoNews == 0
Polled == IF driver = "new" THEN Estimates ELSE Estimates \cup {NoNews}

\* a bug to guard against: the tick takes the point and announces nothing
PointEventNone(taken) == <<>>

(* What a tick sends: the point it took, and the statistics every fourth   *)
(* time.                                                                   *)
PointEvent(taken) == IF taken = 0 THEN <<>> ELSE <<"RecoveryPoint">>

\* a bug to guard against: statistics without a session
StatsEventAlways(fourth) == IF fourth THEN <<"EncodeStats">> ELSE <<>>

StatsEvent(fourth) == IF fourth /\ session # NoSession THEN <<"EncodeStats">> ELSE <<>>

(* Estimates move the target, losses the parity, while a session is on. *)
Adapt(loss, news) ==
  \/ /\ session # NoSession
     /\ news \in Polled
     /\ driver' = "running"
     /\ est' = IF news = NoNews THEN est ELSE news
     /\ estOf' = IF news = NoNews THEN estOf ELSE session
     /\ fec' = NextFec(fec, loss)
     /\ rate' = IF abr /\ est' > 0 THEN Clamp(Target(est', fec'), MinRate, ceiling) ELSE rate
     /\ UNCHANGED <<ceiling, abr, byHand>>
  \/ session = NoSession /\ UNCHANGED rateVars

Tick(loss, news, fourth) ==
  LET events == PointEvent(point) \o StatsEvent(fourth)
  IN /\ loop = "serving"
     /\ Room(Len(events))
     /\ UNCHANGED <<connVars, clientVars, nextId>>
     /\ \/ /\ connected \/ events = <<>>
           /\ Adapt(loss, news)
           /\ point' = 0
           /\ announced' = IF PointEvent(point) = <<>> THEN announced ELSE point
           /\ Sends(events)
           /\ UNCHANGED <<toAgent, loop, helloed, session, notified, published, registry,
                          abandoned>>
        \/ /\ ~connected /\ events # <<>>
           /\ CleanUp
           /\ UNCHANGED toClient

(* The encode thread stores a recovery point and wakes the loop. *)
PublishPoint ==
  /\ session # NoSession /\ published < MaxPoints
  /\ published' = published + 1
  /\ point' = published + 1
  /\ notified' = TRUE
  /\ UNCHANGED <<connVars, toAgent, toClient, clientVars, loop, helloed, session,
                 rateVars, announced, agentVars>>

-----------------------------------------------------------------------------
(* The client. *)

Ask(message, reply) ==
  /\ connected /\ awaiting = "none" /\ Len(toAgent) < MaxIn
  /\ toAgent' = Append(toAgent, message)
  /\ awaiting' = reply
  /\ UNCHANGED <<connVars, toClient, phase, loop, helloed, session, rateVars, pointVars,
                 agentVars>>

SessionRequest ==
  [type : {"StartSession"}, rate : Requests \cup {NoRate}, abr : BOOLEAN]

(* connect: hello, then the clock is synchronised; after that the          *)
(* embedder lists sources and starts a session.                            *)
ClientAsks ==
  \/ /\ phase = "new"
     /\ \E supported \in BOOLEAN :
          Ask([type |-> "Hello", supported |-> supported], "HelloAck")
  \/ phase = "greeted" /\ Ask([type |-> "Ping"], "Pong")
  \/ phase = "synced" /\ Ask([type |-> "ListSources"], "Sources")
  \/ phase = "synced" /\ \E request \in SessionRequest : Ask(request, "SessionStarted")

PhaseAfter(reply) ==
  CASE reply = "HelloAck" -> "greeted"
    [] reply = "Pong" -> "synced"
    [] reply = "SessionStarted" -> "streaming"
    [] OTHER -> phase

(* With the connection go the calls under way and what was not yet read.   *)
ClientGone ==
  /\ connected' = FALSE /\ phase' = "gone" /\ awaiting' = "none" /\ toClient' = <<>>

(* Any other reply fails the call; a call of connect takes the client with *)
(* it, which closes the connection.                                        *)
ClientReads ==
  /\ toClient # <<>> /\ awaiting # "none"
  /\ \/ /\ Head(toClient) = awaiting \/ phase = "synced"
        /\ awaiting' = "none"
        /\ phase' = IF Head(toClient) = awaiting THEN PhaseAfter(awaiting) ELSE phase
        /\ toClient' = IF phase' = "streaming" THEN <<>> ELSE Tail(toClient)
        /\ UNCHANGED connected
     \/ /\ Head(toClient) # awaiting /\ phase # "synced"
        /\ ClientGone
  /\ UNCHANGED <<conns, toAgent, loop, helloed, session, rateVars, pointVars, agentVars>>

(* While it streams, the client sends without waiting; other clients of    *)
(* the protocol may send anything.                                         *)
StreamMessages ==
  SessionRequest
    \cup [type : {"SetBitrate"}, rate : Requests]
    \cup [type : {"SetAbr"}, enabled : BOOLEAN]
    \cup [type : {"Hello"}, supported : BOOLEAN]
    \cup [type : {"StopSession", "InputBatch", "Other", "ListSources", "Ping"}]

ClientSends ==
  /\ phase = "streaming"
  /\ \E message \in StreamMessages : Ask(message, "none")

(* The connection closes, or times out, at any moment. *)
ConnectionCloses ==
  /\ connected
  /\ ClientGone
  /\ UNCHANGED <<conns, toAgent, loop, helloed, session, rateVars, pointVars, agentVars>>

Accept(startPhase) ==
  /\ phase' = startPhase /\ awaiting' = "none"
  /\ connected' = TRUE
  /\ toAgent' = <<>> /\ toClient' = <<>>
  /\ loop' = "serving"

(* A new connection, of a client-core client or of another one. *)
NextConnection ==
  /\ ~connected /\ loop # "serving" /\ conns < MaxConns
  /\ conns' = conns + 1
  /\ \E start \in {"new", "streaming"} : Accept(start)
  /\ LocalsDropped
  /\ UNCHANGED agentVars

-----------------------------------------------------------------------------
(* The specification. *)

ControlInit ==
  /\ connected = TRUE /\ conns = 1
  /\ toAgent = <<>> /\ toClient = <<>>
  /\ phase \in {"new", "streaming"} /\ awaiting = "none"
  /\ loop = "serving" /\ helloed = FALSE /\ session = NoSession
  /\ ceiling = MaxRate /\ abr = FALSE /\ fec = FecFloor
  /\ est = 0 /\ estOf = NoSession /\ driver = "none"
  /\ rate = NoRate /\ point = 0 /\ notified = FALSE
  /\ registry = {} /\ nextId = 1
  /\ published = 0 /\ announced = 0 /\ byHand = FALSE /\ abandoned = {}

ControlNext ==
  \/ HandleMessage
  \/ LoopBreaks
  \/ AnnounceReady
  \/ \E loss \in Losses, news \in Estimates \cup {NoNews}, fourth \in BOOLEAN :
       Tick(loss, news, fourth)
  \/ PublishPoint
  \/ ClientAsks \/ ClientReads \/ ClientSends
  \/ ConnectionCloses
  \/ NextConnection

(* select! picks at random among its ready branches, so a branch that      *)
(* stays ready is taken; the client's calls read what has arrived.  *)
ControlFairness ==
  /\ WF_controlVars(HandleMessage) /\ WF_controlVars(LoopBreaks) /\ WF_controlVars(AnnounceReady)
  /\ WF_controlVars(ClientReads)

ControlSpec == ControlInit /\ [][ControlNext]_controlVars /\ ControlFairness

-----------------------------------------------------------------------------
(* Properties. *)

Sessions == 1 .. MaxSessions
Rates == 1 .. MaxRate
Replies == {"HelloAck", "Pong", "Sources", "SessionStarted"}
Events == {"Error", "Notification", "RecoveryPoint", "EncodeStats"}

(* Every variable has its type; a session has a driver and a rate. *)
ControlTypeOK ==
  /\ connected \in BOOLEAN /\ conns \in 1 .. MaxConns
  /\ toAgent \in Seq(StreamMessages) /\ Len(toAgent) <= MaxIn
  /\ toClient \in Seq(Replies \cup Events) /\ Len(toClient) <= MaxOut
  /\ phase \in {"new", "greeted", "synced", "streaming", "gone"}
  /\ awaiting \in Replies \cup {"none"}
  /\ loop \in {"serving", "ended", "returned"} /\ helloed \in BOOLEAN
  /\ session \in Sessions \cup {NoSession} /\ nextId \in 1 .. MaxSessions + 1
  /\ ceiling \in Rates /\ abr \in BOOLEAN /\ fec \in FecFloor .. FecCap
  /\ est \in Estimates \cup {0} /\ estOf \in Sessions \cup {NoSession}
  /\ driver \in {"none", "new", "running"} /\ rate \in Nat
  /\ (session = NoSession) <=> (driver = "none")
  /\ (session = NoSession) <=> (rate = NoRate)
  /\ point \in 0 .. published /\ announced \in 0 .. published
  /\ published \in 0 .. MaxPoints /\ {notified, byHand} \subseteq BOOLEAN
  /\ registry \subseteq Sessions /\ abandoned \subseteq Sessions

(* Whatever moves it - the request, a tick, the client's slider, switching *)
(* adaptation off - a session's target lies between the floor and the      *)
(* ceiling then in force, so the clamp of a tick never has its bounds      *)
(* crossed (u32::clamp panics on that).  And the configured host cap is    *)
(* exceeded only by a session whose rate the client has set itself:        *)
(* adaptation alone never climbs past it.                                  *)
RateBounded ==
  session # NoSession =>
    /\ MinRate <= rate /\ rate <= ceiling /\ ceiling <= MaxRate
    /\ rate > Host => byHand

(* The registry that the admin interface lists holds the session of the    *)
(* loop, and beyond it only sessions whose loop a failed send ended: these *)
(* stay listed for good.                                                   *)
LeaksOnlyOnFailedSend == registry \ {session} \subseteq abandoned

(* A tick that moves the rate moves it by an estimate of that very         *)
(* session, although last_estimate_bps outlives the session it is of.      *)
TicksUseOwnEstimate ==
  [][session # NoSession /\ session' = session /\ toAgent' = toAgent /\ rate' # rate
       => estOf' = session]_controlVars

(* No message the agent pushes on its own gets between a client's request  *)
(* and its reply while the client still reads replies inline: the calls of *)
(* connect, list_sources and start_session see their answer or an error.   *)
RepliesMatch ==
  awaiting # "none" /\ toClient # <<>> => Head(toClient) \in {awaiting, "Error"}

(* A recovery point that the encode thread published is announced to the   *)
(* client, or a newer one is, or the session ends.                         *)
PointsAnnounced == published > announced ~> published = announced

=============================================================================
