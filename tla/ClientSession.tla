--------------------------- MODULE ClientSession ---------------------------
(***************************************************************************)
(* A streaming session as an app embeds it: the C interface of client-ffi  *)
(* over client-core.  gsa_session_start and gsa_session_stop run on a      *)
(* thread of the app; the session has a thread of its own, which connects  *)
(* and then runs a select loop over the stop signal, the control events    *)
(* and the next video frame; two tasks read the connection, the datagrams  *)
(* and the control stream; another thread plays the audio.                 *)
(*                                                                         *)
(* A select drops the futures of the branches that lost.  Receiving from a *)
(* channel survives that.  The wait of the de-jitter does not: it comes    *)
(* after the frame has left the channel and passed the gate.               *)
(*                                                                         *)
(* The frames, the losses before the reassembler and the announcements     *)
(* come from the agent, which is free here (LossRecovery has it).  Ids do  *)
(* not wrap; whether the de-jitter waits is left open, except that it      *)
(* never does while more frames are queued, nor for the first frame (its   *)
(* warm-up is shortened to that).  Messages to the agent other than the    *)
(* recovery requests of the gate move no state here.                       *)
(***************************************************************************)
EXTENDS Integers, Sequences

CONSTANTS
  MaxFrames,  \* bound: frames the agent sends
  MaxEvents,  \* bound: control events waiting
  MaxPcm      \* bound: audio buffers waiting

ASSUME ClientSessionAssumption == {MaxFrames, MaxEvents, MaxPcm} \subseteq Nat \ {0}

VARIABLES
  app,       \* the embedder: "starting", "streaming", "stopping", "stopped", "failed"
  session,   \* the session thread, by the call it is in
  ready,     \* what it has reported: "none", "failed", "streaming"
  stop,      \* a permit is in the Notify
  conn,      \* "none", "open", "closed"
  receiver,  \* the datagram task: "idle", "running", "done"
  reader,    \* the control stream task, likewise
  audio      \* the audio thread: "idle", "waiting", "calling", "done"

VARIABLES
  sent,      \* frames the agent has sent
  frames,    \* the channel from the datagram task to the gate
  events,    \* control events waiting, from the control task
  pcm        \* decoded audio waiting, from the datagram task

VARIABLES
  lastFrame, lastDelivered, awaitingIdr, recoveryPoint, decodeError,
             \* the fields of Client, ids and the point being 0 for None
  throttled, \* a request was made less than 250 ms ago
  waiting    \* the frame that the de-jitter is holding, or NoFrame

VARIABLES
  handed,    \* history: ids given to on_video
  passed,    \* history: ids the gate let through
  cited      \* history: the frame the last recovery request cited, or 0

threadVars == <<app, session, ready, stop, conn, receiver, reader, audio>>
queueVars == <<sent, frames, events, pcm>>
gateVars == <<lastFrame, lastDelivered, awaitingIdr, recoveryPoint, decodeError,
              throttled, waiting>>
history == <<handed, passed, cited>>
vars == <<threadVars, queueVars, gateVars, history>>

NoFrame == [id |-> 0, idr |-> FALSE]

Init ==
  /\ app = "starting" /\ session = "connecting" /\ ready = "none" /\ stop = FALSE
  /\ conn = "none" /\ receiver = "idle" /\ reader = "idle" /\ audio = "idle"
  /\ sent = 0 /\ frames = <<>> /\ events = 0 /\ pcm = 0
  /\ lastFrame = 0 /\ lastDelivered = 0 /\ awaitingIdr = TRUE
  /\ recoveryPoint = 0 /\ decodeError = FALSE /\ throttled = FALSE /\ waiting = NoFrame
  /\ handed = {} /\ passed = {} /\ cited = 0

-----------------------------------------------------------------------------
(* The session thread until it streams.                                    *)

Connects ==
  /\ session = "connecting"
  /\ session' = "preparing" /\ conn' = "open"
  /\ UNCHANGED <<app, ready, stop, receiver, reader, audio, queueVars, gateVars, history>>

\* Connecting, opening the audio decoder or starting the session fails: the
\* client is dropped, and with it the connection, and the runtime ends.
StartFails ==
  /\ session \in {"connecting", "preparing"}
  /\ session' = "done" /\ ready' = "failed"
  /\ conn' = IF conn = "open" THEN "closed" ELSE conn
  /\ UNCHANGED <<app, stop, receiver, reader, audio, queueVars, gateVars, history>>

\* The session has started: the control task, the audio thread, the loop,
\* whose first look at the frames starts the datagram task.
Streams ==
  /\ session = "preparing"
  /\ session' = "selecting" /\ ready' = "streaming"
  /\ reader' = "running" /\ audio' = "waiting" /\ receiver' = "running"
  /\ UNCHANGED <<app, stop, conn, queueVars, gateVars, history>>

-----------------------------------------------------------------------------
(* The network and the tasks that read it.                                 *)

ConnectionLost ==
  /\ conn = "open" /\ session # "preparing"
  /\ conn' = "closed"
  /\ UNCHANGED <<app, session, ready, stop, receiver, reader, audio,
                 queueVars, gateVars, history>>

\* The reassembler releases frames in order, with gaps where some were lost.
\* The first frame of an encoder is an IDR.
FrameArrives(idr, lost) ==
  /\ receiver = "running" /\ conn = "open" /\ sent < MaxFrames
  /\ sent = 0 => idr
  /\ sent' = sent + 1
  /\ frames' = IF lost THEN frames ELSE Append(frames, [id |-> sent + 1, idr |-> idr])
  /\ UNCHANGED <<events, pcm, threadVars, gateVars, history>>

AudioArrives ==
  /\ receiver = "running" /\ conn = "open" /\ pcm < MaxPcm
  /\ pcm' = pcm + 1
  /\ UNCHANGED <<sent, frames, events, threadVars, gateVars, history>>

ReceiverEnds ==
  /\ receiver = "running" /\ conn = "closed"
  /\ receiver' = "done"
  /\ UNCHANGED <<app, session, ready, stop, conn, reader, audio, queueVars, gateVars, history>>

EventArrives ==
  /\ reader = "running" /\ conn = "open" /\ events < MaxEvents
  /\ events' = events + 1
  /\ UNCHANGED <<sent, frames, pcm, threadVars, gateVars, history>>

\* A recovery point goes past the events, into an atomic the gate reads.
PointArrives(first) ==
  /\ reader = "running" /\ conn = "open"
  /\ recoveryPoint' = first
  /\ UNCHANGED <<lastFrame, lastDelivered, awaitingIdr, decodeError, throttled, waiting,
                 threadVars, queueVars, history>>

\* The task ends with the control stream, and its channel with it.
ReaderEnds ==
  /\ reader = "running" /\ conn = "closed"
  /\ reader' = "done"
  /\ UNCHANGED <<app, session, ready, stop, conn, receiver, audio, queueVars, gateVars, history>>

-----------------------------------------------------------------------------
(* The gate (Client::gate), for the frame f.                               *)

Rejected == decodeError /\ ~awaitingIdr
Broken(f) ==
  ~f.idr /\ (awaitingIdr \/ Rejected \/ (lastFrame # 0 /\ f.id # lastFrame + 1))
Safe(f) == recoveryPoint # 0 /\ f.id >= recoveryPoint
Skipped(f) == Broken(f) /\ ~Safe(f)

\* A freeze asks for recovery, and so does every frame it skips.
Asks(f) == Rejected \/ Skipped(f) \/ (Broken(f) /\ ~awaitingIdr)

\* Mutant: a skipped frame is taken for delivered too.
DeliveredEvenSkipped(f) == f.id

Delivered(f) == IF Skipped(f) THEN lastDelivered ELSE f.id

Gate(f) ==
  /\ decodeError' = FALSE
  /\ awaitingIdr' = Skipped(f)
  /\ lastFrame' = f.id
  /\ lastDelivered' = Delivered(f)
  /\ throttled' = (throttled \/ Asks(f))
  /\ cited' = IF Asks(f) /\ ~throttled THEN lastDelivered ELSE cited
  /\ UNCHANGED recoveryPoint

ThrottleExpires ==
  /\ throttled
  /\ throttled' = FALSE
  /\ UNCHANGED <<lastFrame, lastDelivered, awaitingIdr, recoveryPoint, decodeError, waiting,
                 threadVars, queueVars, history>>

-----------------------------------------------------------------------------
(* The select loop.                                                        *)

UnchangedTasks == UNCHANGED <<app, ready, conn, receiver, reader, audio>>
UnchangedGate ==
  UNCHANGED <<lastFrame, lastDelivered, awaitingIdr, recoveryPoint, decodeError, throttled, cited>>

\* A branch other than the frame's wins: the wait is dropped, the frame with it.
Cut == waiting' = NoFrame /\ UNCHANGED <<handed, passed>>

HandOver(f) ==
  /\ session' = "in_video"
  /\ handed' = handed \cup {f.id}
  /\ waiting' = NoFrame

StopWins ==
  /\ session = "selecting" /\ stop
  /\ stop' = FALSE /\ session' = "closing"
  /\ Cut
  /\ UnchangedTasks /\ UnchangedGate /\ UNCHANGED queueVars

EventWins ==
  /\ session = "selecting" /\ events > 0
  /\ events' = events - 1 /\ session' = "in_control"
  /\ Cut
  /\ UnchangedTasks /\ UnchangedGate /\ UNCHANGED <<stop, sent, frames, pcm>>

\* The channel of a control task that has ended yields None again and again.
ClosedEventsWin ==
  /\ session = "selecting" /\ events = 0 /\ reader = "done"
  /\ Cut
  /\ UnchangedTasks /\ UnchangedGate /\ UNCHANGED <<session, stop, queueVars>>

\* The gate takes the next frame; a frame it skips leaves the loop where it is.
FrameGated(f, holds) ==
  /\ session = "selecting" /\ waiting = NoFrame /\ frames # <<>>
  /\ f = Head(frames)
  /\ frames' = Tail(frames)
  /\ holds => Len(frames) = 1 /\ ~Skipped(f) /\ handed # {}
  /\ Gate(f)
  /\ passed' = IF Skipped(f) THEN passed ELSE passed \cup {f.id}
  /\ \/ Skipped(f) /\ UNCHANGED <<session, waiting, handed>>
     \/ ~Skipped(f) /\ holds /\ waiting' = f /\ UNCHANGED <<session, handed>>
     \/ ~Skipped(f) /\ ~holds /\ HandOver(f)
  /\ UnchangedTasks /\ UNCHANGED <<stop, sent, events, pcm>>

WaitEnds ==
  /\ session = "selecting" /\ waiting # NoFrame
  /\ HandOver(waiting)
  /\ UnchangedTasks /\ UnchangedGate /\ UNCHANGED <<stop, queueVars, passed>>

\* Mutant: the end of the frames is taken for a spurious wake-up.
FramesEndIgnored ==
  /\ session = "selecting" /\ waiting = NoFrame /\ frames = <<>> /\ receiver = "done"
  /\ UnchangedTasks /\ UNCHANGED <<session, stop, queueVars, gateVars, history>>

FramesEnd ==
  /\ session = "selecting" /\ waiting = NoFrame /\ frames = <<>> /\ receiver = "done"
  /\ session' = "closing"
  /\ UnchangedTasks /\ UNCHANGED <<stop, queueVars, gateVars, history>>

CallbackReturns ==
  /\ session \in {"in_video", "in_control"}
  /\ session' = "selecting"
  /\ UnchangedTasks /\ UNCHANGED <<stop, queueVars, gateVars, history>>

-----------------------------------------------------------------------------
(* The end of the session thread, and the audio thread.                    *)

\* Client::close, which waits for the endpoint and then drops the client.
Closes ==
  /\ session = "closing"
  /\ session' = "idling" /\ conn' = "closed"
  /\ UNCHANGED <<app, ready, stop, receiver, reader, audio, queueVars, gateVars, history>>

EndpointIdle ==
  /\ session = "idling"
  /\ session' = "joining"
  /\ UnchangedTasks /\ UNCHANGED <<stop, queueVars, gateVars, history>>

ClientLives == session \in {"selecting", "in_video", "in_control", "closing", "idling"}

\* Mutant: the audio thread holds a sender of its own.
AudioSenderAlways == TRUE

\* The decoder, and in it the sender of the audio channel, is shared by the
\* client and the datagram task.
AudioSender == ClientLives \/ receiver = "running"

AudioPlays ==
  /\ audio = "waiting" /\ pcm > 0
  /\ pcm' = pcm - 1 /\ audio' = "calling"
  /\ UNCHANGED <<app, session, ready, stop, conn, receiver, reader, sent, frames, events,
                 gateVars, history>>

AudioReturns ==
  /\ audio = "calling"
  /\ audio' = "waiting"
  /\ UNCHANGED <<app, session, ready, stop, conn, receiver, reader, queueVars, gateVars, history>>

AudioEnds ==
  /\ audio = "waiting" /\ pcm = 0 /\ ~AudioSender
  /\ audio' = "done"
  /\ UNCHANGED <<app, session, ready, stop, conn, receiver, reader, queueVars, gateVars, history>>

\* Mutant: the audio thread is let go, not joined.
AudioJoinedNot == TRUE

AudioJoined == audio = "done"

\* Dropping the runtime ends the tasks that are left.
SessionEnds ==
  /\ session = "joining" /\ AudioJoined
  /\ session' = "done"
  /\ receiver' = "done" /\ reader' = "done"
  /\ UNCHANGED <<app, ready, stop, conn, audio, queueVars, gateVars, history>>

-----------------------------------------------------------------------------
(* The embedder.                                                           *)

\* gsa_session_start returns the handle, or joins the thread and returns NULL.
StartReturns ==
  /\ app = "starting"
  /\ \/ ready = "streaming" /\ app' = "streaming"
     \/ ready = "failed" /\ session = "done" /\ app' = "failed"
  /\ UNCHANGED <<session, ready, stop, conn, receiver, reader, audio,
                 queueVars, gateVars, history>>

FrameUndecodable ==
  /\ app = "streaming" /\ handed # {}
  /\ decodeError' = TRUE
  /\ UNCHANGED <<lastFrame, lastDelivered, awaitingIdr, recoveryPoint, throttled, waiting,
                 threadVars, queueVars, history>>

StopCalled ==
  /\ app = "streaming"
  /\ app' = "stopping" /\ stop' = TRUE
  /\ UNCHANGED <<session, ready, conn, receiver, reader, audio, queueVars, gateVars, history>>

StopReturns ==
  /\ app = "stopping" /\ session = "done"
  /\ app' = "stopped"
  /\ UNCHANGED <<session, ready, stop, conn, receiver, reader, audio,
                 queueVars, gateVars, history>>

Select ==
  \/ StopWins \/ EventWins \/ ClosedEventsWin \/ WaitEnds \/ FramesEnd
  \/ \E holds \in BOOLEAN : frames # <<>> /\ FrameGated(Head(frames), holds)

Next ==
  \/ Connects \/ StartFails \/ Streams
  \/ ConnectionLost \/ AudioArrives \/ ReceiverEnds \/ EventArrives \/ ReaderEnds
  \/ \E idr, lost \in BOOLEAN : FrameArrives(idr, lost)
  \/ \E first \in 2 .. MaxFrames : PointArrives(first)
  \/ ThrottleExpires
  \/ Select \/ CallbackReturns
  \/ Closes \/ EndpointIdle \/ SessionEnds
  \/ AudioPlays \/ AudioReturns \/ AudioEnds
  \/ StartReturns \/ FrameUndecodable \/ StopCalled \/ StopReturns

(***************************************************************************)
(* The threads and tasks run, and the embedder's callbacks return.  select *)
(* looks at its branches in random order, so the stop, ready whenever it   *)
(* looks, is taken in the end although events may be ready as often:       *)
(* strong fairness.  Nothing is assumed of the network, except that a task *)
(* told of a closed connection sees it.                                    *)
(***************************************************************************)
Fairness ==
  /\ WF_vars(Connects \/ Streams \/ StartFails)
  /\ SF_vars(StopWins) /\ WF_vars(FramesEnd) /\ WF_vars(WaitEnds)
  /\ WF_vars(\E holds \in BOOLEAN : frames # <<>> /\ FrameGated(Head(frames), holds))
  /\ WF_vars(CallbackReturns \/ Closes \/ EndpointIdle \/ SessionEnds)
  /\ WF_vars(ReceiverEnds) /\ WF_vars(ReaderEnds)
  /\ WF_vars(AudioPlays \/ AudioReturns \/ AudioEnds)
  /\ WF_vars(StartReturns \/ StopReturns)

Spec == Init /\ [][Next]_vars /\ Fairness

-----------------------------------------------------------------------------
(***************************************************************************)
(* The phases the threads can be in; a frame waits only where the loop     *)
(* selects, ids are of frames sent.                                        *)
(***************************************************************************)
TypeOK ==
  /\ app \in {"starting", "streaming", "stopping", "stopped", "failed"}
  /\ session \in {"connecting", "preparing", "selecting", "in_video", "in_control",
                  "closing", "idling", "joining", "done"}
  /\ ready \in {"none", "failed", "streaming"}
  /\ conn \in {"none", "open", "closed"}
  /\ {receiver, reader} \subseteq {"idle", "running", "done"}
  /\ audio \in {"idle", "waiting", "calling", "done"}
  /\ waiting # NoFrame => session = "selecting" /\ waiting.id = lastDelivered
  /\ events \in 0 .. MaxEvents /\ pcm \in 0 .. MaxPcm
  /\ handed \cup passed \subseteq 1 .. sent
  /\ {lastFrame, lastDelivered, cited} \subseteq 0 .. sent

(***************************************************************************)
(* "After this returns, no further callbacks fire": once gsa_session_stop  *)
(* has returned, or gsa_session_start has returned NULL, no thread of the  *)
(* session is left that could call the embedder.                           *)
(***************************************************************************)
QuietAfterStop ==
  app \in {"stopped", "failed"} => session = "done" /\ audio \in {"idle", "done"}

(***************************************************************************)
(* A recovery request cites a frame the gate let through, whatever was     *)
(* lost, skipped or announced before it: never one the gate skipped while  *)
(* the chain was broken, nor one that did not arrive.  And the embedder is *)
(* handed only such frames.  (Not every one of them: a frame whose wait a  *)
(* branch of the select cut off is cited without having been decoded.)     *)
(***************************************************************************)
CitesPassed ==
  /\ cited # 0 => cited \in passed
  /\ handed \subseteq passed

(***************************************************************************)
(* gsa_session_stop returns, whatever the session is doing: connected or   *)
(* cut off, selecting, in a callback, holding a frame, with events and     *)
(* audio still coming.                                                     *)
(***************************************************************************)
StopTerminates == app = "stopping" ~> app = "stopped"

(***************************************************************************)
(* A connection that ends takes the session down with it: all its threads  *)
(* end and what audio has arrived is played out, although nobody may call  *)
(* gsa_session_stop.                                                       *)
(***************************************************************************)
LossEndsSession == conn = "closed" ~> session = "done" /\ audio \in {"idle", "done"} /\ pcm = 0
=============================================================================
