---------------------------- MODULE ClientProofs ----------------------------
(***************************************************************************)
(* The client's session and its input.                                     *)
(*                                                                         *)
(* Once a session is over for the embedder no thread is left to call it,   *)
(* and a recovery request cites a frame the gate let through.  The second  *)
(* needs to know that the frames queued come in increasing order (Queued), *)
(* all of them after the last one gated, while those let through lie up to *)
(* it: none is gated twice, and the one held back is among them.           *)
(*                                                                         *)
(* No pad is left in the host's seat, no key held down and no modifier on. *)
(* All need to look through the stream of input: what plugs a pad or       *)
(* presses a key is excused by the controller or the key still being       *)
(* there, or by what takes it back coming behind it (SnapshotsFollowed,    *)
(* PressesFollowed).                                                       *)
(***************************************************************************)
EXTENDS ClientSession, Input, SequenceTheorems, TLAPS

-----------------------------------------------------------------------------
(* The session.                                                            *)

Before == {"connecting", "preparing"}
Live   == {"selecting", "in_video", "in_control", "closing", "idling", "joining"}

\* The threads, and who has ended when.
ThreadsTyped ==
  /\ app \in {"starting", "streaming", "stopping", "stopped", "failed"}
  /\ session \in Before \cup Live \cup {"done"}
  /\ ready \in {"none", "failed", "streaming"}
  /\ conn \in {"none", "open", "closed"}
  /\ receiver \in {"idle", "running", "done"} /\ reader \in {"idle", "running", "done"}
  /\ audio \in {"idle", "waiting", "calling", "done"}

Ended ==
  /\ session \in Before => audio = "idle"
  /\ session = "done" => audio \in {"idle", "done"}
  /\ app \in {"stopped", "failed"} => session = "done"

QueuesTyped ==
  /\ sent \in Nat /\ frames \in Seq([id : 1 .. sent, idr : BOOLEAN])
  /\ events \in 0 .. MaxEvents /\ pcm \in 0 .. MaxPcm

\* The frames queued are in the order they were sent, after all those gated.
Queued ==
  /\ \A i, j \in 1 .. Len(frames) : i < j => frames[i].id < frames[j].id
  /\ \A i \in 1 .. Len(frames) : frames[i].id > lastFrame

GateTyped ==
  /\ lastFrame \in 0 .. sent /\ lastDelivered \in 0 .. lastFrame /\ cited \in 0 .. sent
  /\ waiting # NoFrame => session = "selecting" /\ waiting.id = lastDelivered /\ waiting.id # 0

Cites ==
  /\ passed \subseteq 1 .. lastFrame
  /\ handed \subseteq passed
  /\ waiting # NoFrame => waiting.id \in passed
  /\ lastDelivered # 0 => lastDelivered \in passed
  /\ cited # 0 => cited \in passed

Inv == ThreadsTyped /\ Ended /\ QueuesTyped /\ Queued /\ GateTyped /\ Cites
-----------------------------------------------------------------------------
(* The threads.                                                            *)

(* Nothing has started. *)
LEMMA InvInit == Init => Inv
<1> SUFFICES ASSUME Init PROVE Inv
  OBVIOUS
<1> USE DEF Init
<1>1. ThreadsTyped /\ Ended
  BY DEF ThreadsTyped, Ended, Before
<1>2. QueuesTyped
  <2>1. frames \in Seq([id : 1 .. sent, idr : BOOLEAN])
    <3> frames = <<>>
      OBVIOUS
    <3> QED
      BY EmptySeq
  <2>2. events \in 0 .. MaxEvents /\ pcm \in 0 .. MaxPcm
    BY ClientSessionAssumption DEF ClientSessionAssumption
  <2> QED
    BY <2>1, <2>2 DEF QueuesTyped
<1>3. Queued /\ GateTyped /\ Cites
  BY DEF Queued, GateTyped, Cites
<1> QED
  BY <1>1, <1>2, <1>3 DEF Inv

(* Each thread's program counter, and what has ended when.  The session    *)
(* thread is past "joining" only once the audio thread is, and the         *)
(* embedder's calls return only once the session thread is done.           *)
LEMMA ThreadsStep ==
  ASSUME ThreadsTyped, Ended, [Next]_vars
  PROVE  ThreadsTyped' /\ Ended'
<1> USE DEF ThreadsTyped, Ended, Before, Live
<1>1. CASE UNCHANGED threadVars
  BY <1>1 DEF threadVars
<1>2. CASE Connects \/ StartFails \/ Streams
  BY <1>2 DEF Connects, StartFails, Streams
<1>3. CASE ConnectionLost \/ ReceiverEnds \/ ReaderEnds
  BY <1>3 DEF ConnectionLost, ReceiverEnds, ReaderEnds
<1>4. CASE Select
  <2>1. session = "selecting" /\ session' \in {"selecting", "closing", "in_control", "in_video"}
    BY <1>4 DEF Select, StopWins, EventWins, ClosedEventsWin, WaitEnds, FramesEnd, FrameGated, HandOver
  <2>2. UNCHANGED <<app, ready, conn, receiver, reader, audio>>
    BY <1>4 DEF Select, StopWins, EventWins, ClosedEventsWin, WaitEnds, FramesEnd, FrameGated,
                UnchangedTasks
  <2> QED
    BY <2>1, <2>2
<1>5. CASE CallbackReturns \/ Closes \/ EndpointIdle \/ SessionEnds
  BY <1>5 DEF CallbackReturns, Closes, EndpointIdle, SessionEnds, UnchangedTasks, AudioJoined
<1>6. CASE AudioPlays \/ AudioReturns \/ AudioEnds
  BY <1>6 DEF AudioPlays, AudioReturns, AudioEnds
<1>7. CASE StartReturns \/ StopCalled \/ StopReturns
  BY <1>7 DEF StartReturns, StopCalled, StopReturns
<1>8. CASE AudioArrives \/ EventArrives \/ ThrottleExpires \/ FrameUndecodable
  BY <1>1, <1>8 DEF AudioArrives, EventArrives, ThrottleExpires, FrameUndecodable
<1>9. CASE \E idr, lost \in BOOLEAN : FrameArrives(idr, lost)
  BY <1>1, <1>9 DEF FrameArrives
<1>10. CASE \E first \in 2 .. MaxFrames : PointArrives(first)
  BY <1>1, <1>10 DEF PointArrives
<1>11. CASE UNCHANGED vars
  BY <1>1, <1>11 DEF vars
<1> QED
  BY <1>2, <1>3, <1>4, <1>5, <1>6, <1>7, <1>8, <1>9, <1>10, <1>11 DEF Next

-----------------------------------------------------------------------------
(* The frames.                                                             *)

Frames == QueuesTyped /\ Queued /\ GateTyped /\ Cites

(* The frame at the head of the channel: none gated before, none waiting   *)
(* behind it came earlier.                                                 *)
LEMMA NextFrame ==
  ASSUME Frames, frames # <<>>
  PROVE  /\ Head(frames) \in [id : 1 .. sent, idr : BOOLEAN]
         /\ Head(frames).id > lastFrame
         /\ Tail(frames) \in Seq([id : 1 .. sent, idr : BOOLEAN])
         /\ \A i \in 1 .. Len(Tail(frames)) : Tail(frames)[i].id > Head(frames).id
         /\ \A i, j \in 1 .. Len(Tail(frames)) : i < j => Tail(frames)[i].id < Tail(frames)[j].id
<1> DEFINE F == [id : 1 .. sent, idr : BOOLEAN]
<1> HIDE DEF F
<1>1. frames \in Seq(F)
  BY DEF Frames, QueuesTyped, F
<1>2. /\ Len(frames) \in Nat \ {0} /\ Head(frames) = frames[1] /\ frames[1] \in F
      /\ Tail(frames) \in Seq(F) /\ Len(Tail(frames)) = Len(frames) - 1
      /\ \A i \in 1 .. Len(Tail(frames)) : Tail(frames)[i] = frames[i + 1]
  BY <1>1
<1>3. \A i, j \in 1 .. Len(frames) : i < j => frames[i].id < frames[j].id
  BY DEF Frames, Queued
<1>4. \A i \in 1 .. Len(Tail(frames)) : Tail(frames)[i].id > Head(frames).id
  <2>1. ASSUME NEW i \in 1 .. Len(Tail(frames)) PROVE frames[1].id < frames[i + 1].id
    BY <1>2, <1>3
  <2>2. ASSUME NEW i \in 1 .. Len(Tail(frames)) PROVE frames[i + 1] \in F
    BY <1>1, <1>2
  <2> QED
    BY <1>2, <2>1, <2>2 DEF F
<1>5. \A i, j \in 1 .. Len(Tail(frames)) : i < j => Tail(frames)[i].id < Tail(frames)[j].id
  BY <1>2, <1>3
<1>6. Head(frames).id > lastFrame
  BY <1>2 DEF Frames, Queued
<1> QED
  BY <1>2, <1>4, <1>5, <1>6 DEF F

(* A step that leaves the frames, the gate and the history alone: a frame  *)
(* waits only as long as the loop selects.                                 *)
LEMMA FramesKept ==
  ASSUME Frames, UNCHANGED <<sent, frames, lastFrame, lastDelivered, waiting, history>>,
         events' \in 0 .. MaxEvents, pcm' \in 0 .. MaxPcm,
         session' = session \/ session # "selecting" \/ waiting = NoFrame
  PROVE  Frames'
BY DEF Frames, QueuesTyped, Queued, GateTyped, Cites, history

LEMMA FrameArrivesKeeps ==
  ASSUME Frames, NEW idr \in BOOLEAN, NEW lost \in BOOLEAN, FrameArrives(idr, lost)
  PROVE  Frames'
<1> DEFINE f == [id |-> sent + 1, idr |-> idr]
<1>1. /\ sent' = sent + 1 /\ frames' = IF lost THEN frames ELSE Append(frames, f)
      /\ UNCHANGED <<events, pcm, lastFrame, lastDelivered, waiting, handed, passed, cited, session>>
  BY DEF FrameArrives, threadVars, gateVars, history
<1>2. /\ sent \in Nat /\ frames \in Seq([id : 1 .. sent, idr : BOOLEAN]) /\ lastFrame \in 0 .. sent
      /\ \A i, j \in 1 .. Len(frames) : i < j => frames[i].id < frames[j].id
      /\ \A i \in 1 .. Len(frames) : frames[i].id > lastFrame
  BY DEF Frames, QueuesTyped, Queued, GateTyped
<1> DEFINE F == [id : 1 .. sent', idr : BOOLEAN]
<1>3. frames \in Seq(F) /\ f \in F
  <2>1. [id : 1 .. sent, idr : BOOLEAN] \subseteq F
    BY <1>1, <1>2
  <2>2. f \in F
    BY <1>1, <1>2
  <2> HIDE DEF F
  <2> QED
    BY <1>2, <2>1, <2>2, SeqMonotonic
<1>4. \A i \in 1 .. Len(frames) : frames[i].id < f.id
  <2>1. ASSUME NEW i \in 1 .. Len(frames) PROVE frames[i].id \in 1 .. sent
    <3> DEFINE G == [id : 1 .. sent, idr : BOOLEAN]
    <3>1. frames[i] \in G
      <4> frames \in Seq(G)
        BY <1>2
      <4> HIDE DEF G
      <4> QED
        BY ElementOfSeq, LenProperties
    <3> QED
      BY <3>1
  <2> QED
    BY <1>2, <2>1
<1>5. frames' \in Seq(F) /\ Queued'
  <2>1. CASE lost
    BY <1>1, <1>2, <1>3, <2>1 DEF Queued
  <2>2. CASE ~ lost
    <3>1. f.id > lastFrame
      BY <1>2
    <3> HIDE DEF F, f
    <3>2. /\ frames' \in Seq(F) /\ Len(frames) \in Nat /\ Len(frames') = Len(frames) + 1
          /\ \A i \in 1 .. Len(frames) : frames'[i] = frames[i]
          /\ frames'[Len(frames) + 1] = f
      BY <1>1, <1>3, <2>2
    <3>3. ASSUME NEW i \in 1 .. Len(frames'), NEW j \in 1 .. Len(frames'), i < j
          PROVE  frames'[i].id < frames'[j].id
      <4>1. CASE j \in 1 .. Len(frames)
        <5>1. i \in 1 .. Len(frames)
          BY <3>2, <3>3, <4>1
        <5> QED
          BY <1>2, <3>2, <3>3, <4>1, <5>1
      <4>2. CASE j = Len(frames) + 1
        <5>1. i \in 1 .. Len(frames)
          BY <3>2, <3>3, <4>2
        <5> QED
          BY <1>4, <3>2, <4>2, <5>1
      <4> QED
        BY <3>2, <4>1, <4>2
    <3>4. ASSUME NEW i \in 1 .. Len(frames') PROVE frames'[i].id > lastFrame'
      <4>1. CASE i \in 1 .. Len(frames)
        BY <1>1, <1>2, <3>2, <4>1
      <4>2. CASE i = Len(frames) + 1
        BY <1>1, <3>1, <3>2, <4>2
      <4> QED
        BY <3>2, <4>1, <4>2
    <3> QED
      BY <3>2, <3>3, <3>4 DEF Queued
  <2> QED
    BY <2>1, <2>2
<1>6. QueuesTyped'
  BY <1>1, <1>2, <1>5 DEF Frames, QueuesTyped
<1>7. GateTyped' /\ Cites'
  BY <1>1, <1>2 DEF Frames, GateTyped, Cites
<1> QED
  BY <1>5, <1>6, <1>7 DEF Frames

(* A branch that beats the frame's: the frame that waits is cut off.       *)
LEMMA CutKeeps ==
  ASSUME Frames, Cut, UNCHANGED <<sent, frames, lastFrame, lastDelivered, cited>>,
         events' \in 0 .. MaxEvents, pcm' \in 0 .. MaxPcm
  PROVE  Frames'
<1>1. waiting' = NoFrame /\ UNCHANGED <<handed, passed>>
  BY DEF Cut
<1> QED
  BY <1>1 DEF Frames, QueuesTyped, Queued, GateTyped, Cites

(* The wait ends with the frame handed over. *)
LEMMA WaitEndsKeeps ==
  ASSUME Frames, WaitEnds
  PROVE  Frames'
<1>1. /\ waiting # NoFrame /\ handed' = handed \cup {waiting.id} /\ waiting' = NoFrame
      /\ UNCHANGED <<sent, frames, events, pcm, lastFrame, lastDelivered, cited, passed>>
  BY DEF WaitEnds, HandOver, UnchangedGate, queueVars
<1>2. QueuesTyped' /\ Queued'
  BY <1>1 DEF Frames, QueuesTyped, Queued
<1>3. GateTyped' /\ Cites'
  BY <1>1 DEF Frames, GateTyped, Cites
<1> QED
  BY <1>2, <1>3 DEF Frames

(* The gate takes a frame, which is later than all it has seen; what it    *)
(* may cite is the last one it let through before.                         *)
LEMMA FrameGatedKeeps ==
  ASSUME Frames, NEW holds \in BOOLEAN, frames # <<>>, FrameGated(Head(frames), holds)
  PROVE  Frames'
<1> DEFINE f == Head(frames)
<1>1. /\ session = "selecting" /\ waiting = NoFrame /\ frames' = Tail(frames)
      /\ lastFrame' = f.id /\ lastDelivered' = Delivered(f)
      /\ cited' = cited \/ cited' = lastDelivered
      /\ passed' = IF Skipped(f) THEN passed ELSE passed \cup {f.id}
      /\ UNCHANGED <<sent, events, pcm>>
  BY DEF FrameGated, Gate
<1>2. \/ Skipped(f) /\ UNCHANGED <<session, waiting, handed>>
      \/ ~Skipped(f) /\ waiting' = f /\ UNCHANGED <<session, handed>>
      \/ ~Skipped(f) /\ handed' = handed \cup {f.id} /\ waiting' = NoFrame
  BY DEF FrameGated, HandOver
<1>3. Delivered(f) = IF Skipped(f) THEN lastDelivered ELSE f.id
  BY DEF Delivered
<1>4. /\ f \in [id : 1 .. sent, idr : BOOLEAN]
      /\ f.id > lastFrame
      /\ Tail(frames) \in Seq([id : 1 .. sent, idr : BOOLEAN])
      /\ \A i \in 1 .. Len(Tail(frames)) : Tail(frames)[i].id > f.id
      /\ \A i, j \in 1 .. Len(Tail(frames)) : i < j => Tail(frames)[i].id < Tail(frames)[j].id
  BY NextFrame
<1> HIDE DEF f
<1>5. f.id \in 1 .. sent /\ f # NoFrame
  BY <1>4 DEF NoFrame
<1>6. /\ sent \in Nat /\ lastFrame \in 0 .. sent /\ lastDelivered \in 0 .. lastFrame
      /\ passed \subseteq 1 .. lastFrame /\ handed \subseteq passed
      /\ lastDelivered # 0 => lastDelivered \in passed
      /\ cited \in 0 .. sent /\ (cited # 0 => cited \in passed)
  BY DEF Frames, QueuesTyped, GateTyped, Cites
<1>7. QueuesTyped' /\ Queued'
  BY <1>1, <1>4, <1>5 DEF Frames, QueuesTyped, Queued
<1>8. /\ lastFrame < f.id /\ passed \subseteq 1 .. f.id
      /\ cited' \in 0 .. sent /\ (cited' # 0 => cited' \in passed)
  BY <1>1, <1>4, <1>5, <1>6
<1>9. CASE Skipped(f)
  <2>1. lastDelivered' = lastDelivered /\ UNCHANGED <<waiting, handed, passed>>
    BY <1>1, <1>2, <1>3, <1>9
  <2>2. GateTyped'
    BY <1>1, <1>5, <1>6, <1>8, <2>1 DEF GateTyped
  <2>3. Cites'
    <3>1. passed' \subseteq 1 .. lastFrame'
      BY <1>1, <1>8, <2>1
    <3> QED
      BY <1>1, <1>6, <1>8, <2>1, <3>1 DEF Cites
  <2> QED
    BY <1>7, <2>2, <2>3 DEF Frames
<1>10. CASE ~Skipped(f)
  <2>1. lastDelivered' = f.id /\ passed' = passed \cup {f.id}
    BY <1>1, <1>3, <1>10
  <2>2. GateTyped'
    BY <1>1, <1>2, <1>5, <1>6, <1>8, <1>10, <2>1 DEF GateTyped, NoFrame
  <2>3. Cites'
    <3>1. passed' \subseteq 1 .. lastFrame'
      <4>1. f.id \in 1 .. f.id
        BY <1>5, <1>6
      <4> QED
        BY <1>1, <1>8, <2>1, <4>1
    <3>2. handed' \subseteq passed'
      BY <1>2, <1>6, <1>10, <2>1
    <3> QED
      BY <1>1, <1>2, <1>8, <1>10, <2>1, <3>1, <3>2 DEF Cites
  <2> QED
    BY <1>7, <2>2, <2>3 DEF Frames
<1> QED
  BY <1>9, <1>10

(* Every step keeps the frames in order and the citations sound.           *)
LEMMA FramesStep ==
  ASSUME Frames, [Next]_vars
  PROVE  Frames'
<1>0. events \in 0 .. MaxEvents /\ pcm \in 0 .. MaxPcm /\ (waiting # NoFrame => session = "selecting")
  BY DEF Frames, QueuesTyped, GateTyped
<1>1. ASSUME UNCHANGED <<queueVars, gateVars, history>>,
             session' = session \/ session # "selecting" \/ waiting = NoFrame
      PROVE  Frames'
  BY <1>0, <1>1, FramesKept DEF queueVars, gateVars
<1>2. CASE Connects \/ StartFails \/ Streams \/ ConnectionLost \/ ReceiverEnds \/ ReaderEnds
  BY <1>1, <1>2 DEF Connects, StartFails, Streams, ConnectionLost, ReceiverEnds, ReaderEnds
<1>3. CASE CallbackReturns \/ Closes \/ EndpointIdle \/ SessionEnds
  BY <1>1, <1>3 DEF CallbackReturns, Closes, EndpointIdle, SessionEnds
<1>4. CASE AudioReturns \/ AudioEnds \/ StartReturns \/ StopCalled \/ StopReturns
  BY <1>1, <1>4 DEF AudioReturns, AudioEnds, StartReturns, StopCalled, StopReturns
<1>5. CASE AudioArrives \/ EventArrives \/ AudioPlays
  <2>1. /\ events' \in 0 .. MaxEvents /\ pcm' \in 0 .. MaxPcm
        /\ UNCHANGED <<sent, frames, lastFrame, lastDelivered, waiting, history, session>>
    BY <1>0, <1>5, ClientSessionAssumption
       DEF AudioArrives, EventArrives, AudioPlays, threadVars, gateVars, ClientSessionAssumption
  <2> QED
    BY <2>1, FramesKept
<1>6. CASE ThrottleExpires \/ FrameUndecodable \/ \E first \in 2 .. MaxFrames : PointArrives(first)
  <2>1. /\ UNCHANGED <<sent, frames, events, pcm, lastFrame, lastDelivered, waiting, history, session>>
    BY <1>6 DEF ThrottleExpires, FrameUndecodable, PointArrives, threadVars, queueVars
  <2> QED
    BY <1>0, <2>1, FramesKept
<1>7. CASE \E idr, lost \in BOOLEAN : FrameArrives(idr, lost)
  BY <1>7, FrameArrivesKeeps
<1>8. CASE StopWins \/ EventWins \/ ClosedEventsWin
  <2>1. /\ Cut /\ UNCHANGED <<sent, frames, lastFrame, lastDelivered, cited, pcm>>
        /\ events' = events \/ (events > 0 /\ events' = events - 1)
    BY <1>8 DEF StopWins, EventWins, ClosedEventsWin, UnchangedGate, queueVars
  <2>2. events' \in 0 .. MaxEvents /\ pcm' \in 0 .. MaxPcm
    BY <1>0, <2>1, ClientSessionAssumption DEF ClientSessionAssumption
  <2> QED
    BY <2>1, <2>2, CutKeeps
<1>9. CASE WaitEnds
  BY <1>9, WaitEndsKeeps
<1>10. CASE FramesEnd
  BY <1>1, <1>10 DEF FramesEnd
<1>11. CASE \E holds \in BOOLEAN : frames # <<>> /\ FrameGated(Head(frames), holds)
  BY <1>11, FrameGatedKeeps
<1>12. CASE UNCHANGED vars
  BY <1>1, <1>12 DEF vars, threadVars
<1> QED
  BY <1>2, <1>3, <1>4, <1>5, <1>6, <1>7, <1>8, <1>9, <1>10, <1>11, <1>12 DEF Next, Select

-----------------------------------------------------------------------------
(* What follows.                                                           *)

(* The invariant holds in every reachable state. *)
LEMMA InvAlways == Spec => []Inv
<1>1. Inv /\ [Next]_vars => Inv'
  BY ThreadsStep, FramesStep DEF Inv, Frames
<1> QED
  BY InvInit, <1>1, PTL DEF Spec

(* The threads are in the phases they can be in, and a frame waits only    *)
(* where the loop selects (TypeOK).                                        *)
THEOREM TypeCorrect == Spec => []TypeOK
<1>1. Inv => TypeOK
  <2> SUFFICES ASSUME Inv PROVE TypeOK
    OBVIOUS
  <2>1. sent \in Nat /\ lastFrame \in 0 .. sent /\ lastDelivered \in 0 .. sent /\ cited \in 0 .. sent
    BY DEF Inv, QueuesTyped, GateTyped
  <2>2. handed \cup passed \subseteq 1 .. sent
    BY <2>1 DEF Inv, Cites
  <2> QED
    BY <2>1, <2>2 DEF Inv, ThreadsTyped, QueuesTyped, GateTyped, TypeOK, Before, Live
<1> QED
  BY <1>1, InvAlways, PTL

(* After gsa_session_stop has returned, or gsa_session_start has failed,   *)
(* no callback fires: the contract of the C interface, whatever thread is  *)
(* in whatever call when the stop comes.                                   *)
THEOREM NoCallbackAfterStop == Spec => []QuietAfterStop
<1>1. Inv => QuietAfterStop
  BY DEF Inv, Ended, QuietAfterStop
<1> QED
  BY <1>1, InvAlways, PTL

(* However many frames are lost, skipped, held back or cut off by the      *)
(* select, a recovery request names one the gate let through, and the      *)
(* embedder is handed no other.                                            *)
THEOREM RequestsCiteFrames == Spec => []CitesPassed
<1>1. Inv => CitesPassed
  BY DEF Inv, Cites, CitesPassed
<1> QED
  BY <1>1, InvAlways, PTL

-----------------------------------------------------------------------------
(* The input.                                                              *)

Modifiers == {"left", "right"}

InputEvents ==
  {Key(k, d) : k \in Modifiers, d \in BOOLEAN} \cup {Snapshot(s) : s \in PadStates} \cup {Disconnect}

InputTyped ==
  /\ host \in {"macos", "windows"} /\ injects \in BOOLEAN
  /\ phase \in {"connecting", "streaming", "ended"}
  /\ held \subseteq Modifiers /\ focused \in BOOLEAN /\ pad \in PadStates \cup {NoPad}
  /\ announced \in BOOLEAN /\ shown \in BOOLEAN
  /\ toAgent \in Seq(InputEvents) /\ toClient \in Seq(BOOLEAN)
  /\ down \subseteq Modifiers /\ flag \in BOOLEAN
  /\ seat \in Nat

\* Nothing is sent but while streaming, and nothing injected but by a host
\* that may.
OnlyStreaming ==
  /\ phase # "streaming" => toAgent = <<>> /\ ~flag
  /\ phase = "connecting" => down = {}
  /\ phase = "ended" => seat = Unplugged

OnlyInjected ==
  /\ seat # Unplugged => injects /\ host = "windows"
  /\ down # {} => injects
  /\ flag => injects /\ host = "macos"

\* The event comes behind the i-th of those in transit.
ComesBehind(i, e) == \E j \in 1 .. Len(toAgent) : j > i /\ toAgent[j] = e

\* A controller whose reading is on the way is still there, or its
\* disconnection follows; a key that goes down is held, or its release
\* follows, or was not seen.
SnapshotsFollowed ==
  \A i \in 1 .. Len(toAgent) :
    toAgent[i].type = "Gamepad" => announced \/ ComesBehind(i, Disconnect)

PressesFollowed ==
  \A i \in 1 .. Len(toAgent), k \in Modifiers :
    toAgent[i] = Key(k, TRUE) => k \in held \/ k \in unseen \/ ComesBehind(i, Key(k, FALSE))

PadAttended == seat # Unplugged => announced \/ ComesBehind(0, Disconnect)
PadTold     == phase # "ended" => Told = (seat # Unplugged)

KeyAttended ==
  phase # "ended" =>
    \A k \in down \ held : k \in unseen \/ ComesBehind(0, Key(k, FALSE))
FlagFollows ==
  flag => \E k \in Modifiers : k \in held \/ k \in unseen \/ ComesBehind(0, Key(k, FALSE))

InputInv ==
  /\ InputTyped /\ OnlyStreaming /\ OnlyInjected
  /\ SnapshotsFollowed /\ PressesFollowed
  /\ PadAttended /\ PadTold /\ KeyAttended /\ FlagFollows

(* The messages are told apart by what they are.                           *)
LEMMA EventsDiffer ==
  /\ \A k \in Modifiers, d \in BOOLEAN :
       /\ Key(k, d) \in InputEvents
       /\ Key(k, d).type = "Key" /\ Key(k, d).key = k /\ Key(k, d).down = d
  /\ \A s \in PadStates :
       Snapshot(s) \in InputEvents /\ Snapshot(s).type = "Gamepad" /\ Snapshot(s).state = s
  /\ Disconnect \in InputEvents /\ Disconnect.type = "GamepadDisconnect"
<1>1. ASSUME NEW k \in Modifiers, NEW d \in BOOLEAN
      PROVE  /\ Key(k, d) \in InputEvents
             /\ Key(k, d).type = "Key" /\ Key(k, d).key = k /\ Key(k, d).down = d
  BY DEF InputEvents, Key
<1>2. ASSUME NEW s \in PadStates
      PROVE  Snapshot(s) \in InputEvents /\ Snapshot(s).type = "Gamepad" /\ Snapshot(s).state = s
  BY DEF InputEvents, Snapshot
<1>3. Disconnect \in InputEvents /\ Disconnect.type = "GamepadDisconnect"
  BY DEF InputEvents, Disconnect
<1> QED
  BY <1>1, <1>2, <1>3

LEMMA EventIs ==
  ASSUME NEW e \in InputEvents
  PROVE  \/ \E k \in Modifiers, d \in BOOLEAN : e = Key(k, d) /\ e.type = "Key" /\ e.key = k /\ e.down = d
         \/ \E s \in PadStates : e = Snapshot(s) /\ e.type = "Gamepad" /\ e.state = s
         \/ e = Disconnect /\ e.type = "GamepadDisconnect"
BY DEF InputEvents, Key, Snapshot, Disconnect

(* What is sent comes behind everything, and what came behind still does.  *)
LEMMA SentBehind ==
  ASSUME toAgent \in Seq(InputEvents), NEW e \in InputEvents, toAgent' = Append(toAgent, e)
  PROVE  /\ toAgent' \in Seq(InputEvents) /\ Len(toAgent') = Len(toAgent) + 1
         /\ \A i \in 1 .. Len(toAgent) : toAgent'[i] = toAgent[i] /\ ComesBehind(i, e)'
         /\ ComesBehind(0, e)'
         /\ \A i \in 1 .. Len(toAgent') : i \in Nat /\ (i \in 1 .. Len(toAgent) \/ toAgent'[i] = e)
         /\ \A i \in Nat : \A x : ComesBehind(i, x) => ComesBehind(i, x)'
BY DEF ComesBehind

(* What is taken is the first; the others move up.                         *)
LEMMA TakenFirst ==
  ASSUME toAgent \in Seq(InputEvents), toAgent # <<>>, toAgent' = Tail(toAgent)
  PROVE  /\ Head(toAgent) = toAgent[1] /\ Head(toAgent) \in InputEvents
         /\ toAgent' \in Seq(InputEvents) /\ Len(toAgent') = Len(toAgent) - 1
         /\ 1 \in 1 .. Len(toAgent)
         /\ \A i \in 1 .. Len(toAgent') : i + 1 \in 1 .. Len(toAgent) /\ toAgent'[i] = toAgent[i + 1]
         /\ \A i \in Nat : \A x : ComesBehind(i + 1, x) => ComesBehind(i, x)'
         /\ \A x : ComesBehind(0, x) => Head(toAgent) = x \/ ComesBehind(0, x)'
<1>1. /\ Head(toAgent) = toAgent[1] /\ Len(toAgent) \in Nat /\ Len(toAgent) > 0
      /\ toAgent' \in Seq(InputEvents) /\ Len(toAgent') = Len(toAgent) - 1
      /\ \A i \in 1 .. Len(toAgent') : toAgent'[i] = toAgent[i + 1]
  OBVIOUS
<1>2. Head(toAgent) \in InputEvents
  BY <1>1
<1>3. ASSUME NEW i \in Nat, NEW x, ComesBehind(i + 1, x)
      PROVE  ComesBehind(i, x)'
  <2>1. PICK j \in 1 .. Len(toAgent) : j > i + 1 /\ toAgent[j] = x
    BY <1>3 DEF ComesBehind
  <2>2. j - 1 \in 1 .. Len(toAgent') /\ j - 1 > i /\ toAgent'[j - 1] = x
    BY <1>1, <2>1
  <2> QED
    BY <2>2 DEF ComesBehind
<1>4. ASSUME NEW x, ComesBehind(0, x), Head(toAgent) # x
      PROVE  ComesBehind(0, x)'
  <2>1. PICK j \in 1 .. Len(toAgent) : toAgent[j] = x
    BY <1>4 DEF ComesBehind
  <2>2. j - 1 \in 1 .. Len(toAgent') /\ j - 1 > 0 /\ toAgent'[j - 1] = x
    BY <1>1, <1>4, <2>1
  <2> QED
    BY <2>2 DEF ComesBehind
<1> QED
  BY <1>1, <1>2, <1>3, <1>4

(* The last of a sequence is the last of its tail.                         *)
LEMMA LastOfTail ==
  ASSUME NEW S, NEW s \in Seq(S), s # <<>>, Len(s) # 1
  PROVE  Tail(s) # <<>> /\ Last(Tail(s)) = Last(s)
<1>1. Len(s) \in Nat /\ Len(s) > 1
  BY EmptySeq
<1>2. Len(Tail(s)) = Len(s) - 1 /\ Len(s) - 1 \in 1 .. Len(Tail(s))
  BY <1>1, HeadTailProperties
<1>3. Tail(s)[Len(s) - 1] = s[Len(s)]
  BY <1>1, <1>2, HeadTailProperties
<1>4. Tail(s) # <<>>
  <2>1. Len(<<>>) = 0
    OBVIOUS
  <2>2. Len(Tail(s)) # 0
    BY <1>1, <1>2
  <2> QED
    BY <2>1, <2>2
<1>5. Tail(s)[Len(Tail(s))] = s[Len(s)]
  BY <1>2, <1>3
<1> QED
  BY <1>4, <1>5 DEF Last

(* Who is told last.                                                       *)
LEMMA ToldLast ==
  ASSUME toClient \in Seq(BOOLEAN), NEW b \in BOOLEAN, toClient' = Append(toClient, b)
  PROVE  toClient' \in Seq(BOOLEAN) /\ Told' = b
BY DEF Told, Last

LEMMA InputInitial == ASSUME InputInit PROVE InputInv
<1>1. Hosts \subseteq {"macos", "windows"}
  BY InputAssumption
<1>2. toAgent = <<>> /\ toClient = <<>> /\ Len(toAgent) = 0
  BY DEF InputInit
<1>3. InputTyped
  <2>1. <<>> \in Seq(InputEvents) /\ <<>> \in Seq(BOOLEAN)
    OBVIOUS
  <2> QED
    BY <1>1, <2>1 DEF InputInit, InputTyped, NoPad, Unplugged
<1>4. SnapshotsFollowed /\ PressesFollowed
  BY <1>2 DEF SnapshotsFollowed, PressesFollowed
<1>5. PadAttended /\ PadTold /\ KeyAttended /\ FlagFollows
  BY <1>2 DEF InputInit, PadAttended, PadTold, KeyAttended, FlagFollows, Told
<1> QED
  BY <1>2, <1>3, <1>4, <1>5 DEF InputInit, InputInv, OnlyStreaming, OnlyInjected

(* Steps that leave both queues.                                           *)
LEMMA QueuesKept ==
  ASSUME UNCHANGED <<toAgent, toClient>>
  PROVE  /\ \A i, x : ComesBehind(i, x)' <=> ComesBehind(i, x)
         /\ UNCHANGED shown => Told' = Told
BY DEF ComesBehind, Told, Last

LEMMA ReadyKeeps == ASSUME InputInv, Ready PROVE InputInv'
<1> USE DEF InputInv, Ready, fixed, userVars, captureVars, keyVars, padVars
<1>1. InputTyped' /\ OnlyStreaming' /\ OnlyInjected'
  BY DEF InputTyped, OnlyStreaming, OnlyInjected, Unplugged
<1>2. SnapshotsFollowed' /\ PressesFollowed'
  BY QueuesKept DEF SnapshotsFollowed, PressesFollowed
<1>3. PadAttended' /\ PadTold' /\ KeyAttended' /\ FlagFollows'
  BY QueuesKept DEF PadAttended, PadTold, KeyAttended, FlagFollows
<1> QED
  BY <1>1, <1>2, <1>3

LEMMA FocusKeeps == ASSUME InputInv, FocusChanges PROVE InputInv'
<1> USE DEF InputInv, FocusChanges, fixed, captureVars, keyVars, padVars
<1>1. InputTyped' /\ OnlyStreaming' /\ OnlyInjected'
  BY DEF InputTyped, OnlyStreaming, OnlyInjected
<1>2. SnapshotsFollowed' /\ PressesFollowed'
  BY QueuesKept DEF SnapshotsFollowed, PressesFollowed
<1>3. PadAttended' /\ PadTold' /\ KeyAttended' /\ FlagFollows'
  BY QueuesKept DEF PadAttended, PadTold, KeyAttended, FlagFollows
<1> QED
  BY <1>1, <1>2, <1>3

LEMMA PadChangesKeeps ==
  ASSUME InputInv, NEW state \in PadStates \cup {NoPad}, PadChanges(state)
  PROVE  InputInv'
<1> USE DEF InputInv, PadChanges, fixed, captureVars, keyVars, padVars
<1>1. InputTyped' /\ OnlyStreaming' /\ OnlyInjected'
  BY DEF InputTyped, OnlyStreaming, OnlyInjected
<1>2. SnapshotsFollowed' /\ PressesFollowed'
  BY QueuesKept DEF SnapshotsFollowed, PressesFollowed
<1>3. PadAttended' /\ PadTold' /\ KeyAttended' /\ FlagFollows'
  BY QueuesKept DEF PadAttended, PadTold, KeyAttended, FlagFollows
<1> QED
  BY <1>1, <1>2, <1>3

LEMMA StreamEndsKeeps == ASSUME InputInv, StreamEnds PROVE InputInv'
<1> USE DEF InputInv, StreamEnds, fixed, userVars, captureVars
<1>1. <<>> \in Seq(InputEvents) /\ <<>> \in Seq(BOOLEAN) /\ Len(<<>>) = 0
  OBVIOUS
<1>2. InputTyped' /\ OnlyStreaming' /\ OnlyInjected'
  BY <1>1 DEF InputTyped, OnlyStreaming, OnlyInjected, Unplugged
<1>3. Len(toAgent') = 0
  BY <1>1
<1>4. SnapshotsFollowed' /\ PressesFollowed'
  BY <1>3 DEF SnapshotsFollowed, PressesFollowed
<1>5. PadAttended' /\ PadTold' /\ KeyAttended' /\ FlagFollows'
  BY DEF PadAttended, PadTold, KeyAttended, FlagFollows
<1> QED
  BY <1>2, <1>4, <1>5

LEMMA ClientNotifiedKeeps == ASSUME InputInv, ClientNotified PROVE InputInv'
<1> USE DEF InputInv, ClientNotified, fixed, userVars, captureVars, keyVars, padVars
<1>1. toClient \in Seq(BOOLEAN) /\ toClient # <<>>
  BY DEF InputTyped
<1>2. Head(toClient) \in BOOLEAN /\ Tail(toClient) \in Seq(BOOLEAN)
  BY <1>1
<1>3. InputTyped' /\ OnlyStreaming' /\ OnlyInjected'
  BY <1>2 DEF InputTyped, OnlyStreaming, OnlyInjected
<1>4. Told' = Told
  <2>1. CASE Len(toClient) = 1
    BY <1>1, <2>1 DEF Told, Last
  <2>2. CASE Len(toClient) # 1
    BY <1>1, <2>2, LastOfTail DEF Told
  <2> QED
    BY <2>1, <2>2
<1>5. \A i, x : ComesBehind(i, x)' <=> ComesBehind(i, x)
  BY DEF ComesBehind
<1>6. SnapshotsFollowed' /\ PressesFollowed'
  BY <1>5 DEF SnapshotsFollowed, PressesFollowed
<1>7. PadAttended' /\ PadTold' /\ KeyAttended' /\ FlagFollows'
  BY <1>4, <1>5 DEF PadAttended, PadTold, KeyAttended, FlagFollows
<1> QED
  BY <1>3, <1>6, <1>7

LEMMA PressKeeps == ASSUME InputInv, NEW k \in Keys, Press(k) PROVE InputInv'
<1> USE DEF InputInv, fixed, captureVars, keyVars, padVars
<1>1. k \in Modifiers
  BY DEF Keys, Modifiers
<1>2. CASE toAgent' = toAgent
  <2>1. \A i, x : ComesBehind(i, x)' <=> ComesBehind(i, x)
    BY <1>2 DEF ComesBehind
  <2>2. Told' = Told
    BY DEF Press, Told, Last
  <2>3. InputTyped' /\ OnlyStreaming' /\ OnlyInjected'
    BY <1>1, <1>2 DEF Press, InputTyped, OnlyStreaming, OnlyInjected
  <2>4. SnapshotsFollowed' /\ PressesFollowed'
    BY <1>2, <2>1 DEF Press, SnapshotsFollowed, PressesFollowed
  <2>5. PadAttended' /\ PadTold' /\ KeyAttended' /\ FlagFollows'
    BY <2>1, <2>2 DEF Press, PadAttended, PadTold, KeyAttended, FlagFollows
  <2> QED
    BY <2>3, <2>4, <2>5
<1>3. CASE phase = "streaming" /\ toAgent' = Append(toAgent, Key(k, TRUE))
  <2> DEFINE e == Key(k, TRUE)
  <2>1. toAgent \in Seq(InputEvents) /\ e \in InputEvents /\ e.type = "Key"
    BY <1>1, EventsDiffer DEF InputTyped
  <2>2. /\ toAgent' \in Seq(InputEvents) /\ Len(toAgent') = Len(toAgent) + 1
        /\ \A i \in 1 .. Len(toAgent) : toAgent'[i] = toAgent[i] /\ ComesBehind(i, e)'
        /\ \A i \in 1 .. Len(toAgent') : i \in Nat /\ (i \in 1 .. Len(toAgent) \/ toAgent'[i] = e)
        /\ \A i \in Nat : \A x : ComesBehind(i, x) => ComesBehind(i, x)'
    BY <1>3, <2>1, SentBehind
  <2>3. Told' = Told
    BY DEF Press, Told, Last
  <2>4. InputTyped' /\ OnlyStreaming' /\ OnlyInjected'
    BY <1>1, <1>3, <2>2 DEF Press, InputTyped, OnlyStreaming, OnlyInjected
  <2>6. SnapshotsFollowed'
    <3>1. SUFFICES ASSUME NEW i \in 1 .. Len(toAgent'), toAgent'[i].type = "Gamepad"
                   PROVE  announced \/ ComesBehind(i, Disconnect)'
      BY DEF Press, SnapshotsFollowed
    <3>2. i \in 1 .. Len(toAgent) /\ i \in Nat /\ toAgent[i].type = "Gamepad"
      BY <2>1, <2>2, <3>1
    <3> QED
      BY <2>2, <3>2 DEF SnapshotsFollowed
  <2>7. PressesFollowed'
    <3>1. SUFFICES ASSUME NEW i \in 1 .. Len(toAgent'), NEW l \in Modifiers,
                          toAgent'[i] = Key(l, TRUE)
                   PROVE  l \in held' \/ l \in unseen' \/ ComesBehind(i, Key(l, FALSE))'
      BY DEF PressesFollowed
    <3>2. CASE i \in 1 .. Len(toAgent)
      <4>1. toAgent[i] = Key(l, TRUE) /\ i \in Nat
        BY <2>2, <3>1, <3>2
      <4>2. l \in held \/ l \in unseen \/ ComesBehind(i, Key(l, FALSE))
        BY <3>2, <4>1 DEF PressesFollowed
      <4> QED
        BY <2>2, <4>1, <4>2 DEF Press
    <3>3. CASE toAgent'[i] = e
      BY <3>1, <3>3 DEF Press, Key
    <3> QED
      BY <2>2, <3>2, <3>3
  <2>8. PadAttended' /\ PadTold' /\ KeyAttended' /\ FlagFollows'
    BY <2>2, <2>3 DEF Press, PadAttended, PadTold, KeyAttended, FlagFollows
  <2> QED
    BY <2>4, <2>6, <2>7, <2>8
<1> QED
  BY <1>2, <1>3 DEF Press, KeySent

LEMMA ReleaseKeeps == ASSUME InputInv, NEW k \in Keys, Release(k) PROVE InputInv'
<1> USE DEF InputInv, fixed, captureVars, padVars
<1>1. k \in Modifiers /\ held' = held \ {k}
  BY DEF Keys, Modifiers, Release
<1>2. Told' = Told
  BY DEF Release, Told, Last
<1>3. CASE ~focused
  <2>1. toAgent' = toAgent /\ unseen' = unseen \cup {k}
    BY <1>3 DEF Release
  <2>2. \A i, x : ComesBehind(i, x)' <=> ComesBehind(i, x)
    BY <2>1 DEF ComesBehind
  <2>3. InputTyped' /\ OnlyStreaming' /\ OnlyInjected'
    BY <2>1 DEF Release, InputTyped, OnlyStreaming, OnlyInjected
  <2>4. SnapshotsFollowed' /\ PressesFollowed'
    BY <2>1, <2>2 DEF Release, SnapshotsFollowed, PressesFollowed
  <2>5. PadAttended' /\ PadTold' /\ KeyAttended' /\ FlagFollows'
    BY <1>2, <2>1, <2>2 DEF Release, PadAttended, PadTold, KeyAttended, FlagFollows
  <2> QED
    BY <2>3, <2>4, <2>5
<1>4. CASE focused /\ phase # "streaming"
  <2>1. /\ toAgent' = toAgent /\ unseen' = unseen \ {k} /\ Len(toAgent) = 0 /\ down = {}
        /\ ~flag /\ ~flag'
    BY <1>4 DEF Release, KeySent, OnlyStreaming, InputTyped
  <2>2. \A i, x : ComesBehind(i, x)' <=> ComesBehind(i, x)
    BY <2>1 DEF ComesBehind
  <2>3. InputTyped' /\ OnlyStreaming' /\ OnlyInjected'
    BY <2>1 DEF Release, InputTyped, OnlyStreaming, OnlyInjected
  <2>4. SnapshotsFollowed' /\ PressesFollowed'
    BY <2>1 DEF Release, SnapshotsFollowed, PressesFollowed
  <2>5. PadAttended' /\ PadTold' /\ KeyAttended' /\ FlagFollows'
    BY <1>2, <2>1, <2>2 DEF Release, PadAttended, PadTold, KeyAttended, FlagFollows
  <2> QED
    BY <2>3, <2>4, <2>5
<1>5. CASE focused /\ phase = "streaming"
  <2> DEFINE e == Key(k, FALSE)
  <2>1. /\ toAgent \in Seq(InputEvents) /\ e \in InputEvents /\ e.type = "Key"
        /\ \A l : e # Key(l, TRUE)
    <3>1. e.down = FALSE /\ \A l : Key(l, TRUE).down = TRUE
      BY DEF Key
    <3> QED
      BY <1>1, <3>1, EventsDiffer DEF InputTyped
  <2>2. toAgent' = Append(toAgent, e) /\ unseen' = unseen \ {k}
    BY <1>5 DEF Release, KeySent
  <2>3. /\ toAgent' \in Seq(InputEvents) /\ Len(toAgent') = Len(toAgent) + 1
        /\ \A i \in 1 .. Len(toAgent) : toAgent'[i] = toAgent[i] /\ ComesBehind(i, e)'
        /\ ComesBehind(0, e)'
        /\ \A i \in 1 .. Len(toAgent') : i \in Nat /\ (i \in 1 .. Len(toAgent) \/ toAgent'[i] = e)
        /\ \A i \in Nat : \A x : ComesBehind(i, x) => ComesBehind(i, x)'
    BY <2>1, <2>2, SentBehind
  <2>4. InputTyped' /\ OnlyStreaming' /\ OnlyInjected'
    BY <1>5, <2>3 DEF Release, InputTyped, OnlyStreaming, OnlyInjected
  <2>6. SnapshotsFollowed'
    <3>1. SUFFICES ASSUME NEW i \in 1 .. Len(toAgent'), toAgent'[i].type = "Gamepad"
                   PROVE  announced \/ ComesBehind(i, Disconnect)'
      BY DEF Release, SnapshotsFollowed
    <3>2. i \in 1 .. Len(toAgent) /\ i \in Nat /\ toAgent[i].type = "Gamepad"
      BY <2>1, <2>3, <3>1
    <3> QED
      BY <2>3, <3>2 DEF SnapshotsFollowed
  <2>7. PressesFollowed'
    <3>1. SUFFICES ASSUME NEW i \in 1 .. Len(toAgent'), NEW l \in Modifiers,
                          toAgent'[i] = Key(l, TRUE)
                   PROVE  l \in held' \/ l \in unseen' \/ ComesBehind(i, Key(l, FALSE))'
      BY DEF PressesFollowed
    <3>2. i \in 1 .. Len(toAgent) /\ i \in Nat /\ toAgent[i] = Key(l, TRUE)
      BY <2>1, <2>3, <3>1
    <3>3. CASE l = k
      BY <2>3, <3>2, <3>3
    <3>4. CASE l # k
      <4>1. l \in held \/ l \in unseen \/ ComesBehind(i, Key(l, FALSE))
        BY <3>2 DEF PressesFollowed
      <4> QED
        BY <1>1, <2>2, <2>3, <3>2, <3>4, <4>1
    <3> QED
      BY <3>3, <3>4
  <2>8. PadAttended' /\ PadTold'
    BY <1>2, <2>3 DEF Release, PadAttended, PadTold
  <2>10. FlagFollows'
    <3>1. SUFFICES ASSUME flag
                   PROVE  \E l \in Modifiers : l \in held' \/ l \in unseen' \/ ComesBehind(0, Key(l, FALSE))'
      BY DEF Release, FlagFollows
    <3>2. PICK l \in Modifiers : l \in held \/ l \in unseen \/ ComesBehind(0, Key(l, FALSE))
      BY <3>1 DEF FlagFollows
    <3>3. CASE l = k
      BY <1>1, <2>3, <3>3
    <3>4. CASE l # k
      BY <1>1, <2>2, <2>3, <3>2, <3>4
    <3> QED
      BY <3>3, <3>4
  <2>9. KeyAttended'
    <3>1. SUFFICES ASSUME phase # "ended", NEW l \in down \ held'
                   PROVE  l \in unseen' \/ ComesBehind(0, Key(l, FALSE))'
      BY DEF Release, KeyAttended
    <3>2. CASE l = k
      BY <2>3, <3>2
    <3>3. CASE l # k
      BY <1>1, <2>2, <2>3, <3>1, <3>3 DEF KeyAttended
    <3> QED
      BY <3>2, <3>3
  <2> QED
    BY <2>4, <2>6, <2>7, <2>8, <2>9, <2>10
<1> QED
  BY <1>3, <1>4, <1>5 DEF InputTyped

(* What is sent of the controller.                                         *)
LEMMA PollKeeps == ASSUME InputInv, Poll PROVE InputInv'
<1> USE DEF InputInv, fixed, userVars, keyVars, padVars
<1>1. PICK e \in {Disconnect} \cup {Snapshot(s) : s \in PadStates} :
        /\ toAgent' = Append(toAgent, e)
        /\ announced' = (e # Disconnect)
        /\ phase = "streaming"
  <2>1. CASE pad = NoPad /\ announced
    BY <2>1, EventsDiffer DEF Poll, PadGone
  <2>2. CASE pad # NoPad
    <3>1. pad \in PadStates
      BY <2>2 DEF InputTyped
    <3>2. Snapshot(pad) # Disconnect
      BY <3>1, EventsDiffer
    <3> QED
      BY <2>2, <3>1, <3>2 DEF Poll
  <2> QED
    BY <2>1, <2>2 DEF Poll
<1>2. /\ toAgent \in Seq(InputEvents) /\ e \in InputEvents
      /\ \A k \in Modifiers, d \in BOOLEAN : e # Key(k, d)
  BY EventsDiffer DEF InputTyped
<1>3. /\ toAgent' \in Seq(InputEvents) /\ Len(toAgent') = Len(toAgent) + 1
      /\ \A i \in 1 .. Len(toAgent) : toAgent'[i] = toAgent[i] /\ ComesBehind(i, e)'
      /\ ComesBehind(0, e)'
      /\ \A i \in 1 .. Len(toAgent') : i \in Nat /\ (i \in 1 .. Len(toAgent) \/ toAgent'[i] = e)
      /\ \A i \in Nat : \A x : ComesBehind(i, x) => ComesBehind(i, x)'
  BY <1>1, <1>2, SentBehind
<1>4. announced' \in BOOLEAN /\ (e = Disconnect \/ announced')
  BY <1>1
<1>5. Told' = Told
  BY DEF Poll, Told, Last
<1>6. InputTyped' /\ OnlyStreaming' /\ OnlyInjected'
  BY <1>1, <1>3, <1>4 DEF Poll, InputTyped, OnlyStreaming, OnlyInjected
<1>7. SnapshotsFollowed'
  <2>1. SUFFICES ASSUME NEW i \in 1 .. Len(toAgent'), toAgent'[i].type = "Gamepad", ~announced'
                 PROVE  ComesBehind(i, Disconnect)'
    BY DEF SnapshotsFollowed
  <2>2. e = Disconnect
    BY <1>4, <2>1
  <2> QED
    BY <1>3, <2>1, <2>2, EventsDiffer
<1>8. PressesFollowed'
  <2>1. SUFFICES ASSUME NEW i \in 1 .. Len(toAgent'), NEW k \in Modifiers,
                        toAgent'[i] = Key(k, TRUE)
                 PROVE  k \in held' \/ k \in unseen' \/ ComesBehind(i, Key(k, FALSE))'
    BY DEF PressesFollowed
  <2>2. i \in 1 .. Len(toAgent) /\ i \in Nat /\ toAgent[i] = Key(k, TRUE)
    BY <1>2, <1>3, <2>1
  <2>3. k \in held \/ k \in unseen \/ ComesBehind(i, Key(k, FALSE))
    BY <2>2 DEF PressesFollowed
  <2> QED
    BY <1>3, <2>2, <2>3 DEF Poll
<1>9. PadAttended' /\ PadTold' /\ KeyAttended' /\ FlagFollows'
  BY <1>3, <1>4, <1>5 DEF Poll, PadAttended, PadTold, KeyAttended, FlagFollows
<1> QED
  BY <1>6, <1>7, <1>8, <1>9

(***************************************************************************)
(* What the host takes leaves what follows in order; the four arms differ  *)
(* in what they make of the rest.                                          *)
(***************************************************************************)
LEMMA TakenKeeps ==
  ASSUME InputInv, NEW type, Takes(type)
  PROVE  /\ toAgent' \in Seq(InputEvents) /\ Head(toAgent) \in InputEvents
         /\ Head(toAgent).type = type
         /\ phase = "streaming"
         /\ type = "Gamepad" => announced \/ ComesBehind(0, Disconnect)'
         /\ ComesBehind(0, Disconnect) /\ type # "GamepadDisconnect" => ComesBehind(0, Disconnect)'
         /\ \A k \in Modifiers :
              /\ Head(toAgent) = Key(k, TRUE) =>
                   k \in held \/ k \in unseen \/ ComesBehind(0, Key(k, FALSE))'
              /\ ComesBehind(0, Key(k, FALSE)) /\ Head(toAgent) # Key(k, FALSE) =>
                   ComesBehind(0, Key(k, FALSE))'
         /\ SnapshotsFollowed'
         /\ unseen \subseteq unseen' => PressesFollowed'
<1> USE DEF InputInv
<1>1. toAgent \in Seq(InputEvents) /\ toAgent # <<>> /\ toAgent' = Tail(toAgent)
      /\ Head(toAgent).type = type /\ phase = "streaming"
      /\ UNCHANGED <<held, announced>>
  BY DEF Takes, InputTyped, userVars, captureVars
<1>2. /\ Head(toAgent) = toAgent[1] /\ Head(toAgent) \in InputEvents
      /\ toAgent' \in Seq(InputEvents) /\ Len(toAgent') = Len(toAgent) - 1
      /\ 1 \in 1 .. Len(toAgent)
      /\ \A i \in 1 .. Len(toAgent') : i + 1 \in 1 .. Len(toAgent) /\ toAgent'[i] = toAgent[i + 1]
      /\ \A i \in Nat : \A x : ComesBehind(i + 1, x) => ComesBehind(i, x)'
      /\ \A x : ComesBehind(0, x) => Head(toAgent) = x \/ ComesBehind(0, x)'
  BY <1>1, TakenFirst
<1>3. \A x : ComesBehind(1, x) => ComesBehind(0, x)'
  <2>1. 0 \in Nat /\ 0 + 1 = 1
    OBVIOUS
  <2> QED
    BY <1>2, <2>1
<1>4. type = "Gamepad" => announced \/ ComesBehind(0, Disconnect)'
  BY <1>1, <1>2, <1>3 DEF SnapshotsFollowed
<1>5. ComesBehind(0, Disconnect) /\ type # "GamepadDisconnect" => ComesBehind(0, Disconnect)'
  BY <1>1, <1>2, EventsDiffer
<1>6. ASSUME NEW k \in Modifiers, Head(toAgent) = Key(k, TRUE)
      PROVE  k \in held \/ k \in unseen \/ ComesBehind(0, Key(k, FALSE))'
  BY <1>2, <1>3, <1>6 DEF PressesFollowed
<1>7. SnapshotsFollowed'
  <2>1. SUFFICES ASSUME NEW i \in 1 .. Len(toAgent'), toAgent'[i].type = "Gamepad"
                 PROVE  announced \/ ComesBehind(i, Disconnect)'
    BY <1>1 DEF SnapshotsFollowed
  <2>2. i \in Nat /\ i + 1 \in 1 .. Len(toAgent) /\ toAgent[i + 1].type = "Gamepad"
    BY <1>2, <2>1
  <2> QED
    BY <1>2, <2>2 DEF SnapshotsFollowed
<1>8. ASSUME unseen \subseteq unseen' PROVE PressesFollowed'
  <2>1. SUFFICES ASSUME NEW i \in 1 .. Len(toAgent'), NEW k \in Modifiers,
                        toAgent'[i] = Key(k, TRUE)
                 PROVE  k \in held \/ k \in unseen' \/ ComesBehind(i, Key(k, FALSE))'
    BY <1>1 DEF PressesFollowed
  <2>2. i \in Nat /\ i + 1 \in 1 .. Len(toAgent) /\ toAgent[i + 1] = toAgent'[i]
    BY <1>2
  <2>3. k \in held \/ k \in unseen \/ ComesBehind(i + 1, Key(k, FALSE))
    BY <2>1, <2>2 DEF PressesFollowed
  <2> QED
    BY <1>2, <1>8, <2>2, <2>3
<1> QED
  BY <1>1, <1>2, <1>4, <1>5, <1>6, <1>7, <1>8

LEMMA InjectKeyKeeps == ASSUME InputInv, InjectKey PROVE InputInv'
<1> USE DEF InputInv
<1> DEFINE e == Head(toAgent)
<1>1. /\ Takes("Key") /\ injects
      /\ flag' = Flagged(e.down)
      /\ UNCHANGED <<toClient, seat, host, injects, phase, held, focused, pad,
                     announced, last, shown>>
      /\ \/ down' = With(down, e.key, e.down) /\ UNCHANGED unseen
         \/ UNCHANGED down /\ unseen' = IF e.down THEN unseen ELSE unseen \cup {e.key}
  BY DEF InjectKey, Takes, fixed, userVars, captureVars, padVars
<1>2. /\ toAgent' \in Seq(InputEvents) /\ e \in InputEvents
      /\ e.type = "Key" /\ phase = "streaming"
      /\ ComesBehind(0, Disconnect) => ComesBehind(0, Disconnect)'
      /\ \A k \in Modifiers :
           /\ e = Key(k, TRUE) => k \in held \/ k \in unseen \/ ComesBehind(0, Key(k, FALSE))'
           /\ ComesBehind(0, Key(k, FALSE)) /\ e # Key(k, FALSE) => ComesBehind(0, Key(k, FALSE))'
      /\ SnapshotsFollowed'
      /\ unseen \subseteq unseen' => PressesFollowed'
  BY <1>1, TakenKeeps
<1>3. PICK k \in Modifiers, d \in BOOLEAN : e = Key(k, d) /\ e.key = k /\ e.down = d
  BY <1>2, EventIs
<1> HIDE DEF e
<1>4. unseen \subseteq unseen'
  BY <1>1
<1>5. With(down, k, d) = IF d THEN down \cup {k} ELSE down \ {k}
  BY DEF With
<1>6. down' \subseteq Modifiers /\ flag' \in BOOLEAN
  BY <1>1, <1>3, <1>5 DEF InputTyped, Flagged
<1>7. InputTyped' /\ OnlyStreaming' /\ OnlyInjected'
  BY <1>1, <1>2, <1>6 DEF InputTyped, OnlyStreaming, OnlyInjected, Flagged
<1>8. PadAttended' /\ PadTold'
  BY <1>1, <1>2 DEF PadAttended, PadTold, Told, Last
<1>9. KeyAttended'
  <2>1. SUFFICES ASSUME NEW l \in down' \ held
                 PROVE  l \in unseen' \/ ComesBehind(0, Key(l, FALSE))'
    BY <1>1 DEF KeyAttended
  <2>2. l \in Modifiers
    BY <1>6, <2>1
  <2>3. CASE l = k /\ d
    BY <1>2, <1>3, <1>4, <2>1, <2>2, <2>3
  <2>4. CASE l = k /\ ~d
    BY <1>1, <1>3, <1>5, <2>1, <2>4
  <2>5. CASE l # k
    <3>1. l \in down \ held
      BY <1>1, <1>3, <1>5, <2>1, <2>5
    <3>2. e # Key(l, FALSE)
      <4>1. Key(l, FALSE).key = l
        BY DEF Key
      <4> QED
        BY <1>3, <2>5, <4>1
    <3> QED
      BY <1>2, <1>4, <2>2, <3>1, <3>2 DEF KeyAttended
  <2> QED
    BY <2>3, <2>4, <2>5
<1>10. FlagFollows'
  <2>1. SUFFICES ASSUME flag'
                 PROVE  k \in held \/ k \in unseen' \/ ComesBehind(0, Key(k, FALSE))'
    BY <1>1, <1>3 DEF FlagFollows
  <2>2. e = Key(k, TRUE)
    BY <1>1, <1>3, <2>1 DEF Flagged
  <2> QED
    BY <1>2, <1>4, <2>2
<1> QED
  BY <1>2, <1>4, <1>7, <1>8, <1>9, <1>10

LEMMA InjectSnapshotKeeps == ASSUME InputInv, InjectSnapshot PROVE InputInv'
<1> USE DEF InputInv
<1> DEFINE state == Head(toAgent).state
<1>1. /\ Takes("Gamepad") /\ injects /\ host = "windows"
      /\ UNCHANGED <<down, flag, unseen, host, injects, phase, held, focused, pad,
                     announced, last, shown>>
  BY DEF InjectSnapshot, Takes, fixed, userVars, captureVars, keyVars
<1>2. /\ toAgent' \in Seq(InputEvents) /\ Head(toAgent) \in InputEvents
      /\ Head(toAgent).type = "Gamepad" /\ phase = "streaming"
      /\ announced \/ ComesBehind(0, Disconnect)'
      /\ \A k \in Modifiers :
           ComesBehind(0, Key(k, FALSE)) /\ Head(toAgent) # Key(k, FALSE) =>
             ComesBehind(0, Key(k, FALSE))'
      /\ SnapshotsFollowed'
      /\ unseen \subseteq unseen' => PressesFollowed'
  <2> HIDE DEF InputInv
  <2>1. /\ toAgent' \in Seq(InputEvents) /\ Head(toAgent) \in InputEvents
        /\ Head(toAgent).type = "Gamepad" /\ phase = "streaming"
        /\ announced \/ ComesBehind(0, Disconnect)'
        /\ SnapshotsFollowed'
        /\ unseen \subseteq unseen' => PressesFollowed'
    BY <1>1, TakenKeeps
  <2>2. ASSUME NEW k \in Modifiers, ComesBehind(0, Key(k, FALSE)), Head(toAgent) # Key(k, FALSE)
        PROVE  ComesBehind(0, Key(k, FALSE))'
    BY <1>1, <2>2, TakenKeeps
  <2> QED
    BY <2>1, <2>2
<1>3. state \in Nat /\ state # Unplugged
  <2>1. state \in PadStates
    BY <1>2, EventIs
  <2> QED
    BY <2>1, InputAssumption DEF Unplugged
<1> HIDE DEF state
<1>4. /\ seat' \in Nat
      /\ \/ seat' # Unplugged /\ (seat = Unplugged => toClient' = Append(toClient, TRUE))
            /\ (seat # Unplugged => toClient' = toClient)
         \/ UNCHANGED <<seat, toClient>>
  <2>1. seat \in Nat /\ Neutral \in Nat /\ Neutral # Unplugged
    BY DEF InputTyped, Neutral, Unplugged
  <2>2. \/ /\ seat' \in {state, IF seat = Unplugged THEN Neutral ELSE seat}
           /\ IF seat = Unplugged THEN toClient' = Append(toClient, TRUE) ELSE toClient' = toClient
        \/ seat' = seat /\ toClient' = toClient
    BY DEF InjectSnapshot, Notify, NewlyPlugged, state
  <2> QED
    BY <1>3, <2>1, <2>2
<1>5. toClient' \in Seq(BOOLEAN) /\ PadTold'
  <2>1. CASE toClient' = toClient /\ (seat' # Unplugged <=> seat # Unplugged)
    BY <1>1, <2>1 DEF InputTyped, PadTold, Told, Last
  <2>2. CASE toClient' = Append(toClient, TRUE) /\ seat' # Unplugged
    BY <2>2, ToldLast DEF InputTyped, PadTold
  <2> QED
    BY <1>4, <2>1, <2>2
<1>6. InputTyped' /\ OnlyStreaming' /\ OnlyInjected'
  BY <1>1, <1>2, <1>4, <1>5 DEF InputTyped, OnlyStreaming, OnlyInjected
<1>7. PadAttended'
  BY <1>1, <1>2 DEF PadAttended
<1>8. KeyAttended' /\ FlagFollows'
  <2>1. \A k \in Modifiers : Head(toAgent) # Key(k, FALSE)
    BY <1>2, EventsDiffer
  <2> QED
    BY <1>1, <1>2, <2>1 DEF KeyAttended, FlagFollows, InputTyped
<1> QED
  BY <1>1, <1>2, <1>5, <1>6, <1>7, <1>8

LEMMA InjectDisconnectKeeps == ASSUME InputInv, InjectDisconnect PROVE InputInv'
<1> USE DEF InputInv
<1>1. /\ Takes("GamepadDisconnect") /\ injects /\ host = "windows"
      /\ seat' = Unplugged
      /\ IF seat # Unplugged THEN toClient' = Append(toClient, FALSE) ELSE toClient' = toClient
      /\ UNCHANGED <<down, flag, unseen, host, injects, phase, held, focused, pad,
                     announced, last, shown>>
  BY DEF InjectDisconnect, Takes, Notify, fixed, userVars, captureVars, keyVars
<1>2. /\ toAgent' \in Seq(InputEvents) /\ Head(toAgent) \in InputEvents
      /\ Head(toAgent).type = "GamepadDisconnect" /\ phase = "streaming"
      /\ \A k \in Modifiers :
           ComesBehind(0, Key(k, FALSE)) /\ Head(toAgent) # Key(k, FALSE) =>
             ComesBehind(0, Key(k, FALSE))'
      /\ SnapshotsFollowed'
      /\ unseen \subseteq unseen' => PressesFollowed'
  BY <1>1, TakenKeeps
<1>3. toClient' \in Seq(BOOLEAN) /\ PadTold'
  <2>1. CASE seat = Unplugged
    BY <1>1, <2>1 DEF InputTyped, PadTold, Told, Last
  <2>2. CASE seat # Unplugged
    BY <1>1, <2>2, ToldLast DEF InputTyped, PadTold
  <2> QED
    BY <2>1, <2>2
<1>4. InputTyped' /\ OnlyStreaming' /\ OnlyInjected'
  BY <1>1, <1>2, <1>3 DEF InputTyped, OnlyStreaming, OnlyInjected, Unplugged
<1>5. PadAttended'
  BY <1>1, <1>2 DEF PadAttended
<1>6. KeyAttended' /\ FlagFollows'
  <2>1. \A k \in Modifiers : Head(toAgent) # Key(k, FALSE)
    BY <1>2, EventsDiffer
  <2> QED
    BY <1>1, <1>2, <2>1 DEF KeyAttended, FlagFollows, InputTyped
<1> QED
  BY <1>1, <1>2, <1>3, <1>4, <1>5, <1>6

LEMMA IgnoredKeeps == ASSUME InputInv, Ignored PROVE InputInv'
<1> USE DEF InputInv
<1>1. PICK type \in {"Key", "Gamepad", "GamepadDisconnect"} :
        Takes(type) /\ (~injects \/ (host = "macos" /\ type # "Key"))
  <2>1. CASE ~injects /\ \E type \in {"Key", "Gamepad", "GamepadDisconnect"} : Takes(type)
    <3>1. PICK type \in {"Key", "Gamepad", "GamepadDisconnect"} : Takes(type)
      BY <2>1
    <3> QED
      BY <2>1, <3>1
  <2>2. CASE host = "macos" /\ \E type \in {"Gamepad", "GamepadDisconnect"} : Takes(type)
    BY <2>2
  <2> QED
    BY <2>1, <2>2 DEF Ignored
<1>2. UNCHANGED <<toClient, down, flag, unseen, seat, host, injects, phase, held,
                  focused, pad, announced, last, shown>>
  BY <1>1 DEF Ignored, Takes, fixed, userVars, captureVars, keyVars, padVars
<1>3. /\ toAgent' \in Seq(InputEvents) /\ Head(toAgent) \in InputEvents
      /\ Head(toAgent).type = type /\ phase = "streaming"
      /\ \A k \in Modifiers :
           ComesBehind(0, Key(k, FALSE)) /\ Head(toAgent) # Key(k, FALSE) =>
             ComesBehind(0, Key(k, FALSE))'
      /\ SnapshotsFollowed'
      /\ unseen \subseteq unseen' => PressesFollowed'
  BY <1>1, TakenKeeps
<1>4. InputTyped' /\ OnlyStreaming' /\ OnlyInjected'
  BY <1>2, <1>3 DEF InputTyped, OnlyStreaming, OnlyInjected
<1>5. seat = Unplugged
  BY <1>1 DEF OnlyInjected
<1>6. PadAttended' /\ PadTold'
  BY <1>2, <1>5 DEF PadAttended, PadTold, Told, Last
<1>7. KeyAttended' /\ FlagFollows'
  <2>1. CASE ~injects
    BY <1>2, <2>1 DEF OnlyInjected, KeyAttended, FlagFollows
  <2>2. CASE type # "Key"
    <3>1. \A k \in Modifiers : Head(toAgent) # Key(k, FALSE)
      BY <1>3, <2>2, EventsDiffer
    <3> QED
      BY <1>2, <1>3, <3>1 DEF KeyAttended, FlagFollows, InputTyped
  <2> QED
    BY <1>1, <2>1, <2>2
<1> QED
  BY <1>2, <1>3, <1>4, <1>6, <1>7

LEMMA InputStutter == ASSUME InputInv, UNCHANGED inputVars PROVE InputInv'
<1> USE DEF InputInv, inputVars, fixed, userVars, captureVars, keyVars, padVars
<1>1. InputTyped' /\ OnlyStreaming' /\ OnlyInjected'
  BY DEF InputTyped, OnlyStreaming, OnlyInjected
<1>2. SnapshotsFollowed' /\ PressesFollowed'
  BY QueuesKept DEF SnapshotsFollowed, PressesFollowed
<1>3. PadAttended' /\ PadTold' /\ KeyAttended' /\ FlagFollows'
  BY QueuesKept DEF PadAttended, PadTold, KeyAttended, FlagFollows
<1> QED
  BY <1>1, <1>2, <1>3

LEMMA InputAlways == InputSpec => []InputInv
<1>1. InputInit => InputInv
  BY InputInitial
<1>2. InputInv /\ [InputNext]_inputVars => InputInv'
  <2> SUFFICES ASSUME InputInv, InputNext PROVE InputInv'
    BY InputStutter
  <2>1. CASE Ready
    BY <2>1, ReadyKeeps
  <2>2. CASE \E k \in Keys : Press(k) \/ Release(k)
    BY <2>2, PressKeeps, ReleaseKeeps
  <2>3. CASE FocusChanges
    BY <2>3, FocusKeeps
  <2>4. CASE \E state \in PadStates \cup {NoPad} : PadChanges(state)
    BY <2>4, PadChangesKeeps
  <2>5. CASE Poll
    BY <2>5, PollKeeps
  <2>6. CASE ClientNotified
    BY <2>6, ClientNotifiedKeeps
  <2>7. CASE Inject
    BY <2>7, InjectKeyKeeps, InjectSnapshotKeeps, InjectDisconnectKeeps, IgnoredKeeps DEF Inject
  <2>8. CASE StreamEnds
    BY <2>8, StreamEndsKeeps
  <2> QED
    BY <2>1, <2>2, <2>3, <2>4, <2>5, <2>6, <2>7, <2>8 DEF InputNext
<1> QED
  BY <1>1, <1>2, PTL DEF InputSpec

(* What comes behind the beginning is on the way.                          *)
LEMMA OnTheWay ==
  ASSUME InputInv, NEW x, ComesBehind(0, x)
  PROVE  x \in ToSet(toAgent)
<1>1. DOMAIN toAgent = 1 .. Len(toAgent)
  BY DEF InputInv, InputTyped
<1> QED
  BY <1>1 DEF ComesBehind, ToSet

(***************************************************************************)
(* PadsMirrored, of the host's seat: whatever controllers come and go,     *)
(* whatever the driver refuses - to answer, to plug, to update, to let go  *)
(* of a pad - and however long snapshots and disconnections take.          *)
(***************************************************************************)
THEOREM PadsAreMirrored == InputSpec => []PadsMirrored
<1>1. ASSUME InputInv PROVE PadsMirrored
  <2>1. seat # Unplugged => announced \/ Disconnect \in ToSet(toAgent)
    BY <1>1, OnTheWay DEF InputInv, PadAttended
  <2> QED
    BY <1>1, <2>1 DEF InputInv, PadTold, PadsMirrored
<1> QED
  BY <1>1, InputAlways, PTL

(***************************************************************************)
(* KeysFollowed: with any number of events in transit, any change of focus *)
(* and any event refused, no key stays down and no modifier of macOS stays *)
(* on but for a release that was not seen or was refused.                  *)
(***************************************************************************)
THEOREM KeysAreFollowed == InputSpec => []KeysFollowed
<1>1. ASSUME InputInv PROVE KeysFollowed
  <2>1. SUFFICES ASSUME phase = "streaming"
                 PROVE  /\ \A k \in down \ held : k \in unseen \/ Key(k, FALSE) \in ToSet(toAgent)
                        /\ flag => \E k \in Keys : k \in held \cup unseen \/ Key(k, FALSE) \in ToSet(toAgent)
    BY DEF KeysFollowed
  <2>2. ASSUME NEW k \in down \ held PROVE k \in unseen \/ Key(k, FALSE) \in ToSet(toAgent)
    BY <1>1, <2>1, OnTheWay DEF InputInv, KeyAttended
  <2>3. flag => \E k \in Keys : k \in held \cup unseen \/ Key(k, FALSE) \in ToSet(toAgent)
    <3>1. flag => Keys = Modifiers
      BY <1>1 DEF InputInv, OnlyInjected, Keys, Modifiers
    <3> QED
      BY <1>1, <3>1, OnTheWay DEF InputInv, FlagFollows
  <2> QED
    BY <2>2, <2>3
<1> QED
  BY <1>1, InputAlways, PTL
=============================================================================
