-------------------------- MODULE PipelineThreads --------------------------
(***************************************************************************)
(* One streaming pipeline as its threads run it: a capture source that     *)
(* submits frames to the frame channel, the encode thread, the task that   *)
(* paces and sends the encoded chunks, the audio thread, and the session   *)
(* task that stops the pipeline and drops its handle.  What is checked is  *)
(* what the threads owe each other: that stopping returns, that nothing    *)
(* outlives the handle, that no frame is stranded, that a key frame owed   *)
(* after a dropped backlog is not forgotten, and that the capture ring     *)
(* always has a free texture.                                              *)
(*                                                                         *)
(* Frame contents, bitrate, recovery requests (module LossRecovery) and    *)
(* the datagrams of a chunk (modules FecLayout, VideoStream) are left out. *)
(***************************************************************************)
EXTENDS FrameChannel, Sequences, FiniteSets

CONSTANTS
  Sources,        \* the kinds of source in play, of SourceKinds
  SendBacklogCap, \* SEND_BACKLOG_CAP
  MaxFrames       \* bound: frames captured

SourceKinds == {"test_pattern", "windows", "macos"}

ASSUME PipelineAssumption ==
  /\ Sources \subseteq SourceKinds
  /\ Sources # {}
  /\ SendBacklogCap \in Nat
  /\ MaxFrames \in Nat

RingTexturesTwo == 2
RingTextures == 3

VARIABLES
  source,   \* the kind of source
  capture,  \* what its capture thread or callback is doing
  inHand,   \* the frame the callback has copied but not yet submitted
  encode,   \* where the encode thread is
  frame,    \* the frame it holds
  idr,      \* the directive it submits with that frame
  queue,    \* the chunks between the encode thread and the sender
  sender,   \* where the sender task is
  chunk,    \* the chunk it is sending
  forceIdr, \* the force_idr flag
  stop,     \* the stop flag
  audio,    \* the audio thread: "none", "running", "stopping" or "ended"
  handle,   \* where the session task is with the PipelineHandle
  lost      \* the connection is lost

VARIABLES
  owed,     \* history: a backlog was dropped and no IDR has been sent since
  excused,  \* history: an IDR was lost by the encoder or the packetizer
  starved   \* history: the ring had no free texture

history == <<owed, excused, starved>>
encVars == <<encode, frame, idr>>
sendVars == <<sender, chunk>>
vars == <<chanVars, source, capture, inHand, encVars, queue, sendVars,
          forceIdr, stop, audio, handle, lost, history>>

Init ==
  /\ ChanInit
  /\ source \in Sources
  /\ capture = "on"
  /\ inHand = NoFrame
  /\ encode = "top" /\ frame = NoFrame /\ idr = FALSE
  /\ queue = <<>>
  /\ sender = "select" /\ chunk = "none"
  /\ forceIdr = FALSE
  /\ stop = FALSE
  /\ audio \in {"none", "running"}
  /\ handle = "live"
  /\ lost = FALSE
  /\ owed = FALSE /\ excused = FALSE /\ starved = FALSE

-----------------------------------------------------------------------------
(* The capture side.                                                       *)

\* Ring textures with no owner downstream (strong_count = 1).
FreeTextures == (1 .. RingTextures) \ {slot.texture, frame.texture, inHand.texture}

FirstOf(S) == CHOOSE t \in S : \A u \in S : t <= u

\* The callback has a captured frame; Windows copies it to a free texture
\* and gives the frame up when there is none.
Capture ==
  /\ capture \in {"on", "late"}
  /\ inHand = NoFrame
  /\ offered < MaxFrames
  /\ IF source = "windows"
     THEN IF FreeTextures = {}
          THEN starved' = TRUE /\ UNCHANGED inHand
          ELSE /\ inHand' = [id |-> offered + 1, texture |-> FirstOf(FreeTextures)]
               /\ UNCHANGED starved
     ELSE /\ inHand' = [id |-> offered + 1, texture |-> 0]
          /\ UNCHANGED starved
  /\ UNCHANGED <<chanVars, source, capture, encVars, queue, sendVars, forceIdr,
                 stop, audio, handle, lost, owed, excused>>

\* ... and submits it.  A callback that was running when the source stopped
\* is the last one.
SubmitFrame ==
  /\ inHand # NoFrame
  /\ Submit(inHand)
  /\ inHand' = NoFrame
  /\ capture' = IF capture = "late" THEN "off" ELSE capture
  /\ UNCHANGED <<source, encVars, queue, sendVars, forceIdr, stop, audio, handle,
                 lost, history>>

\* The test pattern's generator thread panics.
GeneratorPanics ==
  /\ source = "test_pattern"
  /\ capture = "on"
  /\ inHand = NoFrame
  /\ capture' = "panicked"
  /\ UNCHANGED <<chanVars, source, inHand, encVars, queue, sendVars, forceIdr, stop,
                 audio, handle, lost, history>>

\* The generator sees its own stop flag, and ends.
GeneratorStops ==
  /\ capture = "stopping"
  /\ inHand = NoFrame
  /\ capture' = "off"
  /\ UNCHANGED <<chanVars, source, inHand, encVars, queue, sendVars, forceIdr, stop,
                 audio, handle, lost, history>>

-----------------------------------------------------------------------------
(* The encode thread.                                                      *)

encRest == <<source, capture, inHand, sendVars, stop, audio, handle, lost, starved>>

EncodeEnds ==
  /\ encode' = "ended"
  /\ frame' = NoFrame
  /\ idr' = FALSE

\* Mutant: the loop relies on the closed sink and never tests the flag.
EncodeTopNoFlag ==
  /\ encode = "top"
  /\ encode' = "receive"
  /\ UNCHANGED <<chanVars, frame, idr, queue, forceIdr, owed, excused, encRest>>

\* The loop's test of the stop flag.
EncodeTop ==
  /\ encode = "top"
  /\ IF stop THEN EncodeEnds
             ELSE encode' = "receive" /\ UNCHANGED <<frame, idr>>
  /\ UNCHANGED <<chanVars, queue, forceIdr, owed, excused, encRest>>

\* A frame arrives: the thread takes it and consumes the force_idr flag.
EncodeTakes ==
  /\ encode' = "submit"
  /\ frame' = slot
  /\ idr' = forceIdr
  /\ forceIdr' = FALSE

EncodeReceives ==
  /\ encode = "receive"
  /\ \/ ReceiveFrame /\ EncodeTakes
     \/ ReceiveClosed /\ EncodeEnds /\ UNCHANGED forceIdr
     \/ (TestEmpty \/ Wait) /\ UNCHANGED <<encVars, forceIdr>>
     \/ /\ TimeOut
        /\ IF slot # NoFrame THEN EncodeTakes
           ELSE IF closed THEN EncodeEnds /\ UNCHANGED forceIdr
           ELSE /\ encode' = "top"
                /\ UNCHANGED <<frame, idr, forceIdr>>
  /\ UNCHANGED <<queue, owed, excused, encRest>>

\* encoder.submit: an error ends the thread.
EncodeSubmits ==
  /\ encode = "submit"
  /\ \/ encode' = "drain" /\ UNCHANGED <<frame, idr, excused>>
     \/ EncodeEnds /\ excused' = (excused \/ idr)
  /\ UNCHANGED <<chanVars, queue, forceIdr, owed, encRest>>

(***************************************************************************)
(* next_chunk: the frame's chunk goes to the sender, whose absence ends    *)
(* the thread; a frame the encoder dropped is passed over; an error ends   *)
(* the thread.                                                             *)
(***************************************************************************)
FrameDone == encode' = "top" /\ frame' = NoFrame /\ idr' = FALSE

EncodeDrains ==
  /\ encode = "drain"
  /\ \/ /\ sender # "ended"
        /\ queue' = Append(queue, IF idr THEN "idr" ELSE "delta")
        /\ FrameDone
        /\ UNCHANGED excused
     \/ /\ sender = "ended"
        /\ EncodeEnds
        /\ UNCHANGED <<queue, excused>>
     \/ /\ FrameDone
        /\ excused' = (excused \/ idr)
        /\ UNCHANGED queue
     \/ /\ EncodeEnds
        /\ excused' = (excused \/ idr)
        /\ UNCHANGED queue
  /\ UNCHANGED <<chanVars, forceIdr, owed, encRest>>

EncodeStep == EncodeTop \/ EncodeReceives \/ EncodeSubmits \/ EncodeDrains

-----------------------------------------------------------------------------
(* The sender task.                                                        *)

sendRest == <<chanVars, source, capture, inHand, encVars, stop, audio, handle, lost,
              starved>>

SenderEnds ==
  /\ sender' = "ended"
  /\ chunk' = "none"
  /\ queue' = <<>>

\* The handle's channels come first in the select; they close with it.
\* The chunk channel closes with the encode thread, once drained.
SenderStops ==
  /\ sender = "select"
  /\ \/ handle = "gone"
     \/ encode = "ended" /\ queue = <<>>
  /\ SenderEnds
  /\ UNCHANGED <<forceIdr, owed, excused, sendRest>>

\* What is left behind the chunk just received.
Backlog == Len(queue) - 1

\* Mutant: the IDR is forced only when the chunk received was one.
SenderReceivesUnforced ==
  /\ sender = "select"
  /\ handle # "gone"
  /\ queue # <<>>
  /\ \/ /\ Backlog > SendBacklogCap
        /\ queue' = <<>>
        /\ forceIdr' = (forceIdr \/ Head(queue) = "idr")
        /\ owed' = TRUE
        /\ UNCHANGED <<sendVars, excused>>
     \/ /\ Backlog <= SendBacklogCap
        /\ queue' = Tail(queue)
        /\ sender' = "pacing"
        /\ chunk' = Head(queue)
        /\ UNCHANGED <<excused, forceIdr, owed>>
  /\ UNCHANGED sendRest

(***************************************************************************)
(* A backlog past the cap is dropped with the chunk itself, and an IDR     *)
(* forced; otherwise the chunk is packetized and paced.  Packetizing may   *)
(* fail, which loses the chunk.                                            *)
(***************************************************************************)
SenderReceives ==
  /\ sender = "select"
  /\ handle # "gone"
  /\ queue # <<>>
  /\ \/ /\ Backlog > SendBacklogCap
        /\ queue' = <<>>
        /\ forceIdr' = TRUE
        /\ owed' = TRUE
        /\ UNCHANGED <<sendVars, excused>>
     \/ /\ Backlog <= SendBacklogCap
        /\ queue' = Tail(queue)
        /\ \/ /\ sender' = "pacing"
              /\ chunk' = Head(queue)
              /\ UNCHANGED excused
           \/ /\ excused' = (excused \/ Head(queue) = "idr")
              /\ UNCHANGED sendVars
        /\ UNCHANGED <<forceIdr, owed>>
  /\ UNCHANGED sendRest

(***************************************************************************)
(* The paced datagrams go out.  Any error of send_datagram ends the task:  *)
(* the connection is lost, or the path's datagram limit fell below the     *)
(* size the frame was cut to while it was being paced.                     *)
(***************************************************************************)
SenderSends ==
  /\ sender = "pacing"
  /\ \/ /\ ~lost
        /\ sender' = "select"
        /\ chunk' = "none"
        /\ owed' = (owed /\ chunk # "idr")
        /\ UNCHANGED queue
     \/ /\ SenderEnds
        /\ UNCHANGED owed
  /\ UNCHANGED <<forceIdr, excused, sendRest>>

SenderStep == SenderStops \/ SenderReceives \/ SenderSends

-----------------------------------------------------------------------------
(* The audio thread: its receive times out every 100 ms, or at once when   *)
(* the capture side is gone; a packet that cannot be sent ends it.         *)

AudioEnds ==
  /\ audio = "stopping" \/ (audio = "running" /\ lost)
  /\ audio' = "ended"
  /\ UNCHANGED <<chanVars, source, capture, inHand, encVars, queue, sendVars,
                 forceIdr, stop, handle, lost, history>>

-----------------------------------------------------------------------------
(* The session task: PipelineHandle::stop, and its drop, which stops       *)
(* again.  handle is "live", then "source", "audio" and "join" inside      *)
(* stop, "stopped" after it, the same inside drop, and "gone".             *)

Phases == {"live", "stopped", "source", "audio", "join",
           "drop_source", "drop_audio", "drop_join", "gone"}

Dropping == handle \in {"drop_source", "drop_audio", "drop_join"}

To(first, again) == handle' = IF Dropping THEN again ELSE first

stopRest == <<source, encVars, queue, sendVars, forceIdr, lost, history>>

\* stop() by the session: StopSession, or the clean-up of its loop.
StopCalled ==
  /\ handle = "live"
  /\ stop' = TRUE
  /\ handle' = "source"
  /\ UNCHANGED <<chanVars, capture, inHand, audio, stopRest>>

\* The handle is dropped, after a stop or without one.
HandleDropped ==
  /\ handle \in {"live", "stopped"}
  /\ stop' = TRUE
  /\ handle' = "drop_source"
  /\ UNCHANGED <<chanVars, capture, inHand, audio, stopRest>>

InSource == handle \in {"source", "drop_source"}

\* source.stop() fails: stop() returns at once, and drop goes on to drop
\* its fields, the audio handle among them.
SourceStopFails ==
  /\ To("stopped", "gone")
  /\ audio' = IF Dropping /\ audio = "running" THEN "stopping" ELSE audio

\* The callbacks end; one may still be in the middle of a frame.
CallbacksEnd == capture' = IF inHand = NoFrame THEN "off" ELSE "late"

(***************************************************************************)
(* The test pattern: set the flag, join the generator, close the sink; the *)
(* worker is taken first, so a second stop finds nothing to do.            *)
(***************************************************************************)
StopTestPattern ==
  /\ InSource
  /\ source = "test_pattern"
  /\ \/ /\ capture = "on"
        /\ capture' = "stopping"
        /\ UNCHANGED <<chanVars, handle, audio>>
     \/ /\ capture = "off"
        /\ IF closed THEN UNCHANGED chanVars ELSE Close
        /\ To("audio", "drop_audio")
        /\ UNCHANGED <<capture, audio>>
     \/ /\ capture = "panicked"
        /\ capture' = "failed"
        /\ SourceStopFails
        /\ UNCHANGED chanVars
     \/ /\ capture = "failed"
        /\ To("audio", "drop_audio")
        /\ UNCHANGED <<chanVars, capture, audio>>
  /\ UNCHANGED <<inHand, stop, stopRest>>

\* Windows: unsubscribe, close the session, then the sink.
StopWindows ==
  /\ InSource
  /\ source = "windows"
  /\ IF capture = "on" THEN CallbacksEnd /\ Close
                       ELSE UNCHANGED <<capture, chanVars>>
  /\ To("audio", "drop_audio")
  /\ UNCHANGED <<inHand, stop, audio, stopRest>>

\* macOS: stop the stream, which may fail; the sink is not closed.
StopMacos ==
  /\ InSource
  /\ source = "macos"
  /\ IF capture = "on" THEN CallbacksEnd ELSE UNCHANGED capture
  /\ \/ To("audio", "drop_audio") /\ UNCHANGED audio
     \/ capture = "on" /\ SourceStopFails
  /\ UNCHANGED <<chanVars, inHand, stop, stopRest>>

\* audio.stop(): raise its flag, join it.
StopAudio ==
  /\ handle \in {"audio", "drop_audio"}
  /\ \/ /\ audio = "running"
        /\ audio' = "stopping"
        /\ UNCHANGED handle
     \/ /\ audio \in {"none", "ended"}
        /\ To("join", "drop_join")
        /\ UNCHANGED audio
  /\ UNCHANGED <<chanVars, capture, inHand, stop, stopRest>>

\* Join the encode thread.
StopJoins ==
  /\ handle \in {"join", "drop_join"}
  /\ encode = "ended"
  /\ To("stopped", "gone")
  /\ UNCHANGED <<chanVars, capture, inHand, stop, audio, stopRest>>

StopStep == StopTestPattern \/ StopWindows \/ StopMacos \/ StopAudio \/ StopJoins

ConnectionLost ==
  /\ ~lost
  /\ lost' = TRUE
  /\ UNCHANGED <<chanVars, source, capture, inHand, encVars, queue, sendVars,
                 forceIdr, stop, audio, handle, history>>

Next ==
  \/ Capture \/ SubmitFrame \/ GeneratorPanics \/ GeneratorStops
  \/ EncodeStep \/ SenderStep \/ AudioEnds
  \/ StopCalled \/ HandleDropped \/ StopStep
  \/ ConnectionLost

(***************************************************************************)
(* Every thread that can go on does so: the operating system schedules     *)
(* each thread, no wait is without a timeout except the two joins, and the *)
(* runtime polls the sender.  Nothing is assumed of the source's frames,   *)
(* of the connection, or of when the session stops.                        *)
(***************************************************************************)
Fairness ==
  /\ WF_vars(EncodeStep) /\ WF_vars(SenderStep) /\ WF_vars(AudioEnds)
  /\ WF_vars(SubmitFrame) /\ WF_vars(GeneratorStops) /\ WF_vars(StopStep)

Spec == Init /\ [][Next]_vars /\ Fairness

-----------------------------------------------------------------------------
(***************************************************************************)
(* Every variable holds a value its Rust counterpart can hold; the         *)
(* directive and the frame are held only between the receive and the end   *)
(* of the encode loop's pass, and a chunk only while it is paced.          *)
(***************************************************************************)
Frames == [id : 1 .. MaxFrames, texture : 0 .. RingTextures] \cup {NoFrame}

TypeOK ==
  /\ {slot, frame, inHand} \subseteq Frames
  /\ {closed, woken, idr, forceIdr, stop, lost} \subseteq BOOLEAN
  /\ offered \in 0 .. MaxFrames /\ dropped \in 0 .. offered
  /\ recv \in {"idle", "testing", "waiting"}
  /\ recv # "idle" => encode = "receive"
  /\ source \in Sources
  /\ capture \in {"on", "stopping", "late", "panicked", "failed", "off"}
  /\ encode \in {"top", "receive", "submit", "drain", "ended"}
  /\ (frame # NoFrame) = (encode \in {"submit", "drain"})
  /\ idr => frame # NoFrame
  /\ queue \in Seq({"idr", "delta"})
  /\ sender \in {"select", "pacing", "ended"}
  /\ chunk \in (IF sender = "pacing" THEN {"idr", "delta"} ELSE {"none"})
  /\ audio \in {"none", "running", "stopping", "ended"}
  /\ handle \in Phases

(***************************************************************************)
(* A key frame is never forgotten.  Once the sender has dropped a backlog, *)
(* the client cannot decode until an IDR arrives; until one is sent, the   *)
(* force_idr flag is up, or the encode thread holds the directive, or an   *)
(* IDR is on its way, whichever of the two threads moved last and even if  *)
(* the IDR itself is dropped with a later backlog.  Two things break the   *)
(* chain, and only they: the encoder swallowing the frame the directive    *)
(* went with, and the packetizer refusing the IDR (pipeline.rs re-arms     *)
(* nothing then; only the client's next request does).                     *)
(***************************************************************************)
KeyframeOwed ==
  owed => \/ forceIdr
          \/ idr
          \/ \E i \in DOMAIN queue : queue[i] = "idr"
          \/ chunk = "idr"
          \/ excused
          \/ "ended" \in {encode, sender}

(***************************************************************************)
(* Capture never waits on the encoder and never gives a frame up for want  *)
(* of a texture: with the slot, the encode thread and the callback each    *)
(* holding one at most, three textures always leave one free               *)
(* (capture-windows, RING_TEXTURES).                                       *)
(***************************************************************************)
TextureAlwaysFree == ~starved

(***************************************************************************)
(* stop() returns, whatever the source: also when the notification of      *)
(* close() is lost, and on macOS, whose source never closes the sink.  And *)
(* nothing outlives the handle: after it is dropped the encode thread, the *)
(* sender task and the audio thread end, even when the source's stop()     *)
(* failed and drop() therefore joined nothing.                             *)
(***************************************************************************)
AllEnded ==
  encode = "ended" /\ sender = "ended" /\ audio \in {"none", "ended"}

StopsCleanly ==
  /\ handle = "source" ~> handle \in {"stopped", "gone"}
  /\ handle = "gone" ~> AllEnded
=============================================================================
