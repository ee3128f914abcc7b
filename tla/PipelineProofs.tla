---------------------------- MODULE PipelineProofs ----------------------------
(***************************************************************************)
(* Proofs about the pipeline's threads, for every kind of source, send     *)
(* backlog cap and number of frames: the frame channel implements the      *)
(* latest-frame mailbox, a key frame owed is never forgotten, and the      *)
(* capture ring always has a texture free.                                 *)
(*                                                                         *)
(* The types are proved in parts, each by the steps that touch its         *)
(* variables; what the other theorems need besides them is how frames are  *)
(* numbered (Numbered) and that no two holders share a texture             *)
(* (TexturesApart).  That threads end, and stop() returns, is liveness and *)
(* is model-checked.                                                       *)
(***************************************************************************)
EXTENDS PipelineThreads, SequenceTheorems, TLAPS

(* Frames are numbered in the order they are captured: the one in hand is  *)
(* the next, the one in the slot the last and not received yet.            *)
Numbered ==
  /\ inHand # NoFrame => inHand.id = offered + 1
  /\ slot # NoFrame => slot.id = offered /\ received < offered
  /\ received \in 0 .. offered

(* No two of the three holders have the same ring texture.                 *)
TexturesApart ==
  /\ slot.texture # 0 => slot.texture # frame.texture
  /\ inHand.texture # 0 => inHand.texture \notin {slot.texture, frame.texture}

(* The types, part by part: the channel with the callback, the encode      *)
(* thread, the sender, and the rest.                                       *)
ChannelTyped ==
  /\ slot \in Frames /\ inHand \in Frames
  /\ closed \in BOOLEAN /\ woken \in BOOLEAN
  /\ offered \in 0 .. MaxFrames /\ dropped \in 0 .. offered
  /\ recv \in {"idle", "testing", "waiting"}
  /\ Numbered

EncoderTyped ==
  /\ frame \in Frames /\ idr \in BOOLEAN
  /\ encode \in {"top", "receive", "submit", "drain", "ended"}
  /\ (frame # NoFrame) <=> encode \in {"submit", "drain"}
  /\ idr => frame # NoFrame
  /\ recv # "idle" => encode = "receive"

SenderTyped ==
  /\ queue \in Seq({"idr", "delta"})
  /\ sender \in {"select", "pacing", "ended"}
  /\ chunk \in {"idr", "delta", "none"}
  /\ sender = "pacing" <=> chunk # "none"

FlagsTyped ==
  /\ forceIdr \in BOOLEAN /\ stop \in BOOLEAN /\ lost \in BOOLEAN
  /\ owed \in BOOLEAN /\ excused \in BOOLEAN /\ starved \in BOOLEAN

HandleTyped ==
  /\ source \in Sources
  /\ capture \in {"on", "stopping", "late", "panicked", "failed", "off"}
  /\ audio \in {"none", "running", "stopping", "ended"}
  /\ handle \in Phases

TypeInv == ChannelTyped /\ EncoderTyped /\ SenderTyped /\ FlagsTyped /\ HandleTyped

-----------------------------------------------------------------------------
(* TypeInv is TypeOK, grouped by who writes what.                          *)
LEMMA TypeInvImplies == TypeInv => TypeOK
<1> SUFFICES ASSUME TypeInv PROVE TypeOK
  OBVIOUS
<1> USE DEF TypeInv
<1>1. {slot, frame, inHand} \subseteq Frames
  BY DEF ChannelTyped, EncoderTyped
<1>2. {closed, woken, idr, forceIdr, stop, lost} \subseteq BOOLEAN
  BY DEF ChannelTyped, EncoderTyped, FlagsTyped
<1>3. (frame # NoFrame) = (encode \in {"submit", "drain"})
  BY DEF EncoderTyped
<1>4. chunk \in (IF sender = "pacing" THEN {"idr", "delta"} ELSE {"none"})
  BY DEF SenderTyped
<1> QED
  BY <1>1, <1>2, <1>3, <1>4 DEF TypeOK, ChannelTyped, EncoderTyped, SenderTyped, HandleTyped

(* The texture a callback copies to is a free one.                         *)
LEMMA NextTexture ==
  ASSUME FreeTextures # {}
  PROVE  FirstOf(FreeTextures) \in FreeTextures
<1>1. FreeTextures \subseteq {1, 2, 3}
  BY DEF FreeTextures, RingTextures
<1>2. \E t \in FreeTextures : \A u \in FreeTextures : t <= u
  <2>1. CASE 1 \in FreeTextures
    BY <1>1, <2>1
  <2>2. CASE 1 \notin FreeTextures /\ 2 \in FreeTextures
    BY <1>1, <2>2
  <2>3. CASE 1 \notin FreeTextures /\ 2 \notin FreeTextures
    <3>1. PICK t \in FreeTextures : TRUE
      OBVIOUS
    <3> QED
      BY <1>1, <2>3, <3>1
  <2> QED
    BY <2>1, <2>2, <2>3
<1> QED
  BY <1>2 DEF FirstOf

(* Nothing captured, nothing encoded, nothing sent.                        *)
LEMMA TypeInit == Init => TypeInv
<1> SUFFICES ASSUME Init PROVE TypeInv
  OBVIOUS
<1> USE PipelineAssumption DEF Init, ChanInit
<1>1. ChannelTyped
  <2>1. NoFrame \in Frames /\ 0 \in 0 .. MaxFrames
    BY DEF Frames
  <2>2. slot = NoFrame /\ inHand = NoFrame /\ offered = 0 /\ dropped = 0 /\ received = 0
    OBVIOUS
  <2>3. Numbered
    BY <2>2 DEF Numbered
  <2>4. closed \in BOOLEAN /\ woken \in BOOLEAN /\ recv \in {"idle", "testing", "waiting"}
    OBVIOUS
  <2> QED
    BY <2>1, <2>2, <2>3, <2>4 DEF ChannelTyped
<1>2. EncoderTyped
  BY DEF EncoderTyped, Frames
<1>3. SenderTyped
  BY DEF SenderTyped
<1>4. FlagsTyped
  BY DEF FlagsTyped
<1>5. HandleTyped
  BY DEF HandleTyped, Phases
<1> QED
  BY <1>1, <1>2, <1>3, <1>4, <1>5 DEF TypeInv

(***************************************************************************)
(* One step, part by part.                                                 *)
(***************************************************************************)
USE DEF chanVars, encVars, sendVars, history

(* The slot and the frame in the callback's hand.                          *)
LEMMA ChannelStep == TypeInv /\ [Next]_vars => ChannelTyped'
<1> SUFFICES ASSUME TypeInv, [Next]_vars PROVE ChannelTyped'
  OBVIOUS
<1> USE PipelineAssumption DEF TypeInv, ChannelTyped, Numbered
<1>1. CASE Capture
  <2>1. inHand' \in Frames /\ (inHand' # NoFrame => inHand'.id = offered + 1)
    BY <1>1, NextTexture DEF Capture, Frames, FreeTextures, RingTextures
  <2>2. UNCHANGED chanVars
    BY <1>1 DEF Capture
  <2> QED
    BY <2>1, <2>2
<1>2. CASE SubmitFrame
  <2>1. offered + 1 \in 0 .. MaxFrames
    BY <1>2 DEF SubmitFrame, Frames, NoFrame
  <2>2. inHand' = NoFrame /\ inHand' \in Frames
    BY <1>2 DEF SubmitFrame, Frames
  <2>3. /\ offered' = offered + 1 /\ slot' = inHand /\ dropped' \in {dropped, dropped + 1}
        /\ woken' \in BOOLEAN
        /\ UNCHANGED <<closed, recv, received>>
    BY <1>2 DEF SubmitFrame, Submit, Notify
  <2> QED
    BY <1>2, <2>1, <2>2, <2>3 DEF SubmitFrame
<1>3. CASE EncodeReceives
  <2>1. UNCHANGED <<inHand, offered, dropped, closed>>
    BY <1>3 DEF EncodeReceives, ReceiveFrame, ReceiveClosed, TestEmpty, Wait, TimeOut, Take, encRest
  <2>2. recv' \in {"idle", "testing", "waiting"} /\ woken' \in BOOLEAN
    BY <1>3 DEF EncodeReceives, ReceiveFrame, ReceiveClosed, TestEmpty, Wait, TimeOut, Take
  <2>3. \/ UNCHANGED <<slot, received>>
        \/ slot' = NoFrame /\ received' = IF slot = NoFrame THEN received ELSE slot.id
    BY <1>3 DEF EncodeReceives, ReceiveFrame, ReceiveClosed, TestEmpty, Wait, TimeOut, Take
  <2>4. slot' \in Frames
    BY <2>3 DEF Frames
  <2> QED
    BY <2>1, <2>2, <2>3, <2>4
<1>4. CASE UNCHANGED <<inHand, chanVars>>
  BY <1>4
<1>5. CASE UNCHANGED inHand /\ Close
  BY <1>5 DEF Close, Notify
<1>6. CASE EncodeTop \/ EncodeSubmits \/ EncodeDrains
  BY <1>4, <1>6 DEF EncodeTop, EncodeSubmits, EncodeDrains, encRest
<1>7. CASE SenderStep
  BY <1>4, <1>7 DEF SenderStep, SenderStops, SenderReceives, SenderSends, sendRest
<1>8. CASE StopStep
  BY <1>4, <1>5, <1>8 DEF StopStep, StopTestPattern, StopWindows, StopMacos, StopAudio, StopJoins
<1> QED
  BY <1>1, <1>2, <1>3, <1>4, <1>6, <1>7, <1>8
  DEF Next, EncodeStep, vars, GeneratorPanics, GeneratorStops, AudioEnds, StopCalled, HandleDropped,
      ConnectionLost

(* recv_latest returns at most one frame to the loop's pass, and the       *)
(* directive goes with it.                                                 *)
LEMMA EncoderStep == TypeInv /\ [Next]_vars => EncoderTyped'
<1> SUFFICES ASSUME TypeInv, [Next]_vars PROVE EncoderTyped'
  OBVIOUS
<1> USE DEF TypeInv, EncoderTyped
<1>0. NoFrame \in Frames
  BY DEF Frames
<1>1. CASE EncodeTop
  BY <1>0, <1>1 DEF EncodeTop, EncodeEnds
<1>2. CASE EncodeReceives
  <2>0. slot \in Frames /\ forceIdr \in BOOLEAN
    BY DEF ChannelTyped, FlagsTyped
  <2>1. CASE ReceiveFrame /\ EncodeTakes
    BY <1>0, <2>0, <2>1 DEF ReceiveFrame, Take, EncodeTakes
  <2>2. CASE ReceiveClosed /\ EncodeEnds
    BY <1>0, <2>0, <2>2 DEF ReceiveClosed, EncodeEnds
  <2>3. CASE (TestEmpty \/ Wait) /\ UNCHANGED <<encVars, forceIdr>>
    BY <1>2, <2>3 DEF EncodeReceives
  <2>4. CASE TimeOut /\ slot # NoFrame /\ EncodeTakes
    BY <2>0, <2>4 DEF TimeOut, Take, EncodeTakes
  <2>5. CASE TimeOut /\ EncodeEnds
    BY <1>0, <2>5 DEF TimeOut, Take, EncodeEnds
  <2>6. CASE TimeOut /\ encode' = "top" /\ UNCHANGED <<frame, idr, forceIdr>>
    BY <1>2, <2>6 DEF EncodeReceives, TimeOut, Take
  <2> QED
    BY <1>2, <2>1, <2>2, <2>3, <2>4, <2>5, <2>6 DEF EncodeReceives
<1>3. CASE EncodeSubmits
  BY <1>0, <1>3 DEF EncodeSubmits, EncodeEnds
<1>4. CASE EncodeDrains
  BY <1>0, <1>4 DEF EncodeDrains, EncodeEnds, FrameDone
<1>5. CASE UNCHANGED <<encVars, recv>>
  BY <1>5
<1>6. CASE Capture \/ SubmitFrame
  BY <1>5, <1>6 DEF Capture, SubmitFrame, Submit
<1>7. CASE SenderStep
  BY <1>5, <1>7 DEF SenderStep, SenderStops, SenderReceives, SenderSends, sendRest
<1>8. CASE StopStep
  BY <1>5, <1>8 DEF StopStep, StopTestPattern, StopWindows, StopMacos, StopAudio, StopJoins, Close, stopRest
<1> QED
  BY <1>1, <1>2, <1>3, <1>4, <1>5, <1>6, <1>7, <1>8
  DEF Next, EncodeStep, vars, GeneratorPanics, GeneratorStops, AudioEnds, StopCalled, HandleDropped,
      ConnectionLost, stopRest

(* The queue to the sender.                                                *)
LEMMA SenderTypes == TypeInv /\ [Next]_vars => SenderTyped'
<1> SUFFICES ASSUME TypeInv, [Next]_vars PROVE SenderTyped'
  OBVIOUS
<1> USE DEF TypeInv, SenderTyped
<1>1. CASE EncodeDrains
  <2>1. queue' \in Seq({"idr", "delta"})
    BY <1>1 DEF EncodeDrains
  <2> QED
    BY <1>1, <2>1 DEF EncodeDrains, encRest
<1>2. CASE SenderStops
  BY <1>2 DEF SenderStops, SenderEnds
<1>3. CASE SenderReceives
  <2>1. Head(queue) \in {"idr", "delta"} /\ Tail(queue) \in Seq({"idr", "delta"})
    BY <1>3 DEF SenderReceives
  <2>2. queue' \in Seq({"idr", "delta"})
    <3>1. queue' = <<>> \/ queue' = Tail(queue)
      BY <1>3 DEF SenderReceives
    <3> QED
      BY <2>1, <3>1, EmptySeq
  <2> QED
    BY <1>3, <2>1, <2>2 DEF SenderReceives
<1>4. CASE SenderSends
  <2>1. CASE SenderEnds
    BY <2>1 DEF SenderEnds
  <2>2. CASE sender' = "select" /\ chunk' = "none" /\ UNCHANGED queue
    BY <2>2
  <2> QED
    BY <1>4, <2>1, <2>2 DEF SenderSends
<1>5. CASE UNCHANGED <<queue, sendVars>>
  BY <1>5
<1>6. CASE EncodeTop \/ EncodeReceives \/ EncodeSubmits
  BY <1>5, <1>6 DEF EncodeTop, EncodeReceives, EncodeSubmits, encRest
<1>7. CASE StopStep
  BY <1>5, <1>7 DEF StopStep, StopTestPattern, StopWindows, StopMacos, StopAudio, StopJoins, stopRest
<1> QED
  BY <1>1, <1>2, <1>3, <1>4, <1>5, <1>6, <1>7
  DEF Next, EncodeStep, SenderStep, vars, Capture, SubmitFrame, GeneratorPanics, GeneratorStops,
      AudioEnds, StopCalled, HandleDropped, ConnectionLost, stopRest

(* The atomics and the history.                                            *)
LEMMA FlagsStep == TypeInv /\ [Next]_vars => FlagsTyped'
<1> SUFFICES ASSUME TypeInv, [Next]_vars PROVE FlagsTyped'
  OBVIOUS
<1> USE DEF TypeInv, FlagsTyped
<1>0. idr \in BOOLEAN
  BY DEF EncoderTyped
<1>1. CASE UNCHANGED <<forceIdr, stop, lost, owed, excused, starved>>
  BY <1>1
<1>2. CASE Capture
  BY <1>2 DEF Capture
<1>3. CASE EncodeTop
  BY <1>3 DEF EncodeTop, encRest
<1>4. CASE EncodeReceives
  <2>1. forceIdr' \in {forceIdr, FALSE}
    BY <1>4 DEF EncodeReceives, EncodeTakes
  <2> QED
    BY <1>4, <2>1 DEF EncodeReceives, encRest
<1>5. CASE EncodeSubmits
  BY <1>0, <1>5 DEF EncodeSubmits, encRest
<1>6. CASE EncodeDrains
  BY <1>0, <1>6 DEF EncodeDrains, encRest
<1>7. CASE SenderReceives
  BY <1>7 DEF SenderReceives, sendRest
<1>8. CASE SenderSends
  BY <1>8 DEF SenderSends, sendRest
<1>9. CASE SenderStops
  BY <1>9 DEF SenderStops, sendRest
<1>10. CASE StopCalled \/ HandleDropped \/ ConnectionLost
  BY <1>10 DEF StopCalled, HandleDropped, ConnectionLost, stopRest
<1>11. CASE StopStep
  BY <1>1, <1>11 DEF StopStep, StopTestPattern, StopWindows, StopMacos, StopAudio, StopJoins, stopRest
<1> QED
  BY <1>1, <1>2, <1>3, <1>4, <1>5, <1>6, <1>7, <1>8, <1>9, <1>10, <1>11
  DEF Next, EncodeStep, SenderStep, vars, SubmitFrame, GeneratorPanics, GeneratorStops, AudioEnds

(* The source, the audio thread and the handle.                            *)
LEMMA HandleStep == TypeInv /\ [Next]_vars => HandleTyped'
<1> SUFFICES ASSUME TypeInv, [Next]_vars PROVE HandleTyped'
  OBVIOUS
<1> USE DEF TypeInv, HandleTyped
<1>1. CASE UNCHANGED <<source, capture, audio, handle>>
  BY <1>1
<1>2. CASE SubmitFrame \/ GeneratorPanics \/ GeneratorStops \/ AudioEnds
  BY <1>2 DEF SubmitFrame, GeneratorPanics, GeneratorStops, AudioEnds
<1>3. CASE StopCalled \/ HandleDropped
  BY <1>3 DEF StopCalled, HandleDropped, stopRest, Phases
<1>4. CASE StopTestPattern
  BY <1>4 DEF StopTestPattern, To, SourceStopFails, stopRest, Phases
<1>5. CASE StopWindows
  BY <1>5 DEF StopWindows, CallbacksEnd, To, stopRest, Phases
<1>6. CASE StopMacos
  BY <1>6 DEF StopMacos, CallbacksEnd, To, SourceStopFails, stopRest, Phases
<1>7. CASE StopAudio \/ StopJoins
  BY <1>7 DEF StopAudio, StopJoins, To, stopRest, Phases
<1>8. CASE EncodeStep
  BY <1>1, <1>8 DEF EncodeStep, EncodeTop, EncodeReceives, EncodeSubmits, EncodeDrains, encRest
<1>9. CASE SenderStep
  BY <1>1, <1>9 DEF SenderStep, SenderStops, SenderReceives, SenderSends, sendRest
<1> QED
  BY <1>1, <1>2, <1>3, <1>4, <1>5, <1>6, <1>7, <1>8, <1>9
  DEF Next, StopStep, vars, Capture, ConnectionLost

(* So every step keeps the types.                                          *)
LEMMA TypeStep == TypeInv /\ [Next]_vars => TypeInv'
BY ChannelStep, EncoderStep, SenderTypes, FlagsStep, HandleStep DEF TypeInv

(* The pipeline's variables hold what their Rust counterparts can hold.    *)
THEOREM TypeCorrect == Spec => []TypeOK
<1>1. Spec => []TypeInv
  BY TypeInit, TypeStep, PTL DEF Spec
<1> QED
  BY <1>1, TypeInvImplies, PTL

-----------------------------------------------------------------------------
(* The channel implements the mailbox: submitting is Put, taking the slot  *)
(* is Get, everything else is a stutter.  A frame in the slot is always    *)
(* the newest and was never received, so a wake-up, a time-out or a close  *)
(* at any point cannot hand out an old one (sink.rs, recv_latest).         *)
THEOREM LatestFrameReceived == Spec => LatestFrameWins
<1>1. Init => Newest!Init
  BY DEF Init, ChanInit, Newest!Init
<1>2. TypeInv /\ [Next]_vars => [Newest!Put \/ Newest!Get]_<<offered, received>>
  <2> SUFFICES ASSUME TypeInv, [Next]_vars PROVE [Newest!Put \/ Newest!Get]_<<offered, received>>
    OBVIOUS
  <2> USE DEF Newest!Put, Newest!Get
  <2>1. CASE UNCHANGED <<offered, received>>
    BY <2>1
  <2>2. CASE SubmitFrame
    BY <2>2 DEF SubmitFrame, Submit
  <2>3. CASE EncodeReceives
    <3>1. CASE Take
      BY <3>1 DEF Take, TypeInv, ChannelTyped, Numbered
    <3>2. CASE ReceiveClosed \/ TestEmpty \/ Wait
      BY <3>2 DEF ReceiveClosed, TestEmpty, Wait
    <3> QED
      BY <2>3, <3>1, <3>2 DEF EncodeReceives, ReceiveFrame, TimeOut
  <2>4. CASE EncodeTop \/ EncodeSubmits \/ EncodeDrains
    BY <2>4 DEF EncodeTop, EncodeSubmits, EncodeDrains
  <2>5. CASE SenderStep
    BY <2>5 DEF SenderStep, SenderStops, SenderReceives, SenderSends, sendRest
  <2>6. CASE StopStep
    BY <2>6 DEF StopStep, StopTestPattern, StopWindows, StopMacos, StopAudio, StopJoins, Close
  <2> QED
    BY <2>1, <2>2, <2>3, <2>4, <2>5, <2>6
    DEF Next, EncodeStep, vars, Capture, GeneratorPanics, GeneratorStops, AudioEnds, StopCalled,
        HandleDropped, ConnectionLost
<1> QED
  BY <1>1, <1>2, TypeInit, TypeStep, PTL DEF Spec, LatestFrameWins, Newest!Spec

-----------------------------------------------------------------------------
(* What is owed passes from the flag to the directive as the encode thread *)
(* takes a frame, to the queue as it drains, to the chunk as the sender    *)
(* receives it, and back to the flag when a backlog is dropped.            *)
LEMMA KeyframeStep == TypeInv /\ KeyframeOwed /\ [Next]_vars => KeyframeOwed'
<1> SUFFICES ASSUME TypeInv, KeyframeOwed, [Next]_vars PROVE KeyframeOwed'
  OBVIOUS
<1> USE DEF KeyframeOwed
<1>1. CASE UNCHANGED <<forceIdr, idr, queue, chunk, excused, encode, sender, owed>>
  BY <1>1
<1>2. CASE EncodeTop
  BY <1>2 DEF EncodeTop, EncodeEnds, encRest
<1>3. CASE EncodeReceives
  <2>1. ~ idr
    BY <1>3 DEF EncodeReceives, TypeInv, EncoderTyped
  <2>2. UNCHANGED <<queue, owed, excused, chunk, sender>>
    BY <1>3 DEF EncodeReceives, encRest
  <2>3. \/ idr' = forceIdr
        \/ encode' = "ended"
        \/ forceIdr' = forceIdr
    BY <1>3 DEF EncodeReceives, EncodeTakes, EncodeEnds
  <2>4. encode # "ended"
    BY <1>3 DEF EncodeReceives
  <2> QED
    BY <2>1, <2>2, <2>3, <2>4
<1>4. CASE EncodeSubmits
  BY <1>4 DEF EncodeSubmits, EncodeEnds, encRest
<1>5. CASE EncodeDrains
  <2>1. UNCHANGED <<forceIdr, chunk, sender, owed>>
    BY <1>5 DEF EncodeDrains, encRest
  <2>2. CASE encode' = "ended"
    BY <2>2
  <2>3. CASE excused' = (excused \/ idr) /\ UNCHANGED queue
    <3>1. excused \/ idr => excused'
      BY <2>3
    <3>2. encode # "ended"
      BY <1>5 DEF EncodeDrains
    <3> QED
      BY <2>1, <2>3, <3>1, <3>2
  <2>4. CASE queue' = Append(queue, IF idr THEN "idr" ELSE "delta") /\ UNCHANGED excused
    <3>1. queue \in Seq({"idr", "delta"})
      BY DEF TypeInv, SenderTyped
    <3>2. ASSUME NEW i \in DOMAIN queue, queue[i] = "idr" PROVE i \in DOMAIN queue' /\ queue'[i] = "idr"
      BY <2>4, <3>1, <3>2
    <3>3. idr => Len(queue) + 1 \in DOMAIN queue' /\ queue'[Len(queue) + 1] = "idr"
      BY <2>4, <3>1
    <3> QED
      BY <1>5, <2>1, <2>4, <3>2, <3>3 DEF EncodeDrains
  <2> QED
    BY <1>5, <2>2, <2>3, <2>4 DEF EncodeDrains, EncodeEnds
<1>6. CASE SenderStops
  BY <1>6 DEF SenderStops, SenderEnds, sendRest
<1>7. CASE SenderReceives
  <2>1. UNCHANGED <<idr, encode>>
    BY <1>7 DEF SenderReceives, sendRest
  <2>2. CASE forceIdr'
    BY <2>2
  <2>3. CASE /\ queue' = Tail(queue) /\ UNCHANGED <<forceIdr, owed>>
             /\ \/ sender' = "pacing" /\ chunk' = Head(queue) /\ UNCHANGED excused
                \/ excused' = (excused \/ Head(queue) = "idr") /\ UNCHANGED sendVars
    <3>1. queue \in Seq({"idr", "delta"}) /\ queue # <<>> /\ chunk = "none"
      BY <1>7 DEF SenderReceives, TypeInv, SenderTyped
    <3>2. ASSUME NEW i \in DOMAIN queue, queue[i] = "idr", i # 1
          PROVE  i - 1 \in DOMAIN queue' /\ queue'[i - 1] = "idr"
      BY <2>3, <3>1, <3>2
    <3>3. queue[1] = "idr" => chunk' = "idr" \/ excused'
      <4>1. Head(queue) = queue[1]
        BY <3>1
      <4>2. Head(queue) = "idr" => chunk' = "idr" \/ excused'
        BY <2>3
      <4> QED
        BY <4>1, <4>2
    <3>4. excused => excused'
      BY <2>3
    <3>5. sender = "ended" => sender' = "ended"
      BY <1>7 DEF SenderReceives
    <3> QED
      BY <2>1, <2>3, <3>1, <3>2, <3>3, <3>4, <3>5
  <2> QED
    BY <1>7, <2>2, <2>3 DEF SenderReceives
<1>8. CASE SenderSends
  BY <1>8 DEF SenderSends, SenderEnds, sendRest
<1>9. CASE StopStep
  BY <1>1, <1>9 DEF StopStep, StopTestPattern, StopWindows, StopMacos, StopAudio, StopJoins, stopRest
<1> QED
  BY <1>1, <1>2, <1>3, <1>4, <1>5, <1>6, <1>7, <1>8, <1>9
  DEF Next, EncodeStep, SenderStep, vars, Capture, SubmitFrame, GeneratorPanics, GeneratorStops,
      AudioEnds, StopCalled, HandleDropped, ConnectionLost, stopRest

(* A key frame owed after a dropped backlog is on its way, for any backlog *)
(* cap and any interleaving of the encode thread and the sender.           *)
THEOREM KeyframeNotForgotten == Spec => []KeyframeOwed
<1>1. Init => KeyframeOwed
  BY DEF Init, KeyframeOwed
<1> QED
  BY <1>1, TypeInit, TypeStep, KeyframeStep, PTL DEF Spec

-----------------------------------------------------------------------------
(* While the callback has nothing in hand at most two of three textures    *)
(* are taken; what it takes is free, so no texture gets a second holder.   *)
LEMMA TextureStep ==
  TypeInv /\ TexturesApart /\ ~ starved /\ [Next]_vars => TexturesApart' /\ ~ starved'
<1> SUFFICES ASSUME TypeInv, TexturesApart, ~ starved, [Next]_vars
             PROVE  TexturesApart' /\ ~ starved'
  OBVIOUS
<1> USE DEF TexturesApart
<1>0. NoFrame.texture = 0
  BY DEF NoFrame
<1>1. CASE UNCHANGED <<slot, frame, inHand, starved>>
  BY <1>1
<1>2. CASE Capture
  <2>1. UNCHANGED <<slot, frame>> /\ inHand.texture = 0
    BY <1>0, <1>2 DEF Capture
  <2>2. FreeTextures # {}
    <3>1. \E t \in {1, 2, 3} : t \notin {slot.texture, frame.texture, inHand.texture}
      BY <2>1
    <3> QED
      BY <3>1 DEF FreeTextures, RingTextures
  <2>3. UNCHANGED starved
    BY <1>2, <2>2 DEF Capture
  <2>4. inHand'.texture # 0 => inHand'.texture \in FreeTextures
    BY <1>2, <2>2, NextTexture DEF Capture
  <2> QED
    BY <2>1, <2>3, <2>4 DEF FreeTextures
<1>3. CASE SubmitFrame
  BY <1>0, <1>3 DEF SubmitFrame, Submit
<1>4. CASE EncodeTop
  BY <1>0, <1>4 DEF EncodeTop, EncodeEnds, encRest
<1>5. CASE EncodeReceives
  <2>1. UNCHANGED <<inHand, starved>>
    BY <1>5 DEF EncodeReceives, encRest
  <2>2. \/ slot' = NoFrame /\ frame' \in {slot, NoFrame, frame}
        \/ slot' = slot /\ frame' \in {NoFrame, frame}
    BY <1>5 DEF EncodeReceives, ReceiveFrame, ReceiveClosed, TestEmpty, Wait, TimeOut, Take,
       EncodeTakes, EncodeEnds
  <2> QED
    BY <1>0, <2>1, <2>2
<1>6. CASE EncodeSubmits
  BY <1>0, <1>6 DEF EncodeSubmits, EncodeEnds, encRest
<1>7. CASE EncodeDrains
  BY <1>0, <1>7 DEF EncodeDrains, FrameDone, EncodeEnds, encRest
<1>8. CASE SenderStep
  BY <1>1, <1>8 DEF SenderStep, SenderStops, SenderReceives, SenderSends, sendRest
<1>9. CASE StopStep
  BY <1>1, <1>9
  DEF StopStep, StopTestPattern, StopWindows, StopMacos, StopAudio, StopJoins, Close, stopRest
<1> QED
  BY <1>1, <1>2, <1>3, <1>4, <1>5, <1>6, <1>7, <1>8, <1>9
  DEF Next, EncodeStep, vars, GeneratorPanics, GeneratorStops, AudioEnds, StopCalled, HandleDropped,
      ConnectionLost, stopRest

(* Capture never gives a frame up for want of a texture, and never copies  *)
(* into a texture the encode thread or the channel still holds             *)
(* (RING_TEXTURES of capture-windows).                                     *)
THEOREM RingNeverStarves == Spec => [](TextureAlwaysFree /\ TexturesApart)
<1>1. Init => TexturesApart /\ ~ starved
  BY DEF Init, ChanInit, TexturesApart, NoFrame
<1> QED
  BY <1>1, TypeInit, TypeStep, TextureStep, PTL DEF Spec, TextureAlwaysFree
=============================================================================
