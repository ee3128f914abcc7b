---------------------------- MODULE LossRecovery ----------------------------
(***************************************************************************)
(* The loss-recovery ladder, end to end: the agent's encode loop and       *)
(* encoder references (session/src/pipeline.rs, encode-nvenc), the sender, *)
(* the lossy video path, the control stream in both directions, and the    *)
(* client's reference-chain gate (client-core/src/lib.rs).                 *)
(*                                                                         *)
(* The reassembler is abstracted to what OrderedDelivery promises: frames  *)
(* reach the gate in id order, some of them missing.  Every frame carries  *)
(* the frame it references, so that a decoder fed a broken chain can be    *)
(* told from a sound one; frame ids do not wrap here (Reassembly checks    *)
(* the wrap).  The 250 ms between requests are one boolean, lowered by a   *)
(* timer.                                                                  *)
(***************************************************************************)
EXTENDS Integers, Sequences, FiniteSets, FiniteSetsExt

CONSTANTS
  InvalidationWindow,  \* invalidate_refs refuses more lost frames than this
  BacklogCap,          \* SEND_BACKLOG_CAP: chunks the sender lets pile up
  Encoders,            \* the encoders that may be in use, of AllEncoders
  MaxFrames,           \* bound: frames encoded in one behaviour
  MaxRejects           \* bound: sound frames the decoder rejects

AllEncoders == {"nvenc", "videotoolbox", "software"}

ASSUME LossRecoveryAssumption ==
  /\ InvalidationWindow \in Nat /\ BacklogCap \in Nat
  /\ Encoders \subseteq AllEncoders
  /\ MaxFrames \in Nat /\ MaxRejects \in Nat

VARIABLES
  \* the agent: encode thread, encoder, and the atomics they share
  encoder,         \* which encoder the pipeline was given
  frames,          \* every frame encoded: [kind, ref], frame n at n + 1
  dpb,             \* frames the encoder may reference
  forceIdr,        \* force_idr
  recoveryRequest, \* recovery_request: last good frame + 1, 0 for none
  encoding,        \* the encode thread is between its swaps of
                   \* recovery_request and force_idr
  announce,        \* announce_recovery, local to the encode thread
  late,            \* frames submitted whose bitstream has not come out
  announced,       \* recovery_point (agent): first safe frame + 1, 0 for none
  \* in transit
  wire,            \* frames on their way to the gate
  toAgent,         \* control messages, client to agent
  toClient,        \* RecoveryPoint events, agent to client
  \* the client's gate
  lastFrameId,     \* last_frame_id
  lastDelivered,   \* last_delivered_id
  awaitingIdr,     \* awaiting_idr
  recoveryPoint,   \* recovery_point (client): first safe frame + 1
  throttled,       \* a request went out less than 250 ms ago
  decodeError,     \* decode_error, raised by the embedder
  \* history
  decoded,         \* frames whose picture the decoder truly has
  corrupt,         \* frames handed over on top of a missing reference
  answers,         \* first safe frame -> the request it answers: the last
                   \* good frame, and the frame that was coded on clean
                   \* references for it (None until there is one)
  answering,       \* the request being answered
  rejects,         \* sound frames rejected so far
  loose            \* since the last IDR, decoding resumed on an announcement
                   \* that does not fit, or a sound frame was rejected

directives  == <<forceIdr, recoveryRequest, encoding>>
outputs     == <<announce, late, announced>>
agentVars   == <<frames, dpb, directives, outputs>>
gateVars    == <<lastFrameId, lastDelivered, awaitingIdr, recoveryPoint, throttled, decodeError>>
answerVars  == <<answers, answering>>
pictureVars == <<decoded, corrupt, rejects, loose>>
vars == <<encoder, agentVars, wire, toAgent, toClient, gateVars, answerVars, pictureVars>>

None == -1
NoRequest == [good |-> None, since |-> None]

NextId == Len(frames)

Frame(id) == frames[id + 1]

\* Only NVENC invalidates references; only VideoToolbox hands a bitstream out
\* on a callback, which may miss next_chunk's timeout.
SelectiveRefs == encoder = "nvenc"
AsyncEncoder == encoder = "videotoolbox"

-----------------------------------------------------------------------------
(* The encoder. *)

(* invalidate_refs: the frames after last_good become unusable, provided   *)
(* there are some and few enough that last_good is still resident.         *)
Invalidates(lastGood) ==
  LET lost == NextId - lastGood - 1
  IN  SelectiveRefs /\ lost >= 1 /\ lost <= InvalidationWindow

(* Mutant: the newest of the lost frames stays a valid reference.          *)
KeepsNewestLost(lastGood) == {r \in dpb : r <= lastGood \/ r = NextId - 1}

(* The references left after an invalidation. *)
CleanRefs(lastGood) == {r \in dpb : r <= lastGood}

(* The encoder references the newest picture it may; with none left it     *)
(* codes the frame intra, without marking it an IDR.                       *)
Encoded(idr, refs) ==
  IF idr THEN [kind |-> "Idr", ref |-> None]
  ELSE [kind |-> "P", ref |-> IF refs = {} THEN None ELSE Max(refs)]

(* An IDR is coded first of all and when forced.  NVENC codes no other;    *)
(* VideoToolbox and openh264 do, of their own accord.                      *)
CodesIdr == NextId = 0 \/ forceIdr

MayCode(idr) == IF SelectiveRefs THEN idr = CodesIdr ELSE CodesIdr => idr

-----------------------------------------------------------------------------
(* One iteration of the encode loop, in two steps: other threads store     *)
(* their requests at any point between its two swaps.                      *)

Asked    == recoveryRequest > 0
LastGood == recoveryRequest - 1
Clean    == Asked /\ Invalidates(LastGood)

(* recovery_request is swapped: a request cleans the references or, if the *)
(* encoder cannot, forces an IDR; either way there is a point to announce. *)
TakeRequest ==
  /\ ~ encoding /\ NextId < MaxFrames
  /\ encoding' = TRUE
  /\ recoveryRequest' = 0
  /\ forceIdr' = (forceIdr \/ (Asked /\ ~ Clean))
  /\ dpb' = IF Clean THEN CleanRefs(LastGood) ELSE dpb
  /\ announce' = (announce \/ Asked)
  /\ answering' = IF Asked
                  THEN [good |-> LastGood, since |-> IF Clean THEN NextId ELSE None]
                  ELSE answering
  /\ UNCHANGED <<frames, late, announced, answers, wire, toAgent, toClient, gateVars,
                 pictureVars>>

(* force_idr is swapped and the frame submitted. *)
Submitted ==
  /\ encoding
  /\ encoding' = FALSE
  /\ forceIdr' = FALSE
  /\ UNCHANGED <<recoveryRequest, toAgent, toClient, gateVars, pictureVars>>

(* Of the bitstreams due, all but the last `kept` come out.  Only an       *)
(* asynchronous encoder keeps one back, past the 50 ms timeout.  The first *)
(* chunk to come out is the one announced.                                 *)
Drained(due, kept, answer) ==
  LET out == SubSeq(due, 1, Len(due) - kept)
  IN  /\ kept <= Len(due) /\ (kept > 0 => AsyncEncoder)
      /\ late' = SubSeq(due, Len(out) + 1, Len(due))
      /\ wire' = wire \o out
      /\ announce' = (announce /\ out = <<>>)
      /\ answering' = answer
      /\ IF announce /\ out # <<>>
         THEN /\ announced' = Head(out) + 1
              /\ answers' = [n \in DOMAIN answers \cup {Head(out)} |->
                              IF n = Head(out) THEN answer ELSE answers[n]]
         ELSE UNCHANGED <<announced, answers>>

(* An IDR cleans the references for a request that still waits for it. *)
Settled(idr) ==
  IF idr /\ answering.since = None THEN [answering EXCEPT !.since = NextId] ELSE answering

EncodeFrame(idr, kept) ==
  /\ Submitted
  /\ MayCode(idr)
  /\ frames' = Append(frames, Encoded(idr, dpb))
  /\ dpb' = {NextId} \cup (IF idr THEN {} ELSE dpb)
  /\ Drained(Append(late, NextId), kept, Settled(idr))

(* The encoder drops the frame: the directives are used up, no chunk of it *)
(* comes out, nobody references it, and a point to announce waits for the  *)
(* next chunk.  NVENC has used up the frame id, the others have not.       *)
(* openh264 and NVENC do not drop a picture they are told to code as an    *)
(* IDR; VideoToolbox may.                                                  *)
EncoderDrops(kept) ==
  /\ Submitted
  /\ CodesIdr => AsyncEncoder
  /\ frames' = IF SelectiveRefs THEN Append(frames, Encoded(FALSE, dpb)) ELSE frames
  /\ dpb' = dpb
  /\ Drained(late, kept, answering)

-----------------------------------------------------------------------------
(* The sender task, the network, and the session's control loop. *)

(* Pacing fell behind: the chunk just taken and the pile behind it are     *)
(* dropped, an IDR forced.  The first `sent` frames of the wire have left. *)
BacklogDropped(sent) ==
  /\ sent \in 0 .. Len(wire)
  /\ Len(wire) - sent - 1 > BacklogCap
  /\ wire' = SubSeq(wire, 1, sent)
  /\ forceIdr' = TRUE
  /\ UNCHANGED <<frames, dpb, recoveryRequest, encoding, outputs, toAgent, toClient,
                 gateVars, answerVars, pictureVars>>

(* Neither parity nor a retransmission saves the frame. *)
FrameLost ==
  /\ wire # <<>>
  /\ wire' = Tail(wire)
  /\ UNCHANGED <<agentVars, toAgent, toClient, gateVars, answerVars, pictureVars>>

(* serve_inner takes RequestKeyframe or RequestRecovery off the stream.    *)
AgentReceives ==
  /\ toAgent # <<>>
  /\ toAgent' = Tail(toAgent)
  /\ IF Head(toAgent) = None
     THEN forceIdr' = TRUE /\ UNCHANGED recoveryRequest
     ELSE recoveryRequest' = Head(toAgent) + 1 /\ UNCHANGED forceIdr
  /\ UNCHANGED <<frames, dpb, encoding, outputs, wire, toClient, gateVars, answerVars,
                 pictureVars>>

(* take_recovery_point, on the notification or on the tick. *)
Announce ==
  /\ announced > 0
  /\ toClient' = Append(toClient, announced - 1)
  /\ announced' = 0
  /\ UNCHANGED <<frames, dpb, directives, announce, late, wire, toAgent, gateVars,
                 answerVars, pictureVars>>

-----------------------------------------------------------------------------
(* The client. *)

(* The control reader task stores what it is told. *)
ClientHears ==
  /\ toClient # <<>>
  /\ toClient' = Tail(toClient)
  /\ recoveryPoint' = Head(toClient) + 1
  /\ UNCHANGED <<agentVars, wire, toAgent, lastFrameId, lastDelivered, awaitingIdr,
                 throttled, decodeError, answerVars, pictureVars>>

ThrottleExpires ==
  /\ throttled
  /\ throttled' = FALSE
  /\ UNCHANGED <<agentVars, wire, toAgent, toClient, lastFrameId, lastDelivered,
                 awaitingIdr, recoveryPoint, decodeError, answerVars, pictureVars>>

(* request_keyframe_throttled, when `asks`: a request citing the last      *)
(* delivered frame (None, the plain keyframe request, before the first).   *)
Request(asks, lastGood) ==
  LET goes == asks /\ ~ throttled
  IN  /\ throttled' = (throttled \/ goes)
      /\ toAgent' = IF goes THEN Append(toAgent, lastGood) ELSE toAgent

(* Every reference the frame needs is a picture the decoder has.           *)
Sound(id) == Frame(id).ref = None \/ Frame(id).ref \in decoded

(* The gate's decisions on frame id, in the order it takes them: does the  *)
(* embedder's decode error, then a gap, freeze it; and while frozen, is    *)
(* the frame at or past the announced recovery point?                      *)
FrozenByError == decodeError /\ ~ awaitingIdr

Gap(id) == lastFrameId # None /\ id - lastFrameId # 1

(* Mutant: a gap is noticed from the second missing frame on. *)
FrozenByWideGap(id) ==
  Gap(id) /\ id - lastFrameId > 2 /\ Frame(id).kind # "Idr" /\ ~ (awaitingIdr \/ FrozenByError)

FrozenByGap(id) ==
  Gap(id) /\ Frame(id).kind # "Idr" /\ ~ (awaitingIdr \/ FrozenByError)

Frozen(id) ==
  Frame(id).kind # "Idr" /\ (awaitingIdr \/ FrozenByError \/ FrozenByGap(id))

PastRecoveryPoint(id) == recoveryPoint > 0 /\ id >= recoveryPoint - 1

Skipped(id) == Frozen(id) /\ ~ PastRecoveryPoint(id)

(* A frozen gate resumes on an announcement that fits: at the first safe   *)
(* frame itself, no earlier than the one coded clean for the request that  *)
(* it answers, which cited the frame delivered last.                       *)
Fits(id) ==
  /\ id \in DOMAIN answers
  /\ answers[id].good = lastDelivered /\ answers[id].since \in 0 .. id

(* gate on a frame it skips: still frozen, asking again. *)
GateSkips(id) ==
  /\ Skipped(id)
  /\ awaitingIdr' = TRUE
  /\ lastFrameId' = id
  /\ Request(TRUE, lastDelivered)
  /\ UNCHANGED <<lastDelivered, pictureVars>>

(* gate on a frame it hands over.  The frame decodes, or not: a broken     *)
(* reference may show as an error or as a corrupt picture, and a decoder   *)
(* may reject a frame that was sound.  recv_frame freezes on an error it   *)
(* sees; an embedder that decodes elsewhere raises decode_error later.     *)
GateDelivers(id, error) ==
  LET askedBefore == FrozenByError \/ FrozenByGap(id)
      citing      == IF askedBefore THEN lastDelivered ELSE id
      rejected    == error /\ Sound(id)
  IN  /\ ~ Skipped(id)
      /\ rejected => rejects < MaxRejects
      /\ rejects' = IF rejected THEN rejects + 1 ELSE rejects
      /\ lastFrameId' = id
      /\ lastDelivered' = id
      /\ awaitingIdr' = error
      /\ Request(askedBefore \/ error, citing)
      /\ decoded' = IF Sound(id) /\ ~ error THEN decoded \cup {id} ELSE decoded
      /\ corrupt' = IF Sound(id) THEN corrupt ELSE corrupt \cup {id}
      /\ loose' = \/ rejected
                  \/ /\ Frame(id).kind # "Idr"
                     /\ loose \/ (Frozen(id) /\ ~ Fits(id))

Gate(error) ==
  /\ wire # <<>>
  /\ wire' = Tail(wire)
  /\ decodeError' = FALSE
  /\ \/ GateSkips(Head(wire))
     \/ GateDelivers(Head(wire), error)
  /\ UNCHANGED <<agentVars, toClient, recoveryPoint, answerVars>>

(* The embedder's decoder rejected the last frame it was given, after the  *)
(* gate had let go of it.                                                  *)
EmbedderRejects ==
  /\ lastDelivered # None /\ ~ decodeError
  /\ lastDelivered \in decoded => rejects < MaxRejects
  /\ lastDelivered \in decoded \cup corrupt
  /\ rejects' = IF lastDelivered \in decoded THEN rejects + 1 ELSE rejects
  /\ decoded' = decoded \ {lastDelivered}
  /\ loose' = (loose \/ lastDelivered \in decoded)
  /\ decodeError' = TRUE
  /\ UNCHANGED <<agentVars, wire, toAgent, toClient, lastFrameId, lastDelivered,
                 awaitingIdr, recoveryPoint, throttled, answerVars, corrupt>>

-----------------------------------------------------------------------------

Init ==
  /\ encoder \in Encoders
  /\ frames = <<>> /\ dpb = {} /\ forceIdr = FALSE /\ recoveryRequest = 0 /\ encoding = FALSE
  /\ announce = FALSE /\ late = <<>> /\ announced = 0
  /\ wire = <<>> /\ toAgent = <<>> /\ toClient = <<>>
  /\ lastFrameId = None /\ lastDelivered = None /\ awaitingIdr = TRUE
  /\ recoveryPoint = 0 /\ throttled = TRUE /\ decodeError = FALSE
  /\ decoded = {} /\ corrupt = {} /\ rejects = 0 /\ loose = FALSE
  /\ answers = <<>> /\ answering = NoRequest

Steps ==
  \/ TakeRequest
  \/ \E idr \in BOOLEAN, kept \in {0, 1} : EncodeFrame(idr, kept)
  \/ \E kept \in {0, 1} : EncoderDrops(kept)
  \/ \E sent \in 0 .. Len(wire) : BacklogDropped(sent)
  \/ FrameLost
  \/ AgentReceives
  \/ Announce
  \/ ClientHears
  \/ ThrottleExpires
  \/ \E error \in BOOLEAN : Gate(error)
  \/ EmbedderRejects

Next == Steps /\ UNCHANGED encoder

Spec == Init /\ [][Next]_vars

-----------------------------------------------------------------------------
(* Correctness. *)

TypeOK ==
  LET Ids == 0 .. NextId - 1
  IN  /\ frames \in Seq([kind : {"Idr", "P"}, ref : Ids \cup {None}])
      /\ dpb \subseteq Ids /\ forceIdr \in BOOLEAN /\ announce \in BOOLEAN /\ encoding \in BOOLEAN
      /\ recoveryRequest \in 0 .. NextId /\ announced \in 0 .. NextId
      /\ late \in Seq(Ids) /\ wire \in Seq(Ids)
      /\ toAgent \in Seq(Ids \cup {None}) /\ toClient \in Seq(Ids)
      /\ {lastFrameId, lastDelivered} \subseteq Ids \cup {None}
      /\ awaitingIdr \in BOOLEAN /\ recoveryPoint \in 0 .. NextId
      /\ throttled \in BOOLEAN /\ decodeError \in BOOLEAN
      /\ decoded \subseteq Ids /\ corrupt \subseteq Ids
      /\ rejects \in 0 .. MaxRejects /\ loose \in BOOLEAN
      /\ encoder \in Encoders
      /\ DOMAIN answers \subseteq Ids
      /\ \A first \in DOMAIN answers :
           answers[first] \in [good : Ids \cup {None}, since : Ids \cup {None}]

(* What the agent promises with a recovery point: no frame from the first  *)
(* safe one on, however late, references one of the frames the client said *)
(* it is missing - those after the last good frame and before the first    *)
(* safe one.  (The encode loop's order: invalidate or force the IDR,       *)
(* submit, announce; requests come at any point of it.)  VideoToolbox may  *)
(* break it, but only with a frame before the one coded clean for the      *)
(* request: see AnnouncedPointsSafe.                                       *)
CleanFrom(first) ==
  \A id \in first .. NextId - 1 :
    Frame(id).ref \notin answers[first].good + 1 .. first - 1

RecoveryPointClean ==
  \A first \in DOMAIN answers :
    ~ AsyncEncoder \/ answers[first].since \in 0 .. first => CleanFrom(first)

(* The same taken at its word (protocol/src/control.rs): "Frames from      *)
(* first_safe_frame_id on reference nothing the client is missing".  The   *)
(* loop announces the first chunk it sees after a request: a bitstream     *)
(* that came out late is of a frame encoded before, and after an IDR that  *)
(* VideoToolbox dropped the next frame references what it always did.      *)
AnnouncedPointsSafe == \A first \in DOMAIN answers : CleanFrom(first)

(* What the gate achieves: a frame is handed over on top of a missing      *)
(* reference only after decoding resumed, since the last IDR, on an        *)
(* announcement that does not fit (AnnouncedPointsSafe, NoBrokenReference  *)
(* say how it comes to that), or after the decoder rejected a sound frame: *)
(* the gate asks for recovery from that very frame as the last good one.   *)
(* Gap detection, the IDR fallback, the throttle and a fitting             *)
(* announcement are sound.                                                 *)
BreaksOnlyWhenLoose == [][corrupt' # corrupt => loose']_vars

(* The gate's comment (client-core/src/lib.rs) - skip P-frames until a     *)
(* keyframe resyncs, "frames from it on reference nothing we're missing" - *)
(* taken at its word: no frame is handed over whose reference the decoder  *)
(* does not have.                                                          *)
NoBrokenReference == corrupt = {}
=============================================================================
