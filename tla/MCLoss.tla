------------------------------- MODULE MCLoss -------------------------------
(***************************************************************************)
(* The two answers to loss on small instances: the recovery ladder         *)
(* (LossRecovery) and the feedback loop with its NACKs (Feedback).  They   *)
(* share no state here, so in a behaviour one of them moves, `part`, and   *)
(* the other stays as it begins.  ControlBound keeps each direction of the *)
(* ladder's control stream to MaxMessages in transit.                      *)
(*                                                                         *)
(* The three encoders behind the ladder are checked here too, each over    *)
(* every sequence of a few operations: what LossRecovery says of an        *)
(* encoder is what they do.                                                *)
(***************************************************************************)
EXTENDS LossRecovery, Feedback, Exploration

CONSTANTS Parts, MaxMessages

VARIABLE part

ControlBound ==
  Len(toAgent) <= MaxMessages /\ Len(toClient) <= MaxMessages

MCInit ==
  /\ part \in Parts /\ Init /\ FeedbackInit
  /\ part = "feedback" => encoder = "software"

MCNext ==
  /\ UNCHANGED part
  /\ \/ part = "ladder" /\ Next /\ ControlBound' /\ UNCHANGED feedbackVars
     \/ part = "feedback" /\ FeedbackNext /\ UNCHANGED vars

MCSpec == MCInit /\ [][MCNext]_<<vars, feedbackVars, part>>

-----------------------------------------------------------------------------
(* NVENC, with frame ids of 8 values on the wire, windows of 2 of 4        *)
(* pictures.                                                               *)

Enc == INSTANCE VideoEncoders WITH Base <- 8, Window <- 2, Resident <- 4

NvConfigs == {[codec |-> "h264", profile |-> "baseline", fps |-> 0, rate |-> 4],
              [codec |-> "hevc", profile |-> "high", fps |-> 2, rate |-> 4]}

NvSubmits(s) == UNION {Enc!NvSubmit(s, fits, idr) : fits, idr \in BOOLEAN}

\* Who opens an encoder again has closed it.
NvAfter(s) ==
  {o.s : o \in NvSubmits(s)
               \cup {Enc!NvOpen(s, c) : c \in {d \in NvConfigs : s.config = <<>>}}
               \cup UNION {Enc!NvUpdateRate(s, rate) : rate \in {4, 6}}
               \cup UNION {Enc!InvalidateRefs(s, good) : good \in 0 .. 3}}
  \cup {Enc!NvNextChunk(s), Enc!NvForceIdr(s), Enc!NvClose(s)}

NvSteps(n) == StepsWithin(n, Enc!NvNew, NvAfter)

\* However a driver call fails, what the encoder took of the driver it gives
\* back (Drop for MappedTexture and Session, map's and session()'s error
\* paths): between operations nothing is mapped or registered, and there is
\* an encoder with its output buffer exactly while there is a session.
ASSUME NvencReleases ==
  \A step \in NvSteps(5) :
    LET s == step[2]
        live == IF s.session THEN 1 ELSE 0
    IN  s.gpu.held = [encoder |-> live, bitstream |-> live, registered |-> 0, mapped |-> 0]

\* An IDR that is owed is paid by the next frame coded, and stays owed when
\* submit fails at any of its calls; the first frame of a session is one.
ASSUME NvencPaysIdr ==
  \A s \in {step[2] : step \in NvSteps(4)} :
    \A idr \in BOOLEAN : \A o \in Enc!NvSubmit(s, TRUE, idr) :
      /\ ~ o.ok => o.s.idr = s.idr /\ o.s.next = s.next
      /\ o.ok /\ (idr \/ s.idr \/ ~ s.session) =>
           o.s.pending = [id |-> s.next, idr |-> TRUE]

\* A live session runs the configuration it would be opened with now: a
\* change of rate moves the rate's fields and no other (reconfigure,
\* set_bitrate), and no mode divides by zero.  Only a reconfiguration that
\* failed leaves the driver at an earlier rate - and asking for the same
\* rate again does not mend it, for update_rate has stored it already.
ASSUME NvencConfigured ==
  \A step \in NvSteps(5) :
    LET Expected(s)  == Enc!DriverConfig(s.config)
        Runs(s)      == s.session => s.gpu.config = Expected(s)
        OtherRate(s) == s.session => \E rate \in {4, 6} :
                          s.gpu.config = Enc!WithRate(Expected(s), rate)
    IN  /\ OtherRate(step[2])
        /\ Runs(step[1]) /\ ~ Runs(step[2]) =>
             Enc!Err(step[2]) \in Enc!NvUpdateRate(step[1], step[2].config.rate)

\* What LossRecovery says of an invalidation is so: one that succeeds leaves
\* no lost frame to reference and takes no other, is refused beyond the
\* window, and with nothing invalidated before finds the last good frame
\* still in the buffer - on wrapped ids too.  One that fails half-way loses
\* references, and the loop's IDR makes up for it.
ASSUME NvencInvalidates ==
  \A s \in {step[2] : step \in NvSteps(4)} : \A shift \in {0, 7} :
    \A count \in 0 .. 5 : \A back \in 1 .. count + 1 :
      LET stamps == [i \in 1 .. (IF count < 4 THEN count ELSE 4) |->
                       (shift + (IF count < 4 THEN 0 ELSE count - 4) + i - 1) % 8]
          now    == [s EXCEPT !.next = shift + count, !.gpu.buffer = stamps]
          good   == (shift + count - back) % 8
          gone   == {(shift + count - i) % 8 : i \in 1 .. back - 1}
      IN  \A o \in Enc!InvalidateRefs(now, good) :
            /\ o.ok => /\ s.session /\ gone # {} /\ Cardinality(gone) <= 2
                       /\ ToSet(o.s.gpu.buffer) = ToSet(stamps) \ gone
                       /\ count >= back => good \in ToSet(o.s.gpu.buffer)
            /\ ~ o.ok => ToSet(stamps) \ gone \subseteq ToSet(o.s.gpu.buffer)

-----------------------------------------------------------------------------
(* VideoToolbox and openh264.                                              *)

VtAfter(s) ==
  {o.s : o \in UNION {Enc!VtSubmit(s, surface, idr) : surface, idr \in BOOLEAN}
               \cup (IF s.opened > 0 THEN {} ELSE Enc!VtOpen(s, "hevc", 4))
               \cup Enc!VtUpdateRate(s, 6)}
  \cup (IF s.inside = <<>> THEN {} ELSE Enc!Emitted(s))
  \cup {Enc!VtNextChunk(s), Enc!VtForceIdr(s), Enc!VtClose(s)}

VtSteps(n) == StepsWithin(n, Enc!VtNew, VtAfter)

\* Opened once, as the pipeline does, the chunks on the channel and the next
\* one have consecutive ids whatever frames the framework drops, and none is
\* made of a frame that did not go in.  (The counter starts again with an
\* opening and old handlers share it: late ones number their chunks anew.)
ASSUME VtNumbersInOrder ==
  /\ \A step \in VtSteps(6) :
       LET s == step[2] IN
       /\ \A i \in DOMAIN s.chunks : s.chunks[i].id = s.next - Len(s.chunks) + i - 1
       /\ s.chunks # <<>> => s.opened = 1
  /\ \E s \in {step[2] : step \in VtSteps(5)} :
       /\ s.chunks = <<>> /\ s.inside # <<>> /\ s.next > 0
       /\ \E o \in Enc!VtOpen(s, "h264", 4) : \E again \in Enc!Emitted(o.s) :
            again.chunks # <<>> /\ again.chunks[1].id = 0

\* sample_to_annex_b: what is emitted is a run of whole units from the start
\* of the sample; it is a keyframe if one of these is an IDR slice, and then
\* its parameter sets, all of them if they could be read, come first.
ASSUME AnnexBFaithful ==
  \A codec \in {"h264", "hevc"} : \A readable \in SUBSET (1 .. 3) :
    \A nals \in BoundedSeq([type : {1, 5, 19}, size : {"whole", "empty", "cut"}], 3) :
      LET out == Enc!AnnexB(codec, [nals |-> nals, readable |-> readable])
          idr == IF codec = "hevc" THEN 19 ELSE 5
      IN  IF nals = <<>> \/ nals[1].size # "whole" THEN out = <<>>
          ELSE /\ IsPrefix(out[1].slices, nals)
               /\ \A i \in DOMAIN out[1].slices : out[1].slices[i].size = "whole"
               /\ out[1].idr <=> \E i \in DOMAIN out[1].slices : out[1].slices[i].type = idr
               /\ out[1].idr => ToSet(out[1].sets) =
                    readable \cap 1 .. (IF codec = "hevc" THEN 3 ELSE 2)

SwAfter(s) ==
  {o.s : o \in UNION {Enc!SwSubmit(s, converts, idr) : converts, idr \in BOOLEAN}
               \cup (IF s.open THEN {} ELSE Enc!SwOpen(s, "h264", 4))
               \cup UNION {Enc!SwUpdateRate(s, rate) : rate \in {4, 6}}}
  \cup {Enc!SwNextChunk(s), Enc!SwForceIdr(s), Enc!SwClose(s)}

SwStates(n) == {step[2] : step \in StepsWithin(n, Enc!SwNew, SwAfter)}

\* The trait's contract for an encoder that reopens itself to change its
\* rate: it must re-IDR.  The next chunk after opening, update_rate or
\* force_idr is an IDR with the next id - and no failing submit, nor a frame
\* that does not convert, forgets the debt.
ASSUME SwPaysIdr ==
  \A s \in SwStates(5) :
    LET Owes(r) == r.idr \/ r.forced \/ r.fresh IN
    /\ s.open /\ s.pending = <<>> /\ s.next = 0 => Owes(s)
    /\ \A o \in Enc!SwUpdateRate(s, 6) : o.ok => Owes(o.s) /\ o.s.next = s.next
    /\ \A converts, idr \in BOOLEAN : \A o \in Enc!SwSubmit(s, converts, idr) :
         /\ Owes(s) /\ ~ o.ok => Owes(o.s)
         /\ o.ok /\ (idr \/ Owes(s)) =>
              o.s.pending = [id |-> s.next, idr |-> TRUE] /\ o.s.next = s.next + 1

\* What is left of an owed IDR when submit fails, which for the first two is
\* never lost: VideoToolbox forgets it before it asks the framework.  The
\* encode loop stops at a failing submit, so no stream goes on without it.
ASSUME IdrLostByVideoToolboxOnly ==
  /\ \A s \in {step[2] : step \in NvSteps(4)} :
       \A o \in NvSubmits(s) : ~ o.ok => o.s.idr = s.idr
  /\ \A s \in {step[2] : step \in VtSteps(4)} : \A idr \in BOOLEAN :
       \A o \in Enc!VtSubmit(s, TRUE, idr) : s.open => ~ o.s.idr
=============================================================================
