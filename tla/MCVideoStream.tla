---------------------------- MODULE MCVideoStream ----------------------------
(***************************************************************************)
(* One frame shape, ids that wrap in the middle of the stream; and, behind *)
(* the stream, the decoders over every sequence of a few access units.     *)
(***************************************************************************)
EXTENDS VideoStream, Exploration, SequencesExt

(* Two data shards, half as much parity: a frame survives one loss.        *)
MCShape == [k |-> 2, m |-> ParityCount(2, 500), len |-> 2, epoch |-> 0]

MCGeometries == {MCShape}

-----------------------------------------------------------------------------
(* The decoders.                                                           *)

Decoders == INSTANCE VideoDecoders

\* What an encoder puts in a NAL unit: bytes without a start code, the last
\* of which is not zero.
Units == {u \in UNION {[1 .. n -> 0 .. 2] : n \in 1 .. 4} :
            /\ u[Len(u)] # 0
            /\ \A i \in 1 .. Len(u) - 2 : u[i] # 0 \/ u[i + 1] # 0 \/ u[i + 2] = 2}

\* A stream is split into the units it was put together of, in order and
\* whole, whichever start codes stand before them (split_annex_b, in both
\* its forms).
ASSUME SplitFindsUnits ==
  \A n \in 0 .. 2 : \A units \in [1 .. n -> Units] :
    \A codes \in [1 .. n -> {<<0, 0, 1>>, <<0, 0, 0, 1>>}] :
      LET stream == FoldLeft(LAMBDA bytes, i : bytes \o codes[i] \o units[i], <<>>,
                             [i \in 1 .. n |-> i])
      IN  Decoders!SplitAll(stream) = units /\ Decoders!SplitAnnexB(stream) = units

\* On any bytes at all, the two forms differ in empty units only, and lose
\* nothing but start codes and what stands before the first.
ASSUME SplitKeepsBytes ==
  \A bytes \in UNION {[1 .. n -> 0 .. 1] : n \in 0 .. 8} :
    LET units == Decoders!SplitAll(bytes)
        kept  == FoldLeft(LAMBDA n, u : n + Len(u), 0, units)
        codes == Decoders!Codes(bytes)
        first == CHOOSE i \in codes : \A j \in codes : i <= j
        long  == {i \in codes : Decoders!LongCode(bytes, i)}
    IN  IF codes = {} THEN units = <<>>
        ELSE kept + 3 * Cardinality(codes) + Cardinality(long) + first - 1 = Len(bytes)

\* Access units: keyframes with one of two versions of the parameter sets, or
\* with a set missing, plain frames, and delimiters alone.
Sps(v) == [kind |-> "sps", version |-> v]
Pps(v) == [kind |-> "pps", version |-> v]
Slice  == [kind |-> "slice", version |-> 0]
Aud    == [kind |-> "aud", version |-> 0]

AccessUnits ==
  {<<Aud, Sps(v), Pps(v), Slice>> : v \in {1, 2}}
  \cup {<<Sps(2), Slice>>, <<Slice>>, <<Aud>>, <<Sps(1), Pps(1)>>, <<>>}

HwOutcomes(s) == UNION {Decoders!DecodeHardware("h264", s, au) : au \in AccessUnits}
DevOutcomes(s) == UNION {Decoders!DecodeDev(s, au) : au \in AccessUnits}

HwAfter(s) == {o.s : o \in HwOutcomes(s)}
DevAfter(s) == {o.s : o \in DevOutcomes(s)}

HwStates == {p[2] : p \in StepsWithin(4, Decoders!NewHardware, HwAfter)}
DevStates == {p[2] : p \in StepsWithin(4, Decoders!NewDev, DevAfter)}

\* A picture is decoded by a session made of the parameter sets that came
\* last, those of its own access unit if it has them all; before the first
\* there is none (decode, ensure_session, create_session).
ASSUME PicturesOfNewestSets ==
  \A au \in AccessUnits :
    LET sets == Decoders!Sets(au) IN
    /\ \A s \in HwStates : \A o \in Decoders!DecodeHardware("h264", s, au) :
         o.result = "picture" =>
           o.s.session = (IF Len(sets) = 2 THEN sets ELSE s.session) /\ o.s.session # <<>>
    /\ \A s \in DevStates : \A o \in Decoders!DecodeDev(s, au) :
         o.result = "picture" =>
           o.s.session = (IF Len(sets) = 2 THEN sets ELSE s.session) /\ o.s.session # <<>>

\* What a session that cannot be made costs.  The development client keeps
\* the one it had and tries again with the next keyframe.  The hardware
\* decoder has torn it down but remembers its sets: a keyframe with these
\* very sets is then taken for one that changes nothing, and shows nothing,
\* with no error, until another version of them comes.
ASSUME AfterAFailedSession ==
  /\ \A s \in DevStates : \A au \in AccessUnits : \A o \in Decoders!DecodeDev(s, au) :
       s.session # <<>> => o.s.session # <<>>
  /\ \E s \in HwStates : \E v \in {1, 2} :
       {o.result : o \in Decoders!DecodeHardware("h264", s, <<Aud, Sps(v), Pps(v), Slice>>)}
         = {"nothing"}
  /\ \A s \in HwStates : \E v \in {1, 2} :
       \E o \in Decoders!DecodeHardware("h264", s, <<Aud, Sps(v), Pps(v), Slice>>) :
         o.result = "picture"
=============================================================================
