--------------------------- MODULE VideoDecoders ---------------------------
(***************************************************************************)
(* The client's decoders: the split of an access unit into NAL units, and  *)
(* the sessions of the VideoToolbox decoders - the hardware-only one       *)
(* (decode-videotoolbox/src/imp) and the development client's (client-dev/ *)
(* src/decoder_vt).                                                        *)
(*                                                                         *)
(* A decoder maps its state and an access unit to the set of its outcomes: *)
(* [result, s], a picture, nothing or an error, and the state it left.     *)
(* Any call of a framework may fail.                                       *)
(***************************************************************************)
EXTENDS Integers, Sequences, SequencesExt

-----------------------------------------------------------------------------
(* Annex B: units behind start codes of three bytes or four.               *)

StartsWith(data, i, code) ==
  i + Len(code) - 1 <= Len(data) /\ SubSeq(data, i, i + Len(code) - 1) = code

LongCode(data, i) == StartsWith(data, i, <<0, 0, 0, 1>>)

\* A short code is not one that ends a long code.
Codes(data) ==
  LET At(code) == {i \in 1 .. Len(data) : StartsWith(data, i, code)}
      long     == At(<<0, 0, 0, 1>>)
  IN  long \cup (At(<<0, 0, 1>>) \ {i + 1 : i \in long})

AfterCode(data, i) == i + (IF LongCode(data, i) THEN 4 ELSE 3)

\* A unit goes up to the next code, the last one to the end.
SplitAll(data) ==
  LET codes == SetToSortSeq(Codes(data), <)
      End(k) == IF k = Len(codes) THEN Len(data) ELSE codes[k + 1] - 1
  IN  [k \in 1 .. Len(codes) |-> SubSeq(data, AfterCode(data, codes[k]), End(k))]

\* The development client keeps empty units, and passes over them later.
SplitAnnexB(data) == SelectSeq(SplitAll(data), LAMBDA nal : nal # <<>>)

-----------------------------------------------------------------------------
(* A unit of an access unit, by what the decoders look at: its kind and,   *)
(* for a parameter set, which version of it.  "vps" occurs in HEVC only.   *)

Sets(nals) == SelectSeq(nals, LAMBDA n : n.kind \in {"vps", "sps", "pps"})

Outcome(result, s) == [result |-> result, s |-> s]

\* The framework decodes, refuses the sample, or has nothing to show.
Decodes(s) == {Outcome(r, s) : r \in {"picture", "nothing", "error"}}

-----------------------------------------------------------------------------
(* VtDecoder.  The session is torn down before its successor is made, and  *)
(* the sets are remembered only once that has succeeded.                   *)

NoSession == <<>>

NewHardware == [session |-> NoSession, sets |-> <<>>]

Expected(codec) == IF codec = "hevc" THEN 3 ELSE 2

\* create_session: format, attributes, session, any of which may fail.
Rebuilt(s, sets) ==
  {Outcome("error", [s EXCEPT !.session = NoSession]),
   Outcome("made", [session |-> sets, sets |-> sets])}

\* What is left of the unit once the parameter sets and delimiters are out.
Payload(nals) == SelectSeq(nals, LAMBDA n : n.kind \notin {"vps", "sps", "pps", "aud"})

WithHardware(s, nals) ==
  IF s.session = NoSession \/ Payload(nals) = <<>> THEN {Outcome("nothing", s)}
  ELSE Decodes(s)

DecodeHardware(codec, s, nals) ==
  LET sets == Sets(nals)
  IN  IF nals = <<>> THEN {Outcome("nothing", s)}
      ELSE IF Len(sets) >= Expected(codec) /\ sets # s.sets
      THEN UNION {IF o.result = "error" THEN {o} ELSE WithHardware(o.s, nals) :
                    o \in Rebuilt(s, sets)}
      ELSE WithHardware(s, nals)

-----------------------------------------------------------------------------
(* VideoToolboxDecoder: H.264 only.  The last of each parameter set counts; *)
(* a session that cannot be made leaves the one before.                    *)

NewDev == [session |-> NoSession, sets |-> <<>>]

LastOf(nals, kind) ==
  LET at == {i \in DOMAIN nals : nals[i].kind = kind}
  IN  IF at = {} THEN <<>> ELSE <<nals[CHOOSE i \in at : \A j \in at : j <= i]>>

EnsureSession(s, sets) ==
  IF s.session # NoSession /\ s.sets = sets THEN {Outcome("made", s)}
  ELSE {Outcome("error", s), Outcome("made", [session |-> sets, sets |-> sets])}

DevPayload(nals) == SelectSeq(nals, LAMBDA n : n.kind \notin {"sps", "pps"})

\* A picture that cannot be copied out of its buffer is no error.
DecodeDev(s, nals) ==
  LET sps == LastOf(nals, "sps")
      pps == LastOf(nals, "pps")
      Run(t) == IF t.session = NoSession \/ DevPayload(nals) = <<>>
                THEN {Outcome("nothing", t)} ELSE Decodes(t)
  IN  IF sps = <<>> \/ pps = <<>> THEN Run(s)
      ELSE UNION {IF o.result = "error" THEN {o} ELSE Run(o.s) :
                    o \in EnsureSession(s, sps \o pps)}
=============================================================================
