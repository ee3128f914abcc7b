----------------------------- MODULE WireFormat -----------------------------
(***************************************************************************)
(* What goes over the wire: the fixed layouts of the datagrams (protocol/  *)
(* src/datagram), the truncation of ids and timestamps to it (core), and   *)
(* the length prefix of control messages (transport/src/stream).           *)
(*                                                                         *)
(* A datagram or a stream is a sequence of bytes, a byte one of Base       *)
(* values.                                                                 *)
(***************************************************************************)
EXTENDS Integers, Sequences, SequencesExt

CONSTANTS
  Base,          \* values of a byte, 256 in the code
  MaxControlMsg  \* MAX_CONTROL_MSG

\* An optional value: a sequence of none or one.
Nothing == <<>>
Some(x) == <<x>>

-----------------------------------------------------------------------------
(* Numbers.                                                                *)

BigEndian(n, width) == [i \in 1 .. width |-> (n \div Base ^ (width - i)) % Base]

NumberOf(bytes) == FoldLeft(LAMBDA n, b : Base * n + b, 0, bytes)

\* FrameId::wire and wire_ts keep the low four bytes; a difference of two
\* such timestamps wraps as they do.
Wire(n) == n % Base ^ 4

WireDelta(later, earlier) == Wire(later - earlier)

-----------------------------------------------------------------------------
(* Datagrams: a type, fields in order with their widths, a payload.        *)

Video   == 1
Audio   == 2
Padding == 3

DatagramTypes == {Video, Audio, Padding}
FrameKinds    == 0 .. 3

VideoFields ==
  << <<"seq", 4>>, <<"epoch", 1>>, <<"frameId", 4>>, <<"kind", 1>>, <<"index", 2>>,
     <<"count", 2>>, <<"parity", 1>>, <<"frameLen", 4>>, <<"capturedAt", 4>> >>

AudioFields == << <<"seq", 2>>, <<"at", 4>> >>

\* Where field i starts, the type being at 1.
Offset(fields, i) == FoldLeft(LAMBDA at, f : at + f[2], 2, SubSeq(fields, 1, i - 1))

HeaderLen(fields) == Offset(fields, Len(fields) + 1) - 1

EncodeWithPayload(type, fields, header, payload) ==
  <<type>> \o FlattenSeq([i \in DOMAIN fields |-> BigEndian(header[fields[i][1]], fields[i][2])])
           \o payload

FieldOf(datagram, fields, i) ==
  NumberOf(SubSeq(datagram, Offset(fields, i), Offset(fields, i) + fields[i][2] - 1))

HeaderOf(datagram, fields) ==
  [name \in {fields[i][1] : i \in DOMAIN fields} |->
     FieldOf(datagram, fields, CHOOSE i \in DOMAIN fields : fields[i][1] = name)]

PayloadOf(datagram, fields) == SubSeq(datagram, HeaderLen(fields) + 1, Len(datagram))

\* total_shards
ShardsExist(h) == h.count # 0 /\ h.index < h.count + h.parity

ParseVideo(datagram) ==
  IF Len(datagram) < HeaderLen(VideoFields) \/ datagram[1] # Video THEN Nothing
  ELSE LET h == HeaderOf(datagram, VideoFields)
       IN  IF h.kind \in FrameKinds /\ ShardsExist(h)
           THEN Some([header |-> h, payload |-> PayloadOf(datagram, VideoFields)])
           ELSE Nothing

ParseAudio(datagram) ==
  IF Len(datagram) < HeaderLen(AudioFields) \/ datagram[1] # Audio THEN Nothing
  ELSE Some([header |-> HeaderOf(datagram, AudioFields), payload |-> PayloadOf(datagram, AudioFields)])

\* The sequence number is stamped into what is encoded already, and read
\* without parsing the rest.
StampSeq(datagram, seq) ==
  [i \in DOMAIN datagram |-> IF i \in 2 .. 5 THEN BigEndian(seq, 4)[i - 1] ELSE datagram[i]]

ReadSeq(datagram) ==
  IF Len(datagram) < 5 THEN Nothing ELSE Some(NumberOf(SubSeq(datagram, 2, 5)))

PaddingHeaderLen == 5

EncodePadding(len) ==
  [i \in 1 .. (IF len < PaddingHeaderLen THEN PaddingHeaderLen ELSE len) |->
     IF i = 1 THEN Padding ELSE 0]

-----------------------------------------------------------------------------
(* Control messages.                                                       *)

SendMsg(stream, body) == stream \o BigEndian(Len(body), 4) \o body

\* The first message and the rest; an error ends the reading of the stream.
RecvMsg(stream) ==
  LET len == NumberOf(SubSeq(stream, 1, 4))
  IN  IF Len(stream) < 4 THEN Nothing
      ELSE IF len > MaxControlMsg \/ Len(stream) < 4 + len THEN Nothing
      ELSE Some([body |-> SubSeq(stream, 5, 4 + len), rest |-> SubSeq(stream, 5 + len, Len(stream))])

ReceivedAll[stream \in Seq(0 .. Base - 1)] ==
  IF RecvMsg(stream) = Nothing THEN <<>>
  ELSE <<RecvMsg(stream)[1].body>> \o ReceivedAll[RecvMsg(stream)[1].rest]
=============================================================================
