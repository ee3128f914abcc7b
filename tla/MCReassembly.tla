---------------------------- MODULE MCReassembly ----------------------------
(***************************************************************************)
(* The reassembler alone, fed every header the parser accepts: any id of a *)
(* small wrapping id space, two frame shapes, any shard, in any order.     *)
(***************************************************************************)
EXTENDS Reassembly, ErasureCode

CONSTANT MaxOpened  \* bound: frames opened in one behaviour

(* Two data shards with one parity shard, and a frame of a single shard.   *)
MCGeometries == {[k |-> 2, m |-> 1, len |-> 2, epoch |-> 0],
                 [k |-> 1, m |-> 0, len |-> 1, epoch |-> 0]}

(***************************************************************************)
(* The layout of every frame of up to seven chunks at four parity ratios,  *)
(* with groups and code words small enough to be full: TLC evaluates these *)
(* over every set of shards a frame can lose.                              *)
(***************************************************************************)
Small == INSTANCE FecLayout WITH MAX_GROUP_DATA <- 3, MAX_SHARDS <- 7

Layouts == {<<k, Small!ParityCount(k, r)>> : k \in 1 .. 7, r \in {0, 250, 1000, 2000}}

ASSUME LayoutsSound ==
  \A l \in Layouts :
    /\ Small!IsEvenPartition(l[1], l[2])
    /\ Small!CodeWordsFit(l[1], l[2])
    /\ Small!ToleratesAny(l[1], l[2])

(***************************************************************************)
(* The code itself.  Every element but zero has an inverse and products    *)
(* distribute over sums; and every square part of the Cauchy matrix can be *)
(* inverted, which reconstruct_data calls "unreachable for a Cauchy        *)
(* submatrix" where it could not.                                          *)
(***************************************************************************)
Bits == {2 ^ n : n \in 0 .. 7}

ASSUME FieldSound ==
  /\ \A a \in 1 .. 255 : Mul(a, Inv(a)) = 1
  /\ \A a \in 0 .. 255, b, c \in Bits :
       b # c => Mul(a, b ^^ c) = (Mul(a, b) ^^ Mul(a, c))

ASSUME CauchyInvertible ==
  \A k \in 1 .. 4, n \in 1 .. 3 :
    \A cols \in kSubset(n, 0 .. k - 1), rows \in kSubset(n, 0 .. 3) :
      LET row == Ordered(rows)
          col == Ordered(cols)
      IN  ~Invert([r \in 1 .. n |-> [c \in 1 .. n |-> Coef(k, row[r], col[c])]]).singular

(***************************************************************************)
(* End to end: whenever the reassembler holds what the layout calls        *)
(* recoverable, what it rebuilds is the frame that was chunked, byte by    *)
(* byte, though the last shard was padded and the frame has several        *)
(* groups.  An empty frame has no shard to pad, and is not sent.           *)
(***************************************************************************)
ASSUME RebuiltIsSent ==
  \A frame \in {<<7>>, <<1, 2>>, <<255, 0, 9>>, <<3, 200, 5, 77, 8>>}, permille \in {500, 1000} :
    LET k    == DataCount(frame, 2)
        m    == ParityCount(k, permille)
        sent == Chunked(frame, 2, permille)
    IN  \A got \in SUBSET DOMAIN sent :
          Recoverable(k, m, got) /\ ~(0 .. k - 1 \subseteq got)
            => Rebuilt([i \in got |-> sent[i]], k, m, Len(frame)) = frame

(***************************************************************************)
(* On the wire, with bytes of two bits.  Every field is read back as it    *)
(* was written, at its extremes too; a header is accepted exactly when its *)
(* shard exists; and the sequence number stamped last is where read_seq    *)
(* looks for it, in padding too, and disturbs nothing else.                *)
(***************************************************************************)
W == INSTANCE WireFormat WITH Base <- 4, MaxControlMsg <- 3

Extremes(width) == {0, 1, 4 ^ width - 1}

VideoHeaders ==
  [seq : {0, 255}, epoch : {0, 3}, frameId : {0, 255}, kind : W!FrameKinds, index : Extremes(2),
   count : Extremes(2), parity : {0, 3}, frameLen : {0, 255}, capturedAt : {7}]

ASSUME HeadersSurvive ==
  \A h \in VideoHeaders, payload \in {<<>>, <<1, 2>>} :
    LET datagram == W!EncodeWithPayload(W!Video, W!VideoFields, h, payload)
        stamped == W!StampSeq(datagram, 100)
    IN  /\ W!ParseVideo(stamped) =
             IF W!ShardsExist(h) THEN W!Some([header |-> [h EXCEPT !.seq = 100], payload |-> payload])
             ELSE W!Nothing
        /\ W!ReadSeq(stamped) = W!Some(100)
        /\ W!ParseAudio(stamped) = W!Nothing

ASSUME OthersSurvive ==
  /\ \A h \in [seq : Extremes(2), at : Extremes(4)], payload \in {<<>>, <<3>>} :
       LET datagram == W!EncodeWithPayload(W!Audio, W!AudioFields, h, payload)
       IN  /\ W!ParseAudio(datagram) = W!Some([header |-> h, payload |-> payload])
           /\ W!ParseVideo(datagram) = W!Nothing
  /\ \A len \in 0 .. 8 :
       LET datagram == W!StampSeq(W!EncodePadding(len), 77)
       IN  /\ Len(datagram) >= len
           /\ W!ReadSeq(datagram) = W!Some(77)
           /\ W!ParseVideo(datagram) = W!Nothing /\ W!ParseAudio(datagram) = W!Nothing

(* Timestamps compare across one wrap; ids are apart as long as fewer than *)
(* a whole wrap is in flight.                                              *)
ASSUME WrapsOnce ==
  \A earlier \in 250 .. 260, apart \in 0 .. 255 :
    /\ W!WireDelta(W!Wire(earlier + apart), W!Wire(earlier)) = apart
    /\ apart > 0 => W!Wire(earlier + apart) # W!Wire(earlier)

(* Messages within the cap come out as they went in, in order; one beyond  *)
(* it ends the reading, and with it every message behind it; and so does a *)
(* stream cut anywhere within a message.                                   *)
Messages == {<<>>, <<2>>, <<0, 0, 0>>, <<1, 2, 3, 0>>}

ASSUME MessagesFramed ==
  \A a, b, c \in Messages :
    LET sent == W!SendMsg(W!SendMsg(W!SendMsg(<<>>, a), b), c)
        bodies == <<a, b, c>>
        Fits(n) == \A i \in 1 .. n : Len(bodies[i]) <= 3
        Whole(n, cut) == cut >= Len(FlattenSeq(SubSeq(bodies, 1, n))) + 4 * n
    IN  \A cut \in 0 .. Len(sent) :
          W!ReceivedAll[SubSeq(sent, 1, cut)] =
            SubSeq(bodies, 1, Max({n \in 0 .. 3 : Fits(n) /\ Whole(n, cut)}))

(* The only unbounded data are the counters, and every one of them grows   *)
(* only with the frames opened.                                            *)
MCNext ==
  \E h \in Headers :
    /\ opened < MaxOpened \/ h.id \in DOMAIN pending
    /\ Push(h)

MCSpec == Init /\ [][MCNext]_vars

=============================================================================
