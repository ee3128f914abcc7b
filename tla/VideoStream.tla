----------------------------- MODULE VideoStream -----------------------------
(***************************************************************************)
(* The reassembler fed by a real agent over a real network: the agent      *)
(* chunks frames 0, 1, 2, ... once each, with wire ids that wrap, and the  *)
(* network loses, duplicates, delays and reorders their shards (QUIC       *)
(* datagrams, and retransmissions answering a NACK).                       *)
(*                                                                         *)
(* Any shard of any frame sent so far may arrive at any time, any number   *)
(* of times; a shard that never arrives is a lost one, so no network       *)
(* variable is needed.                                                     *)
(***************************************************************************)
EXTENDS Reassembly

CONSTANTS
  FirstId,    \* wire id of frame 0: close to IdSpace, so that ids wrap
  Shape,      \* the geometry the chunker gives every frame
  MaxFrames,  \* bound: frames sent in one behaviour
  MaxDropped  \* bound: frames counted as dropped (reopened frames count again)

(* The span of ids alive at once is under half the id space: 2^31 frames,  *)
(* a year of video, are not in flight together.                            *)
ASSUME StreamAssumption ==
  /\ FirstId \in Ids
  /\ Shape \in Geometries
  /\ MaxFrames \in Nat /\ MaxFrames < HALF
  /\ MaxDropped \in Nat

VARIABLE kinds  \* the kind of every frame sent, by frame number

streamVars == <<vars, kinds>>

-----------------------------------------------------------------------------

Sent == Len(kinds)

(* FrameId::wire of frame n, and back. *)
WireId(n) == IF FirstId + n < IdSpace THEN FirstId + n ELSE FirstId + n - IdSpace

Number(id) == WrappingSub(id, FirstId)

(* The sender task chunks one more frame; the first is always an IDR. *)
SendFrame(kind) ==
  /\ Sent < MaxFrames
  /\ Sent = 0 => kind = "Idr"
  /\ kinds' = Append(kinds, kind)
  /\ UNCHANGED vars

(* One shard of frame n arrives.  The chunker's shards agree in length, so *)
(* reconstruction never fails (PushUnrecoverable is left to Reassembly).   *)
Arrive(n, index) ==
  LET h == [id |-> WireId(n), kind |-> kinds[n + 1], geo |-> Shape, index |-> index]
  IN  /\ dropped < MaxDropped
      /\ PushIgnored(h) \/ PushIncomplete(h) \/ PushComplete(h)
      /\ UNCHANGED kinds

StreamInit == Init /\ kinds = <<>>

StreamNext ==
  \/ \E kind \in Kinds : SendFrame(kind)
  \/ \E n \in 0 .. Sent - 1, index \in 0 .. Shape.k + Shape.m - 1 : Arrive(n, index)

StreamSpec == StreamInit /\ [][StreamNext]_streamVars

-----------------------------------------------------------------------------
(* Properties. *)

(* The stream implements ordered, newest-wins delivery of the agent's      *)
(* frames, each delivered at most once: held is the completed set, the     *)
(* last id released the newest frame delivered.                            *)
Abstract == INSTANCE OrderedDelivery WITH
  sent     <- Sent,
  complete <- {Number(held[i].id) : i \in DOMAIN held},
  last     <- IF latest = None THEN -1 ELSE Number(latest),
  count    <- delivered

DeliversInOrder == Abstract!Spec

(* drain's contract: while an older frame can still recover, nothing that  *)
(* references it goes out, unless it is an IDR, the hold limit is passed,  *)
(* or the full window gave the older frame up.                             *)
GaveUp == opened' > opened /\ Cardinality(DOMAIN pending) = MAX_PENDING

WaitsForOlder ==
  released' # <<>> =>
    LET first   == released'[1]
        isOut(id) == \E i \in DOMAIN released' : released'[i].id = id
        blocker == \E id \in DOMAIN pending : Older(id, first.id) /\ ~ isOut(id)
    IN  blocker => \/ first.kind = "Idr"
                   \/ Len(released') + Len(held') > HOLD_LIMIT
                   \/ GaveUp

PatientRelease == [][WaitsForOlder]_streamVars

=============================================================================
