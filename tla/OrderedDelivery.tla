--------------------------- MODULE OrderedDelivery ---------------------------
(***************************************************************************)
(* What the receive side promises the decoder, stated on the agent's frame *)
(* numbers with no shard, window or wrapping id in sight.                  *)
(*                                                                         *)
(* Frames complete in any order.  A completed frame is never lost and      *)
(* never overtaken: what goes out is always the older part of what is      *)
(* complete, all of it newer than anything that went out before.  A frame  *)
(* the stream has passed never completes (newest wins).                    *)
(***************************************************************************)
EXTENDS Integers, FiniteSets

VARIABLES
  sent,      \* frames 0 .. sent - 1 have been sent
  complete,  \* frames complete and not yet delivered
  last,      \* the newest frame delivered, -1 before the first
  count      \* how many frames have been delivered

vars == <<sent, complete, last, count>>

Init == sent = 0 /\ complete = {} /\ last = -1 /\ count = 0

Send == sent' = sent + 1 /\ UNCHANGED <<complete, last, count>>

(* The members of `ready` up to `cut` are delivered, in order, each once.   *)
Deliver(ready, cut) ==
  /\ cut \in ready
  /\ count' = count + Cardinality({j \in ready : j <= cut})
  /\ complete' = {j \in ready : j > cut}
  /\ last' = cut

(* Frame i completes and may unblock deliveries. *)
Complete(i) ==
  /\ i \in 0 .. sent - 1
  /\ i > last
  /\ i \notin complete
  /\ \/ complete' = complete \cup {i} /\ UNCHANGED <<last, count>>
     \/ \E cut \in complete \cup {i} : Deliver(complete \cup {i}, cut)
  /\ UNCHANGED sent

(* The frame the completed ones waited for is given up. *)
Unblock ==
  /\ \E cut \in complete : Deliver(complete, cut)
  /\ UNCHANGED sent

Next == Send \/ Unblock \/ \E i \in 0 .. sent - 1 : Complete(i)

Spec == Init /\ [][Next]_vars

=============================================================================
