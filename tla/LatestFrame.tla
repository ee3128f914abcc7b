---------------------------- MODULE LatestFrame ----------------------------
(***************************************************************************)
(* What the frame channel promises its two sides: a mailbox of depth one   *)
(* in which the latest frame wins.  The producer is never held up, and     *)
(* what the consumer receives is the newest frame put in so far, each      *)
(* frame at most once.  Frames are numbered in the order they are          *)
(* captured.                                                               *)
(***************************************************************************)
EXTENDS Naturals

VARIABLES put,  \* the newest frame submitted
          got   \* the newest frame received

Init == put = 0 /\ got = 0

Put == put' = put + 1 /\ UNCHANGED got

Get == got < put /\ got' = put /\ UNCHANGED put

Spec == Init /\ [][Put \/ Get]_<<put, got>>
=============================================================================
