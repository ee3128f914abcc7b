---------------------------- MODULE FrameChannel ----------------------------
(***************************************************************************)
(* The depth-1 frame channel between a capture callback and the encode     *)
(* thread: a mutex around one slot, a condition variable, and a closed     *)
(* flag that is an atomic OUTSIDE the mutex.  Because close() stores the   *)
(* flag and notifies without the lock, it can fall between the receiver's  *)
(* test of the flag and its wait; the notification is then lost, and only  *)
(* the wait's timeout gets the receiver out.                               *)
(*                                                                         *)
(* A frame is a record with its number and the ring texture it sits in     *)
(* (0 for a frame that is not a texture).                                  *)
(***************************************************************************)
EXTENDS Naturals

VARIABLES
  slot,    \* the frame waiting, or NoFrame
  closed,  \* the end-of-stream flag
  offered, \* frames submitted
  dropped, \* frames replaced before the receiver took them
  recv,    \* where the receiver is inside recv_latest
  woken,   \* a notification has reached the waiting receiver
  received \* history: the number of the newest frame received

chanVars == <<slot, closed, offered, dropped, recv, woken, received>>

NoFrame == [id |-> 0, texture |-> 0]

ChanInit ==
  /\ slot = NoFrame
  /\ closed = FALSE
  /\ offered = 0
  /\ dropped = 0
  /\ recv = "idle"
  /\ woken = FALSE
  /\ received = 0

\* The receiver holds the lock from its tests until it waits.
Locked == recv = "testing"

Notify == woken' = (woken \/ recv = "waiting")

\* Mutant: a frame that finds the slot taken is the one dropped.
SubmitOldest(frame) ==
  /\ ~Locked
  /\ offered' = offered + 1
  /\ slot' = IF slot = NoFrame THEN frame ELSE slot
  /\ dropped' = IF slot = NoFrame THEN dropped ELSE dropped + 1
  /\ Notify
  /\ UNCHANGED <<closed, recv, received>>

Submit(frame) ==
  /\ ~Locked
  /\ offered' = offered + 1
  /\ slot' = frame
  /\ dropped' = IF slot = NoFrame THEN dropped ELSE dropped + 1
  /\ Notify
  /\ UNCHANGED <<closed, recv, received>>

Close ==
  /\ closed' = TRUE
  /\ Notify
  /\ UNCHANGED <<slot, offered, dropped, recv, received>>

Take ==
  /\ slot' = NoFrame
  /\ received' = IF slot = NoFrame THEN received ELSE slot.id
  /\ recv' = "idle"
  /\ woken' = FALSE
  /\ UNCHANGED <<closed, offered, dropped>>

(***************************************************************************)
(* One pass over the tests at the head of the loop, with what recv_latest  *)
(* returns in this step: a frame, NoFrame, or nothing yet.                 *)
(***************************************************************************)
AtHead == recv = "idle" \/ (recv = "waiting" /\ woken)

ReceiveFrame == AtHead /\ slot # NoFrame /\ Take

ReceiveClosed ==
  /\ AtHead
  /\ slot = NoFrame
  /\ closed
  /\ recv' = "idle"
  /\ woken' = FALSE
  /\ UNCHANGED <<slot, closed, offered, dropped, received>>

TestEmpty ==
  /\ AtHead
  /\ slot = NoFrame
  /\ ~closed
  /\ recv' = "testing"
  /\ woken' = FALSE
  /\ UNCHANGED <<slot, closed, offered, dropped, received>>

Wait ==
  /\ recv = "testing"
  /\ recv' = "waiting"
  /\ UNCHANGED <<slot, closed, offered, dropped, woken, received>>

\* The wait times out: whatever is in the slot is the result.
TimeOut == recv = "waiting" /\ Take

-----------------------------------------------------------------------------
Newest == INSTANCE LatestFrame WITH put <- offered, got <- received

(***************************************************************************)
(* The channel keeps the mailbox's promise: the encode thread only ever    *)
(* receives the newest frame submitted, never one it had before, across    *)
(* every interleaving of submit, close, wake-up and time-out in sink.rs.   *)
(***************************************************************************)
LatestFrameWins == Newest!Spec
=============================================================================
