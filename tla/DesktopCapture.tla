--------------------------- MODULE DesktopCapture ---------------------------
(***************************************************************************)
(* The desktop of an agent: on Windows (capture-windows) which monitor and *)
(* GPU a capture uses, what starting and stopping it leaves behind, and    *)
(* what becomes of a captured frame on its way to the sink; on macOS       *)
(* (capture-macos) queries ScreenCaptureKit answers by a callback, the     *)
(* life of a stream, and the sound it delivers in one buffer or one per    *)
(* channel.                                                                *)
(***************************************************************************)
EXTENDS Naturals, Sequences, SequencesExt

-----------------------------------------------------------------------------
(* Windows. Every operation yields the set of its outcomes, for any call   *)
(* of the system may fail. A texture is the size it was made with; what    *)
(* the sink is handed names the texture and the size the frame is          *)
(* described with.                                                         *)

CONSTANT RingTextures      \* textures the capture owns for the encoder

-----------------------------------------------------------------------------
(* Monitors and GPUs.  A monitor has a handle of the moment and a name that *)
(* stays; one the system will not describe any more has no name.            *)

CONSTANT DisplayId(_)      \* the hash of a device name, never 0

Described(monitor) == monitor.name # <<>>

Displays(monitors) ==
  LET described == SelectSeq(monitors, Described)
  IN  [i \in DOMAIN described |->
         [id |-> DisplayId(described[i].name[1]), size |-> described[i].size,
          hz |-> IF described[i].hz < 2 THEN 60 ELSE described[i].hz]]

\* The handle of a display now, whatever handle it had when it was listed.
FindMonitor(monitors, display) ==
  LET Same(m) == Described(m) /\ DisplayId(m.name[1]) = display.id
      i       == SelectInSeq(monitors, Same)
  IN  IF i = 0 THEN <<>> ELSE <<monitors[i]>>

\* The hardware adapters, in the order of the system's preference.
Adapters(gpus) == SelectSeq(gpus, LAMBDA g : ~g.software)

\* A device on the adapter asked for, or on the first one; none when the
\* adapter has gone.
DeviceOn(gpus, luid) ==
  IF luid = <<>> THEN {gpus[i].luid : i \in DOMAIN gpus \cap {1}}
  ELSE {g.luid : g \in {x \in ToSet(gpus) : x.luid = luid[1]}}

-----------------------------------------------------------------------------
(* The life of a capture.                                                  *)

Idle == [running |-> FALSE, audio |-> FALSE, receiver |-> FALSE, sink |-> "none"]

\* What is built before StartCapture goes with the locals of a start that
\* fails; audio comes last and may fail by itself.
Start(c, display, mode, monitors, gpus, luid, offered, hears) ==
  LET refused == c.running \/ mode # display.size
      able    == /\ FindMonitor(monitors, display) # <<>>
                 /\ DeviceOn(gpus, luid) # {}
                 /\ offered = display.size
      started == [c EXCEPT !.running = TRUE, !.sink = "open", !.audio = hears,
                           !.receiver = hears \/ @]
  IN  IF refused \/ ~able THEN {[capture |-> c, ok |-> FALSE]}
      ELSE {[capture |-> c, ok |-> FALSE], [capture |-> started, ok |-> TRUE]}

\* The receiver of the audio goes to whoever asks first.
TakeAudio(c) == [c EXCEPT !.receiver = FALSE]

\* The audio thread is joined first, the sink closed last; Drop does the same.
Stop(c) == IF c.running THEN [Idle EXCEPT !.sink = "closed"] ELSE [c EXCEPT !.receiver = FALSE]

-----------------------------------------------------------------------------
(* The frames.  A pool is the size of its surfaces; a slot of the ring has *)
(* the number of handles to it that are out.                               *)

NewState(gpu, size) == [gpu |-> gpu, size |-> size, staging |-> <<>>, ring |-> <<>>, saturated |-> 0]

Outcome(state, pool, frame) == [state |-> state, pool |-> pool, frame |-> frame]
Frame(state, texture, slot) == <<[size |-> state.size, texture |-> texture, slot |-> slot]>>

\* The size and the buffers change before the pool is made anew, which may
\* fail; the frame itself is skipped.
Resize(s, pool, content) ==
  LET resized == [s EXCEPT !.size = content, !.staging = <<>>, !.ring = <<>>]
  IN  {Outcome(resized, content, <<>>), Outcome(resized, pool, <<>>)}

\* The texture to read back through is made on first use like the surface.
Staging(s, pool) == IF s.staging # <<>> THEN {s} ELSE {[s EXCEPT !.staging = <<pool>>]}

DeliverCpu(s, pool) ==
  {Outcome(s, pool, <<>>)} \cup
  UNION {{Outcome(t, pool, <<>>), Outcome(t, pool, Frame(t, t.staging[1], 0))} : t \in Staging(s, pool)}

\* All of the ring or none of it.
BuildRing(s, pool) ==
  IF s.ring # <<>> THEN s
  ELSE [s EXCEPT !.ring = [i \in 1 .. RingTextures |-> [texture |-> pool, out |-> 0]]]

FreeSlot(s) == SelectInSeq(s.ring, LAMBDA slot : slot.out = 0)

DeliverGpu(s, pool) ==
  LET built == BuildRing(s, pool)
      free  == FreeSlot(built)
      full  == [built EXCEPT !.saturated = @ + 1]
      lent  == [built EXCEPT !.ring[free].out = 1]
  IN  {Outcome(s, pool, <<>>)} \cup
      (IF free = 0 THEN {Outcome(full, pool, <<>>)}
       ELSE {Outcome(lent, pool, Frame(lent, built.ring[free].texture, free))})

\* One callback: a frame whose content has another size is skipped.
Deliver(s, pool, content) ==
  IF content # s.size THEN {Outcome(s, pool, <<>>)} \cup Resize(s, pool, content)
  ELSE IF s.gpu THEN DeliverGpu(s, pool) ELSE DeliverCpu(s, pool)

\* The encoder and the sink have let go of a texture of the ring.
Returned(s, slot) == [s EXCEPT !.ring[slot].out = 0]

-----------------------------------------------------------------------------
(* macOS.                                                                  *)

CONSTANTS Channels,      \* channels sent
          Rate           \* frames of sound a second

-----------------------------------------------------------------------------
(* A query blocks on a channel its completion handler answers.  The list   *)
(* of displays crosses the channel as a reference the waiter takes back.   *)

Asked == [waiter |-> "waiting", answer |-> "none", held |-> 0]

\* The handler keeps the list for the channel; once the waiter has gone the
\* channel refuses it, and nobody takes the reference back.
Answers(q) ==
  IF q.answer # "none" THEN {}
  ELSE {[q EXCEPT !.answer = "list", !.held = 1], [q EXCEPT !.answer = "error"]}

Waits(q) ==
  IF q.waiter # "waiting" THEN {}
  ELSE {[q EXCEPT !.waiter = "timed_out"]} \cup
       (CASE q.answer = "list"  -> {[q EXCEPT !.waiter = "answered", !.held = 0]}
          [] q.answer = "error" -> {[q EXCEPT !.waiter = "refused"]}
          [] OTHER              -> {})

-----------------------------------------------------------------------------
(* The life of a capture: its stream, whose delegate holds the two sinks.  *)

MacIdle == [stream |-> FALSE, delegate |-> FALSE, receiver |-> FALSE]

\* `query` is how the list of displays was answered, and `starts` whether
\* ScreenCaptureKit said in time that the stream has started.
MacStart(c, id, listed, query, starts) ==
  IF c.stream \/ query # "answered" \/ id \notin listed \/ ~starts
  THEN [capture |-> c, ok |-> FALSE]
  ELSE [capture |-> [stream |-> TRUE, delegate |-> TRUE, receiver |-> TRUE], ok |-> TRUE]

MacTakeAudio(c) == [c EXCEPT !.receiver = FALSE]

\* However stopping is answered, or not at all in five seconds.  Neither the
\* receiver nor the sink is touched: both see their senders go.
MacStop(c) == [c EXCEPT !.stream = FALSE, !.delegate = FALSE]

-----------------------------------------------------------------------------
(* Samples, in and out.                                                    *)

\* A picture without an image or without a size is skipped.
Submits(sample) == sample.image /\ sample.width > 0 /\ sample.height > 0

\* The PCM of `frames` frames, interleaved, from buffers of samples: one
\* buffer holds all channels, several hold one each.  What a short buffer
\* lacks stays silent, what a long one has more is left out.
Pcm(frames, buffers) ==
  [n \in 1 .. frames * Channels |->
     LET frame   == ((n - 1) \div Channels) + 1
         channel == ((n - 1) % Channels) + 1
         Of(b, i) == IF i <= Len(b) THEN b[i] ELSE 0
     IN  IF Len(buffers) = 1 THEN Of(buffers[1], n)
         ELSE IF channel <= Len(buffers) THEN Of(buffers[channel], frame) ELSE 0]

\* The first sample was heard the length of the buffer ago.
Stamp(now, frames) ==
  LET span == (frames * 1000000) \div Rate IN IF now > span THEN now - span ELSE 0
=============================================================================
