--------------------------- MODULE LoopbackAudio ---------------------------
(***************************************************************************)
(* What the Windows agent hears: the thread that taps the loopback stream  *)
(* of the render endpoint, and the conversion of the engine's mix format   *)
(* to 16-bit stereo at OutRate (capture-windows/src/audio.rs).  A thread   *)
(* is a record and a step of it one of ThreadSteps or OwnerSteps, any call *)
(* of the operating system being free to fail.  A sample is an integer,    *)
(* One being full scale; a channel mask is the set of its speakers.        *)
(***************************************************************************)
EXTENDS Integers, Sequences, FiniteSets

CONSTANTS OutRate,      \* samples a second the encoder takes
          One,          \* a sample at full scale
          MaxSample,    \* the largest sample sent (32767)
          CenterGain    \* how far the centre folds into a front, in 1/One

-----------------------------------------------------------------------------
(* The formats the engine may mix in.                                      *)

FrontCenter == 2

Samples == {"f32", "i16"}
Size(sample) == IF sample = "f32" THEN 4 ELSE 2

\* Of the tag of a plain format, and of the subformat of an extensible one.
SampleOf(name) == CASE name = "float" -> <<"f32">> [] name = "pcm" -> <<"i16">> [] OTHER -> <<>>

\* Channels lie in the order of their speakers: the centre has as many
\* before it as speakers below it are named.
CenterIndex(mask) ==
  IF FrontCenter \in mask THEN <<Cardinality({s \in mask : s < FrontCenter})>> ELSE <<>>

\* The format, or nothing when it is none the conversion reads.
Parse(wave) ==
  LET sample == SampleOf(wave.kind)
      usable == /\ sample # <<>>
                /\ wave.channels > 0 /\ wave.rate > 0
                /\ wave.bits = 8 * Size(sample[1])
                /\ wave.align = wave.channels * Size(sample[1])
  IN  IF ~usable THEN <<>>
      ELSE <<[rate |-> wave.rate, channels |-> wave.channels, align |-> wave.align,
              sample |-> sample[1],
              center |-> IF wave.extensible THEN CenterIndex(wave.mask) ELSE <<>>]>>

\* The channels a frame is folded from: both fronts, and the centre.
Folded(format) ==
  IF format.channels = 1 THEN {}
  ELSE {format.center[i] : i \in {j \in DOMAIN format.center :
                                    format.center[j] \in 2 .. format.channels - 1}}

\* The bytes read of the f-th frame's channel.
BytesRead(format, f, channel) ==
  LET at == (f * format.channels + channel) * Size(format.sample)
  IN  at .. at + Size(format.sample) - 1

\* A frame of the engine, its channels counted from 0, folded to stereo.
Stereo(format, frame) ==
  IF format.channels = 1 THEN <<frame[0], frame[0]>>
  ELSE LET Fold(front) == IF Folded(format) = {} THEN front
                          ELSE front + (frame[CHOOSE c \in Folded(format) : TRUE] * CenterGain) \div One
       IN  <<Fold(frame[0]), Fold(frame[1])>>

-----------------------------------------------------------------------------
(* The resampler, its position in 1/OutRate of a frame of the source.      *)

NewResampler(rate) == [step |-> rate, pos |-> OutRate, carry |-> <<0, 0>>]

ToI16(s) ==
  LET clamped == IF s > One THEN One ELSE IF s < -One THEN -One ELSE s
      scaled  == ((IF clamped < 0 THEN -clamped ELSE clamped) * MaxSample) \div One
  IN  IF clamped < 0 THEN -scaled ELSE scaled

\* Between the frames i and i + 1 of the carried frame followed by the input.
Between(carry, input, pos) ==
  LET At(k) == IF k = 0 THEN carry ELSE input[k]
      i     == pos \div OutRate
      frac  == pos % OutRate
      Mid(c) == ToI16(At(i)[c] + ((At(i + 1)[c] - At(i)[c]) * frac) \div OutRate)
  IN  <<Mid(1), Mid(2)>>

\* The resampler after a packet, and what it adds to the output.
Push(r, input) ==
  LET end   == Len(input) * OutRate
      count == IF r.pos < end THEN (end - r.pos + r.step - 1) \div r.step ELSE 0
  IN  IF input = <<>> THEN [resampler |-> r, out |-> <<>>]
      ELSE [resampler |-> [r EXCEPT !.pos = r.pos + count * r.step - end,
                                    !.carry = input[Len(input)]],
            out |-> [k \in 1 .. count |-> Between(r.carry, input, r.pos + (k - 1) * r.step)]]

\* A packet is stamped with the time of its first sample; what resamples to
\* nothing is not submitted.
Stamped(format, packet, r, now) ==
  LET pushed == Push(r, [i \in DOMAIN packet |-> Stereo(format, packet[i])])
      span   == (Len(packet) * 1000000) \div format.rate
  IN  [resampler |-> pushed.resampler,
       frame     |-> IF pushed.out = <<>> THEN <<>>
                     ELSE <<[samples |-> pushed.out,
                             ts      |-> IF now > span THEN now - span ELSE 0]>>]

-----------------------------------------------------------------------------
(* The capture thread and its owner: what it holds of the system, whether  *)
(* its stream runs, and the answer start waits for.                        *)

NewCapture ==
  [owner |-> "starting", thread |-> "initialise", ready |-> "none", stop |-> FALSE,
   com |-> 0, wave |-> FALSE, running |-> FALSE, buffer |-> "none", heard |-> {}]

Goes(s, place) == [s EXCEPT !.thread = place]
Answered(s, answer) == [s EXCEPT !.ready = answer]

\* CoInitializeEx; nothing to balance when it fails.
Initialise(s) ==
  IF s.thread # "initialise" THEN {}
  ELSE {[Goes(s, "open") EXCEPT !.com = 1], Answered(Goes(s, "ended"), "error")}

\* Activating the endpoint up to the format block, which is the thread's to free.
Activate(s) ==
  IF s.thread # "open" THEN {}
  ELSE {[Goes(s, "parse") EXCEPT !.wave = TRUE], Answered(Goes(s, "uninitialise"), "error")}

\* Parsing the format and initialising the client: the block is freed whether
\* or not both succeed.
FreeWave(s) ==
  IF s.thread # "parse" THEN {}
  ELSE LET freed == [s EXCEPT !.wave = FALSE]
       IN  {Goes(freed, "service"), Answered(Goes(freed, "uninitialise"), "error")}

\* The capture interface: the stream is open, and start is told.
Service(s) ==
  IF s.thread # "service" THEN {}
  ELSE {Answered(Goes(s, "start"), "open"), Answered(Goes(s, "uninitialise"), "error")}

\* A stream that will not start ends the thread; start was told it is open.
StartClient(s) ==
  IF s.thread # "start" THEN {}
  ELSE {[Goes(s, "poll") EXCEPT !.running = TRUE], Goes(s, "uninitialise")}

\* The loop looks at stop once per drain; a drain ends with the packets.
Poll(s) ==
  IF s.thread # "poll" THEN {}
  ELSE {Goes(s, IF s.stop THEN "halt" ELSE "drain")}

Drain(s) ==
  IF s.thread # "drain" THEN {}
  ELSE {Goes(s, "poll"), Goes(s, "halt"),
        [Goes(s, "packet") EXCEPT !.buffer = "sound"], [Goes(s, "packet") EXCEPT !.buffer = "silent"]}

\* A packet that sounds is submitted; either is given back.
Packet(s) ==
  IF s.thread # "packet" THEN {}
  ELSE LET given == [s EXCEPT !.buffer = "none",
                              !.heard = IF s.buffer = "silent" THEN @ ELSE @ \cup {s.buffer}]
       IN  {Goes(given, "drain"), Goes(given, "halt")}

Halt(s) ==
  IF s.thread # "halt" THEN {} ELSE {[Goes(s, "uninitialise") EXCEPT !.running = FALSE]}

Uninitialise(s) ==
  IF s.thread # "uninitialise" THEN {} ELSE {[Goes(s, "ended") EXCEPT !.com = 0]}

ThreadSteps(s) ==
  UNION {Initialise(s), Activate(s), FreeWave(s), Service(s), StartClient(s), Poll(s),
         Drain(s), Packet(s), Halt(s), Uninitialise(s)}

\* start takes the answer, or gives up waiting: then it sets stop and lets
\* the thread go; the error of a thread is awaited to its end.
StartReturns(s) ==
  IF s.owner # "starting" THEN {}
  ELSE {[s EXCEPT !.owner = "timed_out", !.stop = TRUE]} \cup
       (CASE s.ready = "open"  -> {[s EXCEPT !.owner = "capturing"]}
          [] s.ready = "error" -> IF s.thread = "ended" THEN {[s EXCEPT !.owner = "failed"]} ELSE {}
          [] OTHER             -> {})

\* stop, called by Drop too, sets the flag and waits for the thread.
Stop(s) ==
  CASE s.owner = "capturing" -> {[s EXCEPT !.owner = "joining", !.stop = TRUE]}
    [] s.owner = "joining" /\ s.thread = "ended" -> {[s EXCEPT !.owner = "stopped"]}
    [] OTHER -> {}

OwnerSteps(s) == StartReturns(s) \cup Stop(s)
=============================================================================
