----------------------------- MODULE DevClient ------------------------------
(***************************************************************************)
(* The development client (client-dev): the window and the thread that     *)
(* talks to the agent (window.rs), and the rest of it: source, decoder,    *)
(* sound and the headless run.                                             *)
(*                                                                         *)
(* Lengths are pixels; a place in the window is a number of 1/Unit of a    *)
(* pixel where Unit makes the content rectangle whole. Time is in          *)
(* milliseconds.                                                           *)
(***************************************************************************)
EXTENDS Integers, Sequences, FiniteSets

CONSTANTS MinBitrate, MaxBitrate,   \* of the knob
          Wrap,                     \* u32
          In, Hold, Out             \* of a toast

-----------------------------------------------------------------------------
(* The toast: how far it has slid in, in thousandths, at an age.           *)

Within(v, lo, hi) == IF v < lo THEN lo ELSE IF v > hi THEN hi ELSE v

Slide(age) ==
  CASE age < In -> Within((age * 1000) \div In, 0, 1000)
    [] age >= In /\ age < In + Hold -> 1000
    [] OTHER -> Within(1000 - ((age - In - Hold) * 1000) \div Out, 0, 1000)

Expired(age) == age > In + Hold + Out

\* Its lower and upper edge in thousandths of half the surface, whose lower
\* edge is at -1000.
Bar(slide) ==
  LET below == ((1000 - slide) * 180) \div 1000
  IN  [lower |-> -1000 - below, upper |-> -860 - below]

-----------------------------------------------------------------------------
(* Where the picture is: the largest rectangle of the frame's shape, in    *)
(* the middle of the surface.                                              *)

Unit(frame) == 2 * frame[1] * frame[2]

ContentRect(surface, frame) ==
  LET wide == surface[1] * frame[2] <= surface[2] * frame[1]
      u    == Unit(frame)
      w    == IF wide THEN u * surface[1] ELSE 2 * frame[1] * frame[1] * surface[2]
      h    == IF wide THEN 2 * frame[2] * frame[2] * surface[1] ELSE u * surface[2]
  IN  [unit |-> u, x |-> (u * surface[1] - w) \div 2, y |-> (u * surface[2] - h) \div 2,
       w |-> w, h |-> h]

\* A cursor position over the picture, as the fractions it is sent as.
CursorSent(rect, at) ==
  LET dx == at[1] * rect.unit - rect.x
      dy == at[2] * rect.unit - rect.y
  IN  IF dx \in 0 .. rect.w /\ dy \in 0 .. rect.h
      THEN <<[x |-> <<dx, rect.w>>, y |-> <<dy, rect.h>>]>>
      ELSE <<>>

-----------------------------------------------------------------------------
(* The window.  An event yields the window after it and what it sends to   *)
(* the agent.  `input` is whether it has been given the way to send.       *)

NewWindow(surface) ==
  [input |-> FALSE, bitrate |-> 0, abr |-> FALSE, frame |-> <<>>, texture |-> <<>>,
   surface |-> surface, rect |-> <<>>, toast |-> <<>>, shown |-> <<>>, exits |-> FALSE]

After(w, sent) == [window |-> w, sent |-> sent]
Quietly(w) == After(w, <<>>)

Ready(w, bitrate) == Quietly([w EXCEPT !.input = TRUE, !.bitrate = bitrate])

FrameArrives(w, frame) == Quietly([w EXCEPT !.frame = <<frame>>])

\* Statistics go to the title; a pad that came or went raises a toast, which
\* takes the place of one still showing.
Notified(w, event, now) ==
  Quietly(IF event = "stats" THEN w ELSE [w EXCEPT !.toast = <<[of |-> event, at |-> now]>>])

StreamEnded(w) == Quietly([w EXCEPT !.exits = TRUE])
CloseRequested(w) == Quietly([w EXCEPT !.exits = TRUE])

Resized(w, size) == Quietly(IF 0 \in {size[1], size[2]} THEN w ELSE [w EXCEPT !.surface = size])

\* The texture has the size and the byte order of the frame drawn with it.
EnsureTexture(w) == [w EXCEPT !.texture = w.frame]

\* What asking for the surface yields, a second time if it had to be made
\* anew.  Nothing is drawn before the first frame.
Draws(first, again) ==
  \/ first \in {"success", "suboptimal"}
  \/ first \in {"outdated", "lost"} /\ again \in {"success", "suboptimal"}

Redraw(w, first, again, now) ==
  LET placed == [EnsureTexture(w) EXCEPT !.rect = <<ContentRect(w.surface, w.frame[1].size)>>]
      bar    == [i \in DOMAIN w.toast |-> Bar(Slide(now - w.toast[i].at))]
  IN  Quietly(IF w.frame = <<>> THEN w
              ELSE IF Draws(first, again)
              THEN [placed EXCEPT !.shown = <<[frame |-> w.frame[1], rect |-> placed.rect[1], bar |-> bar]>>]
              ELSE placed)

\* `[` and `]`: a quarter less or more of what the window believes.
Stepped(bitrate, up) ==
  Within((IF up THEN (bitrate * 5) \div 4 ELSE (bitrate * 3) \div 4) % Wrap, MinBitrate, MaxBitrate)

Key(w, key, down) ==
  LET bitrate == Stepped(w.bitrate, key = "]")
  IN  CASE ~w.input -> Quietly(w)
        [] w.input /\ down /\ key \in {"[", "]"} ->
             After([w EXCEPT !.bitrate = bitrate], <<[kind |-> "bitrate", value |-> bitrate]>>)
        [] w.input /\ down /\ key = "\\" ->
             After([w EXCEPT !.abr = ~@], <<[kind |-> "abr", value |-> ~w.abr]>>)
        [] OTHER -> After(w, <<[kind |-> "key", key |-> key, down |-> down]>>)

\* The rectangle is the one of the last redraw.
CursorMoved(w, at) ==
  LET sent == IF w.rect = <<>> THEN <<>> ELSE CursorSent(w.rect[1], at)
  IN  After(w, IF w.input THEN [i \in DOMAIN sent |-> [kind |-> "move", at |-> sent[i]]] ELSE <<>>)

Button(w, button, down) ==
  After(w, IF ~w.input \/ button = "other" THEN <<>>
           ELSE <<[kind |-> "button", button |-> button, down |-> down]>>)

Wheel(w, lines) == After(w, IF w.input THEN <<[kind |-> "wheel", lines |-> lines]>> ELSE <<>>)

\* Between events: a change of the controller, and the end of a toast.
AboutToWait(w, padChanged, now) ==
  After(IF w.toast # <<>> /\ Expired(now - w.toast[1].at)
        THEN [w EXCEPT !.toast = <<>>] ELSE w,
        IF padChanged /\ w.input THEN <<[kind |-> "pad"]>> ELSE <<>>)

-----------------------------------------------------------------------------
(* The thread that talks to the agent, and what it has told the window.    *)

NewLoop == [at |-> "connect", told |-> <<>>, window |-> "open", control |-> "open"]

Tells(s, what) == [s EXCEPT !.told = Append(@, what)]
Ends(s) == [Tells(s, "ended") EXCEPT !.at = "over"]

\* Connecting, listing, picking a source, starting: any may fail.  Audio is
\* started if it can be.
LoopStarts(s) ==
  CASE s.at = "connect" -> {[s EXCEPT !.at = "list"], Ends(s)}
    [] s.at = "list"    -> {[s EXCEPT !.at = "pick"], Ends(s)}
    [] s.at = "pick"    -> {[s EXCEPT !.at = "start"], Ends(s)}
    [] s.at = "start"   -> {[Tells(s, "ready") EXCEPT !.at = "decoder"], Ends(s)}
    [] s.at = "decoder" -> {[s EXCEPT !.at = "loop"], Ends(s)}
    [] OTHER            -> {}

\* A frame, or its end or error; a window that is gone is noticed by telling
\* it of a frame.
LoopFrame(s) ==
  IF s.at # "loop" THEN {}
  ELSE {Ends(s), IF s.window = "open" THEN Tells(s, "frame") ELSE Ends(s)}

\* A control channel that has ended is ready again at once, and changes
\* nothing.
LoopEvent(s) ==
  IF s.at # "loop" THEN {} ELSE {IF s.control = "open" THEN Tells(s, "event") ELSE s}

LoopAround(s) == {[s EXCEPT !.window = "closed"], [s EXCEPT !.control = "closed"]}

LoopSteps(s) == LoopStarts(s) \cup LoopFrame(s) \cup LoopEvent(s) \cup LoopAround(s)

-----------------------------------------------------------------------------
(* Which source the client takes, which decoder, how it plays sound, and   *)
(* how a headless run judges the frames it gets.                           *)

CONSTANTS MarkerWrap,         \* markers count modulo 2^32
          MaxBuffered,  \* samples the ring holds
          Sampled       \* hardware decoding: every how many frames one is checked

-----------------------------------------------------------------------------
(* A source has a name, the set of texts it contains; a selector is text   *)
(* that may also read as a number.                                         *)

Earliest(places) == IF places = {} THEN <<>> ELSE <<CHOOSE i \in places : \A j \in places : i <= j>>

\* The place in the list, nothing if there is no such source.
PickSource(sources, selector) ==
  CASE selector = <<>> -> Earliest(DOMAIN sources)
    [] selector # <<>> /\ selector[1].number \in DOMAIN sources -> <<selector[1].number>>
    [] OTHER -> Earliest({i \in DOMAIN sources : selector[1].text \in sources[i]})

\* Software decoding knows the simplest profile only.
MakeDecoder(platform, forceSw) ==
  IF platform = "macos" /\ ~forceSw THEN "videotoolbox" ELSE "openh264"

DecoderMaxProfile(platform, forceSw) ==
  IF platform = "macos" /\ ~forceSw THEN "high" ELSE "constrained baseline"

-----------------------------------------------------------------------------
(* Playback: a feeder puts PCM into the ring, the device takes what it     *)
(* needs from it.                                                          *)

Feed(ring, pcm) ==
  LET full == ring \o pcm
  IN  SubSeq(full, (IF Len(full) > MaxBuffered THEN Len(full) - MaxBuffered ELSE 0) + 1, Len(full))

\* Silence, 0, where the ring runs dry.
Play(ring, n) ==
  [out  |-> [i \in 1 .. n |-> IF i <= Len(ring) THEN ring[i] ELSE 0],
   ring |-> SubSeq(ring, n + 1, Len(ring))]

-----------------------------------------------------------------------------
(* A headless run of `wanted` frames.                                      *)

NewRun == [decoded |-> 0, read |-> 0, regressions |-> 0, last |-> <<>>, outcome |-> "running"]

\* Past half the counter is behind.
Behind(marker, previous) == (marker - previous) % MarkerWrap > (MarkerWrap - 1) \div 2

Judged(r, marker) ==
  [r EXCEPT !.read = @ + 1, !.last = <<marker>>,
            !.regressions = IF r.last # <<>> /\ Behind(marker, r.last[1]) THEN @ + 1 ELSE @]

\* A frame decoded, with its marker if it could be read.  The hardware path
\* checks one in Sampled.
GotFrame(r, hw, checks, marker) ==
  LET more == [r EXCEPT !.decoded = @ + 1]
  IN  IF checks /\ marker # <<>> /\ (hw => more.decoded % Sampled = 0)
      THEN Judged(more, marker[1]) ELSE more

ConnectionClosed(r) == [r EXCEPT !.outcome = "failed"]

\* A decoding error ends the run of the hardware path.
HwDecodeFailed(r) == [r EXCEPT !.outcome = "failed"]

Finished(r, wanted) ==
  IF r.outcome = "running" /\ r.decoded >= wanted
  THEN [r EXCEPT !.outcome = IF r.decoded = 0 THEN "failed" ELSE "reported"] ELSE r
=============================================================================
