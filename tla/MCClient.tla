------------------------------ MODULE MCClient ------------------------------
(***************************************************************************)
(* The client on small instances: its session behind the C interface       *)
(* (ClientSession), and the input from its window to the operating system  *)
(* of the host (Input).  They share no state here, so in a behaviour one   *)
(* of them moves, `part`, under its own fairness, and the other stays as   *)
(* it begins.                                                              *)
(*                                                                         *)
(* What the client measures is checked here over short histories of small  *)
(* numbers, and so are the tables, conversions and the window around the   *)
(* input.  The sizes of those instances are named here.                    *)
(***************************************************************************)
EXTENDS ClientSession, Input, Exploration, FiniteSets

CONSTANTS Parts

VARIABLE part

MCInit ==
  /\ part \in Parts /\ Init /\ InputInit
  /\ part = "session" => host = "windows" /\ injects

MCNext ==
  /\ UNCHANGED part
  /\ \/ part = "session" /\ Next /\ UNCHANGED inputVars
     \/ part = "input" /\ InputNext /\ UNCHANGED vars

InSession == part = "session"
InInput   == part = "input"

\* Fairness and InputFairness, each of its own part.
MCFairness ==
  /\ WF_vars(InSession /\ (Connects \/ Streams \/ StartFails))
  /\ SF_vars(InSession /\ StopWins) /\ WF_vars(InSession /\ FramesEnd)
  /\ WF_vars(InSession /\ WaitEnds)
  /\ WF_vars(InSession /\ \E holds \in BOOLEAN : frames # <<>> /\ FrameGated(Head(frames), holds))
  /\ WF_vars(InSession /\ (CallbackReturns \/ Closes \/ EndpointIdle \/ SessionEnds))
  /\ WF_vars(InSession /\ ReceiverEnds) /\ WF_vars(InSession /\ ReaderEnds)
  /\ WF_vars(InSession /\ (AudioPlays \/ AudioReturns \/ AudioEnds))
  /\ WF_vars(InSession /\ (StartReturns \/ StopReturns))
  /\ SF_inputVars(InInput /\ Poll) /\ WF_inputVars(InInput /\ Inject)
  /\ WF_inputVars(InInput /\ ClientNotified)

MCSpec == MCInit /\ [][MCNext]_<<vars, inputVars, part>> /\ MCFairness

-----------------------------------------------------------------------------
(* The clock of the agent.                                                 *)

Stats == INSTANCE ClientStats WITH
  Wrap <- 16, MaxLatency <- 6, Window <- 3, Recent <- 2, RateWindow <- 4,
  EpisodeGap <- 6, Warmup <- 2, EpisodeMinBreaks <- 3, StutterFactor <- 2,
  StutterMin <- 2, Freeze <- 5, MaxSourceGap <- 6,
  JitterWindow <- 3, On <- 3, Off <- 2, MostWait <- 2, JitterWarmup <- 2

\* Exchanges of a client whose clock is `true` behind the agent's, each with
\* a delay there and one back.
Exchanges == [sent : {0, 7}, there : 0 .. 2, back : 0 .. 2]

Measured(exchanges, true) ==
  FoldLeft(LAMBDA best, e :
             Stats!Record(best, e.sent, e.sent + e.there + e.back, e.sent + e.there + true),
           Stats!NoSync, exchanges)

\* However unequal the ways there and back, the offset is off by no more
\* than half of the shortest round trip, and later exchanges never make it
\* worse than that (ClockSync::record).
ASSUME OffsetWithinHalfTrip ==
  \A n \in 1 .. 2 : \A exchanges \in [1 .. n -> Exchanges] : \A true \in {0, 5} :
    LET best  == Measured(exchanges, true)
        off   == best.offset - true
        trips == {exchanges[i].there + exchanges[i].back : i \in 1 .. n}
    IN  /\ best.rtt \in trips /\ \A t \in trips : best.rtt <= t
        /\ 2 * (IF off < 0 THEN -off ELSE off) <= best.rtt + 1

\* Over the wrap of the capture time: the latency reported is the true one,
\* off by the error of the clock, or none; and a frame that would seem to
\* come out of the future by more than the rounding is not reported at all.
ASSUME LatencyAcrossWrap ==
  \A captured \in 10 .. 26 : \A age \in 0 .. 9 : \A off \in -2 .. 2 :
    LET now == captured + age
        got == Stats!FrameLatency([rtt |-> 4, offset |-> 5 + off], now - 5, captured % 16)
    IN  got = IF age + off \in 0 .. 5 THEN <<age + off>> ELSE <<>>

-----------------------------------------------------------------------------
(* Percentiles and the rate received.                                      *)

\* A percentile is one of the samples, grows with p, and p percent of the
\* others, rounded down, are no larger.
ASSUME PercentilesAreSamples ==
  \A n \in 1 .. 4 : \A samples \in [1 .. n -> 0 .. 3] :
    LET At(p) == Stats!Percentile(samples, p)[1]
        NotOver(x) == Cardinality({i \in 1 .. n : samples[i] <= x})
    IN  /\ \A p \in {50, 95, 99} : /\ At(p) \in ToSet(samples)
                                   /\ 100 * (NotOver(At(p)) - 1) >= p * (n - 1) - 99
        /\ At(50) <= At(95) /\ At(95) <= At(99)
        /\ \A k \in 0 .. 5 :
             /\ Len(Stats!Latest(samples, k)) = (IF k < n THEN k ELSE n)
             /\ \E older \in 0 .. n : SubSeq(samples, older + 1, n) = Stats!Latest(samples, k)

\* The frame rates a summary reports lie between those of the shortest and of
\* the longest gap, and no gap at all makes no rate.
ASSUME RatesBetweenGaps ==
  \A n \in 0 .. 3 : \A gaps \in [1 .. n -> 1 .. 4] :
    LET onScreen == [Stats!NonePresented EXCEPT !.gaps = gaps]
        rates == {12 \div gaps[i] : i \in 1 .. n}
    IN  \A rate \in {Stats!MeanRate(onScreen, 12), Stats!LowRate(onScreen, 12)} :
          IF n = 0 THEN rate = 0
          ELSE (\E r \in rates : r <= rate) /\ (\E r \in rates : rate <= r)

\* Frames of 1 or 3 bytes arrive 1, 3 or 6 apart, or out of order by one.
RateAfter(r) ==
  {[now |-> r.now + gap, stats |-> Stats!FrameComplete(r.stats, bytes, r.now + gap)] :
     gap \in {-1, 1, 3, 6}, bytes \in {1, 3}}

\* The running sum is the sum of the window, in which nothing is too old but
\* the newest always is; and a rate is never computed over less than half a
\* window.
ASSUME RateOfTheWindow ==
  \A step \in StepsWithin(4, [now |-> 5, stats |-> Stats!NoFrames], RateAfter) :
    LET r   == step[2]
        got == Stats!Received(r.stats)[1]
    IN  /\ r.stats.sum = FoldLeft(LAMBDA n, f : n + f.bytes, 0, r.stats.window)
        /\ r.stats.window # <<>> /\ Last(r.stats.window).at = r.now
        /\ r.now - Head(r.stats.window).at <= 4
        /\ got.span >= 2 /\ got.bytes = r.stats.sum - Head(r.stats.window).bytes

-----------------------------------------------------------------------------
(* Cadence.  Frames are presented 1, 3, 5 or 8 apart, after three that     *)
(* came 1 apart; after a long gap the capture may be no newer than before. *)

ShowAfter(r) ==
  {[now |-> r.now + show[1],
    stats |-> Stats!OnPresented(r.stats, show[2] % 16, r.now + show[1])] :
     show \in {<<gap, r.now + gap>> : gap \in {1, 3, 5, 8}} \cup {<<3, r.now>>}}

Steady == FoldLeft(LAMBDA stats, now : Stats!OnPresented(stats, now, now),
                   Stats!NonePresented, <<0, 1, 2>>)

\* What an episode is: breaks, none of them further than EpisodeGap from the
\* one before; there are no more episodes than there are freezes and runs of
\* three breaks; the worst lasts at most as long as what was presented; and a
\* break is counted once, as a stutter or as a freeze, never in the warm-up.
ASSUME EpisodesGroupBreaks ==
  \A step \in StepsWithin(5, [now |-> 2, stats |-> Steady], ShowAfter) :
    LET s == step[1].stats
        t == step[2].stats
        breaks == t.stutters + t.freezes
    IN  /\ t.presented = s.presented + 1
        /\ breaks <= s.stutters + s.freezes + 1
        /\ breaks > s.stutters + s.freezes => step[2].now > t.first[1] + 2
        /\ t.episodes <= t.freezes + breaks \div 3
        /\ t.episodes > 0 <=> t.worst > 0
        /\ t.worst <= step[2].now - t.first[1]
        /\ t.frozen >= 5 * t.freezes
        /\ t.episodes # s.episodes =>
             t.ep.breaks = 3 \/ t.freezes = s.freezes + 1

-----------------------------------------------------------------------------
(* The de-jitter: a window of 3 latencies, engaged by a spread of 3, kept  *)
(* engaged by one of 2.                                                    *)

\* A frame of some latency, perhaps unknown, that may have waited for its
\* turn before.
Releases(r) ==
  {[now |-> r.now + 1, late |-> late, backlog |-> backlog,
    out |-> Stats!Release(r.out.buffer, latency, [i \in DOMAIN latency |-> latency[i] + late],
                           r.now + 1, backlog, TRUE)] :
     latency \in {<<>>, <<1>>, <<3>>, <<6>>}, late \in {0, 1}, backlog \in BOOLEAN}

\* What the comment of dejitter_release promises: a late frame never waits,
\* a backlog is drained unpaced, a clean link pays nothing, and the spread is
\* all that is spent waiting - no frame is held past the age of the latest
\* ones, nor for longer than MostWait.  And it engages and disengages with
\* the hysteresis, at an empty queue.
ASSUME HoldsEarlyFramesOnly ==
  \A step \in StepsWithin(5, [now |-> 0, late |-> 0, backlog |-> FALSE,
                              out |-> [buffer |-> Stats!NewJitter, wait |-> 0]], Releases) :
    LET was == step[1].out.buffer
        is  == step[2].out.buffer
        wait == step[2].out.wait
        age == Last(is.latencies) + step[2].late
    IN  /\ wait > 0 =>
             /\ wait <= 2 /\ ~ step[2].backlog /\ is.active /\ is.jitter >= 2
             /\ age + wait <= Stats!Tenth(is.latencies, 9)
             /\ Len(is.latencies) >= 1 /\ step[2].now > 2
        /\ is.active # was.active =>
             ~ step[2].backlog /\ IF is.active THEN is.jitter >= 3 ELSE is.jitter < 2
        /\ is.jitter >= 0 /\ Len(is.latencies) <= 3

Ends == INSTANCE HostInput WITH
          Unit <- 2, Screen <- <<3, 2>>, ClickTime <- 2, ClickSlop <- 1, AbsoluteMax <- 7, WheelDelta <- 4,
          Travel <- 20, Deadzone <- 2, Max16 <- 127, TriggerMax <- 15, Retries <- 3

Dev == INSTANCE DevClient WITH
         MinBitrate <- 10, MaxBitrate <- 100, Wrap <- 256, In <- 2, Hold <- 2, Out <- 2,
         MarkerWrap <- 8, MaxBuffered <- 6, Sampled <- 2

-----------------------------------------------------------------------------
(* Keys.                                                                   *)

\* Every key the client sends is a key of either host, and no two keys are
\* one there: the keypad's differ from the navigation cluster's by the
\* prefix.  Every modifier a client sends is stamped on macOS events.
EveryKeyMapped ==
  /\ Ends!ClientUsages \subseteq DOMAIN Ends!HidToMacos \cap DOMAIN Ends!HidToScancode
  /\ IsInjective(Ends!HidToMacos) /\ IsInjective(Ends!HidToScancode)
  /\ \A u \in \hE0 .. \hE7 : Ends!ModifierFlag(u) # <<>>

Typed == {\h04, \hE0, \hE1, \hE4}

Held(u, f) == Ends!ModifierFlag(u) = <<f>>

\* A key goes down or up; `loose` are the flags lost to one of two keys.
Typing(s) ==
  {LET pressed == u \notin s.keys
       after   == IF pressed THEN s.keys \cup {u} ELSE s.keys \ {u}
       key     == Ends!KeyOnMacos(s.flags, u, pressed)
   IN  [keys   |-> after, flags |-> key.flags, posted |-> key.posted,
        loose  |-> {f \in {"control", "shift"} :
                      IF Held(u, f) THEN ~pressed /\ \E k \in after : Held(k, f)
                      ELSE f \in s.loose}] : u \in Typed}

\* What macOS events are stamped with is what the user holds, unless one key
\* of a modifier's two was released since; and every typed key is posted.
FlagsFollowModifiers ==
  \A p \in StepsWithin(5, [keys |-> {}, flags |-> {}, posted |-> <<>>, loose |-> {}], Typing) :
    LET s == p[2]
    IN  /\ s.flags = {f \in {"control", "shift"} : \E k \in s.keys : Held(k, f)} \ s.loose
        /\ Len(s.posted) = 1 /\ s.posted[1].flags = s.flags

-----------------------------------------------------------------------------
(* The pointer.  `downs` are the clicks so far, `event` the last event.    *)

Pointing(s) ==
  LET became(name, r, downs) ==
        [p |-> r.pointer, posted |-> r.posted, now |-> s.now, downs |-> downs, did |-> name]
      press(b) == [button |-> b, at |-> s.now, pos |-> s.p.pos]
  IN  {became(<<"down", b>>, Ends!Click(s.p, b, TRUE, s.now), Append(s.downs, press(b)))
         : b \in {"left", "right"}}
      \cup {became(<<"up", b>>, Ends!Click(s.p, b, FALSE, s.now), s.downs) : b \in s.p.held}
      \cup {became(<<"move">>, Ends!MoveBy(s.p, d, -d), s.downs) : d \in {-3, 1}}
      \cup {became(<<"move">>, Ends!MoveTo(s.p, x, 3), s.downs) : x \in {-1, 1}}
      \cup {[s EXCEPT !.now = @ + 1, !.posted = <<>>, !.did = <<"wait">>]}

\* The clicks from the i-th on follow one another as a multiple click does.
Chained(downs, i) ==
  \A j \in i .. Len(downs) - 1 :
    LET a == downs[j] b == downs[j + 1]
    IN  /\ a.button = b.button /\ b.at - a.at < 2
        /\ Ends!Near(a.pos[1], b.pos[1]) /\ Ends!Near(a.pos[2], b.pos[2])

\* The pointer stays on the display; a motion is a drag just while a button
\* is held; the click of a press is how many presses have followed one
\* another; a release has the click of the last press.
PointerAsHardware ==
  \A t \in {p[2] : p \in StepsWithin(5, [p |-> Ends!NewPointer, posted |-> <<>>, now |-> 0,
                                         downs |-> <<>>, did |-> <<"start">>], Pointing)} :
    /\ t.p.pos[1] \in 0 .. 6 /\ t.p.pos[2] \in 0 .. 4
    /\ t.did = <<"move">> => (t.posted[1].kind = "move") = (t.p.held = {})
    /\ t.did[1] = "down" =>
         LET first == Len(t.downs) - t.posted[1].click + 1
         IN  /\ first >= 1 /\ Chained(t.downs, first)
             /\ first > 1 => ~Chained(t.downs, first - 1)
    /\ t.did[1] = "up" => t.posted[1].click = t.p.lastClick[1].state

\* On Windows a position from the network lands on the desktop and keeps its
\* order; the wheel turns the way it was turned, no event for a still axis.
PointerOnWindows ==
  /\ \A x, y \in -2 .. 4 : LET e == Ends!WinMoveTo(x, y)[1]
                           IN  e.x \in 0 .. 7 /\ (x <= y => e.x <= e.y)
  /\ \A dx, dy \in -3 .. 3 :
       LET es == Ends!Wheel(dx, dy)
       IN  /\ Len(es) = Cardinality({a \in {"h", "v"} : IF a = "h" THEN dx # 0 ELSE dy # 0})
           /\ \A i \in DOMAIN es :
                LET d == IF es[i].kind = "wheel" THEN dy ELSE dx
                IN  (es[i].notches > 0) = (d > 0) /\ es[i].notches # 0
  /\ \A b, c \in Ends!Buttons : Ends!WinClick(b, TRUE) = Ends!WinClick(c, TRUE) => b = c

-----------------------------------------------------------------------------
(* The controller.                                                         *)

Reading(pressed, hat, v) == [pressed |-> pressed, hat |-> hat, axes |-> [a \in Ends!Axes |-> v]]

InTheGame(pressed, hat, v) == Ends!Report(Ends!Snapshot(Reading(pressed, hat, v)))

\* The game sees the buttons pressed and no others, a stick at rest at rest,
\* as far left as right, further for further, and a trigger from not at all
\* to all the way.
PadAsRead ==
  /\ \A bs \in SUBSET {"A", "up", "reserved"}, h \in {-20, 0, 11, 20} :
       InTheGame(bs, <<0, h>>, 0).buttons =
         (bs \ {"reserved"}) \cup (IF h > 10 THEN {"up"} ELSE IF h < -10 THEN {"down"} ELSE {})
  /\ \A v, w \in -25 .. 25 :
       LET a == InTheGame({}, <<0, 0>>, v).axes
           b == InTheGame({}, <<0, 0>>, w).axes
       IN  /\ v <= w => \A axis \in Ends!Axes : a[axis] <= b[axis]
           /\ w = -v => a["left x"] = -b["left x"]
           /\ a["left trigger"] \in 0 .. 15
           /\ v >= 20 => a["left trigger"] = 15 /\ a["left x"] = 127
           /\ v \in -1 .. 1 => a["left x"] = 0

\* A report reaches the pad if the driver takes one of the first tries, and
\* nothing but "not ready" came before.
SubmittedInTime ==
  \A answers \in UNION {[1 .. n -> {"ok", "not ready", "error"}] : n \in 3 .. 4} :
    Ends!Submitted(answers)
      = \E i \in 1 .. 3 : answers[i] = "ok" /\ \A j \in 1 .. i - 1 : answers[j] = "not ready"

-----------------------------------------------------------------------------
(* The window.                                                             *)

\* The picture fits the surface, keeps its shape, touches two of its sides
\* and sits in the middle; a cursor over it is sent as where on the picture
\* it is, and one beside it is not sent.
PictureFitsWindow ==
  \A sw, sh, fw, fh \in 1 .. 4 :
    LET r == Dev!ContentRect(<<sw, sh>>, <<fw, fh>>)
    IN  /\ r.w <= sw * r.unit /\ r.h <= sh * r.unit
        /\ r.w = sw * r.unit \/ r.h = sh * r.unit
        /\ r.w * fh = r.h * fw
        /\ 2 * r.x + r.w = sw * r.unit /\ 2 * r.y + r.h = sh * r.unit
        /\ \A x \in 0 .. sw, y \in 0 .. sh :
             LET at == Dev!CursorSent(r, <<x, y>>)
             IN  IF x * r.unit \in r.x .. r.x + r.w /\ y * r.unit \in r.y .. r.y + r.h
                 THEN r.x + at[1].x[1] = x * r.unit /\ at[1].y[1] \in 0 .. at[1].y[2]
                 ELSE at = <<>>

\* A toast rises, stands and sinks; it is below the surface at either end,
\* before it is taken away, and never higher than the bottom edge.
ToastSlides ==
  /\ \A a, b \in 0 .. 8 :
       /\ a <= b /\ b <= 4 => Dev!Slide(a) <= Dev!Slide(b)
       /\ 2 <= a /\ a <= b => Dev!Slide(b) <= Dev!Slide(a)
  /\ \A a \in 0 .. 8 :
       LET bar == Dev!Bar(Dev!Slide(a))
       IN  /\ a = 0 \/ Dev!Expired(a) => bar.upper <= -1000
           /\ bar.lower <= -1000 /\ (a \in 2 .. 4 => bar.lower = -1000)

\* The knob stays within its bounds whatever it starts from, and moves the
\* way it is turned where it has not yet come to a stop.
KnobInBounds ==
  \A b \in 0 .. 200 :
    /\ Dev!Stepped(b, TRUE) \in 10 .. 100 /\ Dev!Stepped(b, FALSE) \in 10 .. 100
    /\ b \in 11 .. 99 => Dev!Stepped(b, FALSE) < b /\ b < Dev!Stepped(b, TRUE)

\* What may happen to the window: history has the last frame to arrive, the
\* time, the abr and bitrate told to the agent, and what is sent.
Happens(s) ==
  LET w == s.w
      sends(r) ==
        [s EXCEPT !.w = r.window, !.sent = r.sent,
                  !.told = IF r.sent # <<>> /\ r.sent[1].kind \in {"bitrate", "abr"}
                           THEN [@ EXCEPT ![r.sent[1].kind] = r.sent[1].value] ELSE @]
      wait == [s EXCEPT !.now = @ + 4, !.sent = <<>>]
  IN  {sends(Dev!Key(w, k, TRUE)) : k \in {"[", "]", "\\", "a"}}
      \cup {sends(Dev!CursorMoved(w, <<1, 1>>)), sends(Dev!Wheel(w, 1)),
            sends(Dev!Button(w, "left", TRUE)), sends(Dev!AboutToWait(w, TRUE, s.now)),
            sends(Dev!Notified(w, "connected", s.now)), sends(Dev!Notified(w, "stats", s.now)),
            sends(Dev!Resized(w, <<4, 2>>)), sends(Dev!Resized(w, <<0, 2>>)), wait}
      \cup {[sends(Dev!FrameArrives(w, f)) EXCEPT !.latest = <<f>>]
              : f \in {[id |-> 1, size |-> <<2, 2>>], [id |-> 2, size |-> <<4, 2>>]}}
      \cup {sends(Dev!Redraw(w, first, "lost", s.now)) : first \in {"success", "outdated", "timeout"}}
      \cup (IF w.input THEN {}
            ELSE {[sends(Dev!Ready(w, 40)) EXCEPT !.told = [bitrate |-> 40, abr |-> FALSE]]})

FreshWindow ==
  [w |-> Dev!NewWindow(<<2, 2>>), sent |-> <<>>, now |-> 0, latest |-> <<>>,
   told |-> [bitrate |-> 0, abr |-> FALSE]]

\* Nothing is sent before the session has started.  What the window believes
\* of the agent is what it told it.  A redraw shows the latest frame, where a
\* frame of its shape belongs; what is shown is never the older for it, and a
\* surface that cannot be had leaves what was shown.  No picture is cut off by
\* a surface of no size.  No toast outlives its time past a wait.
WindowTrue ==
  \A p \in StepsWithin(5, FreshWindow, Happens) :
    LET s == p[1] t == p[2]
    IN  /\ s.w.input \/ t.sent = <<>>
        /\ t.w.bitrate = t.told.bitrate /\ t.w.abr = t.told.abr
        /\ t.w.shown # s.w.shown =>
             /\ <<t.w.shown[1].frame>> = t.latest /\ t.w.texture = t.latest
             /\ t.w.shown[1].rect = Dev!ContentRect(t.w.surface, t.latest[1].size)
        /\ 0 \notin {t.w.surface[1], t.w.surface[2]}
        /\ \A i \in DOMAIN t.sent : t.sent[i].kind = "pad" =>
             \A j \in DOMAIN t.w.toast : t.now - t.w.toast[j].at <= 6

\* The window is told once that the stream ended, last, and of the session
\* before any frame or notification, whichever step of it failed.  A window
\* that is gone is told of no frame.
LoopTellsOnce ==
  \A p \in StepsWithin(10, Dev!NewLoop, LAMBDA s : IF Len(s.told) > 4 THEN {} ELSE Dev!LoopSteps(s)) :
    LET told == p[2].told
    IN  /\ (p[2].at = "over") = (told # <<>> /\ told[Len(told)] = "ended")
        /\ \A i \in DOMAIN told : /\ told[i] = "ended" => i = Len(told)
                                  /\ told[i] = "ready" => i = 1
                                  /\ told[i] \in {"frame", "event"} => told[1] = "ready"
        /\ p[1].window = "closed" /\ told # p[1].told => told[Len(told)] # "frame"

-----------------------------------------------------------------------------
(* The rest of the development client.                                     *)

\* A number within the list is a place in it, even where names contain it;
\* otherwise the first name that matches.  The profile offered is one the
\* decoder chosen can decode (decoder.rs, "Keep in sync with make_decoder").
SourceAndDecoderChosen ==
  /\ \A sources \in UNION {[1 .. n -> SUBSET {"1", "2", "x"}] : n \in 0 .. 2},
        selector \in {<<>>, <<[number |-> 2, text |-> "2"]>>, <<[number |-> 0, text |-> "x"]>>} :
       LET chosen == Dev!PickSource(sources, selector)
       IN  /\ \A i \in DOMAIN chosen : chosen[i] \in DOMAIN sources
           /\ Len(sources) = 2 /\ selector # <<>> =>
                IF selector[1].number = 2 THEN chosen = <<2>>
                ELSE (chosen = <<>>) = ("x" \notin sources[1] \cup sources[2])
           /\ selector = <<>> => (chosen = <<>>) = (sources = <<>>)
  /\ \A platform \in {"macos", "windows"}, forceSw \in BOOLEAN :
       Dev!DecoderMaxProfile(platform, forceSw) = "high" =>
         Dev!MakeDecoder(platform, forceSw) = "videotoolbox"

\* PCM of stereo frames: a left sample is odd, its right one the next number.
Sounds(s) ==
  {[s EXCEPT !.ring = Dev!Feed(s.ring, [i \in 1 .. 2 * n |-> s.next + i]), !.next = @ + 2 * n,
             !.out = <<>>] : n \in {1, 2, 4}}
  \cup {LET played == Dev!Play(s.ring, 2 * n)
        IN  [s EXCEPT !.ring = played.ring, !.out = played.out] : n \in {1, 2}}

\* The ring is bounded, only ever loses the oldest, plays nothing
\* twice and never swaps the channels, whatever is dropped and however often it runs dry.
ChannelsStayApart ==
  \A p \in StepsWithin(6, [ring |-> <<>>, next |-> 0, out |-> <<>>], Sounds) :
    LET s == p[1] t == p[2]
    IN  /\ Len(t.ring) <= 6
        /\ t.ring = [i \in DOMAIN t.ring |-> t.next - Len(t.ring) + i]
        /\ \A i \in DOMAIN t.out : t.out[i] # 0 =>
             t.out[i] % 2 = i % 2 /\ t.out[i] > s.next - 6 /\ t.out[i] \notin ToSet(t.ring)

\* Markers that only go forward, by less than half of their range, are never
\* a regression, not even where they wrap; one that goes back a little is.
MarkersOnlyForward ==
  \A markers \in [1 .. 3 -> 0 .. 7] :
    LET got(r, m) == Dev!GotFrame(r, FALSE, TRUE, <<m>>)
        run       == got(got(got(Dev!NewRun, markers[1]), markers[2]), markers[3])
        back      == {i \in 2 .. 3 : \E d \in 1 .. 4 : markers[i - 1] = (markers[i] + d) % 8}
    IN  /\ run.read = 3 /\ run.regressions = Cardinality(back)
        /\ Dev!GotFrame(Dev!GotFrame(Dev!NewRun, TRUE, TRUE, <<1>>), TRUE, TRUE, <<1>>).read = 1

Run(r) ==
  IF r.outcome # "running" THEN {}
  ELSE {Dev!GotFrame(r, FALSE, TRUE, m) : m \in {<<>>, <<1>>}}
       \cup {Dev!ConnectionClosed(r), Dev!HwDecodeFailed(r), Dev!Finished(r, 2)}

\* A run that reports has decoded what was asked for.
ReportsWhatWasAsked ==
  /\ \A p \in StepsWithin(5, Dev!NewRun, Run) : p[2].outcome = "reported" => p[2].decoded >= 2
  /\ Dev!Finished(Dev!NewRun, 0).outcome = "failed"

ASSUME KeyFacts == EveryKeyMapped /\ FlagsFollowModifiers
ASSUME PointerFacts == PointerAsHardware /\ PointerOnWindows
ASSUME PadFacts == PadAsRead /\ SubmittedInTime
ASSUME PictureFacts == PictureFitsWindow /\ ToastSlides /\ KnobInBounds
ASSUME HarnessFacts ==
  SourceAndDecoderChosen /\ ChannelsStayApart /\ MarkersOnlyForward /\ ReportsWhatWasAsked
ASSUME WindowFacts == WindowTrue /\ LoopTellsOnce
=============================================================================
