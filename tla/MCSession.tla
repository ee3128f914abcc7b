------------------------------ MODULE MCSession -----------------------------
(***************************************************************************)
(* The agent's session on small instances: its control loop with the       *)
(* client at the other end (SessionControl), and the threads of its        *)
(* pipeline (PipelineThreads).  They share no state here - what one starts *)
(* and stops of the other is in each of them - so in a behaviour one of    *)
(* them moves, `part`, under its own fairness, and the other stays as it   *)
(* begins.                                                                 *)
(*                                                                         *)
(* The sources the threads are fed from are checked here over short        *)
(* histories.                                                              *)
(***************************************************************************)
EXTENDS PipelineThreads, SessionControl, Exploration, SequencesExt

CONSTANTS Parts

VARIABLE part

MCInit ==
  /\ part \in Parts /\ Init /\ ControlInit
  /\ part = "threads" => phase = "new"
  /\ part = "control" => source = "test_pattern" /\ audio = "none"

MCNext ==
  /\ UNCHANGED part
  /\ \/ part = "threads" /\ Next /\ UNCHANGED controlVars
     \/ part = "control" /\ ControlNext /\ UNCHANGED vars

InThreads == part = "threads"
InControl == part = "control"

\* Fairness and ControlFairness, each of its own part.
MCFairness ==
  /\ WF_vars(InThreads /\ EncodeStep) /\ WF_vars(InThreads /\ SenderStep)
  /\ WF_vars(InThreads /\ AudioEnds) /\ WF_vars(InThreads /\ SubmitFrame)
  /\ WF_vars(InThreads /\ GeneratorStops) /\ WF_vars(InThreads /\ StopStep)
  /\ WF_controlVars(InControl /\ HandleMessage) /\ WF_controlVars(InControl /\ LoopBreaks)
  /\ WF_controlVars(InControl /\ AnnounceReady) /\ WF_controlVars(InControl /\ ClientReads)

MCSpec == MCInit /\ [][MCNext]_<<vars, controlVars, part>> /\ MCFairness

-----------------------------------------------------------------------------
(* The loopback of the Windows agent.                                      *)

Audio == INSTANCE LoopbackAudio WITH OutRate <- 4, One <- 12, MaxSample <- 12, CenterGain <- 8

\* Frames of stereo, few enough to try every split of them into packets.
Played == {<<<<12, 0>>, <<0, 12>>, <<-12, 12>>, <<4, -8>>, <<0, 0>>>>}

Pushed(hz, packets) ==
  FoldLeft(LAMBDA acc, p : LET pushed == Audio!Push(acc.resampler, p)
                           IN  [resampler |-> pushed.resampler, out |-> acc.out \o pushed.out],
           [resampler |-> Audio!NewResampler(hz), out |-> <<>>], packets)

\* The input in packets that end where `cuts` says.
Split(input, cuts) ==
  LET ends == SetToSortSeq(cuts \cup {Len(input)}, <)
  IN  [i \in DOMAIN ends |-> SubSeq(input, (IF i = 1 THEN 0 ELSE ends[i - 1]) + 1, ends[i])]

\* However the engine cuts the stream into packets, the resampler makes of it
\* what it makes of the whole, and at the rate of the output an exact copy of
\* all but the frame it still carries (Resampler::push: the carry across
\* packets, and the position that goes on where the last one ended).
ASSUME ResamplesAcrossPackets ==
  \A input \in Played : \A hz \in 1 .. 9 : \A cuts \in SUBSET (1 .. Len(input) - 1) :
    /\ Pushed(hz, Split(input, cuts)) = Pushed(hz, <<input>>)
    /\ Pushed(hz, Split(input, cuts)).resampler.pos >= 0
    /\ hz = 4 => Pushed(hz, Split(input, cuts)).out = SubSeq(input, 1, Len(input) - 1)

\* Waves an endpoint may report, also with sizes that do not agree.
Waves == [kind : {"float", "pcm", "other"}, extensible : BOOLEAN, mask : SUBSET (0 .. 3),
          channels : 0 .. 4, rate : {0, 4}, bits : {16, 32}, align : {0, 2, 4, 6, 8, 12, 16}]

\* Of a format the parse accepts, every sample of every channel that is read
\* lies within the packet's bytes; the channel folded into both fronts is the
\* centre the mask names, and never one of the fronts again.
ASSUME ReadsWithinPacket ==
  \A wave \in Waves : \A parsed \in ToSet(Audio!Parse(wave)) :
    LET fronts == 0 .. (IF parsed.channels = 1 THEN 0 ELSE 1)
    IN  /\ \A f \in 0 .. 2 : \A c \in fronts \cup Audio!Folded(parsed) :
             Audio!BytesRead(parsed, f, c) \subseteq 0 .. 3 * parsed.align - 1
        /\ Audio!Folded(parsed) \cap fronts = {}
        /\ wave.extensible /\ Cardinality(wave.mask) = wave.channels =>
             \A c \in Audio!Folded(parsed) : SetToSortSeq(wave.mask, <)[c + 1] = Audio!FrontCenter

CaptureSteps == StepsWithin(40, Audio!NewCapture, LAMBDA s : Audio!ThreadSteps(s) \cup Audio!OwnerSteps(s))

\* Whatever call fails: the thread ends holding no apartment, no format block
\* and no running stream; the format block does not outlive the opening; and
\* silence is never submitted.
ASSUME CaptureCleansUp ==
  \A p \in CaptureSteps :
    LET t == p[2]
    IN  /\ t.thread = "ended" => t.com = 0 /\ ~t.wave /\ ~t.running /\ t.buffer = "none"
        /\ t.wave \/ t.running => t.com = 1
        /\ t.heard \subseteq {"sound"}

\* start and stop return with the thread ended, unless start gave up waiting:
\* then the thread has been told to stop.
ASSUME CaptureEndsWithOwner ==
  \A p \in CaptureSteps :
    /\ p[2].owner \in {"failed", "stopped"} => p[2].thread = "ended"
    /\ p[2].owner = "timed_out" => p[2].stop
-----------------------------------------------------------------------------
(* The desktop of the Windows agent.                                       *)

Grab == INSTANCE DesktopCapture WITH
          RingTextures <- 2, DisplayId <- LAMBDA name : name + 1, Channels <- 2, Rate <- 48000

\* A capture with the size of its pool's surfaces, whether remaking the pool
\* has failed, the handles out and the frame last handed over.
GrabStart(gpu) == [state |-> Grab!NewState(gpu, 1), pool |-> 1, stale |-> FALSE,
                   content |-> 1, frame |-> <<>>]

GrabAfter(g) ==
  {[state |-> o.state, pool |-> o.pool, frame |-> o.frame,
    content |-> c,
    stale |-> IF c # g.state.size /\ o.state.size = c THEN o.pool # c ELSE g.stale] :
     <<o, c>> \in UNION {Grab!Deliver(g.state, g.pool, d) \X {d} : d \in 1 .. 2}} \cup
  {[g EXCEPT !.state = Grab!Returned(g.state, i), !.frame = <<>>] : i \in DOMAIN g.state.ring}

GrabSteps(gpu) ==
  StepsWithin(7, GrabStart(gpu), LAMBDA g : IF g.state.saturated > 1 THEN {} ELSE GrabAfter(g))

\* Through resolution changes and failing calls: a frame is handed over only
\* when its content has the size the capture is set to, described with that
\* size, and its texture has that size too unless remaking the pool has failed.
\* A texture is written only while no handle to it is out, and a frame is
\* dropped as saturated only when handles to all of them are (deliver,
\* resize, free_slot).
ASSUME CapturedFramesFit ==
  \A gpu \in BOOLEAN : \A p \in GrabSteps(gpu) :
    LET before == p[1].state
        after  == p[2].state
    IN  /\ p[2].frame # <<>> =>
             LET f == p[2].frame[1]
             IN  /\ f.size = p[2].content /\ (f.texture = f.size \/ p[1].stale)
                 /\ gpu => before.ring = <<>> \/ before.ring[f.slot].out = 0
        /\ after.saturated > before.saturated => \A i \in DOMAIN before.ring : before.ring[i].out = 1

Monitors == {<<m, n>> : m, n \in [handle : {7, 8}, name : {<<>>, <<0>>, <<1>>}, size : {1, 2}, hz : {0}]}

\* A display listed once is found again under whatever handle and at whatever
\* place the system now lists its monitor, and no other monitor is taken for it;
\* a capture starts only on it, at the size it was listed with.
ASSUME DisplayFoundAgain ==
  \A then, now \in Monitors : \A d \in ToSet(Grab!Displays(then)) :
    LET found  == Grab!FindMonitor(now, d)
        starts == Grab!Start(Grab!Idle, d, 1, now, <<[luid |-> 3, software |-> FALSE]>>, <<3>>, 1, TRUE)
    IN  /\ found = <<>> <=> \A i \in DOMAIN now : now[i].name # <<d.id - 1>>
        /\ found # <<>> => found[1].name = <<d.id - 1>>
        /\ d.hz >= 2
        /\ (\E o \in starts : o.ok) => found # <<>> /\ d.size = 1

GrabLife ==
  StepsWithin(5, Grab!Idle, LAMBDA c :
    {Grab!Stop(c), Grab!TakeAudio(c)} \cup
    {o.capture : o \in UNION {Grab!Start(c, [id |-> 1, size |-> 1, hz |-> 60], mode,
                                <<[handle |-> 7, name |-> <<0>>, size |-> 1, hz |-> 60]>>,
                                gpus, <<3>>, offers, hears) :
                  mode \in {1, 2}, offers \in {1, 2}, hears \in BOOLEAN,
                  gpus \in {<<>>, <<[luid |-> 3, software |-> FALSE]>>}}})

\* A capture that runs holds its sink open; one that has stopped holds neither
\* the audio thread nor the receiver, and a start that is refused changes nothing.
ASSUME CaptureLife ==
  \A p \in GrabLife :
    /\ p[2].running <=> p[2].sink = "open"
    /\ ~p[2].running => ~p[2].audio /\ ~p[2].receiver
    /\ p[1].running /\ p[2].running => p[1].audio = p[2].audio

-----------------------------------------------------------------------------
(* The desktop of the macOS agent.                                         *)

\* A query that is answered in time leaves no list behind; one that was given
\* up leaves the list of a late answer behind, and only that.
ASSUME ListLeftByLateAnswer ==
  \A p \in StepsWithin(4, Grab!Asked, LAMBDA q : Grab!Answers(q) \cup Grab!Waits(q)) :
    LET q == p[2] IN
    /\ q.waiter \in {"answered", "refused"} => q.held = 0
    /\ q.held = 1 /\ q.waiter # "waiting" => q.waiter = "timed_out" /\ q.answer = "list"

\* The same sound, interleaved in one buffer or in one buffer per channel,
\* makes the same PCM; a buffer shorter or longer than announced moves no
\* sample to another frame or channel (handle_audio).
ASSUME PlanesAsInterleaved ==
  \A left, right \in [1 .. 2 -> 1 .. 2] : \A frames \in 1 .. 3 :
    LET planes == Grab!Pcm(frames, <<left, right>>)
    IN  /\ planes = Grab!Pcm(frames, <<<<left[1], right[1], left[2], right[2]>>>>)
        /\ \A i \in 1 .. frames : planes[2 * i - 1] = (IF i <= 2 THEN left[i] ELSE 0)
                                 /\ planes[2 * i] = (IF i <= 2 THEN right[i] ELSE 0)

\* Buffers that follow one another without a gap are stamped without one, and
\* never ahead of the clock; a picture of no size makes no frame.
ASSUME StampsAbut ==
  /\ \A now \in {0, 5000, 10000} : \A frames \in {0, 7, 480, 960} :
       /\ Grab!Stamp(now + (frames * 1000000) \div 48000, frames) = now
       /\ Grab!Stamp(now, frames) \in 0 .. now
  /\ \A image \in BOOLEAN : \A w, h \in 0 .. 1 :
       Grab!Submits([image |-> image, width |-> w, height |-> h]) => w * h > 0

MacLife ==
  StepsWithin(5, Grab!MacIdle, LAMBDA c :
    {Grab!MacStop(c), Grab!MacTakeAudio(c)} \cup
    {Grab!MacStart(c, 1, listed, query, starts).capture :
       listed \in {{}, {1}}, query \in {"answered", "refused", "timed_out"}, starts \in BOOLEAN})

\* The sinks are held as long as the stream, so the session sees them go when
\* it stops; a stream that starts brings sound of its own, and one that runs
\* is not started over.
ASSUME MacStreamLife ==
  \A p \in MacLife :
    /\ p[2].stream <=> p[2].delegate
    /\ ~p[1].stream /\ p[2].stream => p[2].receiver
    /\ p[1].stream /\ p[2].stream => (p[2].receiver => p[1].receiver)
    /\ ~Grab!MacStart([p[2] EXCEPT !.stream = TRUE], 1, {1}, "answered", TRUE).ok

-----------------------------------------------------------------------------
(* What a host pairs its sources with.                                     *)

Media == INSTANCE HostMedia WITH Block <- 2, Blocks <- 3, MinHeight <- 3, Interval <- 4

\* Whatever the probe found and whichever displays are there: every source an
\* agent can create has an encoder that reads the pixels it emits, on the GPU
\* they lie on; and what it lists it can create while nothing is unplugged.
ASSUME SourcesMeetEncoders ==
  \A platform \in Media!Platforms : \A nvenc \in {<<>>, <<3>>} :
    \A displays \in {<<>>, <<<<>>>>, <<<<1>>>>, <<<<2, 1>>>>} : \A id \in 0 .. 2 :
      LET made  == Media!CreateSource(platform, nvenc, displays, id)
          encoder == Media!CreateEncoder(platform, nvenc, Media!SourceKind(id))
      IN  /\ made # <<>> => /\ encoder # <<>>
                              /\ encoder[1].reads = made[1].pixels
                              /\ encoder[1].on = made[1].gpu
          /\ made # <<>> <=> id \in ToSet(Media!List(platform, displays))

-----------------------------------------------------------------------------
(* The synthetic source.                                                   *)

Blank(w, h, v) == [p \in (0 .. w - 1) \X (0 .. h - 1) |-> v]

\* Every index reads back from the frame it was written to, over whatever it
\* showed, as pixels, as luma, and after a codec that moved every pixel by
\* almost half of the range; a frame too small for the marker is not read.
ASSUME MarkerSurvives ==
  /\ \A index \in 0 .. 7 : \A w \in 6 .. 8 : \A v \in {0, 64, 255} : \A off \in {-126, -100, 0, 100, 126} :
       LET drawn == Media!WriteMarker(Blank(w, 3, v), index)
           moved == [p \in DOMAIN drawn |-> LET m == drawn[p] + off
                                            IN  IF m < 0 THEN 0 ELSE IF m > 255 THEN 255 ELSE m]
       IN  /\ Media!ReadMarker(moved, w) = <<index>>
           /\ Media!ReadMarker([p \in DOMAIN drawn |-> Media!Luma(drawn[p])], w) = <<index>>
  /\ Media!ReadMarker(Blank(5, 3, 0), 5) = <<>> /\ Media!ReadMarker(Blank(6, 1, 0), 6) = <<>>

\* The bar is whole in every frame, also where it wraps round, and moves; the
\* waves have no edge.
ASSUME PatternMoves ==
  /\ \A w \in 16 .. 40 : \A index \in 0 .. 12 :
       /\ Cardinality(Media!Bar(w, index)) = Media!BarWidth(w)
       /\ Media!Bar(w, index) # Media!Bar(w, index + 1)
  /\ \A x \in 0 .. 600 : Media!Triangle(x + 1) - Media!Triangle(x) \in -2 .. 2

PatternSteps(s) ==
  LET modes == {[width |-> w, height |-> 3, fps |-> 60] : w \in {5, 6}}
  IN  {Media!Stop(s).source} \cup {Media!Start(s, m).source : m \in modes}
      \cup {Media!Reconfigure(s, m).source : m \in modes}
      \cup (IF s.running = <<>> THEN {} ELSE {Media!Frame(s).source})

\* Only stopping a generator closes its sink, a running one draws a mode it
\* can mark, and its markers go back only to start anew.
ASSUME PatternLife ==
  \A p \in StepsWithin(5, Media!Stopped, PatternSteps) :
    LET s == p[1] t == p[2]
    IN  /\ s.sink = "open" /\ t.sink = "closed" => s.running # <<>> /\ t.running = <<>>
        /\ t.running # <<>> => Media!Supported(t.running[1].mode)
        /\ s.running # <<>> /\ t.running # <<>> =>
             t.running[1].index \in {0, s.running[1].index, s.running[1].index + 1}

\* However long frames take and sleeps last, the generator makes no more than
\* the frames of its rate: a delay is never made up for with a burst.
ASSUME NoBurstAfterStall ==
  \A p \in StepsWithin(4, [now |-> 0, deadline |-> 0, k |-> 0, late |-> 0], LAMBDA g :
           {LET h == Media!Pace(g, busy, late)
            IN  [now |-> h.now, deadline |-> h.deadline, k |-> g.k + 1,
                 late |-> IF h.now > g.now + busy THEN late ELSE 0] : busy \in {0, 1, 4, 9}, late \in {0, 1, 5}}) :
    /\ p[2].now >= 4 * p[2].k
    /\ p[2].now - p[1].now >= 4 - p[1].late
=============================================================================
