------------------------------ MODULE VideoEncoders -------------------------
(***************************************************************************)
(* The three encoders behind the Encoder trait: NVENC (encode-nvenc/src),  *)
(* over a driver any of whose calls may fail; VideoToolbox                 *)
(* (encode-videotoolbox/src/imp), whose chunks come out on a thread of the *)
(* framework; and openh264 (encode-sw/src), which reopens itself to change *)
(* its rate.  An operation maps a state to the set of its outcomes,        *)
(* [ok, s]: whether it returned Ok, and the state it left.  Those of the   *)
(* trait bear its names after Nv, Vt or Sw.                                *)
(***************************************************************************)
EXTENDS Integers, Sequences, SequencesExt

CONSTANTS
  Base,      \* frame ids on the wire are numbers below it, 2^32 in the code
  Window,    \* the invalidation window, half the nominal picture buffer
  Resident   \* pictures the driver's buffer holds

Ok(s) == [ok |-> TRUE, s |-> s]
Err(s) == [ok |-> FALSE, s |-> s]

-----------------------------------------------------------------------------
(* NVENC. The driver's side is s.gpu: how many handles of each kind it     *)
(* holds for us, the configuration it runs, and the pictures it may still  *)
(* reference.                                                              *)

\* `?`: what follows runs on the outcomes that are Ok.
Then(outcomes, After(_)) ==
  {o \in outcomes : ~ o.ok} \cup UNION {After(o.s) : o \in {p \in outcomes : p.ok}}

\* A driver call fails and changes nothing, or does its work.
Call(s, done) == {Err(s), Ok(done)}

Holding(s, handle, n) == [s EXCEPT !.gpu.held[handle] = @ + n]

NvNew ==
  [config |-> <<>>, session |-> FALSE, idr |-> FALSE, next |-> 0, pending |-> <<>>,
   gpu |-> [held |-> [h \in {"encoder", "bitstream", "registered", "mapped"} |-> 0],
            locked |-> FALSE, config |-> <<>>, buffer |-> <<>>, out |-> <<>>]]

-----------------------------------------------------------------------------
(* The session: what was configured, opened on the first frame.            *)

\* The fields of the rate control, one frame's bits to the buffer; a mode of
\* no frames a second counts as one.
WithRate(driverConfig, rate) ==
  [driverConfig EXCEPT !.average = rate, !.most = rate,
                       !.buffer = rate \div driverConfig.fps]

\* The preset of the codec, adjusted: HEVC has the one profile, H.264 the
\* negotiated one, whose baseline forbids CABAC.
DriverConfig(config) ==
  WithRate([codec |-> config.codec,
            profile |-> IF config.codec = "hevc" THEN "main" ELSE config.profile,
            cabac |-> config.codec = "h264" /\ config.profile # "baseline",
            fps |-> IF config.fps = 0 THEN 1 ELSE config.fps,
            average |-> 0, most |-> 0, buffer |-> 0], config.rate)

\* Session::initialize: the preset, the configuration, the output buffer.
Initialized(s) ==
  Then(Call(s, s), LAMBDA preset :
  Then(Call(preset, [preset EXCEPT !.gpu.config = DriverConfig(s.config)]),
       LAMBDA configured : Call(configured, Holding(configured, "bitstream", 1))))

\* Session's Drop: the output buffer, if it was created, then the encoder.
Dropped(s) ==
  [s EXCEPT !.session = FALSE, !.gpu = [NvNew.gpu EXCEPT !.held =
     [s.gpu.held EXCEPT !["bitstream"] = 0,
                        !["encoder"] = IF @ > 0 THEN @ - 1 ELSE 0]]]

\* session(): a session that does not initialize is dropped.
WithSession(s) ==
  IF s.session THEN {Ok(s)}
  ELSE {IF o.ok THEN Ok([o.s EXCEPT !.session = TRUE]) ELSE Err(Dropped(o.s)) :
          o \in Then(Call(s, Holding(s, "encoder", 1)), Initialized)}

-----------------------------------------------------------------------------
(* One picture.                                                            *)

\* Register the texture, map it; a map that fails unregisters.
Mapped(s) ==
  Then(Call(s, Holding(s, "registered", 1)), LAMBDA reg :
    {Err(Holding(reg, "registered", -1)), Ok(Holding(reg, "mapped", 1))})

\* MappedTexture's Drop.
Unmapped(o) == [o EXCEPT !.s = Holding(Holding(@, "mapped", -1), "registered", -1)]

\* The driver codes an IDR when told to, and with an empty buffer; it may
\* skip another picture, whose bitstream is then empty.
Pictured(s, idr) ==
  LET forced  == idr \/ s.gpu.buffer = <<>>
      stamp   == s.next % Base
      room    == IF forced THEN <<>> ELSE s.gpu.buffer
      coded   == Append(IF Len(room) < Resident THEN room ELSE Tail(room), stamp)
  IN  {Err(s), Ok([s EXCEPT !.gpu.buffer = coded,
                            !.gpu.out = [idr |-> forced, empty |-> FALSE]])}
      \cup IF forced THEN {}
           ELSE {Ok([s EXCEPT !.gpu.out = [idr |-> FALSE, empty |-> TRUE]])}

\* Lock, copy, unlock; the output stays locked if the unlock fails.
TakeBitstream(s) == {Err(s), Err([s EXCEPT !.gpu.locked = TRUE]), Ok(s)}

Finished(s) ==
  [s EXCEPT !.idr = FALSE, !.next = @ + 1, !.gpu.out = <<>>,
            !.pending = IF s.gpu.out.empty THEN @
                        ELSE [id |-> s.next, idr |-> s.gpu.out.idr]]

NvSubmit(s, fits, idr) ==
  IF ~ fits \/ s.config = <<>> THEN {Err(s)}
  ELSE Then(WithSession(s), LAMBDA a :
       Then(Mapped(a), LAMBDA b :
         {IF o.ok THEN Ok(Finished(o.s)) ELSE o :
            o \in {Unmapped(p) : p \in Then(Pictured(b, idr \/ s.idr), TakeBitstream)}}))

\* next_chunk does not wait: submit did.
NvNextChunk(s) == [s EXCEPT !.pending = <<>>]

-----------------------------------------------------------------------------
(* The other operations of the Encoder trait.                              *)

NvOpen(s, config) ==
  IF config.codec \notin {"h264", "hevc"} THEN Err(s)
  ELSE Ok([s EXCEPT !.config = config, !.idr = TRUE])

\* The rate is stored before the driver takes it.
NvUpdateRate(s, rate) ==
  CASE s.config = <<>> -> {Err(s)}
    [] s.config # <<>> /\ s.config.rate = rate -> {Ok(s)}
    [] OTHER ->
         LET stored == [s EXCEPT !.config.rate = rate]
         IN  IF ~ s.session THEN {Ok(stored)}
             ELSE Call(stored, [stored EXCEPT !.gpu.config = WithRate(@, rate)])

NvForceIdr(s) == [s EXCEPT !.idr = TRUE]

\* The frames after lastGood, oldest first, until the driver refuses one.
Lost(s, lastGood) == LET apart == (s.next - lastGood) % Base
                     IN  IF apart = 0 THEN 0 ELSE apart - 1

Without(s, lastGood, n) ==
  LET gone == {(lastGood + i) % Base : i \in 1 .. n}
  IN  [s EXCEPT !.gpu.buffer = SelectSeq(@, LAMBDA stamp : stamp \notin gone)]

InvalidateRefs(s, lastGood) ==
  LET lost == Lost(s, lastGood)
  IN  IF ~ s.session \/ lost = 0 \/ lost > Window THEN {Err(s)}
      ELSE {Err(Without(s, lastGood, n)) : n \in 0 .. lost - 1}
           \cup {Ok(Without(s, lastGood, lost))}

\* The owed IDR and the frame ids survive a close.
NvClose(s) ==
  [(IF s.session THEN Dropped(s) ELSE s) EXCEPT !.config = <<>>, !.pending = <<>>]

-----------------------------------------------------------------------------
(* VideoToolbox. The handlers share the frame counter and the channel with *)
(* the encoder, whichever session they belong to.                          *)

VtNew ==
  [open |-> FALSE, idr |-> FALSE, rate |-> 0, next |-> 0, opened |-> 0,
   inside |-> <<>>, chunks |-> <<>>]

\* A session is created and then configured; one that refuses a property is
\* released again, and whatever was open stays.
VtOpen(s, codec, rate) ==
  {Err(s)} \cup
  IF codec \notin {"h264", "hevc"} THEN {}
  ELSE {Ok([s EXCEPT !.open = TRUE, !.idr = TRUE, !.rate = rate, !.next = 0,
                     !.opened = @ + 1])}

\* The IDR is no longer owed once the frame is known to carry a surface,
\* whatever the framework answers.
VtSubmit(s, surface, idr) ==
  IF ~ s.open \/ ~ surface THEN {Err(s)}
  ELSE LET forced == idr \/ s.idr
           taken  == [s EXCEPT !.idr = FALSE]
       IN  {Err(taken),
            Ok([taken EXCEPT !.inside = Append(@, [forced |-> forced, of |-> s.opened])])}

\* The handler of the oldest frame inside runs: with no sample, or one that
\* holds no NAL unit, nothing is emitted and no id used; the framework codes
\* an IDR when told to and, periodically, by itself.
Emitted(s) ==
  LET frame == Head(s.inside)
      left  == [s EXCEPT !.inside = Tail(@)]
  IN  {left} \cup
      {[left EXCEPT !.next = @ + 1,
                    !.chunks = Append(@, [id |-> s.next, idr |-> idr, of |-> frame.of])] :
         idr \in {TRUE, frame.forced}}

\* next_chunk blocks until its timeout, poll_bitstream not at all: the oldest
\* chunk on the channel, if there is one by then.
VtNextChunk(s) == [s EXCEPT !.chunks = IF @ = <<>> THEN @ ELSE Tail(@)]

VtUpdateRate(s, rate) ==
  {Err(s)} \cup IF s.open THEN {Ok([s EXCEPT !.rate = rate])} ELSE {}

VtForceIdr(s) == [s EXCEPT !.idr = TRUE]

\* The session is invalidated; its handlers may yet run.
VtClose(s) == [s EXCEPT !.open = FALSE]

-----------------------------------------------------------------------------
(* sample_to_annex_b.  A sample is a run of length-prefixed NAL units, each *)
(* whole, empty, or longer than what is left of the sample, and a format   *)
(* description with the parameter sets that can be read from it.           *)

StartsIdr(codec, nal) == nal.type \in IF codec = "hevc" THEN {19, 20} ELSE {5}

ParameterSets(codec) == IF codec = "hevc" THEN 3 ELSE 2

\* The units up to the first that is empty or cut short.
Slices(sample) ==
  LET bad == {i \in DOMAIN sample.nals : sample.nals[i].size # "whole"}
  IN  IF bad = {} THEN sample.nals
      ELSE SubSeq(sample.nals, 1, (CHOOSE i \in bad : \A j \in bad : i <= j) - 1)

\* The parameter sets go ahead of the slices of a keyframe.
AnnexB(codec, sample) ==
  LET slices   == Slices(sample)
      keyframe == \E i \in DOMAIN slices : StartsIdr(codec, slices[i])
      sets     == SelectSeq([i \in 1 .. ParameterSets(codec) |-> i],
                            LAMBDA i : i \in sample.readable)
  IN  IF slices = <<>> THEN <<>>
      ELSE <<[idr |-> keyframe, sets |-> IF keyframe THEN sets ELSE <<>>, slices |-> slices]>>

-----------------------------------------------------------------------------
(* openh264: one frame in and at most one chunk out.                       *)

\* fresh: the openh264 encoder has coded nothing yet; forced: it was told to
\* code its next frame intra.
SwNew ==
  [open |-> FALSE, idr |-> FALSE, rate |-> 0, next |-> 0, pending |-> <<>>,
   fresh |-> FALSE, forced |-> FALSE]

SwOpen(s, codec, rate) ==
  {Err(s)} \cup
  IF codec # "h264" THEN {}
  ELSE {Ok([s EXCEPT !.open = TRUE, !.idr = TRUE, !.rate = rate, !.next = 0,
                     !.pending = <<>>, !.fresh = TRUE, !.forced = FALSE])}

\* openh264 codes an intra frame when told to and first of all, and others of
\* its own accord; under its rate control it may skip a frame it was not told
\* to code so, or put nothing out for it.
Coded(s) ==
  LET owed == s.forced \/ s.fresh
      done == [s EXCEPT !.fresh = FALSE, !.forced = FALSE]
  IN  {Ok([done EXCEPT !.next = @ + 1, !.pending = [id |-> s.next, idr |-> idr]]) :
         idr \in {TRUE, owed}}
      \cup IF owed THEN {Err(s)} ELSE {Err(s), Ok(done)}

\* The frame must be one of memory that converts; only then is the owed IDR
\* passed on.
SwSubmit(s, converts, idr) ==
  IF ~ s.open \/ ~ converts THEN {Err(s)}
  ELSE Coded(IF idr \/ s.idr THEN [s EXCEPT !.forced = TRUE, !.idr = FALSE] ELSE s)

SwNextChunk(s) == [s EXCEPT !.pending = <<>>]

\* openh264 cannot change the rate of a live encoder: a new one takes over,
\* the ids go on, and what was pending stays.
SwUpdateRate(s, rate) ==
  {Err(s)} \cup
  IF ~ s.open THEN {}
  ELSE {Ok([s EXCEPT !.rate = rate, !.fresh = TRUE, !.forced = FALSE, !.idr = TRUE])}

SwForceIdr(s) == [s EXCEPT !.idr = TRUE]

SwClose(s) == [s EXCEPT !.open = FALSE, !.pending = <<>>, !.next = 0, !.rate = 0,
                      !.fresh = FALSE, !.forced = FALSE]
=============================================================================
