----------------------------- MODULE HostMedia ------------------------------
(***************************************************************************)
(* Which sources an agent offers and which encoder a source is given       *)
(* (agent/factories.rs), and the one source that is its own: the test      *)
(* pattern (sources/test_pattern.rs) with the marker a test client knows   *)
(* its frames by (core/pattern.rs).                                        *)
(***************************************************************************)
EXTENDS Sequences, Integers

-----------------------------------------------------------------------------
(* Factories. `nvenc` is what the one probe of this host said: the GPU an  *)
(* encoder was found on, or nothing.                                       *)

Platforms == {"macos", "windows", "linux"}
TestPatternId == 0

\* Where a Windows capture puts its pixels.
CaptureOutput(nvenc) ==
  IF nvenc = <<>> THEN [pixels |-> "cpu", gpu |-> <<>>] ELSE [pixels |-> "d3d11", gpu |-> nvenc]

\* The test pattern, then the displays as the system lists them; none when
\* listing fails, which is what `displays` being nothing stands for.
List(platform, displays) ==
  <<TestPatternId>> \o (IF platform = "linux" \/ displays = <<>> THEN <<>> ELSE displays[1])

SourceKind(id) == IF id = TestPatternId THEN "test_pattern" ELSE "display"

\* The source of an id, from the displays there are now.
CreateSource(platform, nvenc, displays, id) ==
  IF id = TestPatternId THEN <<[pixels |-> "cpu", gpu |-> <<>>]>>
  ELSE IF displays = <<>> \/ platform = "linux" THEN <<>>
  ELSE IF \A i \in DOMAIN displays[1] : displays[1][i] # id THEN <<>>
  ELSE IF platform = "macos" THEN <<[pixels |-> "iosurface", gpu |-> <<>>]>>
  ELSE <<CaptureOutput(nvenc)>>

\* The pixels an encoder reads, and the GPU they must lie on.
Software == [reads |-> "cpu", on |-> <<>>]

CreateEncoder(platform, nvenc, kind) ==
  CASE kind = "test_pattern" -> <<Software>>
    [] kind # "test_pattern" /\ platform = "macos" -> <<[reads |-> "iosurface", on |-> <<>>]>>
    [] kind # "test_pattern" /\ platform = "windows" ->
         <<IF nvenc = <<>> THEN Software ELSE [reads |-> "d3d11", on |-> nvenc]>>
    [] OTHER -> <<>>

-----------------------------------------------------------------------------
(* The test pattern. A frame is the brightness of its pixels, a function   *)
(* on the pairs of a column and a row. A bit of the index is a block of    *)
(* Block by Block pixels, the highest first.                               *)

CONSTANTS Block, Blocks,      \* side of a block, and how many there are
          MinHeight,          \* of a mode the generator takes
          Interval            \* between frames

MinWidth == Block * Blocks

Bit(index, i) == (index \div 2 ^ (Blocks - 1 - i)) % 2

\* The marker over whatever the frame showed.
WriteMarker(frame, index) ==
  [p \in DOMAIN frame |->
     IF p[1] < MinWidth /\ p[2] < Block THEN 255 * Bit(index, p[1] \div Block) ELSE frame[p]]

\* The middle of each block decides; nothing of a frame that is too small.
\* Of packed pixels the green channel is read, of a plane the luma.
ReadMarker(frame, width) ==
  LET at(i) == <<i * Block + Block \div 2, Block \div 2>>
      bits[i \in 0 .. Blocks] ==
        IF i = 0 THEN 0 ELSE 2 * bits[i - 1] + (IF frame[at(i - 1)] > 128 THEN 1 ELSE 0)
  IN  IF width < MinWidth \/ \E i \in 0 .. Blocks - 1 : at(i) \notin DOMAIN frame
      THEN <<>> ELSE <<bits[Blocks]>>

\* Luma of a grey pixel in video range, rounded.
Luma(v) == (220 * v + 128) \div 256 + 16

-----------------------------------------------------------------------------
(* What is drawn: a bar that moves on by eight columns with every frame    *)
(* and comes back on the left, or a plaid of triangle waves.               *)

BarWidth(w) == IF w \div 16 < 8 THEN 8 ELSE w \div 16

Bar(w, index) ==
  LET left  == (index * 8) % w
      right == left + BarWidth(w)
  IN  {x \in 0 .. w - 1 : (left <= x /\ x < right) \/ (right > w /\ x < right % w)}

Triangle(phase) == LET m == phase % 256 IN IF m < 128 THEN m * 2 ELSE (255 - m) * 2

-----------------------------------------------------------------------------
(* The source.  Each operation yields the source after it and whether it   *)
(* succeeded; a generator that runs has a mode and the index it is at.     *)

Stopped == [running |-> <<>>, sink |-> "open"]

Supported(mode) == mode.width >= MinWidth /\ mode.height >= MinHeight /\ mode.fps > 0

Start(s, mode) ==
  IF s.running = <<>> /\ Supported(mode)
  THEN [source |-> [s EXCEPT !.running = <<[mode |-> mode, index |-> 0]>>], ok |-> TRUE]
  ELSE [source |-> s, ok |-> FALSE]

\* The old generator is gone before the new mode is looked at.
Reconfigure(s, mode) ==
  IF s.running = <<>> THEN [source |-> s, ok |-> FALSE]
  ELSE Start([s EXCEPT !.running = <<>>], mode)

Stop(s) ==
  [source |-> IF s.running = <<>> THEN s ELSE [running |-> <<>>, sink |-> "closed"], ok |-> TRUE]

Frame(s) == [source |-> [s EXCEPT !.running[1].index = @ + 1], ok |-> TRUE]

\* The generator's clock: a frame takes `busy` to draw and submit; a sleep may
\* end `late`.  One that fell behind starts over from now.
Pace(g, busy, late) ==
  LET now  == g.now + busy
      next == g.deadline + Interval
  IN  IF next > now THEN [now |-> next + late, deadline |-> next]
      ELSE [now |-> now, deadline |-> now]
=============================================================================
