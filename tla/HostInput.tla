----------------------------- MODULE HostInput ------------------------------
(***************************************************************************)
(* What a key, the pointer and a controller become on their way from the   *)
(* client's hardware to the host's: the tables and conversions of client-  *)
(* dev (input_capture.rs, gamepad_capture.rs) and of the two injectors     *)
(* (input/macos.rs, input/windows/). Input has the protocol between the    *)
(* two ends; nothing here waits for anything.                              *)
(***************************************************************************)
EXTENDS Sequences, TLC, Integers, FiniteSets

-----------------------------------------------------------------------------
(* Keys: the usages of the HID keyboard page the windowed client knows,    *)
(* the macOS virtual keycodes and the PS/2 scancodes they are mapped to    *)
(* (input/keymap.rs), and the modifiers macOS stamps on events. The tables *)
(* are those of the code.                                                  *)

\* Codes of the usages from `first` on.
Codes(first, codes) == [u \in first .. first + Len(codes) - 1 |-> codes[u - first + 1]]

\* Letters to backslash; semicolon to F12; arrows; modifiers.
ClientUsages == \h04 .. \h31 \cup \h33 .. \h45 \cup \h4F .. \h52 \cup \hE0 .. \hE7

HidToMacos ==
  Codes(\h04, <<0, 11, 8, 2, 14, 3, 5, 4, 34, 38, 40, 37, 46, 45, 31, 35, 12, 15, 1, 17, 32, 9,
                13, 7, 16, 6, 18, 19, 20, 21, 23, 22, 26, 28, 25, 29, 36, 53, 51, 48, 49, 27,
                24, 33, 30, 42>>)
  @@ Codes(\h33, <<41, 39, 50, 43, 47, 44, 57, 122, 120, 99, 118, 96, 97, 98, 100, 101, 109,
                   103, 111>>)
  @@ Codes(\h4F, <<124, 123, 125, 126>>)
  @@ Codes(\hE0, <<59, 56, 58, 55, 62, 60, 61, 54>>)

\* Keys whose scancode carries the E0 prefix: the navigation cluster, three of
\* the right-hand block, and all but the first three modifiers and right shift.
Extended == \h49 .. \h52 \cup {\h54, \h58, \h65} \cup {\hE3, \hE4, \hE6, \hE7}

Scancode ==
  Codes(\h04, <<30, 48, 46, 32, 18, 33, 34, 35, 23, 36, 37, 38, 50, 49, 24, 25, 16, 19, 31, 20,
                22, 47, 17, 45, 21, 44, 2, 3, 4, 5, 6, 7, 8, 9, 10, 11, 28, 1, 14, 15, 57, 12,
                13, 26, 27, 43>>)
  @@ Codes(\h33, <<39, 40, 41, 51, 52, 53, 58, 59, 60, 61, 62, 63, 64, 65, 66, 67, 68, 87, 88>>)
  @@ Codes(\h47, <<70>>)
  @@ Codes(\h49, <<82, 71, 73, 83, 79, 81, 77, 75, 80, 72, 69, 53, 55, 74, 78, 28, 79, 80, 81,
                   75, 76, 77, 71, 72, 73, 82, 83>>)
  @@ Codes(\h65, <<93>>)
  @@ Codes(\hE0, <<29, 42, 56, 91, 29, 54, 56, 92>>)

HidToScancode == [u \in DOMAIN Scancode |-> <<Scancode[u], u \in Extended>>]

\* The flag of a usage, nothing for a key that is no modifier.
ModifierFlag(usage) ==
  CASE usage \in {\hE0, \hE4} -> <<"control">>
    [] usage \in {\hE1, \hE5} -> <<"shift">>
    [] usage \in {\hE2, \hE6} -> <<"alternate">>
    [] usage \in {\hE3, \hE7} -> <<"command">>
    [] OTHER -> <<>>

-----------------------------------------------------------------------------
(* What a key event does on a host: the event posted, and on macOS the     *)
(* flags it is stamped with and those left behind.                         *)

FlagsAfter(flags, usage, down) ==
  LET own == {f \in {"control", "shift", "alternate", "command"} : ModifierFlag(usage) = <<f>>}
  IN  IF down THEN flags \cup own ELSE flags \ own

KeyOnMacos(flags, usage, down) ==
  LET after == FlagsAfter(flags, usage, down)
  IN  [flags  |-> after,
       posted |-> IF usage \in DOMAIN HidToMacos
                  THEN <<[code |-> HidToMacos[usage], down |-> down, flags |-> after]>>
                  ELSE <<>>]

KeyOnWindows(usage, down) ==
  IF usage \in DOMAIN HidToScancode
  THEN <<[code |-> HidToScancode[usage], down |-> down]>>
  ELSE <<>>

-----------------------------------------------------------------------------
(* Pointer, buttons and wheel. macOS wants of the injector what hardware   *)
(* would tell it: a drag while a button is held, and which click of a      *)
(* double click this is. Windows tracks all of that itself. A coordinate   *)
(* in [0, 1] is a number of 1/Unit; it may also lie outside, for it comes  *)
(* from the network. Wheel and motion are in 1/Unit too, and truncated to  *)
(* whole units where the system takes integers.                            *)

CONSTANTS Unit,        \* one, in the fractions the events carry
          Screen,      \* macOS: width and height of the main display
          ClickTime,   \* MULTI_CLICK_INTERVAL
          ClickSlop,   \* MULTI_CLICK_SLOP
          AbsoluteMax, \* Windows: the far edge of the desktop (65535)
          WheelDelta   \* Windows: a notch of the wheel (120)

Buttons == {"left", "right", "middle", "back", "forward"}

Within(v, lo, hi) == IF v < lo THEN lo ELSE IF v > hi THEN hi ELSE v

\* A cast to an integer drops the fraction, towards zero.
Whole(v) == IF v < 0 THEN -((-v) \div Unit) ELSE v \div Unit

-----------------------------------------------------------------------------
(* macOS.                                                                  *)

NewPointer == [pos |-> <<0, 0>>, held |-> {}, lastClick |-> <<>>, clickState |-> 1]

\* A drag of the first button held, or a plain move.
MoveKind(p) ==
  CASE "left" \in p.held -> "left drag"
    [] "left" \notin p.held /\ "right" \in p.held -> "right drag"
    [] {"left", "right"} \cap p.held = {} /\ "middle" \in p.held -> "other drag"
    [] OTHER -> "move"

Moved(p, pos, deltas) ==
  LET after == [p EXCEPT !.pos = pos]
  IN  [pointer |-> after, posted |-> <<[kind |-> MoveKind(after), pos |-> pos, deltas |-> deltas]>>]

MoveTo(p, x, y) ==
  Moved(p, <<Within(x, 0, Unit) * Screen[1], Within(y, 0, Unit) * Screen[2]>>, <<>>)

\* The position stays on the display; the deltas, for games, are raw.
MoveBy(p, dx, dy) ==
  Moved(p, <<Within(p.pos[1] + dx, 0, Screen[1] * Unit), Within(p.pos[2] + dy, 0, Screen[2] * Unit)>>,
        <<Whole(dx), Whole(dy)>>)

Near(a, b) == a - b < ClickSlop * Unit /\ b - a < ClickSlop * Unit

\* One more than the last click, if it was of this button, just now and here.
ClickStateFor(p, button, now) ==
  LET again == /\ p.lastClick # <<>>
               /\ p.lastClick[1].button = button
               /\ now - p.lastClick[1].at < ClickTime
               /\ Near(p.pos[1], p.lastClick[1].pos[1])
               /\ Near(p.pos[2], p.lastClick[1].pos[2])
  IN  IF again THEN p.lastClick[1].state + 1 ELSE 1

\* Back and forward are dropped.  An up carries the state of the last down.
Click(p, button, down, now) ==
  LET state == IF down THEN ClickStateFor(p, button, now) ELSE p.clickState
      held  == [p EXCEPT !.held = IF down THEN @ \cup {button} ELSE @ \ {button}]
  IN  IF button \in {"back", "forward"} THEN [pointer |-> p, posted |-> <<>>]
      ELSE [pointer |-> IF down
                        THEN [held EXCEPT !.clickState = state,
                                          !.lastClick = <<[button |-> button, at |-> now,
                                                           pos |-> p.pos, state |-> state]>>]
                        ELSE held,
            posted  |-> <<[kind |-> button, down |-> down, pos |-> p.pos, click |-> state]>>]

\* Less than a line is no line.
Scroll(p, dx, dy) == [pointer |-> p, posted |-> <<[kind |-> "wheel", dx |-> Whole(dx), dy |-> Whole(dy)]>>]

-----------------------------------------------------------------------------
(* Windows.                                                                *)

WinMoveTo(x, y) ==
  <<[kind |-> "absolute", x |-> (Within(x, 0, Unit) * AbsoluteMax) \div Unit,
                          y |-> (Within(y, 0, Unit) * AbsoluteMax) \div Unit]>>

WinMoveBy(dx, dy) == <<[kind |-> "relative", x |-> Whole(dx), y |-> Whole(dy)]>>

WinClick(button, down) ==
  <<[kind |-> IF button \in {"back", "forward"} THEN "x" ELSE button, down |-> down,
     which |-> CASE button = "back" -> 1 [] button = "forward" -> 2 [] OTHER -> 0]>>

\* Each axis that moved is an event of its own, the vertical one first.
Wheel(dx, dy) ==
  (IF dy = 0 THEN <<>> ELSE <<[kind |-> "wheel", notches |-> Whole(dy * WheelDelta)]>>) \o
  (IF dx = 0 THEN <<>> ELSE <<[kind |-> "hwheel", notches |-> Whole(dx * WheelDelta)]>>)

-----------------------------------------------------------------------------
(* A controller's reading: gilrs to GamepadInput on the client, and from   *)
(* there to the report the virtual pad of a Windows host shows (vigem.rs). *)
(* A stick is a number of 1/Travel, a trigger of 1/Travel of its press; a  *)
(* button is its name, a bit of XInput's wButtons.                         *)

CONSTANTS Travel,      \* full travel
          Deadzone,  \* STICK_DEADZONE
          Max16,     \* i16::MAX
          TriggerMax,\* the report's largest trigger (255)
          Retries    \* READY_RETRIES

PadButtons == {"A", "B", "X", "Y", "left shoulder", "right shoulder", "back", "start", "guide",
            "left stick", "right stick", "up", "down", "left", "right"}

Axes == {"left x", "left y", "right x", "right y", "left trigger", "right trigger"}

Scaled(v, to) == IF v < 0 THEN -(((-v) * to) \div Travel) ELSE (v * to) \div Travel

-----------------------------------------------------------------------------
(* The client.                                                             *)

\* A d-pad that is a hat reads as two axes; it adds to what is pressed.
Hat(x, y) ==
  {b \in {"left", "right", "up", "down"} :
     CASE b = "right" -> 2 * x > Travel
       [] b = "left"  -> 2 * x < -Travel
       [] b = "up"    -> 2 * y > Travel
       [] OTHER       -> 2 * y < -Travel}

Stick(v) == IF v < Deadzone /\ v > -Deadzone THEN 0 ELSE Scaled(Within(v, -Travel, Travel), Max16)
Trigger(v) == Scaled(Within(v, 0, Travel), Max16)

\* A reading has the buttons pressed, the hat and the six axes.
Snapshot(reading) ==
  [buttons |-> reading.pressed \cup Hat(reading.hat[1], reading.hat[2]),
   axes    |-> [a \in Axes |-> IF a \in {"left trigger", "right trigger"}
                               THEN Trigger(reading.axes[a]) ELSE Stick(reading.axes[a])]]

-----------------------------------------------------------------------------
(* The host.                                                               *)

\* The sixteen bits XInput knows; what a peer sets beyond them is masked.
Report(snapshot) ==
  [buttons |-> snapshot.buttons \cap PadButtons,
   axes    |-> [a \in Axes |->
                  LET v == snapshot.axes[a]
                  IN  IF a \in {"left trigger", "right trigger"}
                      THEN (Within(v, 0, Max16) * (TriggerMax + 1)) \div (Max16 + 1)
                      ELSE v]]

\* Submitting a report: the driver's answers in turn, while it is not ready.
Submitted(answers) ==
  LET tried == SubSeq(answers, 1, IF Len(answers) < Retries THEN Len(answers) ELSE Retries)
      said  == {i \in DOMAIN tried : tried[i] # "not ready"}
  IN  said # {} /\ tried[CHOOSE i \in said : \A j \in said : i <= j] = "ok"
=============================================================================
