------------------------------- MODULE Input -------------------------------
(***************************************************************************)
(* A key and a controller on their way from the user of the windowed       *)
(* client to the operating system of the host: the window's capture        *)
(* (client-dev), the control stream, the session's InputBatch arm, the     *)
(* injectors of the input crate, and the notifications that come back.     *)
(*                                                                         *)
(* Both ends keep state of their own: the client what it last sent of the  *)
(* controller, the host which keys are down, which modifier is on, whether *)
(* the pad driver answers and which pad is plugged.  The stream in between *)
(* is in order and loses nothing, but it may end at any point; the window  *)
(* may lose the focus, the driver and the operating system may refuse.     *)
(*                                                                         *)
(* The key tables, the pointer and what a pad reads are in HostInput;      *)
(* mouse buttons go the way of keys without a modifier.  The client has    *)
(* one seat.  The two keys are the two of one modifier; where a modifier   *)
(* has no state of its own one key stands for all.                         *)
(***************************************************************************)
EXTENDS Naturals, Sequences, SequencesExt

CONSTANTS
  Hosts,     \* the kinds of host in play, of {"macos", "windows"}
  PadStates, \* what a controller may read; Neutral, at rest, is one of them
  MaxQueue   \* bound: messages in transit, each way

NoPad == 0
Unplugged == 0
Neutral == 1

ASSUME InputAssumption ==
  /\ Hosts \subseteq {"macos", "windows"} /\ Hosts # {}
  /\ PadStates \subseteq Nat \ {0}
  /\ MaxQueue \in Nat \ {0}

VARIABLES
  host,       \* the kind of host
  injects,    \* the peer may interact, and the host has an injector
  phase,      \* the client's window: "connecting", "streaming", "ended"
  \* the user
  held,       \* keys held down
  focused,    \* the window has the focus
  pad,        \* the controller: NoPad, or what it reads
  \* the client
  announced, last, \* of GamepadCapture
  shown,      \* the last notification told of a pad connected
  toAgent, toClient, \* input events, notifications
  \* the host
  down,       \* keys the operating system has down
  flag,       \* macOS: the modifier is stamped on events
  driver,     \* Windows: "untried", "connected", "unavailable"
  seat,       \* Windows: Unplugged, or what the virtual pad reads
  phantom     \* Windows: a pad the driver did not let go of

VARIABLES
  unseen,     \* history: keys whose last release was not seen or was refused
  dropped     \* history: the last snapshot did not reach a virtual pad

Keys == IF host = "macos" THEN {"left", "right"} ELSE {"left"}

userVars == <<held, focused, pad>>
captureVars == <<announced, last>>
keyVars == <<down, flag, unseen>>
padVars == <<driver, seat, phantom, dropped>>
fixed == <<host, injects>>
inputVars == <<fixed, phase, userVars, captureVars, shown, toAgent, toClient, keyVars, padVars>>

InputInit ==
  /\ host \in Hosts /\ injects \in BOOLEAN
  /\ phase = "connecting"
  /\ held = {} /\ focused = TRUE /\ pad = NoPad
  /\ announced = FALSE /\ last = NoPad
  /\ shown = FALSE /\ toAgent = <<>> /\ toClient = <<>>
  /\ down = {} /\ flag = FALSE
  /\ driver = "untried" /\ seat = Unplugged /\ phantom = FALSE
  /\ unseen = {} /\ dropped = FALSE

-----------------------------------------------------------------------------
(* The client. *)

\* The session has started: events are sent from here on.
Ready ==
  /\ phase = "connecting"
  /\ phase' = "streaming"
  /\ UNCHANGED <<fixed, userVars, captureVars, shown, toAgent, toClient, keyVars, padVars>>

Room == Len(toAgent) < MaxQueue

Key(k, isDown) == [type |-> "Key", key |-> k, down |-> isDown]
Snapshot(state) == [type |-> "Gamepad", state |-> state]
Disconnect == [type |-> "GamepadDisconnect"]

KeySent(k, isDown) ==
  toAgent' = IF phase = "streaming" THEN Append(toAgent, Key(k, isDown)) ELSE toAgent

\* A key goes down or repeats; the window sees it when it has the focus.
Press(k) ==
  /\ phase # "ended" /\ Room
  /\ held' = held \cup {k}
  /\ IF focused THEN KeySent(k, TRUE) ELSE UNCHANGED toAgent
  /\ UNCHANGED <<fixed, phase, focused, pad, captureVars, shown, toClient, keyVars, padVars>>

\* The release a window without the focus gets is synthetic, and ignored.
Release(k) ==
  /\ phase # "ended" /\ Room
  /\ k \in held
  /\ held' = held \ {k}
  /\ IF focused THEN KeySent(k, FALSE) /\ unseen' = unseen \ {k}
                ELSE unseen' = unseen \cup {k} /\ UNCHANGED toAgent
  /\ UNCHANGED <<fixed, phase, focused, pad, captureVars, shown, toClient, down, flag, padVars>>

FocusChanges ==
  /\ phase # "ended"
  /\ focused' = ~focused
  /\ UNCHANGED <<fixed, phase, held, pad, captureVars, shown, toAgent, toClient, keyVars,
                 padVars>>

\* The controller comes, goes, or is moved.
PadChanges(state) ==
  /\ phase # "ended"
  /\ state # pad
  /\ pad' = state
  /\ UNCHANGED <<fixed, phase, held, focused, captureVars, shown, toAgent, toClient, keyVars,
                 padVars>>

\* Mutant: what was last sent is kept across a disconnection.
PadGoneKept == announced' = FALSE /\ UNCHANGED last

PadGone == announced' = FALSE /\ last' = NoPad

\* One poll: a disconnection once, a snapshot when something has changed.
Poll ==
  /\ phase = "streaming" /\ Room
  /\ \/ /\ pad = NoPad /\ announced
        /\ PadGone
        /\ toAgent' = Append(toAgent, Disconnect)
     \/ /\ pad # NoPad /\ pad # last
        /\ announced' = TRUE /\ last' = pad
        /\ toAgent' = Append(toAgent, Snapshot(pad))
  /\ UNCHANGED <<fixed, phase, userVars, shown, toClient, keyVars, padVars>>

ClientNotified ==
  /\ toClient # <<>>
  /\ shown' = Head(toClient)
  /\ toClient' = Tail(toClient)
  /\ UNCHANGED <<fixed, phase, userVars, captureVars, toAgent, keyVars, padVars>>

-----------------------------------------------------------------------------
(* The host: one event of an InputBatch. *)

Takes(type) ==
  /\ phase = "streaming" /\ toAgent # <<>> /\ Head(toAgent).type = type
  /\ toAgent' = Tail(toAgent)
  /\ UNCHANGED <<fixed, phase, userVars, captureVars, shown>>

With(set, k, isIn) == IF isIn THEN set \cup {k} ELSE set \ {k}

\* Mutant: the modifier is switched over by every event of its keys.
FlagToggled(isDown) == host = "macos" /\ ~flag

\* The bit is set by a key that goes down, cleared by one that goes up.
Flagged(isDown) == host = "macos" /\ isDown

(* The event goes to the operating system, which may refuse it without a   *)
(* word; the modifier of macOS follows the event either way.               *)
InjectKey ==
  LET e == Head(toAgent)
  IN /\ Takes("Key") /\ injects
     /\ flag' = Flagged(e.down)
     /\ \/ down' = With(down, e.key, e.down) /\ UNCHANGED unseen
        \/ UNCHANGED down /\ unseen' = IF e.down THEN unseen ELSE unseen \cup {e.key}
     /\ UNCHANGED <<toClient, padVars>>

Notify(connected) == toClient' = Append(toClient, connected)

\* Mutant: looked up once the pad is there.
NewlyPluggedAfter(before) == FALSE

NewlyPlugged(before) == before = Unplugged

\* The driver is asked to let go of a pad, and may refuse.
LetGo(plugged) == phantom' \in {phantom, phantom \/ plugged}

(* A snapshot on Windows: the driver is tried once, a pad plugged when the *)
(* seat has none, the report handed to it; each of them may fail.  A pad   *)
(* that was plugged but never became ready is dropped again.               *)
InjectSnapshot ==
  LET state == Head(toAgent).state
  IN /\ Takes("Gamepad") /\ injects /\ host = "windows"
     /\ Len(toClient) < MaxQueue
     /\ \/ /\ driver # "unavailable"
           /\ driver' = "connected"
           /\ \/ seat' = state /\ dropped' = FALSE
              \/ seat' = (IF seat = Unplugged THEN Neutral ELSE seat) /\ dropped' = TRUE
           /\ IF NewlyPlugged(seat) THEN Notify(TRUE) ELSE UNCHANGED toClient
           /\ UNCHANGED phantom
        \/ /\ driver # "unavailable" /\ seat = Unplugged
           /\ driver' = "connected" /\ dropped' = TRUE
           /\ LetGo(TRUE)
           /\ UNCHANGED <<seat, toClient>>
        \/ /\ driver # "connected"
           /\ driver' = "unavailable" /\ dropped' = TRUE
           /\ UNCHANGED <<seat, phantom, toClient>>
     /\ UNCHANGED keyVars

(* The seat is forgotten and the client told so, whether or not the driver *)
(* lets go of the pad.                                                     *)
InjectDisconnect ==
  /\ Takes("GamepadDisconnect") /\ injects /\ host = "windows"
  /\ Len(toClient) < MaxQueue
  /\ seat' = Unplugged /\ LetGo(seat # Unplugged)
  /\ IF seat # Unplugged THEN Notify(FALSE) ELSE UNCHANGED toClient
  /\ UNCHANGED <<driver, dropped, keyVars>>

(* Dropped: for want of scope, of an injector, or of pads on macOS. *)
Ignored ==
  /\ \/ ~injects /\ \E type \in {"Key", "Gamepad", "GamepadDisconnect"} : Takes(type)
     \/ host = "macos" /\ \E type \in {"Gamepad", "GamepadDisconnect"} : Takes(type)
  /\ UNCHANGED <<toClient, keyVars, padVars>>

Inject == InjectKey \/ InjectSnapshot \/ InjectDisconnect \/ Ignored

(* The session ends, and with the injector its pads; the window closes.    *)
(* No key is released.                                                     *)
StreamEnds ==
  /\ phase # "ended"
  /\ phase' = "ended"
  /\ toAgent' = <<>> /\ toClient' = <<>>
  /\ driver' = "untried" /\ seat' = Unplugged /\ flag' = FALSE
  /\ LetGo(seat # Unplugged)
  /\ UNCHANGED <<fixed, userVars, captureVars, shown, down, unseen, dropped>>

-----------------------------------------------------------------------------

InputNext ==
  \/ Ready
  \/ \E k \in Keys : Press(k) \/ Release(k)
  \/ FocusChanges
  \/ \E state \in PadStates \cup {NoPad} : PadChanges(state)
  \/ Poll \/ ClientNotified
  \/ Inject
  \/ StreamEnds

(* The window polls every few milliseconds, the session's loop takes what  *)
(* has arrived, the client reads its notifications.  The queue is not      *)
(* bounded in the code: fairness is strong where the bound gets in the way *)
(* of a step.                                                              *)
InputFairness ==
  SF_inputVars(Poll) /\ WF_inputVars(Inject) /\ WF_inputVars(ClientNotified)

InputSpec == InputInit /\ [][InputNext]_inputVars /\ InputFairness

-----------------------------------------------------------------------------
(***************************************************************************)
(* The host's seat and the client agree: a pad is in it only while the     *)
(* client has a controller or its disconnection is on the way, and the     *)
(* last notification - shown, or on the way - says whether one is.  This   *)
(* is of the pads the host knows: one that the driver did not let go of    *)
(* (phantom) has left the seat, and the client was told that it is gone.   *)
(***************************************************************************)
Told == IF toClient = <<>> THEN shown ELSE Last(toClient)

PadsMirrored ==
  phase = "streaming" =>
    /\ seat # Unplugged => announced \/ Disconnect \in ToSet(toAgent)
    /\ Told = (seat # Unplugged)

(***************************************************************************)
(* No stuck key: one that is down on the host while the user has let go of *)
(* it has its release on the way.  The exceptions are those of the code: a *)
(* release while the window has no focus (window.rs takes no synthetic     *)
(* events), an event the operating system refused, and the end of the      *)
(* session, which releases nothing.  And no stuck modifier: on macOS it is *)
(* stamped on events only while one of its keys is held, or a release of   *)
(* one is on the way or was not seen.  (The converse does not hold: the    *)
(* release of one of its two keys clears it while the other is held.)      *)
(***************************************************************************)
KeysFollowed ==
  phase = "streaming" =>
    /\ \A k \in down \ held : k \in unseen \/ Key(k, FALSE) \in ToSet(toAgent)
    /\ flag => \E k \in Keys : k \in held \cup unseen \/ Key(k, FALSE) \in ToSet(toAgent)

(***************************************************************************)
(* A controller at rest is mirrored: what it reads reaches the virtual     *)
(* pad, although only changes are sent, across disconnections and whatever *)
(* was read in between, unless the last snapshot never reached one: the    *)
(* driver is missing or refused a plug or an update (dropped).             *)
(***************************************************************************)
Mirrored(state) == seat = state \/ ~injects \/ host = "macos"

PadSettles ==
  \A state \in PadStates :
    (phase = "streaming" /\ pad = state) ~>
      phase = "ended" \/ pad # state \/ Mirrored(state) \/ dropped

(***************************************************************************)
(* "The wire format is self-healing, so a dropped snapshot costs one poll  *)
(* interval rather than a stuck button" (gamepad_capture.rs, poll): where  *)
(* the driver answers, a snapshot it refused is made up for while the      *)
(* controller rests.  It is not: only changes are sent.                    *)
(***************************************************************************)
SnapshotsHeal ==
  \A state \in PadStates :
    (phase = "streaming" /\ pad = state) ~>
      phase = "ended" \/ pad # state \/ Mirrored(state) \/ driver = "unavailable"
=============================================================================
