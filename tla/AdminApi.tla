------------------------------ MODULE AdminApi ------------------------------
(***************************************************************************)
(* The owner's commands (agent/main.rs) and the admin socket that answers  *)
(* them (session/admin.rs), a request and its reply a line each; and the   *)
(* lines an agent logs. The pairing window is the one of Access; here are  *)
(* the commands that arm it and wait, each polling once a second what they *)
(* share.                                                                  *)
(***************************************************************************)
EXTENDS Sequences, Integers

CONSTANTS Commands,       \* `gsa pair` processes
          MaxAttempts     \* MAX_ATTEMPTS

-----------------------------------------------------------------------------
(* Requests and replies.                                                   *)

Requests == {"status", "sources", "sessions", "logs", "peers", "revoke",
             "begin_pairing", "pairing_status"}

\* What answers a request: of the requests only revoking can fail.
Replies(request) ==
  CASE request = "begin_pairing" -> {"pairing"}
    [] request = "revoke"        -> {"revoke", "error"}
    [] OTHER                     -> {request}

\* A line that is no request is answered too, and the connection goes on.
ProcessLine(line) == IF line \in Requests THEN Replies(line) ELSE {"error"}

\* One reply a line, in the order of the lines.
Served(lines) == {r \in [DOMAIN lines -> UNION {ProcessLine(lines[i]) : i \in DOMAIN lines}] :
                    \A i \in DOMAIN lines : r[i] \in ProcessLine(lines[i])}

\* The requests a command makes, and for each the replies it understands.
Asks(command) == IF command = "pair" THEN {"begin_pairing", "pairing_status"} ELSE {command}
Understands(request) == {IF request = "begin_pairing" THEN "pairing" ELSE request, "error"}

-----------------------------------------------------------------------------
(* Commands waiting for a pairing.                                         *)

NoWindow == <<>>
Fresh(c) == <<[by |-> c, claimed |-> <<>>, expired |-> FALSE, attempts |-> 0]>>

Idle == [window |-> NoWindow, cmd |-> [c \in Commands |-> "none"], exchanges |-> 0,
         paired |-> 0, told |-> [c \in Commands |-> <<>>], burned |-> {}, replaced |-> {}]

\* begin replaces any window.
BeginPairing(s, c) ==
  IF s.cmd[c] # "none" THEN {}
  ELSE {[s EXCEPT !.window = Fresh(c), !.cmd[c] = "polling",
                  !.replaced = IF s.window = NoWindow THEN @ ELSE @ \cup {s.window[1].by}]}

\* An answered poll consumes a window that is claimed or has expired.
Poll(window) ==
  CASE window = NoWindow -> [kind |-> "idle", window |-> NoWindow]
    [] window # NoWindow /\ (window # NoWindow => window[1].claimed # <<>>) ->
         [kind |-> "completed", window |-> NoWindow]
    [] window # NoWindow /\ (window # NoWindow => window[1].claimed = <<>> /\ window[1].expired) ->
         [kind |-> "expired", window |-> NoWindow]
    [] OTHER -> [kind |-> "waiting", window |-> window]

\* The loop of a command: only a pairing or an expiry ends it.
PollOnce(s, c) ==
  LET poll == Poll(s.window)
  IN  IF s.cmd[c] # "polling" THEN {}
      ELSE {CASE poll.kind = "completed" ->
                   [s EXCEPT !.window = poll.window, !.cmd[c] = "paired", !.told[c] = s.window[1].claimed]
              [] poll.kind = "expired" -> [s EXCEPT !.window = poll.window, !.cmd[c] = "expired"]
              [] OTHER -> [s EXCEPT !.window = poll.window]}

-----------------------------------------------------------------------------
(* What else moves the window: the clock, and exchanges under way.         *)

Armed(window) ==
  window # NoWindow /\ (window # NoWindow => window[1].claimed = <<>> /\ ~window[1].expired)

Expire(s) == IF s.window = NoWindow THEN {} ELSE {[s EXCEPT !.window[1].expired = TRUE]}

Hello(s) == IF Armed(s.window) THEN {[s EXCEPT !.exchanges = @ + 1]} ELSE {}

RecordFailure(s) ==
  LET ends  == [s EXCEPT !.exchanges = @ - 1]
      burns == s.window[1].attempts + 1 >= MaxAttempts
  IN  IF s.exchanges = 0 THEN {}
      ELSE IF s.window = NoWindow THEN {ends}
      ELSE IF burns THEN {[ends EXCEPT !.window = NoWindow, !.burned = @ \cup {s.window[1].by}]}
      ELSE {[ends EXCEPT !.window[1].attempts = @ + 1]}

Complete(s) ==
  LET ends == [s EXCEPT !.exchanges = @ - 1, !.paired = @ + 1]
  IN  IF s.exchanges = 0 THEN {}
      ELSE IF s.window = NoWindow THEN {ends}
      ELSE {[ends EXCEPT !.window[1].claimed = <<ends.paired>>]}

PairSteps(s) ==
  UNION {BeginPairing(s, c) \cup PollOnce(s, c) : c \in Commands} \cup
  Expire(s) \cup Hello(s) \cup RecordFailure(s) \cup Complete(s)

-----------------------------------------------------------------------------
(* The lines an agent logs: the ring `gsa logs` reads (session/admin.rs)   *)
(* and the push to a collector over a connection that comes and goes       *)
(* (transport/logsink.rs).                                                 *)

CONSTANTS Cap,        \* LogBuffer::CAP
          QueueCap    \* lines waiting for the collector

\* The ring after a line.
Push(ring, line) == Append(IF Len(ring) >= Cap THEN Tail(ring) ELSE ring, line)

\* The most recent n lines, oldest first.
Recent(ring, n) == SubSeq(ring, (IF Len(ring) > n THEN Len(ring) - n ELSE 0) + 1, Len(ring))

-----------------------------------------------------------------------------
(* The push thread.  `got` is what each connection of the collector has    *)
(* read, the newest last; `lost` the lines that reached none of them.      *)

LogHello == 0

NewPush == [queue |-> <<>>, connected |-> FALSE, held |-> <<>>, got |-> <<>>, next |-> 1, lost |-> {}]

\* A writer never waits: a full queue drops the line.
PushLine(s) ==
  LET full == Len(s.queue) >= QueueCap
  IN  [s EXCEPT !.next = @ + 1,
                !.queue = IF full THEN @ ELSE Append(@, s.next),
                !.lost = IF full THEN @ \cup {s.next} ELSE @]

\* A connection that cannot be made, or whose hello fails, is tried again;
\* otherwise the hello is its first line.
Connect(s) == IF s.connected THEN {} ELSE {s, [s EXCEPT !.connected = TRUE, !.got = Append(@, <<LogHello>>)]}

\* The next line is taken from the queue before it is written.
Take(s) ==
  IF ~s.connected \/ s.held # <<>> \/ s.queue = <<>> THEN {}
  ELSE {[s EXCEPT !.held = <<Head(s.queue)>>, !.queue = Tail(@)]}

\* A failing write loses it with the connection.
Write(s) ==
  IF s.held = <<>> THEN {}
  ELSE {[s EXCEPT !.held = <<>>, !.got[Len(s.got)] = @ \o s.held],
        [s EXCEPT !.held = <<>>, !.connected = FALSE, !.lost = @ \cup {s.held[1]}]}

PushSteps(s) == Connect(s) \cup Take(s) \cup Write(s)
=============================================================================
