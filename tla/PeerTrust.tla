----------------------------- MODULE PeerTrust ------------------------------
(***************************************************************************)
(* What agent and client know of each other, in two parts.                 *)
(*                                                                         *)
(* The messages of a pairing: what the two ends of an exchange compute, and*)
(* how a connection is admitted once they are pinned to each other         *)
(* (transport/pairing.rs, pinned.rs, identity.rs, lib.rs; the dispatch of  *)
(* agent/main.rs; the client's record of its agent, client-dev/pairing.rs).*)
(* SPAKE2 and HMAC are external and symbolic: a message of an end stands   *)
(* for its code and its fresh secret; two ends hold the same key when each *)
(* finished with the other's message and their codes agree, and a key of   *)
(* its own otherwise; a tag verifies for what it was computed from.        *)
(*                                                                         *)
(* The files both keep across runs, and a crash at any point of writing    *)
(* them: the identity, its key before its certificate                      *)
(* (transport/identity.rs), the peer store, written aside and renamed      *)
(* (transport/peers.rs), and the client's record of its agent, written in  *)
(* place (client-dev/pairing.rs).  A file is nothing, or its content and   *)
(* whether all of it was written.  A process that crashes writes no more;  *)
(* what it had written stays.                                              *)
(***************************************************************************)
EXTENDS Naturals, Sequences

Min2(a, b) == IF a <= b THEN a ELSE b

Spake(code, secret) == [code |-> code, secret |-> secret]

Key(end, code, other, client, agent) ==
  [held |-> IF other.code = code THEN "by both" ELSE end, code |-> code,
   client |-> client, agent |-> agent]

Tag(key, label, pin, name, scope) ==
  [key |-> key, label |-> label, pin |-> pin, name |-> name, scope |-> scope]

Rejected == [kind |-> "rejected"]

-----------------------------------------------------------------------------
(* The client.                                                             *)

ClientStart(code, pin, name, scope, secret) ==
  [code |-> code, secret |-> secret, pin |-> pin, name |-> name, scope |-> scope]

Hello(client) == Spake(client.code, client.secret)

\* The key, and the confirmation that binds the client's pin to it; nothing
\* after a rejection.
Confirm(client, response) ==
  IF response = Rejected THEN <<>>
  ELSE LET key == Key("client", client.code, response.spake, client.secret, response.spake.secret)
       IN  <<[key     |-> key,
              confirm |-> [pin |-> client.pin, name |-> client.name, scope |-> client.scope,
                           tag |-> Tag(key, "client", client.pin, client.name, client.scope)]]>>

\* The agent's pin and the scope granted, when the agent's tag verifies.
Finish(key, result) ==
  IF result # Rejected /\ result.tag = Tag(key, "agent", result.pin, "", result.scope)
  THEN <<[pin |-> result.pin, scope |-> result.scope]>>
  ELSE <<>>

-----------------------------------------------------------------------------
(* The agent, against the window it found armed.                           *)

Respond(window, hello, secret) ==
  IF window = <<>> THEN [response |-> Rejected, key |-> <<>>]
  ELSE [response |-> [kind |-> "spake", spake |-> Spake(window[1].code, secret)],
        key      |-> <<Key("agent", window[1].code, hello, hello.secret, secret)>>]

Verify(key, confirm) ==
  confirm.tag = Tag(key, "client", confirm.pin, confirm.name, confirm.scope)

Accept(key, pin, granted) ==
  [kind |-> "accepted", pin |-> pin, scope |-> granted, tag |-> Tag(key, "agent", pin, "", granted)]

\* The peer the agent records, if any, and what it answers the confirmation.
Decide(window, key, confirm, pin) ==
  LET granted == Min2(confirm.scope, window[1].scope)
  IN  IF ~Verify(key, confirm) THEN [peer |-> <<>>, result |-> Rejected]
      ELSE [peer   |-> <<[pin |-> confirm.pin, name |-> confirm.name, scope |-> granted]>>,
            result |-> Accept(key, pin, granted)]

\* A whole exchange over an undisturbed connection: what each end records.
Exchange(client, window, agentPin, secret) ==
  LET agent     == Respond(window, Hello(client), secret)
      confirmed == Confirm(client, agent.response)
      decided   == Decide(window, agent.key[1], confirmed[1].confirm, agentPin)
  IN  IF confirmed = <<>> THEN [agent |-> <<>>, client |-> <<>>]
      ELSE [agent |-> decided.peer, client |-> Finish(confirmed[1].key, decided.result)]

-----------------------------------------------------------------------------
(* Admission.  An agent is its pin, whether it runs open, and the scope of *)
(* each of its peers, 0 for a pin that is none; a client its pin and the   *)
(* agent's pin it recorded, or nothing when it connects anonymously.       *)

\* The client's verifier, for the certificate of the agent it reached.
AcceptsServer(client, agent) == client.expects = <<>> \/ client.expects[1] = agent.pin

\* The pin the agent sees: only a pinned client presents its certificate,
\* and an open agent asks for none.
PeerPin(client, agent) == IF client.expects = <<>> \/ agent.open THEN <<>> ELSE <<client.pin>>

\* The agent's verifier: no certificate is no peer yet, another's is refused.
AcceptsClient(client, agent) ==
  LET pin == PeerPin(client, agent) IN pin = <<>> \/ agent.peers[pin[1]] # 0

\* What an admitted connection is served as, with the peers of that moment.
Dispatch(client, agent) ==
  LET pin == PeerPin(client, agent)
  IN  CASE agent.open -> [serves |-> "stream", scope |-> 2]
        [] ~agent.open /\ pin # <<>> /\ (pin # <<>> => agent.peers[pin[1]] # 0) ->
             [serves |-> "stream", scope |-> agent.peers[pin[1]]]
        [] OTHER -> [serves |-> "pairing", scope |-> 0]

Connect(client, agent) ==
  IF AcceptsServer(client, agent) /\ AcceptsClient(client, agent)
  THEN Dispatch(client, agent)
  ELSE [serves |-> "refused", scope |-> 0]

-----------------------------------------------------------------------------
(* The files.                                                              *)

Absent == <<>>
Torn(x) == <<[of |-> x, whole |-> FALSE]>>
Whole(x) == <<[of |-> x, whole |-> TRUE]>>

\* Writing in place: the file is truncated, then filled.
WriteInPlace(x) == <<Torn(x), Whole(x)>>

-----------------------------------------------------------------------------
(* The identity.  `run` is what the process has in memory: nothing before  *)
(* it has an identity, then the pair of the identities its certificate and *)
(* its key belong to.                                                      *)

NoIdentity == [key |-> Absent, cert |-> Absent, at |-> "start", run |-> <<>>, fresh |-> 0]

\* Both files are read as they are; without one of them a pair is generated.
LoadIdentity(f) ==
  IF f.at # "start" THEN {}
  ELSE IF f.key # Absent /\ f.cert # Absent
       THEN {[f EXCEPT !.at = "running", !.run = <<[cert |-> f.cert[1], key |-> f.key[1]]>>]}
       ELSE {[f EXCEPT !.at = "open key", !.fresh = @ + 1]}

\* write_private, then the certificate; either may fail, which ends the run.
WriteIdentity(f) ==
  LET torn  == Torn(f.fresh)
      whole == Whole(f.fresh)
      next  == CASE f.at = "open key"  -> {[f EXCEPT !.at = "fill key", !.key = torn]}
                 [] f.at = "fill key"  -> {[f EXCEPT !.at = "open cert", !.key = whole]}
                 [] f.at = "open cert" -> {[f EXCEPT !.at = "fill cert", !.cert = torn]}
                 [] f.at = "fill cert" ->
                      {[f EXCEPT !.at = "running", !.cert = whole,
                                 !.run = <<[cert |-> whole[1], key |-> whole[1]]>>]}
                 [] OTHER -> {}
  IN  next

\* A crash, or a failing call: the next run starts over from the files.
Restarted(f) == [f EXCEPT !.at = "start", !.run = <<>>]

IdentitySteps(f) == LoadIdentity(f) \cup WriteIdentity(f) \cup {Restarted(f)}

-----------------------------------------------------------------------------
(* The peer store: `memory` is nothing while the agent does not run, or    *)
(* cannot, for the file is no list of peers.                               *)

NoPeerStore == [file |-> Absent, aside |-> Absent, memory |-> <<>>, at |-> "start", saved |-> {}]

LoadPeers(s) ==
  CASE s.at = "start" /\ s.file = Absent ->
         {[s EXCEPT !.at = "idle", !.memory = <<{}>>]}
    [] s.at = "start" /\ s.file # Absent /\ (s.file # Absent => s.file[1].whole) ->
         {[s EXCEPT !.at = "idle", !.memory = <<s.file[1].of>>]}
    [] OTHER -> {}

\* add and remove change the memory and then persist it.
ChangePeers(s, change) ==
  IF s.at # "idle" \/ change = s.memory[1] THEN {}
  ELSE {[s EXCEPT !.at = "open aside", !.memory = <<change>>]}

\* Any step that fails leaves the memory changed and the file as it was.
PersistPeers(s) ==
  LET failed == [s EXCEPT !.at = "idle"]
      next   == CASE s.at = "open aside" -> {[s EXCEPT !.at = "fill aside", !.aside = Torn(s.memory[1])]}
                  [] s.at = "fill aside" -> {[s EXCEPT !.at = "rename", !.aside = Whole(s.memory[1])]}
                  [] s.at = "rename"     -> {[s EXCEPT !.at = "idle", !.file = s.aside, !.aside = Absent,
                                                       !.saved = @ \cup {s.aside[1].of}]}
                  [] OTHER               -> {}
  IN  IF next = {} THEN {} ELSE next \cup {failed}

AgentCrash(s) == [s EXCEPT !.at = "start", !.memory = <<>>]

PeerSteps(s, lists) ==
  LoadPeers(s) \cup UNION {ChangePeers(s, l) : l \in lists} \cup PersistPeers(s) \cup {AgentCrash(s)}

-----------------------------------------------------------------------------
(* The client's record of the agent it paired with.                        *)

\* What loading a record yields: the agent, or nothing when there is none or
\* it does not parse.
LoadRecord(file) == IF file # Absent /\ (file # Absent => file[1].whole) THEN <<file[1].of>> ELSE <<>>

\* The files a save of `agent` goes through, the last when it is done.
SaveRecord(agent) == WriteInPlace(agent)

\* How a client will connect: openly when asked to, pinned to the recorded
\* agent, or not at all before it has paired.
LoadAuth(open, file) ==
  IF open THEN <<[kind |-> "open"]>>
  ELSE IF LoadRecord(file) = <<>> THEN <<>>
  ELSE <<[kind |-> "pinned", agent |-> LoadRecord(file)[1]]>>
=============================================================================
