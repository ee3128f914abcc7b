------------------------------ MODULE MCAccess ------------------------------
(***************************************************************************)
(* One client identity with two connections and two pairing exchanges.     *)
(* Only invariants are checked, and exchanges are told apart by nothing    *)
(* but their state, so permuting them is sound.  What the exchange, the    *)
(* files, the logs and the commands compute is checked over small inputs.  *)
(***************************************************************************)
EXTENDS Access, Exploration, Sequences, TLC

Seqs == INSTANCE SequencesExt

ExchangeSymmetry == Permutations(Exchanges)
-----------------------------------------------------------------------------
(* What the ends of a pairing compute.                                     *)

Trust == INSTANCE PeerTrust

Codes == {1, 2}
Grants == 1 .. 3
WindowsFound == {<<>>} \cup {<<[code |-> c, scope |-> g]>> : c \in Codes, g \in Grants}

\* Over an undisturbed connection both ends record each other, with the same
\* scope and no more than either asked or allowed, when a window is armed
\* with the client's code; otherwise neither records anything.
ASSUME PairedIffCodesMatch ==
  \A code \in Codes : \A requested \in Grants : \A found \in WindowsFound :
    LET client == Trust!ClientStart(code, 7, "laptop", requested, 11)
        done   == Trust!Exchange(client, found, 9, 12)
    IN  IF found # <<>> /\ (found # <<>> => found[1].code = code)
        THEN LET granted == IF requested <= found[1].scope THEN requested ELSE found[1].scope
             IN  /\ done.agent = <<[pin |-> 7, name |-> "laptop", scope |-> granted]>>
                 /\ done.client = <<[pin |-> 9, scope |-> granted]>>
        ELSE done.agent = <<>> /\ done.client = <<>>

\* A confirmation or a result counts only in the exchange it was made in:
\* that of one exchange verifies in no other, even with the same code, and a
\* result vouches for no other pin or scope than the agent's.
ASSUME TagsBindExchange ==
  \A secret \in {11, 13} : \A found \in WindowsFound \ {<<>>} :
    LET one     == Trust!ClientStart(found[1].code, 7, "laptop", 2, 11)
        two     == Trust!ClientStart(found[1].code, 8, "tablet", 2, secret)
        answers == [c \in {one, two} |-> Trust!Respond(found, Trust!Hello(c), 20 + c.pin)]
        said    == [c \in {one, two} |-> Trust!Confirm(c, answers[c].response)[1]]
        Result(c, pin, scope) == [Trust!Accept(answers[c].key[1], 9, 2) EXCEPT !.pin = pin, !.scope = scope]
    IN  /\ \A c, d \in {one, two} : Trust!Verify(answers[c].key[1], said[d].confirm) <=> c = d
        /\ \A c, d \in {one, two} : \A pin \in {9, 10} : \A scope \in Grants :
             Trust!Finish(said[d].key, Result(c, pin, scope)) # <<>> <=> c = d /\ pin = 9 /\ scope = 2

Agents == [pin : {9, 10}, open : BOOLEAN, peers : [{7, 8} -> 0 .. 3]]
Clients == [pin : {7, 8}, expects : {<<>>, <<9>>}]

\* A pinned client streams only from the agent it is pinned to, and from that
\* one at the scope it was granted, or not at all once it is no peer; an
\* anonymous client never streams but from an agent that runs open.
ASSUME AdmittedAsPaired ==
  \A agent \in Agents : \A client \in Clients :
    LET served == Trust!Connect(client, agent)
    IN  /\ client.expects # <<>> /\ agent.pin # 9 => served.serves = "refused"
        /\ ~agent.open /\ served.serves = "stream" =>
             client.expects # <<>> /\ served.scope = agent.peers[client.pin] /\ served.scope # 0
        /\ ~agent.open /\ client.expects = <<>> => served.serves = "pairing"
        /\ agent.open /\ served.serves # "refused" => served.serves = "stream"

\* A peer revoked between the handshake and the dispatch is taken for a
\* client that wants to pair, whatever scope it had.
ASSUME RevokedAtDispatchPairs ==
  \A agent \in {a \in Agents : ~a.open} : \A client \in {c \in Clients : c.expects = <<agent.pin>>} :
    Trust!Dispatch(client, [agent EXCEPT !.peers[client.pin] = 0]).serves = "pairing"

-----------------------------------------------------------------------------
(* Files and crashes.                                                      *)

IdentityRuns == StepsWithin(16, Trust!NoIdentity, LAMBDA f :
                  IF f.fresh > 3 THEN {} ELSE Trust!IdentitySteps(f))

\* With crashes at any point of writing: a run whose certificate was written
\* whole serves it with its own key, and once there is one every later run has
\* the same identity, so pins recorded by peers stay good.  A certificate torn
\* by a crash is loaded as it is, for good (load_or_generate reads whatever is
\* there).
ASSUME IdentityStays ==
  \A p \in IdentityRuns :
    /\ p[2].run # <<>> => p[2].run[1].key = [of |-> p[2].run[1].cert.of, whole |-> TRUE]
    /\ p[1].at = "running" => p[2].cert = p[1].cert /\ p[2].key = p[1].key
    /\ p[1].at = "start" /\ p[1].cert # Trust!Absent => p[2].cert = p[1].cert

\* Through crashes and failing saves the peer store never holds a torn list:
\* an agent that starts has the list of the last save that was finished, or
\* none when none was.
ASSUME PeerStoreNeverTorn ==
  \A p \in StepsWithin(12, Trust!NoPeerStore, LAMBDA s : Trust!PeerSteps(s, {{}, {1}, {1, 2}})) :
    /\ p[2].file # Trust!Absent => p[2].file[1].whole /\ p[2].file[1].of \in p[2].saved
    /\ p[1].file # p[2].file => p[1].memory[1] = p[2].file[1].of
    /\ p[1].at = "start" => \E q \in Trust!LoadPeers(p[1]) : TRUE

\* A client that crashed while saving its record has no agent, neither the old
\* nor the new one, and must pair again.
ASSUME TornRecordIsNone ==
  \A i \in 1 .. 2 :
    LET saved == Trust!SaveRecord(9)[i]
    IN  Trust!LoadAuth(FALSE, saved) = IF i = 2 THEN <<[kind |-> "pinned", agent |-> 9]>> ELSE <<>>

-----------------------------------------------------------------------------
(* Logs.                                                                   *)

Admin == INSTANCE AdminApi WITH Commands <- {1, 2}, MaxAttempts <- 2, Cap <- 3, QueueCap <- 2

\* The ring answers with the last lines logged, oldest first.
ASSUME RecentLinesLast ==
  \A n \in 0 .. 6 : \A k \in 0 .. 5 :
    LET ring == Seqs!FoldLeft(Admin!Push, <<>>, [i \in 1 .. n |-> i])
        kept == {x \in 1 .. n : x > n - 3 /\ x > n - k}
    IN  Admin!Recent(ring, k) = Seqs!SetToSortSeq(kept, <)

\* Every connection of the collector begins with the hello; over all of them
\* each line arrives at most once and in order, and a line that does not was
\* dropped from a full queue or lost with the write that failed.
ASSUME PushedInOrder ==
  \A p \in StepsWithin(11, Admin!NewPush, LAMBDA s :
            Admin!PushSteps(s) \cup (IF s.next > 4 THEN {} ELSE {Admin!PushLine(s)})) :
    LET s    == p[2]
        read == Seqs!FlattenSeq([i \in DOMAIN s.got |-> Tail(s.got[i])])
        rest == read \o s.held \o s.queue
    IN  /\ \A i \in DOMAIN s.got : s.got[i][1] = Admin!LogHello
        /\ \A i, j \in DOMAIN rest : i < j => rest[i] < rest[j]
        /\ Seqs!ToSet(rest) \cup s.lost = 1 .. s.next - 1
        /\ Seqs!ToSet(rest) \cap s.lost = {}

-----------------------------------------------------------------------------
(* The owner's commands.                                                   *)

\* Every line is answered in its turn, and no command meets a reply it has
\* no word for.
ASSUME RepliesUnderstood ==
  /\ \A command \in Admin!Requests \cup {"pair"} : \A r \in Admin!Asks(command) :
       command \notin {"begin_pairing", "pairing_status"} =>
         Admin!ProcessLine(r) \subseteq Admin!Understands(r)
  /\ \A lines \in [1 .. 2 -> {"status", "revoke", "rubbish"}] : \A r \in Admin!Served(lines) :
       Len(r) = 2 /\ \A i \in 1 .. 2 : lines[i] = "rubbish" => r[i] = "error"

\* No two commands report the same pairing.  A command is told of a pairing
\* while it polls, perhaps of one made with the code of another command; it
\* polls on without a window only when its window was burned or replaced, or
\* another command took the answer.
ASSUME PairingToldOnce ==
  \A p \in StepsWithin(9, Admin!Idle, LAMBDA s :
            IF s.exchanges > 2 \/ s.paired > 2 THEN {} ELSE Admin!PairSteps(s)) :
    LET s == p[2]
        Polls(c) == s.cmd[c] = "polling"
    IN  /\ \A c, d \in {1, 2} : c # d /\ s.told[c] # <<>> => s.told[c] # s.told[d]
        /\ \A c \in {1, 2} : (s.told[c] # <<>>) <=> s.cmd[c] = "paired"
        /\ \A c \in {1, 2} : Polls(c) /\ s.window = Admin!NoWindow =>
             \/ c \in s.burned \cup s.replaced
             \/ \E d \in {1, 2} \ {c} : s.cmd[d] \in {"paired", "expired"}
=============================================================================
