------------------------------- MODULE Access -------------------------------
(***************************************************************************)
(* Who may stream: the pairing window, the exchanges that run against it,  *)
(* the peer store with its file, the registry of live connections and the  *)
(* owner's admin requests, each in its own task of the agent.              *)
(*                                                                         *)
(* An exchange reads the window once, after the client's hello, and goes   *)
(* on with what it read across two awaits, while the owner may replace,    *)
(* poll or lose the window; a connection reads the store twice before it   *)
(* registers itself, while the owner may revoke its peer; a revocation     *)
(* removes, saves and closes in three steps, and the save may fail.        *)
(*                                                                         *)
(* The key exchange itself is external: a client either has the code the   *)
(* exchange runs on, and its confirmation verifies, or it does not.  The   *)
(* --open mode of the agent, without pins, is left out.                    *)
(***************************************************************************)
EXTENDS Naturals, FiniteSets

CONSTANTS
  Pins,        \* client identities
  Exchanges,   \* pairing connections that may run at once
  ConnsPerPin, \* streaming connections one identity may hold
  Scopes,      \* Scope, in its order
  MaxAttempts, \* MAX_ATTEMPTS
  MaxWindows   \* bound: windows armed

ASSUME AccessAssumption ==
  /\ IsFiniteSet(Exchanges)
  /\ Scopes \subseteq Nat \ {0}
  /\ MaxAttempts \in Nat \ {0}
  /\ MaxWindows \in Nat
  /\ ConnsPerPin \in Nat

VARIABLES
  window,   \* PairingState: the one pairing window
  codes,    \* codes generated so far
  exchange, \* what each pairing connection is doing
  peers,    \* PeerStore in memory: the scope of each paired pin, or 0
  file,     \* peers.json
  conn,     \* what each streaming connection is doing
  live,     \* LiveConns
  closed,   \* connections closed by a revocation
  revoking  \* pins whose Revoke is between remove and close_peer

VARIABLES
  authorized, \* history: the widest window whose code each pin has proved
  guesses,    \* history: wrong confirmations per code
  acked,      \* history: pins reported revoked and not paired since
  raced,      \* history: connections registered after their peer was revoked
  unsaved     \* history: pins whose last removal could not be saved

history == <<authorized, guesses, acked, raced, unsaved>>
vars == <<window, codes, exchange, peers, file, conn, live, closed, revoking, history>>

Conns == Pins \X (1 .. ConnsPerPin)
Of(p) == {k \in Conns : k[1] = p}

Min2(a, b) == IF a <= b THEN a ELSE b
Max2(a, b) == IF a >= b THEN a ELSE b

NoWindow == [code |-> 0, scope |-> 0, expired |-> FALSE, claimed |-> FALSE, attempts |-> 0]
NoExchange == [phase |-> "idle", code |-> 0, scope |-> 0]
NoPeers == [p \in Pins |-> 0]

Init ==
  /\ window = NoWindow
  /\ codes = 0
  /\ exchange = [e \in Exchanges |-> NoExchange]
  /\ peers = NoPeers /\ file = NoPeers
  /\ conn = [k \in Conns |-> "none"]
  /\ live = {} /\ closed = {} /\ revoking = {}
  /\ authorized = NoPeers
  /\ guesses = [c \in 1 .. MaxWindows |-> 0]
  /\ acked = {} /\ raced = {} /\ unsaved = {}

-----------------------------------------------------------------------------
(* The owner's requests on the pairing window.                             *)

windowRest == <<exchange, peers, file, conn, live, closed, revoking, history>>

\* begin: a fresh code; replaces any window.
BeginPairing(scope) ==
  /\ codes < MaxWindows
  /\ codes' = codes + 1
  /\ window' = [NoWindow EXCEPT !.code = codes + 1, !.scope = scope]
  /\ UNCHANGED windowRest

\* The window's two minutes pass.
Expire ==
  /\ window # NoWindow
  /\ window' = [window EXCEPT !.expired = TRUE]
  /\ UNCHANGED <<codes, windowRest>>

\* poll: a claimed or expired window is consumed by the answer.
PairingStatus ==
  /\ window.claimed \/ window.expired
  /\ window' = NoWindow
  /\ UNCHANGED <<codes, windowRest>>

-----------------------------------------------------------------------------
(* One pairing exchange (pair_inner).                                      *)

exchangeRest == <<codes, conn, live, closed, revoking, raced>>

Armed == window # NoWindow /\ ~window.claimed /\ ~window.expired

\* The hello arrives: without an armed window it is rejected, otherwise the
\* exchange goes on with the window's code and scope.
Hello(e) ==
  /\ exchange[e].phase = "idle"
  /\ Armed
  /\ exchange' = [exchange EXCEPT ![e] =
                    [phase |-> "confirm", code |-> window.code, scope |-> window.scope]]
  /\ UNCHANGED <<window, peers, file, authorized, guesses, acked, unsaved, exchangeRest>>

\* Mutant: the last attempt leaves the window armed.
RecordFailureUnburned ==
  window' = IF window = NoWindow \/ window.attempts + 1 >= MaxAttempts THEN window
            ELSE [window EXCEPT !.attempts = @ + 1]

\* A wrong confirmation counts against whatever window is there now.
RecordFailure ==
  window' = IF window = NoWindow THEN NoWindow
            ELSE IF window.attempts + 1 >= MaxAttempts THEN NoWindow
            ELSE [window EXCEPT !.attempts = @ + 1]

WrongCode(e) ==
  /\ exchange[e].phase = "confirm"
  /\ RecordFailure
  /\ guesses' = [guesses EXCEPT ![exchange[e].code] = @ + 1]
  /\ exchange' = [exchange EXCEPT ![e] = NoExchange]
  /\ UNCHANGED <<peers, file, authorized, acked, unsaved, exchangeRest>>

\* Mutant: the scope of the window open now.
GrantedNow(e, requested) ==
  IF window = NoWindow THEN requested ELSE Min2(requested, window.scope)

\* What a right confirmation is granted.
Granted(e, requested) == Min2(requested, exchange[e].scope)

(***************************************************************************)
(* A right confirmation: the store is updated in memory and then saved.    *)
(* When the save fails the exchange ends there, but the peer stays in      *)
(* memory.                                                                 *)
(***************************************************************************)
RightCode(e, p, requested) ==
  /\ exchange[e].phase = "confirm"
  /\ peers' = [peers EXCEPT ![p] = Granted(e, requested)]
  /\ authorized' = [authorized EXCEPT ![p] = Max2(@, exchange[e].scope)]
  /\ acked' = acked \ {p}
  /\ unsaved' = unsaved \ {p}
  /\ \/ /\ file' = peers'
        /\ exchange' = [exchange EXCEPT ![e].phase = "accept"]
     \/ /\ exchange' = [exchange EXCEPT ![e] = NoExchange]
        /\ UNCHANGED file
  /\ UNCHANGED <<window, guesses, exchangeRest>>

\* The acceptance is sent and the window, whichever it is, claimed.
Accept(e) ==
  /\ exchange[e].phase = "accept"
  /\ window' = IF window = NoWindow THEN NoWindow ELSE [window EXCEPT !.claimed = TRUE]
  /\ exchange' = [exchange EXCEPT ![e] = NoExchange]
  /\ UNCHANGED <<peers, file, authorized, guesses, acked, unsaved, exchangeRest>>

\* The connection fails at either await; the window is left as it is.
ExchangeFails(e) ==
  /\ exchange[e].phase # "idle"
  /\ exchange' = [exchange EXCEPT ![e] = NoExchange]
  /\ UNCHANGED <<window, peers, file, authorized, guesses, acked, unsaved, exchangeRest>>

-----------------------------------------------------------------------------
(* One streaming connection (the accept loop's task).                      *)

connRest == <<window, codes, exchange, peers, file, revoking, authorized, guesses,
              acked, unsaved>>

\* The handshake: only a certificate in the store passes.
Handshake(k) ==
  /\ conn[k] = "none"
  /\ peers[k[1]] # 0
  /\ conn' = [conn EXCEPT ![k] = "handshaken"]
  /\ UNCHANGED <<live, closed, raced, connRest>>

\* The scope is read; a peer gone meanwhile is taken for a pairing client.
ReadScope(k) ==
  /\ conn[k] = "handshaken"
  /\ conn' = [conn EXCEPT ![k] = IF peers[k[1]] # 0 THEN "scoped" ELSE "none"]
  /\ UNCHANGED <<live, closed, raced, connRest>>

\* ... and the connection registered and served.
Register(k) ==
  /\ conn[k] = "scoped"
  /\ conn' = [conn EXCEPT ![k] = "serving"]
  /\ live' = live \cup {k}
  /\ raced' = IF peers[k[1]] = 0 /\ k[1] \notin revoking THEN raced \cup {k} ELSE raced
  /\ UNCHANGED <<closed, connRest>>

\* Mutant: unregister drops every connection of the pin.
UnregisterAll(k) == live \ Of(k[1])

Unregister(k) == live \ {k}

\* The session loop ends, by itself or because a revocation closed it.
ServeEnds(k) ==
  /\ conn[k] = "serving"
  /\ conn' = [conn EXCEPT ![k] = "none"]
  /\ live' = Unregister(k)
  /\ closed' = closed \ {k}
  /\ raced' = raced \ {k}
  /\ UNCHANGED connRest

-----------------------------------------------------------------------------
(* Revocation.                                                             *)

revokeRest == <<window, codes, exchange, conn, live, closed, authorized, guesses, raced>>

\* Mutant: the reply is given before the file is written.
RemoveUnsaved(p) ==
  /\ p \notin revoking
  /\ peers' = [peers EXCEPT ![p] = 0]
  /\ revoking' = revoking \cup {p}
  /\ acked' = IF peers[p] # 0 THEN acked \cup {p} ELSE acked
  /\ UNCHANGED <<file, unsaved, revokeRest>>

(***************************************************************************)
(* peers.remove: the pin leaves the memory, then the file is saved; only a *)
(* pin that was there is saved.  When the save fails the reply is an error *)
(* and no connection is closed.                                            *)
(***************************************************************************)
Remove(p) ==
  /\ p \notin revoking
  /\ peers' = [peers EXCEPT ![p] = 0]
  /\ \/ /\ peers[p] # 0
        /\ file' = peers'
        /\ revoking' = revoking \cup {p}
        /\ acked' = acked \cup {p}
        /\ unsaved' = unsaved \ {p}
     \/ /\ peers[p] # 0
        /\ unsaved' = unsaved \cup {p}
        /\ UNCHANGED <<file, revoking, acked>>
     \/ /\ peers[p] = 0
        /\ revoking' = revoking \cup {p}
        /\ UNCHANGED <<file, acked, unsaved>>
  /\ UNCHANGED revokeRest

\* conns.close_peer: every registered connection of the pin is closed.
ClosePeer(p) ==
  /\ p \in revoking
  /\ revoking' = revoking \ {p}
  /\ closed' = closed \cup (live \cap Of(p))
  /\ live' = live \ Of(p)
  /\ unsaved' = unsaved \ {p}
  /\ UNCHANGED <<window, codes, exchange, peers, file, conn, authorized, guesses, acked,
                 raced>>

-----------------------------------------------------------------------------
\* The agent stops at any point and starts again from the file, which the
\* rename keeps whole.
Restart ==
  /\ window' = NoWindow
  /\ exchange' = [e \in Exchanges |-> NoExchange]
  /\ peers' = file
  /\ conn' = [k \in Conns |-> "none"]
  /\ live' = {} /\ closed' = {} /\ revoking' = {}
  /\ raced' = {} /\ unsaved' = {}
  /\ UNCHANGED <<codes, file, authorized, guesses, acked>>

Next ==
  \/ \E s \in Scopes : BeginPairing(s)
  \/ Expire \/ PairingStatus
  \/ \E e \in Exchanges :
       \/ Hello(e) \/ WrongCode(e) \/ Accept(e) \/ ExchangeFails(e)
       \/ \E p \in Pins, s \in Scopes : RightCode(e, p, s)
  \/ \E k \in Conns : Handshake(k) \/ ReadScope(k) \/ Register(k) \/ ServeEnds(k)
  \/ \E p \in Pins : Remove(p) \/ ClosePeer(p)
  \/ Restart

Spec == Init /\ [][Next]_vars

-----------------------------------------------------------------------------
(***************************************************************************)
(* The agent's state has the shape of PairingState, PeerStore and          *)
(* LiveConns; an exchange under way holds a code that was issued, and the  *)
(* registry only connections being served.                                 *)
(***************************************************************************)
TypeOK ==
  /\ window \in [code : 0 .. codes, scope : Scopes \cup {0}, expired : BOOLEAN,
                 claimed : BOOLEAN, attempts : 0 .. MaxAttempts - 1]
  /\ codes \in 0 .. MaxWindows
  /\ \A e \in Exchanges :
       /\ exchange[e].phase \in {"idle", "confirm", "accept"}
       /\ exchange[e].phase # "idle" => exchange[e].code \in 1 .. codes
  /\ {peers, file} \subseteq [Pins -> Scopes \cup {0}]
  /\ conn \in [Conns -> {"none", "handshaken", "scoped", "serving"}]
  /\ live \cup closed \cup raced \subseteq {k \in Conns : conn[k] = "serving"}
  /\ revoking \subseteq Pins

(***************************************************************************)
(* Nobody is granted more than the owner authorized when arming a window   *)
(* whose code he proved, in memory, on disk and after a restart, even when *)
(* a window with a wider scope has replaced it between his hello and his   *)
(* confirmation.                                                           *)
(***************************************************************************)
ScopeAuthorized == \A p \in Pins : peers[p] <= authorized[p] /\ file[p] <= authorized[p]

(***************************************************************************)
(* A code is burned after MAX_ATTEMPTS wrong confirmations.  Exchanges     *)
(* already past their hello still get their one guess each, so the bound   *)
(* is exceeded by at most the other exchanges under way.                   *)
(***************************************************************************)
GuessesBounded ==
  \A c \in 1 .. MaxWindows : guesses[c] <= MaxAttempts + Cardinality(Exchanges) - 1

(***************************************************************************)
(* A connection served for a pin that is not in the store is closed or     *)
(* about to be, with two exceptions: one that had read its scope before    *)
(* the removal and registers after close_peer has swept the registry, and  *)
(* those of a pin whose removal could not be saved, which close nothing    *)
(* until the revocation is tried again.                                    *)
(***************************************************************************)
LiveOnlyIfPaired ==
  \A k \in Conns :
    (conn[k] = "serving" /\ peers[k[1]] = 0) =>
      \/ k \in closed \/ k[1] \in revoking
      \/ k \in raced \/ k[1] \in unsaved

(***************************************************************************)
(* "Also drop any live session so revocation takes effect immediately"     *)
(* (admin.rs, Revoke): once the revocation has been answered no connection *)
(* of the peer is served but one that is closed.  A connection that reads  *)
(* its scope before the removal and registers after the sweep is.          *)
(***************************************************************************)
RevokedNotServed ==
  \A k \in Conns :
    k[1] \in acked \ revoking /\ conn[k] = "serving" => k \in closed

(***************************************************************************)
(* A peer whose removal was acknowledged stays out, across restarts and    *)
(* failed saves, until it pairs again.                                     *)
(***************************************************************************)
RevokedStaysOut == \A p \in acked : peers[p] = 0 /\ file[p] = 0
=============================================================================
