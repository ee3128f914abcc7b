----------------------------- MODULE AccessProofs -----------------------------
(***************************************************************************)
(* Proofs about who may stream, for every set of identities, exchanges and *)
(* connections, every scope, number of attempts and number of windows.     *)
(*                                                                         *)
(* The types come first, with what ties the window and the exchanges to    *)
(* the codes that were issued (TypeInv).  Each safety property then has    *)
(* its own strengthening, preserved by the steps that touch what it speaks *)
(* of; all the other steps leave its variables alone.                      *)
(***************************************************************************)
EXTENDS Access, FiniteSetTheorems, TLAPS

Phases == {"idle", "confirm", "accept"}
ExchangeStates == [phase : Phases, code : Nat, scope : Scopes \cup {0}]

Windows == [code : 0 .. codes, scope : Scopes \cup {0}, expired : BOOLEAN,
            claimed : BOOLEAN, attempts : 0 .. MaxAttempts - 1]

Shapes ==
  /\ exchange \in [Exchanges -> ExchangeStates]
  /\ authorized \in [Pins -> Nat]
  /\ guesses \in [1 .. MaxWindows -> Nat]
  /\ acked \subseteq Pins

(* An open window has an issued code and a scope the owner can ask for.    *)
WindowIssued == window = NoWindow \/ (window.code \in 1 .. codes /\ window.scope \in Scopes)

(* So has what an exchange read of it: peers are never granted scope 0.    *)
ExchangesIssued ==
  \A e \in Exchanges :
    exchange[e].phase # "idle" => exchange[e].code \in 1 .. codes /\ exchange[e].scope \in Scopes

TypeInv == TypeOK /\ Shapes /\ WindowIssued /\ ExchangesIssued

-----------------------------------------------------------------------------
(* The agent starts with no window, no exchange and nobody served.         *)
LEMMA TypeInit == Init => TypeInv
BY AccessAssumption
   DEF Init, TypeInv, TypeOK, Shapes, WindowIssued, ExchangesIssued, NoWindow, NoExchange,
       NoPeers, Phases, ExchangeStates, Conns

(* Each action keeps the shapes and the code numbers issued so far.        *)
LEMMA TypeStep == TypeInv /\ [Next]_vars => TypeInv'
<1> SUFFICES ASSUME TypeInv, [Next]_vars PROVE TypeInv'
  OBVIOUS
<1> USE AccessAssumption DEF TypeInv, TypeOK, Shapes, WindowIssued, ExchangesIssued, Phases, ExchangeStates
<1>1. ASSUME NEW s \in Scopes, BeginPairing(s) PROVE TypeInv'
  <2>1. window' = [code |-> codes + 1, scope |-> s, expired |-> FALSE, claimed |-> FALSE, attempts |-> 0]
    BY <1>1 DEF BeginPairing, NoWindow
  <2>2. codes' \in 0 .. MaxWindows /\ codes' = codes + 1
    BY <1>1 DEF BeginPairing
  <2>3. UNCHANGED <<exchange, peers, file, conn, live, closed, revoking, authorized, guesses, acked, raced>>
    BY <1>1 DEF BeginPairing, windowRest, history
  <2>4. window' \in Windows' /\ WindowIssued'
    BY <2>1, <2>2 DEF Windows
  <2>5. ExchangesIssued'
    <3> SUFFICES ASSUME NEW e \in Exchanges, exchange[e].phase # "idle"
                 PROVE  exchange[e].code \in 1 .. codes' /\ exchange[e].scope \in Scopes
      BY <2>3
    <3> QED
      BY <2>2
  <2>6. \A e \in Exchanges : /\ exchange'[e].phase \in Phases
                              /\ exchange'[e].phase # "idle" => exchange'[e].code \in 1 .. codes'
    BY <2>3, <2>5
  <2>7. /\ {peers', file'} \subseteq [Pins -> Scopes \cup {0}]
        /\ conn' \in [Conns -> {"none", "handshaken", "scoped", "serving"}]
        /\ live' \cup closed' \cup raced' \subseteq {k \in Conns : conn'[k] = "serving"}
        /\ revoking' \subseteq Pins
    BY <2>3
  <2>8. Shapes'
    BY <2>3
  <2> QED
    BY <2>2, <2>4, <2>5, <2>6, <2>7, <2>8 DEF Windows
<1>2. CASE Expire
  BY <1>2 DEF Expire, NoWindow, windowRest, history
<1>3. CASE PairingStatus
  BY <1>3 DEF PairingStatus, NoWindow, windowRest, history
<1>4. ASSUME NEW e \in Exchanges, Hello(e) PROVE TypeInv'
  BY <1>4 DEF Hello, Armed, exchangeRest
<1>5. ASSUME NEW e \in Exchanges, WrongCode(e) PROVE TypeInv'
  <2>1. window' \in Windows' /\ WindowIssued'
    <3>1. CASE window = NoWindow \/ window.attempts + 1 >= MaxAttempts
      BY <1>5, <3>1 DEF WrongCode, RecordFailure, NoWindow, exchangeRest, Windows
    <3>2. CASE window # NoWindow /\ window.attempts + 1 < MaxAttempts
      <4>1. window' = [window EXCEPT !.attempts = @ + 1]
        BY <1>5, <3>2 DEF WrongCode, RecordFailure
      <4>2. codes' = codes
        BY <1>5 DEF WrongCode, exchangeRest
      <4>3. window.attempts + 1 \in 0 .. MaxAttempts - 1
        BY <3>2
      <4>4. window' \in Windows'
        BY <4>1, <4>2, <4>3 DEF Windows
      <4>5. WindowIssued'
        BY <3>2, <4>1, <4>2 DEF NoWindow
      <4> QED
        BY <4>4, <4>5
    <3> QED
      BY <3>1, <3>2
  <2>2. guesses' \in [1 .. MaxWindows -> Nat]
    BY <1>5 DEF WrongCode
  <2>3. exchange' = [exchange EXCEPT ![e] = NoExchange]
    BY <1>5 DEF WrongCode
  <2>4. UNCHANGED <<codes, peers, file, conn, live, closed, revoking, authorized, acked, raced>>
    BY <1>5 DEF WrongCode, exchangeRest
  <2> QED
    BY <2>1, <2>2, <2>3, <2>4 DEF NoExchange, Windows
<1>6. ASSUME NEW e \in Exchanges, Accept(e) PROVE TypeInv'
  BY <1>6 DEF Accept, NoWindow, NoExchange, exchangeRest
<1>7. ASSUME NEW e \in Exchanges, ExchangeFails(e) PROVE TypeInv'
  BY <1>7 DEF ExchangeFails, NoExchange, exchangeRest
<1>8. ASSUME NEW e \in Exchanges, NEW p \in Pins, NEW s \in Scopes, RightCode(e, p, s) PROVE TypeInv'
  <2>1. Granted(e, s) \in Scopes
    BY <1>8 DEF RightCode, Granted, Min2
  <2>2. peers' \in [Pins -> Scopes \cup {0}]
    BY <1>8, <2>1 DEF RightCode
  <2>3. file' \in [Pins -> Scopes \cup {0}]
    BY <1>8, <2>2 DEF RightCode
  <2>4. authorized' \in [Pins -> Nat]
    BY <1>8 DEF RightCode, Max2
  <2>5. exchange' = [exchange EXCEPT ![e].phase = "accept"] \/ exchange' = [exchange EXCEPT ![e] = NoExchange]
    BY <1>8 DEF RightCode
  <2>6. UNCHANGED <<window, codes, conn, live, closed, revoking, guesses, raced>> /\ acked' \subseteq Pins
    BY <1>8 DEF RightCode, exchangeRest
  <2>7. exchange' \in [Exchanges -> ExchangeStates]
    <3>1. [exchange[e] EXCEPT !.phase = "accept"] \in ExchangeStates
      OBVIOUS
    <3>2. NoExchange \in ExchangeStates
      BY DEF NoExchange
    <3> QED
      BY <2>5, <3>1, <3>2
  <2>8. ExchangesIssued'
    <3> SUFFICES ASSUME NEW d \in Exchanges, exchange'[d].phase # "idle"
                 PROVE  exchange'[d].code \in 1 .. codes /\ exchange'[d].scope \in Scopes
      BY <2>6
    <3>1. CASE d = e
      <4>1. exchange[e].code \in 1 .. codes /\ exchange[e].scope \in Scopes
        BY <1>8 DEF RightCode
      <4>2. exchange' = [exchange EXCEPT ![e].phase = "accept"]
        BY <2>5, <3>1 DEF NoExchange
      <4> QED
        BY <3>1, <4>1, <4>2
    <3>2. CASE d # e
      BY <2>5, <3>2
    <3> QED
      BY <3>1, <3>2
  <2> QED
    BY <2>2, <2>3, <2>4, <2>6, <2>7, <2>8
<1>9. ASSUME NEW k \in Conns, Handshake(k) PROVE TypeInv'
  BY <1>9 DEF Handshake, connRest
<1>10. ASSUME NEW k \in Conns, ReadScope(k) PROVE TypeInv'
  BY <1>10 DEF ReadScope, connRest
<1>11. ASSUME NEW k \in Conns, Register(k) PROVE TypeInv'
  BY <1>11 DEF Register, connRest
<1>12. ASSUME NEW k \in Conns, ServeEnds(k) PROVE TypeInv'
  BY <1>12 DEF ServeEnds, Unregister, connRest
<1>13. ASSUME NEW p \in Pins, Remove(p) PROVE TypeInv'
  <2>1. peers' \in [Pins -> Scopes \cup {0}] /\ file' \in [Pins -> Scopes \cup {0}]
    BY <1>13 DEF Remove
  <2>2. revoking' \subseteq Pins /\ acked' \subseteq Pins
    BY <1>13 DEF Remove
  <2>3. UNCHANGED <<window, codes, exchange, conn, live, closed, authorized, guesses, raced>>
    BY <1>13 DEF Remove, revokeRest
  <2> QED
    BY <2>1, <2>2, <2>3
<1>14. ASSUME NEW p \in Pins, ClosePeer(p) PROVE TypeInv'
  BY <1>14 DEF ClosePeer
<1>15. CASE Restart
  BY <1>15 DEF Restart, NoWindow, NoExchange
<1>16. CASE UNCHANGED vars
  BY <1>16 DEF vars, history
<1> QED
  BY <1>1, <1>2, <1>3, <1>4, <1>5, <1>6, <1>7, <1>8, <1>9, <1>10, <1>11, <1>12, <1>13, <1>14,
     <1>15, <1>16 DEF Next

-----------------------------------------------------------------------------
(* The agent's state keeps its shape, whatever the owner and the clients do. *)
THEOREM TypeCorrect == Spec => []TypeOK
<1>1. Spec => []TypeInv
  BY TypeInit, TypeStep, PTL DEF Spec
<1>2. TypeInv => TypeOK
  BY DEF TypeInv
<1> QED
  BY <1>1, <1>2, PTL

-----------------------------------------------------------------------------
(* Only RightCode writes a scope, and it raises what is authorized with it; *)
(* a removal and a restart only copy what the memory or the file held.      *)
LEMMA ScopeStep == TypeInv /\ ScopeAuthorized /\ [Next]_vars => ScopeAuthorized'
<1> SUFFICES ASSUME TypeInv, ScopeAuthorized, [Next]_vars PROVE ScopeAuthorized'
  OBVIOUS
<1> USE DEF ScopeAuthorized
<1>1. CASE UNCHANGED <<peers, file, authorized>>
  BY <1>1
<1>2. ASSUME NEW e \in Exchanges, NEW p \in Pins, NEW s \in Scopes, RightCode(e, p, s)
      PROVE  ScopeAuthorized'
  <2> SUFFICES ASSUME NEW q \in Pins PROVE peers'[q] <= authorized'[q] /\ file'[q] <= authorized'[q]
    OBVIOUS
  <2>1. /\ peers' = [peers EXCEPT ![p] = Granted(e, s)]
        /\ authorized' = [authorized EXCEPT ![p] = Max2(@, exchange[e].scope)]
        /\ file' \in {peers', file}
    BY <1>2 DEF RightCode
  <2>2. /\ exchange[e].scope \in Nat /\ s \in Nat
        /\ peers \in [Pins -> Nat] /\ file \in [Pins -> Nat] /\ authorized \in [Pins -> Nat]
    <3>1. Scopes \cup {0} \subseteq Nat
      BY AccessAssumption
    <3>2. exchange[e] \in ExchangeStates /\ authorized \in [Pins -> Nat]
      BY DEF TypeInv, Shapes
    <3>3. peers \in [Pins -> Scopes \cup {0}] /\ file \in [Pins -> Scopes \cup {0}]
      BY DEF TypeInv, TypeOK
    <3> QED
      BY <3>1, <3>2, <3>3 DEF ExchangeStates
  <2>3. /\ Granted(e, s) <= authorized'[p] /\ authorized[p] <= authorized'[p]
        /\ Granted(e, s) \in Nat /\ authorized'[p] \in Nat
    BY <2>1, <2>2 DEF Granted, Min2, Max2
  <2>4. peers'[q] <= authorized'[q]
    BY <2>1, <2>2, <2>3
  <2>5. file[q] <= authorized'[q]
    BY <2>1, <2>2, <2>3
  <2> QED
    BY <2>1, <2>4, <2>5
<1>3. ASSUME NEW p \in Pins, Remove(p) PROVE ScopeAuthorized'
  <2>1. /\ peers' = [peers EXCEPT ![p] = 0] /\ file' \in {peers', file}
        /\ authorized' = authorized
    BY <1>3 DEF Remove, revokeRest
  <2> QED
    BY <2>1, AccessAssumption DEF TypeInv, TypeOK, Shapes
<1>4. CASE Restart
  BY <1>4 DEF Restart
<1> QED
  BY <1>1, <1>2, <1>3, <1>4
  DEF Next, vars, history, BeginPairing, windowRest, Expire, PairingStatus, Hello, WrongCode, Accept,
      ExchangeFails, exchangeRest, Handshake, ReadScope, Register, ServeEnds, connRest, ClosePeer

(* Nobody is granted more than the owner authorized (pair_inner grants the  *)
(* scope read at the hello, whatever window is open at the confirmation).   *)
THEOREM GrantedAsAuthorized == Spec => []ScopeAuthorized
<1>1. Init => ScopeAuthorized
  BY DEF Init, ScopeAuthorized, NoPeers
<1> QED
  BY <1>1, TypeInit, TypeStep, ScopeStep, PTL DEF Spec

-----------------------------------------------------------------------------
(* Every save writes the whole memory, so a pin once out of both can come   *)
(* back only by pairing, which takes it out of acked.                       *)
LEMMA RevokedStep == TypeInv /\ RevokedStaysOut /\ [Next]_vars => RevokedStaysOut'
<1> SUFFICES ASSUME TypeInv, RevokedStaysOut, [Next]_vars PROVE RevokedStaysOut'
  OBVIOUS
<1> USE DEF RevokedStaysOut
<1>1. CASE UNCHANGED <<peers, file, acked>>
  BY <1>1
<1>2. ASSUME NEW e \in Exchanges, NEW p \in Pins, NEW s \in Scopes, RightCode(e, p, s)
      PROVE  RevokedStaysOut'
  BY <1>2 DEF RightCode, TypeInv, TypeOK, Shapes
<1>3. ASSUME NEW p \in Pins, Remove(p) PROVE RevokedStaysOut'
  BY <1>3 DEF Remove, TypeInv, TypeOK, Shapes
<1>4. CASE Restart
  BY <1>4 DEF Restart
<1> QED
  BY <1>1, <1>2, <1>3, <1>4
  DEF Next, vars, history, BeginPairing, windowRest, Expire, PairingStatus, Hello, WrongCode, Accept,
      ExchangeFails, exchangeRest, Handshake, ReadScope, Register, ServeEnds, connRest, ClosePeer

(* An acknowledged revocation outlives restarts and failed saves.           *)
THEOREM RevocationLasts == Spec => []RevokedStaysOut
<1>1. Init => RevokedStaysOut
  BY DEF Init, RevokedStaysOut
<1> QED
  BY <1>1, TypeInit, TypeStep, RevokedStep, PTL DEF Spec

-----------------------------------------------------------------------------
(* close_peer reaches every connection being served: it is in the registry, *)
(* or has been closed already.                                              *)
ServedIsKnown == \A k \in Conns : conn[k] = "serving" => k \in live \cup closed

(* Each action that touches the store, a connection or a revocation.       *)
LEMMA LiveStep ==
  TypeInv /\ LiveOnlyIfPaired /\ ServedIsKnown /\ [Next]_vars => (LiveOnlyIfPaired /\ ServedIsKnown)'
<1> SUFFICES ASSUME TypeInv, LiveOnlyIfPaired, ServedIsKnown, [Next]_vars
             PROVE  (LiveOnlyIfPaired /\ ServedIsKnown)'
  OBVIOUS
<1> USE DEF LiveOnlyIfPaired, ServedIsKnown, TypeInv, TypeOK
<1>0. CASE UNCHANGED <<peers, conn, live, closed, revoking, raced, unsaved>>
  BY <1>0
<1>8. ASSUME NEW e \in Exchanges, NEW p \in Pins, NEW s \in Scopes, RightCode(e, p, s)
      PROVE  (LiveOnlyIfPaired /\ ServedIsKnown)'
  <2>1. peers' = [peers EXCEPT ![p] = Granted(e, s)] /\ unsaved' = unsaved \ {p}
        /\ UNCHANGED <<conn, live, closed, revoking, raced>>
    BY <1>8 DEF RightCode, exchangeRest
  <2>2. Granted(e, s) # 0
    BY <1>8, AccessAssumption DEF RightCode, Granted, Min2, ExchangesIssued
  <2> QED
    BY <2>1, <2>2
<1>9. ASSUME NEW k \in Conns, Handshake(k) PROVE (LiveOnlyIfPaired /\ ServedIsKnown)'
  BY <1>9 DEF Handshake, connRest
<1>10. ASSUME NEW k \in Conns, ReadScope(k) PROVE (LiveOnlyIfPaired /\ ServedIsKnown)'
  BY <1>10 DEF ReadScope, connRest
<1>11. ASSUME NEW k \in Conns, Register(k) PROVE (LiveOnlyIfPaired /\ ServedIsKnown)'
  BY <1>11 DEF Register, connRest
<1>12. ASSUME NEW k \in Conns, ServeEnds(k) PROVE (LiveOnlyIfPaired /\ ServedIsKnown)'
  BY <1>12 DEF ServeEnds, Unregister, connRest
<1>13. ASSUME NEW p \in Pins, Remove(p) PROVE (LiveOnlyIfPaired /\ ServedIsKnown)'
  BY <1>13 DEF Remove, revokeRest
<1>14. ASSUME NEW p \in Pins, ClosePeer(p) PROVE (LiveOnlyIfPaired /\ ServedIsKnown)'
  BY <1>14 DEF ClosePeer, Of
<1>15. CASE Restart
  BY <1>15 DEF Restart
<1> QED
  BY <1>0, <1>8, <1>9, <1>10, <1>11, <1>12, <1>13, <1>14, <1>15
  DEF Next, vars, history, BeginPairing, windowRest, Expire, PairingStatus, Hello, WrongCode, Accept,
      ExchangeFails, exchangeRest

(* A connection served for a pin that is not in the store is closed, about  *)
(* to be, or one of the two exceptions in the code.                         *)
THEOREM RevokedAreClosed == Spec => []LiveOnlyIfPaired
<1>1. Init => LiveOnlyIfPaired /\ ServedIsKnown
  BY DEF Init, LiveOnlyIfPaired, ServedIsKnown
<1> QED
  BY <1>1, TypeInit, TypeStep, LiveStep, PTL DEF Spec

-----------------------------------------------------------------------------
(* The exchanges that may still guess at code c.                            *)
Guessing(c) == {e \in Exchanges : exchange[e].phase = "confirm" /\ exchange[e].code = c}

(***************************************************************************)
(* Why a code survives no more guesses.  While its window is open every    *)
(* guess at it is among the window's attempts, which stay below            *)
(* MAX_ATTEMPTS.  Once the window is gone no exchange can learn the code   *)
(* again, and the guesses left are one for each exchange that has it.      *)
(***************************************************************************)
GuessBudget ==
  \A c \in 1 .. MaxWindows :
    /\ c > codes => guesses[c] = 0
    /\ c = window.code => guesses[c] <= window.attempts
    /\ c # window.code =>
         guesses[c] + Cardinality(Guessing(c)) <= MaxAttempts + Cardinality(Exchanges) - 1

(* Exchanges are finitely many, so the guesses left can be counted.        *)
LEMMA FewGuessing ==
  ASSUME NEW c
  PROVE  /\ IsFiniteSet(Guessing(c)) /\ Cardinality(Guessing(c)) \in Nat
         /\ Cardinality(Exchanges) \in Nat
         /\ Cardinality(Guessing(c)) <= Cardinality(Exchanges)
BY AccessAssumption, FS_Subset, FS_CardinalityType DEF Guessing

(* No code, no guess.                                                      *)
LEMMA GuessInit == Init => GuessBudget
<1> SUFFICES ASSUME Init, NEW c \in 1 .. MaxWindows
             PROVE  /\ c > codes => guesses[c] = 0
                    /\ c = window.code => guesses[c] <= window.attempts
                    /\ c # window.code =>
                         guesses[c] + Cardinality(Guessing(c)) <= MaxAttempts + Cardinality(Exchanges) - 1
  BY DEF GuessBudget
<1> QED
  BY FewGuessing, AccessAssumption DEF Init, NoWindow

(* A guess takes an exchange out of Guessing; a window replaced or expired *)
(* leaves at most all but one of them.                                     *)
LEMMA GuessStep == TypeInv /\ GuessBudget /\ [Next]_vars => GuessBudget'
<1> SUFFICES ASSUME TypeInv, GuessBudget, [Next]_vars, NEW c \in 1 .. MaxWindows
             PROVE  /\ c > codes' => guesses'[c] = 0
                    /\ c = window'.code => guesses'[c] <= window'.attempts
                    /\ c # window'.code =>
                         guesses'[c] + Cardinality(Guessing(c)')
                           <= MaxAttempts + Cardinality(Exchanges) - 1
  BY DEF GuessBudget
<1> DEFINE Kept == /\ c > codes' => guesses'[c] = 0
                   /\ c = window'.code => guesses'[c] <= window'.attempts
                   /\ c # window'.code =>
                        guesses'[c] + Cardinality(Guessing(c)')
                          <= MaxAttempts + Cardinality(Exchanges) - 1
<1>a. /\ c > codes => guesses[c] = 0
      /\ c = window.code => guesses[c] <= window.attempts
      /\ c # window.code =>
           guesses[c] + Cardinality(Guessing(c)) <= MaxAttempts + Cardinality(Exchanges) - 1
  BY DEF GuessBudget
<1>b. /\ window.code \in 0 .. codes /\ window.attempts \in 0 .. MaxAttempts - 1
      /\ codes \in Nat /\ guesses[c] \in Nat /\ MaxAttempts \in Nat \ {0}
  BY AccessAssumption DEF TypeInv, TypeOK, Shapes
<1>c. /\ Cardinality(Guessing(c)) \in Nat /\ Cardinality(Exchanges) \in Nat
      /\ Cardinality(Guessing(c)) <= Cardinality(Exchanges) /\ IsFiniteSet(Guessing(c))
  BY FewGuessing
<1>d. ASSUME Guessing(c)' \subseteq Guessing(c)
      PROVE  /\ Cardinality(Guessing(c)') \in Nat
             /\ Cardinality(Guessing(c)') <= Cardinality(Guessing(c))
  BY <1>c, <1>d, FS_Subset, FS_CardinalityType
(* A step that leaves the guesses alone and lets no exchange learn c: the  *)
(* window may go, c keeps its bound with one guess of each exchange.       *)
<1>e. ASSUME guesses' = guesses, codes' >= codes, codes' \in Nat, Guessing(c)' \subseteq Guessing(c),
             \/ window'.code = window.code /\ window'.attempts = window.attempts
             \/ window'.code # c
      PROVE  Kept
  BY <1>a, <1>b, <1>c, <1>d, <1>e
<1>1. ASSUME NEW s \in Scopes, BeginPairing(s) PROVE Kept
  <2>1. /\ window'.code = codes + 1 /\ window'.attempts = 0 /\ codes' = codes + 1
        /\ guesses' = guesses /\ Guessing(c)' = Guessing(c)
    BY <1>1 DEF BeginPairing, NoWindow, windowRest, history, Guessing
  <2> QED
    BY <2>1, <1>a, <1>b, <1>c
<1>2. CASE Expire
  <2>1. /\ window'.code = window.code /\ window'.attempts = window.attempts
        /\ codes' = codes /\ guesses' = guesses /\ Guessing(c)' = Guessing(c)
    BY <1>2 DEF Expire, windowRest, history, Guessing, TypeInv, TypeOK
  <2> QED
    BY <2>1, <1>e, <1>b
<1>3. CASE PairingStatus
  <2>1. /\ window'.code # c
        /\ codes' = codes /\ guesses' = guesses /\ Guessing(c)' = Guessing(c)
    BY <1>3 DEF PairingStatus, NoWindow, windowRest, history, Guessing
  <2> QED
    BY <2>1, <1>e, <1>b
<1>4. ASSUME NEW e \in Exchanges, Hello(e) PROVE Kept
  <2>1. window' = window /\ codes' = codes /\ guesses' = guesses
    BY <1>4 DEF Hello, exchangeRest
  <2>2. ASSUME c # window.code PROVE Guessing(c)' \subseteq Guessing(c)
    BY <1>4, <2>2 DEF Hello, Guessing, TypeInv, Shapes
  <2> QED
    BY <2>1, <2>2, <1>a, <1>b, <1>e
<1>5. ASSUME NEW e \in Exchanges, WrongCode(e) PROVE Kept
  <2>1. /\ exchange[e].phase = "confirm" /\ exchange[e].code \in 1 .. codes
        /\ guesses' = [guesses EXCEPT ![exchange[e].code] = @ + 1]
        /\ exchange' = [exchange EXCEPT ![e] = NoExchange]
        /\ codes' = codes
    BY <1>5 DEF WrongCode, exchangeRest, TypeInv, TypeOK
  <2>2. Guessing(c)' = Guessing(c) \ {e}
    BY <2>1 DEF Guessing, NoExchange, TypeInv, Shapes
  <2>3. /\ guesses'[c] = IF c = exchange[e].code THEN guesses[c] + 1 ELSE guesses[c]
        /\ c = exchange[e].code <=> e \in Guessing(c)
    BY <2>1 DEF Guessing, TypeInv, Shapes
  <2>4. Cardinality(Guessing(c)') = IF c = exchange[e].code THEN Cardinality(Guessing(c)) - 1
                                    ELSE Cardinality(Guessing(c))
    BY <2>2, <2>3, <1>c, FS_RemoveElement
  <2>5. c > codes => guesses'[c] = 0
    BY <2>1, <2>3, <1>a, <1>b
  <2>6. CASE window = NoWindow \/ window.attempts + 1 >= MaxAttempts
    <3>1. window'.code # c
      BY <1>5, <2>6 DEF WrongCode, RecordFailure, NoWindow
    <3>2. CASE c = window.code
      <4>1. Cardinality(Guessing(c)') <= Cardinality(Exchanges) - (IF c = exchange[e].code THEN 1 ELSE 0)
        BY <2>4, <1>c
      <4> QED
        BY <3>1, <3>2, <4>1, <2>1, <2>3, <2>4, <2>5, <1>a, <1>b, <1>c
    <3>3. CASE c # window.code
      BY <3>1, <3>3, <2>1, <2>3, <2>4, <2>5, <1>a, <1>b, <1>c
    <3> QED
      BY <3>2, <3>3
  <2>7. CASE window # NoWindow /\ window.attempts + 1 < MaxAttempts
    <3>1. window'.code = window.code /\ window'.attempts = window.attempts + 1
      <4>1. window' = [window EXCEPT !.attempts = @ + 1]
        BY <1>5, <1>b, <2>7 DEF WrongCode, RecordFailure
      <4>2. window \in Windows
        BY DEF TypeInv, TypeOK, Windows
      <4> QED
        BY <4>1, <4>2 DEF Windows
    <3> QED
      BY <3>1, <2>1, <2>3, <2>4, <2>5, <1>a, <1>b, <1>c
  <2> QED
    BY <2>6, <2>7, <1>b
<1>6. ASSUME NEW e \in Exchanges, Accept(e) PROVE Kept
  <2>1. window'.code = window.code /\ window'.attempts = window.attempts
    BY <1>6 DEF Accept, NoWindow, TypeInv, TypeOK
  <2>2. codes' = codes /\ guesses' = guesses /\ Guessing(c)' \subseteq Guessing(c)
    BY <1>6 DEF Accept, NoExchange, exchangeRest, Guessing, TypeInv, Shapes
  <2> QED
    BY <2>1, <2>2, <1>b, <1>e
<1>7. ASSUME NEW e \in Exchanges, ExchangeFails(e) PROVE Kept
  <2>1. window' = window
    BY <1>7 DEF ExchangeFails
  <2>2. codes' = codes /\ guesses' = guesses /\ Guessing(c)' \subseteq Guessing(c)
    BY <1>7 DEF ExchangeFails, NoExchange, exchangeRest, Guessing, TypeInv, Shapes
  <2> QED
    BY <2>1, <2>2, <1>b, <1>e
<1>8. ASSUME NEW e \in Exchanges, NEW p \in Pins, NEW s \in Scopes, RightCode(e, p, s) PROVE Kept
  <2>1. /\ window' = window /\ codes' = codes /\ guesses' = guesses
        /\ \/ exchange' = [exchange EXCEPT ![e].phase = "accept"]
           \/ exchange' = [exchange EXCEPT ![e] = NoExchange]
    BY <1>8 DEF RightCode, exchangeRest
  <2>2. Guessing(c)' \subseteq Guessing(c)
    BY <2>1 DEF NoExchange, Guessing, TypeInv, Shapes, ExchangeStates
  <2> QED
    BY <2>1, <2>2, <1>b, <1>e
<1>9. CASE Restart
  <2>1. window'.code # c /\ codes' = codes /\ guesses' = guesses /\ Guessing(c)' \subseteq Guessing(c)
    BY <1>9 DEF Restart, NoWindow, NoExchange, Guessing
  <2> QED
    BY <2>1, <1>b, <1>e
<1>10. CASE UNCHANGED <<window, codes, exchange, guesses>>
  <2>1. Guessing(c)' = Guessing(c)
    BY <1>10 DEF Guessing
  <2> QED
    BY <2>1, <1>10, <1>a
<1> QED
  BY <1>1, <1>2, <1>3, <1>4, <1>5, <1>6, <1>7, <1>8, <1>9, <1>10
  DEF Next, vars, history, Handshake, ReadScope, Register, ServeEnds, connRest, Remove, revokeRest,
      ClosePeer

(* No code is guessed at more than MAX_ATTEMPTS times, plus the guesses of  *)
(* the exchanges already past their hello.                                  *)
THEOREM CodesBurn == Spec => []GuessesBounded
<1>1. TypeInv /\ GuessBudget => GuessesBounded
  <2> SUFFICES ASSUME TypeInv, GuessBudget, NEW c \in 1 .. MaxWindows
               PROVE  guesses[c] <= MaxAttempts + Cardinality(Exchanges) - 1
    BY DEF GuessesBounded
  <2>1. /\ window.attempts \in 0 .. MaxAttempts - 1 /\ guesses[c] \in Nat /\ MaxAttempts \in Nat \ {0}
    BY AccessAssumption DEF TypeInv, TypeOK, Shapes
  <2> QED
    BY <2>1, FewGuessing DEF GuessBudget
<1> QED
  BY <1>1, TypeInit, TypeStep, GuessInit, GuessStep, PTL DEF Spec
=============================================================================
