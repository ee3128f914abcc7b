------------------------- MODULE LossRecoveryProofs -------------------------
(***************************************************************************)
(* A recovery point is safe, for every loss and any number of frames, with *)
(* the encoders that hand out a chunk in the call that codes it; with      *)
(* VideoToolbox, unless it is of a frame before the one coded clean.  What *)
(* an answer promises is about frames yet to be encoded, so the invariant  *)
(* Inv says it of the references the encoder still has:                    *)
(* KeptClean(good, first) keeps both them and every frame from first on    *)
(* away from what the client is missing.  An invalidation (InvTakeRequest) *)
(* or an IDR (BecomesClean) makes it true of a request, later frames keep  *)
(* it true (StaysClean), because new references are among the old ones; an *)
(* answer still owed is held at the next frame to come out (NextOut).      *)
(* Prompt says that an encoder which is not asynchronous owes no bitstream *)
(* and codes the IDR it was asked for before anything is announced.        *)
(* Everything else is the types of what is under way.                      *)
(*                                                                         *)
(* The gate is proved on top of that.  Its invariant GateInv says that, as *)
(* long as the gate is not loose, a picture the decoder lacks is not       *)
(* referenced by any frame after the one delivered last (Intact); that     *)
(* references go back, and never past an IDR (RefsGoBack); that frames     *)
(* come in order (InOrder); and that a gate that waits for nothing has     *)
(* delivered the frame it saw last (Follows).  Each way past the gate - an *)
(* IDR, the next frame, a fitting announcement - then leads to a frame     *)
(* whose reference the decoder has (MissingAreGone).                       *)
(***************************************************************************)
EXTENDS LossRecovery, SequenceTheorems, FiniteSetTheorems, WellFoundedInduction, TLAPS

(* The frames encoded so far. *)
Ids == 0 .. NextId - 1

FrameType == [kind : {"Idr", "P"}, ref : Ids \cup {None}]

AgentTyped ==
  /\ frames \in Seq(FrameType)
  /\ dpb \subseteq Ids /\ forceIdr \in BOOLEAN /\ announce \in BOOLEAN
  /\ recoveryRequest \in 0 .. NextId /\ announced \in 0 .. NextId
  /\ late \in Seq(Ids) /\ encoder \in Encoders /\ encoding \in BOOLEAN

MovingTyped ==
  wire \in Seq(Ids) /\ toAgent \in Seq(Ids \cup {None}) /\ toClient \in Seq(Ids)

GateTyped ==
  /\ lastFrameId \in Ids \cup {None} /\ lastDelivered \in Ids \cup {None}
  /\ awaitingIdr \in BOOLEAN /\ recoveryPoint \in 0 .. NextId
  /\ throttled \in BOOLEAN /\ decodeError \in BOOLEAN

PictureTyped ==
  /\ decoded \subseteq Ids /\ corrupt \subseteq Ids
  /\ rejects \in 0 .. MaxRejects /\ loose \in BOOLEAN

AnswersTyped ==
  /\ DOMAIN answers \subseteq Ids
  /\ \A first \in DOMAIN answers :
       answers[first] \in [good : Ids \cup {None}, since : Ids \cup {None}]
  /\ answering \in [good : Ids \cup {None}, since : (0 .. NextId) \cup {None}]
  /\ answering.since = NextId => SelectiveRefs

(* Neither a frame from the first safe one on, nor a picture the encoder   *)
(* may still reference, is one the client is missing: later than the last  *)
(* good frame and before the first safe one.                               *)
KeptClean(good, first) ==
  /\ dpb \cap (good + 1 .. first - 1) = {}
  /\ \A id \in first .. NextId - 1 : Frame(id).ref \notin good + 1 .. first - 1

(* The next frame to come out of the encoder. *)
NextOut == IF late = <<>> THEN NextId ELSE Head(late)

(* Every answer given is clean, and so is the one being prepared, should   *)
(* the next frame to come out be announced for it.                         *)
CleanAnswers ==
  /\ \A first \in DOMAIN answers :
       answers[first].since \in 0 .. first => KeptClean(answers[first].good, first)
  /\ announce /\ answering.since \in 0 .. NextOut => KeptClean(answering.good, NextOut)

(* An encoder that hands its chunks out in the call that codes them keeps  *)
(* none back, answers with the clean frame or a later one, and is about to *)
(* code the IDR a request still waits for.                                 *)
Prompt ==
  ~ AsyncEncoder =>
    /\ late = <<>>
    /\ \A first \in DOMAIN answers : answers[first].since \in 0 .. first
    /\ announce /\ answering.since = None => encoding /\ forceIdr

Inv ==
  /\ AgentTyped /\ MovingTyped /\ GateTyped /\ PictureTyped
  /\ AnswersTyped /\ CleanAnswers /\ Prompt

-----------------------------------------------------------------------------
(* Numbers and sequences.                                                  *)

(* Of a family of finite sets one is minimal.                              *)
LEMMA Minimal ==
  ASSUME NEW U, IsFiniteSet(U), NEW S, S # {}, NEW seg \in [S -> SUBSET U]
  PROVE  \E x \in S : \A y \in S : seg[y] \subseteq seg[x] => seg[y] = seg[x]
<1> DEFINE T == {seg[x] : x \in S}
           Order == StrictSubsetOrdering(U)
<1>1. FiniteSubsetsOf(U) = SUBSET U
  BY FS_FiniteSubsetsOfFinite
<1>2. IsWellFoundedOn(Order, SUBSET U)
  BY <1>1, FS_StrictSubsetOrderingWellFounded
<1>3. T \subseteq SUBSET U /\ T # {}
  OBVIOUS
<1> HIDE DEF Order
<1>4. PICK A \in T : \A B \in T : <<B, A>> \notin Order
  BY <1>2, <1>3, WFMin
<1>5. PICK x \in S : A = seg[x]
  OBVIOUS
<1>6. ASSUME NEW y \in S, seg[y] \subseteq seg[x], seg[y] # seg[x] PROVE FALSE
  <2>1. seg[y] \in T /\ seg[y] \in SUBSET U /\ seg[x] \in SUBSET U
    OBVIOUS
  <2>2. <<seg[y], A>> \in Order
    BY <1>5, <1>6, <2>1 DEF Order, StrictSubsetOrdering
  <2> QED
    BY <1>4, <2>1, <2>2
<1> QED
  BY <1>6

(* A non-empty set of numbers up to n has a greatest member: of the        *)
(* segments that start at its members, one is minimal.                     *)
LEMMA GreatestMember ==
  ASSUME NEW n \in Nat, NEW S, S # {}
  PROVE  S \subseteq 0 .. n => \E x \in S : \A y \in S : x >= y
<1>1. IsFiniteSet(0 .. n)
  BY FS_Interval
<1>2. ASSUME S \subseteq 0 .. n PROVE \E x \in S : \A y \in S : x >= y
  <2>1. \A x \in S : x .. n \subseteq 0 .. n
    BY <1>2
  <2>2. PICK seg \in [S -> SUBSET (0 .. n)] : \A x \in S : seg[x] = x .. n
    <3>1. [x \in S |-> x .. n] \in [S -> SUBSET (0 .. n)]
      BY <2>1
    <3> QED
      BY <3>1
  <2>3. PICK x \in S : \A y \in S : seg[y] \subseteq seg[x] => seg[y] = seg[x]
    BY <1>1, Minimal
  <2>4. ASSUME NEW y \in S, y > x PROVE FALSE
    <3>1. y .. n \subseteq x .. n /\ x \in x .. n /\ x \notin y .. n
      BY <1>2, <2>4
    <3> QED
      BY <2>2, <2>3, <3>1
  <2>5. \A y \in S : x \in Int /\ y \in Int
    BY <1>2
  <2> QED
    BY <2>4, <2>5
<1> QED
  BY <1>2

(* Max finds it. *)
LEMMA MaxOf ==
  ASSUME NEW n \in Nat, NEW S, S # {}, S \subseteq 0 .. n
  PROVE  Max(S) \in S
<1>1. \E x \in S : \A y \in S : x >= y
  BY GreatestMember
<1> QED
  BY <1>1 DEF Max

(* A sequence over a set is one over a larger set. *)
LEMMA Grows == ASSUME NEW S, NEW T, S \subseteq T, NEW q \in Seq(S) PROVE q \in Seq(T)
BY SeqMonotonic

(* The rest of a sequence, and two sequences one after the other.          *)
LEMMA RestOf ==
  ASSUME NEW S, NEW q \in Seq(S), NEW m \in 0 .. Len(q)
  PROVE  /\ Len(SubSeq(q, m + 1, Len(q))) = Len(q) - m
         /\ \A i \in 1 .. Len(q) - m : SubSeq(q, m + 1, Len(q))[i] = q[m + i]
<1>1. Len(q) \in Nat /\ m \in Nat /\ m <= Len(q) /\ \A i \in 1 .. Len(q) : q[i] \in S
  OBVIOUS
<1>2. PICK a \in Int, b \in Int : a = m + 1 /\ b = Len(q)
  BY <1>1
<1>3. \A i \in a .. b : q[i] \in S
  BY <1>1, <1>2
<1>4. /\ Len(SubSeq(q, a, b)) = IF a <= b THEN b - a + 1 ELSE 0
      /\ \A i \in 1 .. b - a + 1 : SubSeq(q, a, b)[i] = q[a + i - 1]
  BY <1>3, SubSeqProperties
<1>5. SubSeq(q, m + 1, Len(q)) = SubSeq(q, a, b)
  BY <1>2
<1>6. ASSUME NEW i \in 1 .. Len(q) - m PROVE SubSeq(q, a, b)[i] = q[m + i]
  <2>1. i \in 1 .. b - a + 1 /\ a + i - 1 = m + i
    BY <1>1, <1>2
  <2> QED
    BY <1>4, <2>1
<1>7. Len(SubSeq(q, a, b)) = Len(q) - m
  BY <1>1, <1>2, <1>4
<1> QED
  BY <1>5, <1>6, <1>7

LEMMA Joined ==
  ASSUME NEW S, NEW q \in Seq(S), NEW r \in Seq(S)
  PROVE  /\ Len(q \o r) = Len(q) + Len(r)
         /\ \A i \in 1 .. Len(q) : (q \o r)[i] = q[i]
         /\ \A i \in 1 .. Len(r) : (q \o r)[Len(q) + i] = r[i]
<1>1. /\ Len(q) \in Nat /\ Len(r) \in Nat
      /\ Len(q \o r) = Len(q) + Len(r)
      /\ \A i \in 1 .. Len(q) + Len(r) :
           (q \o r)[i] = IF i <= Len(q) THEN q[i] ELSE r[i - Len(q)]
  BY ConcatProperties
<1>2. ASSUME NEW i \in 1 .. Len(r) PROVE (q \o r)[Len(q) + i] = r[i]
  <2>1. Len(q) + i \in 1 .. Len(q) + Len(r) /\ ~ (Len(q) + i <= Len(q)) /\ (Len(q) + i) - Len(q) = i
    BY <1>1
  <2> QED
    BY <1>1, <2>1
<1> QED
  BY <1>1, <1>2

-----------------------------------------------------------------------------
(* What a new frame leaves clean.                                          *)

(* The frame appended, its references being among those of the encoder:    *)
(* it is typed, and the frames before it stay what they were.              *)
LEMMA NewFrame ==
  ASSUME Inv, NEW idr \in BOOLEAN, frames' = Append(frames, Encoded(idr, dpb))
  PROVE  /\ NextId \in Nat /\ NextId' = NextId + 1 /\ Ids' = Ids \cup {NextId}
         /\ Encoded(idr, dpb) \in FrameType
         /\ Encoded(idr, dpb).ref \in dpb \cup {None} /\ (idr => Encoded(idr, dpb).ref = None)
         /\ frames' \in Seq(FrameType')
         /\ \A id \in Ids : Frame(id)' = Frame(id)
         /\ \A id \in Ids' : id = NextId => Frame(id)' = Encoded(idr, dpb)
<1>1. frames \in Seq(FrameType) /\ NextId \in Nat /\ dpb \subseteq Ids
  BY DEF Inv, AgentTyped, NextId
<1>2. dpb # {} => Max(dpb) \in dpb
  <2> SUFFICES ASSUME dpb # {} PROVE Max(dpb) \in dpb
    OBVIOUS
  <2> DEFINE n == NextId - 1
  <2>1. n \in Nat /\ dpb \subseteq 0 .. n
    <3>1. PICK r \in dpb : r \in 0 .. NextId - 1
      BY <1>1 DEF Ids
    <3> QED
      BY <1>1, <3>1 DEF Ids
  <2> HIDE DEF n
  <2> QED
    BY <2>1, MaxOf
<1>3. /\ Encoded(idr, dpb) \in [kind : {"Idr", "P"}, ref : Ids \cup {None}]
      /\ Encoded(idr, dpb).ref \in dpb \cup {None} /\ (idr => Encoded(idr, dpb).ref = None)
  <2>1. CASE idr
    BY <2>1 DEF Encoded
  <2>2. CASE ~ idr /\ dpb = {}
    BY <2>2 DEF Encoded
  <2>3. CASE ~ idr /\ dpb # {}
    <3>1. Max(dpb) \in dpb /\ Max(dpb) \in Ids
      BY <1>1, <1>2, <2>3
    <3> HIDE DEF Max
    <3> QED
      BY <2>3, <3>1 DEF Encoded
  <2> QED
    BY <2>1, <2>2, <2>3
<1> DEFINE f == Encoded(idr, dpb)
<1> HIDE DEF f
<1>4. f \in FrameType /\ frames' = Append(frames, f)
  BY <1>3 DEF f, FrameType
<1>5. /\ Len(frames') = Len(frames) + 1 /\ frames' \in Seq(FrameType)
      /\ \A i \in 1 .. Len(frames) : frames'[i] = frames[i]
      /\ frames'[Len(frames) + 1] = f
  BY <1>1, <1>4
<1>6. NextId' = NextId + 1 /\ Ids' = Ids \cup {NextId}
  BY <1>1, <1>5 DEF NextId, Ids
<1>7. FrameType \subseteq FrameType'
  BY <1>6 DEF FrameType
<1>8. frames' \in Seq(FrameType')
  BY <1>5, <1>7, Grows
<1>9. \A id \in Ids : Frame(id)' = Frame(id)
  BY <1>1, <1>5 DEF Ids, Frame, NextId
<1>10. \A id \in Ids' : id = NextId => Frame(id)' = f
  BY <1>5 DEF Frame, NextId
<1> QED
  BY <1>1, <1>3, <1>4, <1>6, <1>8, <1>9, <1>10 DEF f

(* A frame that references what the encoder could reference before.        *)
LEMMA StaysClean ==
  ASSUME Inv, NEW idr \in BOOLEAN, frames' = Append(frames, Encoded(idr, dpb)),
         dpb' \subseteq dpb \cup {NextId},
         NEW good \in Ids \cup {None}, NEW first \in 0 .. NextId, KeptClean(good, first)
  PROVE  KeptClean(good, first)'
<1>1. /\ NextId \in Nat /\ NextId' = NextId + 1
      /\ Encoded(idr, dpb).ref \in dpb \cup {None}
      /\ \A id \in Ids : Frame(id)' = Frame(id)
      /\ \A id \in Ids' : id = NextId => Frame(id)' = Encoded(idr, dpb)
  BY NewFrame
<1>2. /\ good \in Int /\ good >= -1 /\ NextId \notin good + 1 .. first - 1
      /\ None \notin good + 1 .. first - 1
  BY <1>1 DEF Ids, None
<1>3. dpb \cap (good + 1 .. first - 1) = {}
  BY DEF KeptClean
<1>4. dpb' \cap (good + 1 .. first - 1) = {}
  BY <1>2, <1>3
<1>5. ASSUME NEW id \in first .. NextId' - 1 PROVE Frame(id)'.ref \notin good + 1 .. first - 1
  <2>1. CASE id = NextId
    <3>1. id \in Ids'
      BY <1>1, <2>1 DEF Ids
    <3>2. Frame(id)' = Encoded(idr, dpb)
      BY <1>1, <2>1, <3>1
    <3> QED
      BY <1>1, <1>2, <1>3, <3>2
  <2>2. CASE id # NextId
    <3>1. id \in Ids /\ id \in first .. NextId - 1
      BY <1>1, <2>2 DEF Ids
    <3> QED
      BY <1>1, <3>1 DEF KeptClean
  <2> QED
    BY <2>1, <2>2
<1> QED
  BY <1>4, <1>5 DEF KeptClean

(* An IDR, nothing before which the encoder may reference.                 *)
LEMMA BecomesClean ==
  ASSUME Inv, frames' = Append(frames, Encoded(TRUE, dpb)), dpb' \subseteq {NextId},
         NEW good \in Int, good >= None
  PROVE  \A first \in Nat : first = NextId => KeptClean(good, first)'
<1>1. /\ NextId \in Nat /\ NextId' = NextId + 1 /\ Encoded(TRUE, dpb).ref = None
      /\ \A id \in Ids' : id = NextId => Frame(id)' = Encoded(TRUE, dpb)
  BY NewFrame
<1> SUFFICES ASSUME NEW first \in Nat, first = NextId PROVE KeptClean(good, first)'
  OBVIOUS
<1>2. dpb' \cap (good + 1 .. first - 1) = {}
  BY <1>1
<1>3. ASSUME NEW id \in first .. NextId' - 1 PROVE Frame(id)'.ref \notin good + 1 .. first - 1
  <2>1. id = NextId /\ id \in Ids'
    BY <1>1 DEF Ids
  <2>2. Frame(id)' = Encoded(TRUE, dpb)
    BY <1>1, <2>1
  <2>3. None \notin good + 1 .. first - 1
    BY DEF None
  <2> QED
    BY <1>1, <2>2, <2>3
<1> QED
  BY <1>2, <1>3 DEF KeptClean

-----------------------------------------------------------------------------
(* Every step keeps the invariant.                                         *)

(* Nothing encoded, nothing asked. *)
LEMMA InvInit == Init => Inv
<1> SUFFICES ASSUME Init PROVE Inv
  OBVIOUS
<1> USE LossRecoveryAssumption DEF Init
<1>1. NextId = 0 /\ Ids = {} /\ DOMAIN answers = {}
  BY DEF NextId, Ids
<1>2. AgentTyped
  <2>1. frames \in Seq(FrameType) /\ late \in Seq(Ids)
    <3> frames = <<>> /\ late = <<>>
      OBVIOUS
    <3> QED
      BY EmptySeq
  <2>2. dpb \subseteq Ids /\ recoveryRequest \in 0 .. NextId /\ announced \in 0 .. NextId
    BY <1>1
  <2> QED
    BY <2>1, <2>2 DEF AgentTyped
<1>3. MovingTyped /\ GateTyped /\ PictureTyped
  <2>1. MovingTyped
    <3> wire = <<>> /\ toAgent = <<>> /\ toClient = <<>>
      OBVIOUS
    <3> QED
      BY EmptySeq DEF MovingTyped
  <2>2. GateTyped
    <3>1. awaitingIdr \in BOOLEAN /\ throttled \in BOOLEAN /\ decodeError \in BOOLEAN
      OBVIOUS
    <3>2. recoveryPoint \in 0 .. NextId
      BY <1>1
    <3> QED
      BY <3>1, <3>2 DEF GateTyped
  <2>3. PictureTyped
    <3>1. rejects \in 0 .. MaxRejects
      BY DEF LossRecoveryAssumption
    <3>2. decoded = {} /\ corrupt = {} /\ loose = FALSE
      OBVIOUS
    <3> QED
      BY <3>1, <3>2 DEF PictureTyped
  <2> QED
    BY <2>1, <2>2, <2>3
<1>4. AnswersTyped /\ CleanAnswers /\ Prompt
  <2>1. answering = [good |-> None, since |-> None] /\ None # 0 /\ announce = FALSE /\ late = <<>>
    BY DEF NoRequest, None
  <2> QED
    BY <1>1, <2>1 DEF AnswersTyped, CleanAnswers, Prompt
<1> QED
  BY <1>2, <1>3, <1>4 DEF Inv

(* The types of what the agent's steps leave alone. *)
LEMMA OthersTyped ==
  ASSUME Inv, Ids \subseteq Ids', NextId \in Nat, NextId' \in Nat, NextId <= NextId',
         UNCHANGED <<encoder, gateVars, pictureVars, toAgent, toClient>>
  PROVE  /\ GateTyped' /\ PictureTyped'
         /\ toAgent' \in Seq(Ids' \cup {None}) /\ toClient' \in Seq(Ids')
<1>1. toAgent \in Seq(Ids \cup {None}) /\ toClient \in Seq(Ids)
  BY DEF Inv, MovingTyped
<1>2. toAgent \in Seq(Ids' \cup {None}) /\ toClient \in Seq(Ids')
  BY <1>1, Grows
<1>3. GateTyped'
  BY DEF Inv, GateTyped, gateVars
<1>4. PictureTyped'
  BY DEF Inv, PictureTyped, pictureVars
<1> QED
  BY <1>2, <1>3, <1>4

(* A request taken up: an invalidation leaves no reference later than the  *)
(* last good frame, and every frame owed is still to be coded; otherwise   *)
(* an IDR is owed.                                                         *)
LEMMA InvTakeRequest ==
  ASSUME Inv, UNCHANGED encoder, TakeRequest
  PROVE  Inv'
<1>1. /\ ~ encoding /\ encoding' = TRUE /\ recoveryRequest' = 0
      /\ forceIdr' = (forceIdr \/ (Asked /\ ~ Clean))
      /\ dpb' = IF Clean THEN CleanRefs(LastGood) ELSE dpb
      /\ announce' = (announce \/ Asked)
      /\ answering' = IF Asked
                      THEN [good |-> LastGood, since |-> IF Clean THEN NextId ELSE None]
                      ELSE answering
      /\ UNCHANGED <<frames, late, announced, answers, wire, toAgent, toClient, encoder,
                     gateVars, pictureVars>>
  BY DEF TakeRequest
<1>2. /\ NextId \in Nat /\ NextId' = NextId /\ Ids' = Ids /\ FrameType' = FrameType
      /\ NextOut' = NextOut /\ \A id \in Ids : Frame(id)' = Frame(id)
  BY <1>1 DEF Inv, AgentTyped, NextId, Ids, FrameType, NextOut, Frame
<1>3. /\ late \in Seq(Ids) /\ dpb \subseteq Ids /\ encoder \in Encoders
      /\ forceIdr \in BOOLEAN /\ announce \in BOOLEAN
      /\ recoveryRequest \in 0 .. NextId /\ announced \in 0 .. NextId
  BY DEF Inv, AgentTyped
<1>4. /\ Asked \in BOOLEAN /\ Clean \in BOOLEAN /\ (Clean => Asked /\ SelectiveRefs)
      /\ Asked => LastGood \in Ids \cup {None}
  BY <1>2, <1>3 DEF Asked, Clean, Invalidates, LastGood, Ids, None
<1>5. dpb' \subseteq dpb
  BY <1>1 DEF CleanRefs
<1>6. SelectiveRefs => ~ AsyncEncoder /\ late = <<>> /\ NextOut = NextId
  BY DEF SelectiveRefs, AsyncEncoder, Inv, Prompt, NextOut
<1>7. AgentTyped'
  <2>1. forceIdr' \in BOOLEAN /\ announce' \in BOOLEAN /\ encoding' \in BOOLEAN
    <3> HIDE DEF Asked, Clean
    <3> QED
      BY <1>1, <1>3, <1>4, Zenon
  <2>2. recoveryRequest' \in 0 .. NextId
    BY <1>1, <1>2
  <2> QED
    BY <1>1, <1>2, <1>3, <1>5, <2>1, <2>2 DEF Inv, AgentTyped
<1>8. MovingTyped' /\ GateTyped' /\ PictureTyped'
  BY <1>1, <1>2 DEF Inv, MovingTyped, GateTyped, PictureTyped, gateVars, pictureVars
<1>9. AnswersTyped'
  <2>1. answering' \in [good : Ids \cup {None}, since : (0 .. NextId) \cup {None}]
    <3>1. CASE Asked
      BY <1>1, <1>2, <1>4, <3>1
    <3>2. CASE ~ Asked
      BY <1>1, <3>2 DEF Inv, AnswersTyped
    <3> QED
      BY <3>1, <3>2
  <2>2. answering'.since = NextId => SelectiveRefs
    <3>1. CASE Asked
      BY <1>1, <1>2, <1>4, <3>1 DEF None
    <3>2. CASE ~ Asked
      BY <1>1, <3>2 DEF Inv, AnswersTyped
    <3> QED
      BY <3>1, <3>2
  <2> QED
    BY <1>1, <1>2, <2>1, <2>2 DEF Inv, AnswersTyped, SelectiveRefs
<1>10. CleanAnswers'
  <2>1. ASSUME NEW good, NEW first \in Nat, KeptClean(good, first)
        PROVE  KeptClean(good, first)'
    <3>1. \A id \in first .. NextId - 1 : id \in Ids
      BY <1>2 DEF Ids
    <3> QED
      BY <1>2, <1>5, <2>1, <3>1 DEF KeptClean
  <2>2. \A first \in DOMAIN answers : first \in Nat
    BY DEF Inv, AnswersTyped, Ids
  <2>3. NextOut \in Nat
    BY <1>2, <1>3 DEF NextOut, Ids
  <2>4. \A first \in DOMAIN answers' :
          answers'[first].since \in 0 .. first => KeptClean(answers[first].good, first)'
    <3> SUFFICES ASSUME NEW first \in DOMAIN answers, answers[first].since \in 0 .. first,
                        NEW good, good = answers[first].good
                 PROVE  KeptClean(good, first)'
      BY <1>1 DEF KeptClean
    <3>1. KeptClean(good, first)
      BY DEF Inv, CleanAnswers
    <3> QED
      BY <2>1, <2>2, <3>1
  <2>5. ASSUME announce', answering'.since \in 0 .. NextOut,
               NEW good, good = answering'.good, NEW first, first = NextOut
        PROVE  KeptClean(good, first)'
    <3>1. CASE ~ Asked
      <4>1. announce /\ answering' = answering
        BY <1>1, <2>5, <3>1
      <4>2. KeptClean(good, first)
        BY <2>5, <4>1 DEF Inv, CleanAnswers
      <4> QED
        BY <2>1, <2>3, <2>5, <4>2
    <3>2. CASE Asked
      <4>1. Clean /\ good = LastGood
        BY <1>1, <2>5, <3>2 DEF None
      <4>2. first = NextId /\ dpb' = CleanRefs(LastGood)
        BY <1>1, <1>4, <1>6, <2>5, <4>1
      <4>3. first .. NextId' - 1 = {} /\ good \in Int
        BY <1>2, <1>4, <3>2, <4>1, <4>2 DEF Ids, None
      <4>4. dpb' \cap (good + 1 .. first - 1) = {}
        BY <1>3, <4>1, <4>2, <4>3 DEF CleanRefs, Ids
      <4> QED
        BY <4>3, <4>4 DEF KeptClean
    <3> QED
      BY <3>1, <3>2
  <2>6. announce' /\ answering'.since \in 0 .. NextOut' => KeptClean(answering.good, NextOut)'
    BY <1>2, <2>5 DEF KeptClean
  <2> QED
    BY <2>4, <2>6 DEF CleanAnswers
<1>11. Prompt'
  <2> SUFFICES ASSUME ~ AsyncEncoder, announce', answering'.since = None
               PROVE  forceIdr'
    BY <1>1 DEF Inv, Prompt, AsyncEncoder
  <2>1. CASE Asked
    BY <1>1, <1>2, <2>1 DEF None
  <2>2. CASE ~ Asked
    BY <1>1, <2>2 DEF Inv, Prompt
  <2> QED
    BY <2>1, <2>2
<1> QED
  BY <1>7, <1>8, <1>9, <1>10, <1>11 DEF Inv

(* What a call of the encoder hands out: nothing, or frames of which the   *)
(* oldest due is the first.  An encoder that is not asynchronous hands out *)
(* all that is due.                                                        *)
LEMMA Outcome ==
  ASSUME NEW T, NEW due \in Seq(T), wire \in Seq(T), NEW kept \in {0, 1}, NEW answer,
         Drained(due, kept, answer)
  PROVE  /\ late' \in Seq(T) /\ wire' \in Seq(T)
         /\ answering' = answer
         /\ ~ AsyncEncoder => late' = <<>>
         /\ \E came \in BOOLEAN :
              /\ came => due # <<>>
              /\ ~ came => late' = due
              /\ ~ AsyncEncoder => (came <=> due # <<>>)
              /\ announce' <=> announce /\ ~ came
              /\ IF announce /\ came
                 THEN /\ announced' = Head(due) + 1
                      /\ answers' = [n \in DOMAIN answers \cup {Head(due)} |->
                                      IF n = Head(due) THEN answer ELSE answers[n]]
                 ELSE UNCHANGED <<announced, answers>>
<1> DEFINE out == SubSeq(due, 1, Len(due) - kept)
<1>1. /\ kept <= Len(due) /\ (kept > 0 => AsyncEncoder)
      /\ late' = SubSeq(due, Len(out) + 1, Len(due))
      /\ wire' = wire \o out
      /\ announce' = (announce /\ out = <<>>)
      /\ answering' = answer
      /\ IF announce /\ out # <<>>
         THEN /\ announced' = Head(out) + 1
              /\ answers' = [n \in DOMAIN answers \cup {Head(out)} |->
                              IF n = Head(out) THEN answer ELSE answers[n]]
         ELSE UNCHANGED <<announced, answers>>
  BY DEF Drained
<1>2. /\ Len(due) \in Nat /\ out \in Seq(T) /\ Len(out) = Len(due) - kept
      /\ \A i \in 1 .. Len(out) : out[i] = due[i]
  <2>1. kept <= Len(due)
    BY <1>1
  <2>2. Len(due) \in Nat
    OBVIOUS
  <2>3. kept \in Nat
    OBVIOUS
  <2>4. Len(due) - kept \in 0 .. Len(due)
    BY ONLY <2>1, <2>2, <2>3
  <2>5. PICK m \in 0 .. Len(due) : m = Len(due) - kept
    BY <2>4
  <2>6. /\ SubSeq(due, 1, m) \in Seq(T) /\ Len(SubSeq(due, 1, m)) = m
        /\ \A i \in 1 .. m : SubSeq(due, 1, m)[i] = due[i]
    OBVIOUS
  <2> QED
    BY <2>2, <2>5, <2>6
<1> HIDE DEF out
<1>3. out # <<>> => Head(out) = Head(due) /\ due # <<>>
  BY <1>2
<1>4. out = <<>> => late' = due
  <2> SUFFICES ASSUME out = <<>> PROVE late' = due
    OBVIOUS
  <2>1. Len(out) = 0
    OBVIOUS
  <2>2. late' = SubSeq(due, 1, Len(due))
    BY <1>1, <2>1
  <2> QED
    BY <2>2
<1>5. ~ AsyncEncoder => (out # <<>> <=> due # <<>>) /\ late' = <<>>
  <2> SUFFICES ASSUME ~ AsyncEncoder PROVE (out # <<>> <=> due # <<>>) /\ late' = <<>>
    OBVIOUS
  <2>1. kept = 0
    BY <1>1
  <2>2. Len(out) = Len(due)
    BY <1>2, <2>1
  <2>3. late' = SubSeq(due, Len(due) + 1, Len(due))
    BY <1>1, <2>2
  <2> QED
    BY <1>2, <2>2, <2>3
<1>6. late' \in Seq(T) /\ wire' \in Seq(T)
  BY <1>1, <1>2
<1>7. PICK came \in BOOLEAN : came <=> out # <<>>
  OBVIOUS
<1>8. announce' <=> announce /\ ~ came
  BY <1>1, <1>7
<1>9. IF announce /\ came
      THEN /\ announced' = Head(due) + 1
           /\ answers' = [n \in DOMAIN answers \cup {Head(due)} |->
                           IF n = Head(due) THEN answer ELSE answers[n]]
      ELSE UNCHANGED <<announced, answers>>
  BY <1>1, <1>3, <1>7
<1> QED
  BY <1>1, <1>3, <1>4, <1>5, <1>6, <1>7, <1>8, <1>9

(* A call of the encoder, whatever it codes: what was clean stays clean;   *)
(* the request being answered is clean at the oldest frame due or, if none *)
(* is due, at the next to be coded; and an encoder that is not             *)
(* asynchronous has coded what the request waited for when a frame is due. *)
LEMMA Handed ==
  ASSUME Inv, UNCHANGED encoder, NextId' \in Nat, NextId' >= NextId, Ids \subseteq Ids',
         NEW due \in Seq(Ids'), NEW kept \in {0, 1},
         NEW answer \in [good : Ids \cup {None}, since : Ids' \cup {None}],
         Drained(due, kept, answer),
         NEW out \in Nat, out = IF due = <<>> THEN NextId' ELSE Head(due),
         \A good \in Ids \cup {None}, first \in Ids :
           KeptClean(good, first) => KeptClean(good, first)',
         NEW good, good = answer.good,
         announce /\ answer.since \in 0 .. out => KeptClean(good, out)',
         ~ AsyncEncoder =>
           (announce => answer.since \in 0 .. out) /\ ~ (announce /\ answer.since = None)
  PROVE  /\ late' \in Seq(Ids') /\ announce' \in BOOLEAN /\ announced' \in 0 .. NextId'
         /\ wire' \in Seq(Ids') /\ AnswersTyped' /\ CleanAnswers' /\ Prompt'
<1>1. /\ wire \in Seq(Ids') /\ announced \in 0 .. NextId /\ NextId \in Nat
      /\ DOMAIN answers \subseteq Ids
      /\ \A first \in DOMAIN answers :
           answers[first] \in [good : Ids \cup {None}, since : Ids \cup {None}]
  <2>1. wire \in Seq(Ids)
    BY DEF Inv, MovingTyped
  <2>2. wire \in Seq(Ids')
    BY <2>1, Grows
  <2> QED
    BY <2>2 DEF Inv, AgentTyped, AnswersTyped, NextId
<1>2. /\ late' \in Seq(Ids') /\ wire' \in Seq(Ids') /\ answering' = answer
      /\ ~ AsyncEncoder => late' = <<>>
  BY <1>1, Outcome
<1>3. PICK came \in BOOLEAN :
        /\ came => due # <<>>
        /\ ~ came => late' = due
        /\ ~ AsyncEncoder => (came <=> due # <<>>)
        /\ announce' <=> announce /\ ~ came
        /\ IF announce /\ came
           THEN /\ announced' = Head(due) + 1
                /\ answers' = [n \in DOMAIN answers \cup {Head(due)} |->
                                IF n = Head(due) THEN answer ELSE answers[n]]
           ELSE UNCHANGED <<announced, answers>>
  BY <1>1, Outcome
<1>4. (came => out = Head(due) /\ out \in Ids') /\ (~ came => NextOut' = out)
  <2>1. due # <<>> => Head(due) \in Ids'
    OBVIOUS
  <2> QED
    BY <1>3, <2>1 DEF NextOut
<1>5. announce' \in BOOLEAN
  <2>1. announce \in BOOLEAN
    BY DEF Inv, AgentTyped
  <2>2. announce' = (announce /\ SubSeq(due, 1, Len(due) - kept) = <<>>)
    BY DEF Drained
  <2> QED
    BY <2>1, <2>2, Zenon
<1>6. CASE announce /\ came
  <2>1. /\ announced' = out + 1 /\ ~ announce'
        /\ answers' = [n \in DOMAIN answers \cup {out} |-> IF n = out THEN answer ELSE answers[n]]
    BY <1>3, <1>4, <1>6
  <2>2. announced' \in 0 .. NextId'
    <3>1. PICK next \in Nat : next = NextId'
      OBVIOUS
    <3>2. out \in 0 .. next - 1 /\ announced' = out + 1
      BY <1>4, <1>6, <2>1, <3>1 DEF Ids
    <3>3. out + 1 \in 0 .. next
      BY ONLY <3>2, out \in Nat, next \in Nat
    <3> QED
      BY <3>1, <3>2, <3>3
  <2>3. AnswersTyped'
    <3>1. /\ DOMAIN answers' \subseteq Ids'
          /\ \A first \in DOMAIN answers' :
               answers'[first] \in [good : Ids' \cup {None}, since : Ids' \cup {None}]
      BY <1>1, <1>4, <1>6, <2>1
    <3>2. /\ answering' \in [good : Ids' \cup {None}, since : (0 .. NextId') \cup {None}]
          /\ answering'.since # NextId'
      BY <1>2 DEF Ids, None
    <3> QED
      BY <3>1, <3>2 DEF AnswersTyped
  <2>4. CleanAnswers'
    <3> SUFFICES ASSUME NEW first \in DOMAIN answers', answers'[first].since \in 0 .. first,
                        NEW g, g = answers'[first].good
                 PROVE  KeptClean(g, first)'
      BY <2>1 DEF CleanAnswers, KeptClean
    <3>1. CASE first = out
      BY <1>6, <2>1, <3>1
    <3>2. CASE first # out
      <4>1. first \in DOMAIN answers /\ answers'[first] = answers[first]
        BY <2>1, <3>2
      <4>2. KeptClean(g, first) /\ g \in Ids \cup {None} /\ first \in Ids
        BY <1>1, <4>1 DEF Inv, CleanAnswers
      <4> QED
        BY <4>2
    <3> QED
      BY <3>1, <3>2
  <2>5. Prompt'
    BY <1>2, <1>6, <2>1 DEF Inv, Prompt, AsyncEncoder
  <2> QED
    BY <1>2, <1>5, <2>2, <2>3, <2>4, <2>5
<1>7. CASE ~ (announce /\ came)
  <2>1. answers' = answers /\ announced' = announced /\ (announce' => announce /\ ~ came)
    BY <1>3, <1>7
  <2>3. AnswersTyped'
    <3>1. /\ answering' \in [good : Ids' \cup {None}, since : (0 .. NextId') \cup {None}]
          /\ answering'.since # NextId'
      BY <1>2 DEF Ids, None
    <3> QED
      BY <1>1, <2>1, <3>1 DEF AnswersTyped
  <2>4. CleanAnswers'
    <3>1. ASSUME NEW first \in DOMAIN answers, answers[first].since \in 0 .. first,
                 NEW g, g = answers[first].good
          PROVE  KeptClean(g, first)'
      <4>1. KeptClean(g, first) /\ g \in Ids \cup {None} /\ first \in Ids
        BY <1>1, <3>1 DEF Inv, CleanAnswers
      <4> QED
        BY <4>1
    <3>2. \A first \in DOMAIN answers' :
            answers'[first].since \in 0 .. first => KeptClean(answers[first].good, first)'
      BY <2>1, <3>1 DEF KeptClean
    <3>3. announce' /\ answering'.since \in 0 .. NextOut' => KeptClean(answering.good, NextOut)'
      BY <1>2, <1>4, <2>1 DEF KeptClean
    <3> QED
      BY <3>2, <3>3 DEF CleanAnswers
  <2>5. Prompt'
    BY <1>2, <2>1 DEF Inv, Prompt, AsyncEncoder
  <2>2. announced' \in 0 .. NextId'
    BY <1>1, <2>1
  <2> QED
    BY <1>2, <1>5, <2>2, <2>3, <2>4, <2>5
<1> QED
  BY <1>6, <1>7

(* A frame coded. *)
LEMMA InvEncodeFrame ==
  ASSUME Inv, UNCHANGED encoder, NEW idr \in BOOLEAN, NEW kept \in {0, 1}, EncodeFrame(idr, kept)
  PROVE  Inv'
<1>1. /\ encoding /\ encoding' = FALSE /\ forceIdr' = FALSE /\ MayCode(idr)
      /\ frames' = Append(frames, Encoded(idr, dpb))
      /\ dpb' = {NextId} \cup (IF idr THEN {} ELSE dpb)
      /\ Drained(Append(late, NextId), kept, Settled(idr))
      /\ UNCHANGED <<encoder, recoveryRequest, gateVars, pictureVars, toAgent, toClient>>
  BY DEF EncodeFrame, Submitted
<1>2. /\ NextId \in Nat /\ NextId' = NextId + 1 /\ Ids' = Ids \cup {NextId}
      /\ frames' \in Seq(FrameType')
  BY <1>1, NewFrame
<1>3. /\ late \in Seq(Ids) /\ dpb \subseteq Ids /\ encoder \in Encoders
      /\ recoveryRequest \in 0 .. NextId
      /\ answering \in [good : Ids \cup {None}, since : (0 .. NextId) \cup {None}]
  BY DEF Inv, AgentTyped, AnswersTyped
(* The oldest frame due is the oldest of those kept back, or the new one.  *)
<1>4. PICK due \in Seq(Ids') : /\ due = Append(late, NextId) /\ due # <<>>
                               /\ Head(due) = NextOut /\ NextOut \in 0 .. NextId
  <2>1. late \in Seq(Ids') /\ NextId \in Ids'
    BY <1>2, <1>3, Grows
  <2>2. Append(late, NextId) \in Seq(Ids') /\ Append(late, NextId) # <<>>
    BY <2>1
  <2>3. Head(Append(late, NextId)) = NextOut
    BY <2>1 DEF NextOut
  <2>4. NextOut \in 0 .. NextId
    BY <1>2, <1>3 DEF NextOut, Ids
  <2> QED
    BY <2>2, <2>3, <2>4
<1>5. PICK answer : /\ answer = Settled(idr)
                    /\ answer \in [good : Ids \cup {None}, since : Ids' \cup {None}]
                    /\ answer.good = answering.good
                    /\ \/ answering.since # None /\ answer.since = answering.since
                       \/ answering.since = None /\ idr /\ answer.since = NextId
                       \/ answering.since = None /\ ~ idr /\ answer.since = None
  <2>1. PICK answer : answer = Settled(idr)
    OBVIOUS
  <2>2. CASE idr /\ answering.since = None
    <3>1. answer = [answering EXCEPT !.since = NextId] /\ NextId \in Ids'
      BY <1>2, <2>1, <2>2 DEF Settled
    <3> QED
      BY <1>3, <2>1, <2>2, <3>1
  <2>3. CASE ~ (idr /\ answering.since = None)
    <3>1. answer = answering /\ 0 .. NextId = Ids'
      BY <1>2, <2>1, <2>3 DEF Settled, Ids
    <3> QED
      BY <1>3, <2>1, <2>3, <3>1
  <2> QED
    BY <2>2, <2>3
<1>6. PICK out \in Nat : out = NextOut /\ out <= NextId
  BY <1>2, <1>4
<1>7. dpb' \subseteq dpb \cup {NextId} /\ dpb' \subseteq Ids'
  BY <1>1, <1>2, <1>3
<1>8. ASSUME NEW good \in Ids \cup {None}, NEW first \in 0 .. NextId, KeptClean(good, first)
      PROVE  KeptClean(good, first)'
  BY <1>1, <1>7, <1>8, StaysClean
<1>9. ASSUME announce, answer.since \in 0 .. out, NEW good, good = answer.good
      PROVE  KeptClean(good, out)'
  <2>1. good \in Ids \cup {None} /\ out \in 0 .. NextId
    BY <1>2, <1>5, <1>6, <1>9
  <2>2. CASE answering.since # None
    <3>1. KeptClean(good, out)
      BY <1>5, <1>6, <1>9, <2>2 DEF Inv, CleanAnswers
    <3> QED
      BY <1>8, <2>1, <3>1
  <2>3. CASE answering.since = None
    <3>1. idr /\ out = NextId
      BY <1>2, <1>5, <1>6, <1>9, <2>3 DEF None
    <3>2. good \in Int /\ good >= None
      BY <1>2, <2>1 DEF Ids, None
    <3>3. frames' = Append(frames, Encoded(TRUE, dpb)) /\ dpb' \subseteq {NextId}
      <4>1. idr = TRUE
        BY <3>1
      <4> QED
        BY <1>1, <4>1
    <3>4. \A first \in Nat : first = NextId => KeptClean(good, first)'
      BY <3>2, <3>3, BecomesClean
    <3> QED
      BY <3>1, <3>4
  <2> QED
    BY <2>2, <2>3
<1>10. ASSUME ~ AsyncEncoder, announce
       PROVE  answer.since \in 0 .. out /\ answer.since # None
  <2>1. out = NextId
    BY <1>6, <1>10 DEF Inv, Prompt, NextOut
  <2>2. answering.since = None => idr
    BY <1>1, <1>10 DEF Inv, Prompt, MayCode, CodesIdr
  <2>3. answer.since # None
    BY <1>2, <1>5, <2>2 DEF None
  <2>4. answer.since \in 0 .. NextId
    BY <1>2, <1>5, <2>3 DEF Ids
  <2> QED
    BY <2>1, <2>3, <2>4
<1>11. /\ late' \in Seq(Ids') /\ announce' \in BOOLEAN /\ announced' \in 0 .. NextId'
       /\ wire' \in Seq(Ids') /\ AnswersTyped' /\ CleanAnswers' /\ Prompt'
  <2>1. PICK good : good = answer.good
    OBVIOUS
  <2>2. Drained(due, kept, answer)
    BY <1>1, <1>4, <1>5
  <2>3. out = IF due = <<>> THEN NextId' ELSE Head(due)
    BY <1>4, <1>6
  <2>4. announce /\ answer.since \in 0 .. out => KeptClean(good, out)'
    BY <1>9, <2>1
  <2>5. \A g \in Ids \cup {None}, first \in Ids : KeptClean(g, first) => KeptClean(g, first)'
    <3>1. \A first \in Ids : first \in 0 .. NextId
      BY <1>2 DEF Ids
    <3> QED
      BY <1>8, <3>1
  <2>6. ~ AsyncEncoder =>
          (announce => answer.since \in 0 .. out) /\ ~ (announce /\ answer.since = None)
    BY <1>10
  <2>7. NextId' \in Nat /\ NextId' >= NextId /\ Ids \subseteq Ids'
    BY <1>2
  <2> QED
    BY <1>5, <2>1, <2>2, <2>3, <2>4, <2>5, <2>6, <2>7, Handed
<1>12. AgentTyped'
  <2>1. forceIdr' \in BOOLEAN /\ encoding' \in BOOLEAN
    BY <1>1
  <2>2. recoveryRequest' \in 0 .. NextId' /\ encoder' \in Encoders
    BY <1>1, <1>2, <1>3
  <2> QED
    BY <1>2, <1>7, <1>11, <2>1, <2>2 DEF AgentTyped
<1>13. MovingTyped' /\ GateTyped' /\ PictureTyped'
  <2>1. /\ GateTyped' /\ PictureTyped'
        /\ toAgent' \in Seq(Ids' \cup {None}) /\ toClient' \in Seq(Ids')
    BY <1>1, <1>2, OthersTyped
  <2> QED
    BY <1>11, <2>1 DEF MovingTyped
<1> QED
  BY <1>11, <1>12, <1>13 DEF Inv

(* A frame dropped: a point owed waits for the next chunk.  It is clean    *)
(* too, as no reference is to a frame that NVENC skipped.                  *)
LEMMA InvEncoderDrops ==
  ASSUME Inv, UNCHANGED encoder, NEW kept \in {0, 1}, EncoderDrops(kept)
  PROVE  Inv'
<1>1. /\ encoding' = FALSE /\ forceIdr' = FALSE /\ dpb' = dpb /\ (CodesIdr => AsyncEncoder)
      /\ frames' = IF SelectiveRefs THEN Append(frames, Encoded(FALSE, dpb)) ELSE frames
      /\ Drained(late, kept, answering)
      /\ UNCHANGED <<encoder, recoveryRequest, gateVars, pictureVars, toAgent, toClient>>
  BY DEF EncoderDrops, Submitted
<1>2. /\ late \in Seq(Ids) /\ dpb \subseteq Ids /\ encoder \in Encoders /\ NextId \in Nat
      /\ recoveryRequest \in 0 .. NextId /\ frames \in Seq(FrameType)
      /\ answering \in [good : Ids \cup {None}, since : (0 .. NextId) \cup {None}]
      /\ answering.since = NextId => SelectiveRefs
  BY DEF Inv, AgentTyped, AnswersTyped, NextId
<1>3. /\ NextId' \in Nat /\ NextId' >= NextId /\ Ids \subseteq Ids' /\ frames' \in Seq(FrameType')
      /\ IF SelectiveRefs THEN NextId' = NextId + 1 /\ Ids' = Ids \cup {NextId}
                          ELSE NextId' = NextId /\ Ids' = Ids /\ frames' = frames
  <2>1. CASE SelectiveRefs
    <3>1. frames' = Append(frames, Encoded(FALSE, dpb))
      BY <1>1, <2>1
    <3>2. NextId' = NextId + 1 /\ Ids' = Ids \cup {NextId} /\ frames' \in Seq(FrameType')
      BY <3>1, NewFrame
    <3> QED
      BY <1>2, <2>1, <3>2
  <2>2. CASE ~ SelectiveRefs
    <3>1. frames' = frames
      BY <1>1, <2>2
    <3> QED
      BY <1>2, <2>2, <3>1 DEF NextId, Ids, FrameType
  <2> QED
    BY <2>1, <2>2
<1>4. PICK due \in Seq(Ids') : due = late /\ Drained(due, kept, answering)
  <2>1. late \in Seq(Ids')
    BY <1>2, <1>3, Grows
  <2> QED
    BY <1>1, <2>1
<1>5. PICK answer \in [good : Ids \cup {None}, since : Ids' \cup {None}] : answer = answering
  <2>1. answering \in [good : Ids \cup {None}, since : Ids' \cup {None}]
    BY <1>2, <1>3 DEF Ids, None
  <2> QED
    BY <2>1
<1>6. PICK out \in Nat : out = IF due = <<>> THEN NextId' ELSE Head(due)
  BY <1>2, <1>3, <1>4 DEF Ids
<1>7. ASSUME NEW good \in Ids \cup {None}, NEW first \in 0 .. NextId, KeptClean(good, first)
      PROVE  KeptClean(good, first)'
  <2>1. CASE SelectiveRefs
    <3>1. frames' = Append(frames, Encoded(FALSE, dpb)) /\ dpb' \subseteq dpb \cup {NextId}
      BY <1>1, <2>1
    <3> QED
      BY <1>7, <3>1, StaysClean
  <2>2. CASE ~ SelectiveRefs
    <3>1. frames' = frames /\ dpb' = dpb /\ NextId' = NextId
      BY <1>1, <1>3, <2>2
    <3> QED
      BY <1>7, <3>1 DEF KeptClean, Frame
  <2> QED
    BY <2>1, <2>2
<1>8. ASSUME announce, answer.since \in 0 .. out, NEW good, good = answer.good
      PROVE  KeptClean(good, out)'
  <2>1. good \in Ids \cup {None} /\ NextOut \in 0 .. NextId
    BY <1>2, <1>5, <1>8 DEF NextOut, Ids
  <2>2. answer.since \in 0 .. NextOut
    <3>1. CASE due = <<>>
      BY <1>2, <1>4, <1>5, <1>8, <3>1 DEF NextOut, None
    <3>2. CASE due # <<>>
      BY <1>4, <1>6, <1>8, <3>2 DEF NextOut
    <3> QED
      BY <3>1, <3>2
  <2>3. PICK before \in 0 .. NextId : before = NextOut
    BY <2>1
  <2>4. KeptClean(good, before)
    BY <1>5, <1>8, <2>2, <2>3 DEF Inv, CleanAnswers
  <2>5. KeptClean(good, before)'
    BY <1>7, <2>1, <2>4
  <2>6. CASE out = before
    BY <2>5, <2>6
  <2>7. CASE out # before
    <3>1. SelectiveRefs /\ before = NextId /\ out = NextId'
      BY <1>3, <1>4, <1>6, <2>3, <2>7 DEF NextOut
    <3>2. dpb \cap (good + 1 .. before - 1) = {} /\ before \notin dpb
      BY <1>2, <2>4, <3>1 DEF KeptClean, Ids
    <3>3. dpb' \cap (good + 1 .. out - 1) = {}
      <4>1. ASSUME NEW r \in dpb, r \in good + 1 .. out - 1 PROVE FALSE
        <5>1. r # before /\ good \in Int /\ r \in Int /\ before \in Int
          BY <1>2, <2>1, <3>2, <4>1 DEF Ids, None
        <5>2. r \in good + 1 .. before - 1
          BY <1>2, <1>3, <3>1, <4>1, <5>1
        <5> QED
          BY <3>2, <4>1, <5>2
      <4> QED
        BY <1>1, <4>1
    <3>4. out .. NextId' - 1 = {}
      BY <1>3, <3>1
    <3> QED
      BY <3>3, <3>4 DEF KeptClean
  <2> QED
    BY <2>6, <2>7
<1>9. ASSUME ~ AsyncEncoder, announce
      PROVE  answer.since \in 0 .. out /\ answer.since # None
  <2>1. due = <<>> /\ out = NextId'
    BY <1>4, <1>6, <1>9 DEF Inv, Prompt
  <2>2. answer.since # None
    BY <1>1, <1>5, <1>9 DEF Inv, Prompt, CodesIdr
  <2> QED
    BY <1>2, <1>3, <1>5, <2>1, <2>2
<1>10. /\ late' \in Seq(Ids') /\ announce' \in BOOLEAN /\ announced' \in 0 .. NextId'
       /\ wire' \in Seq(Ids') /\ AnswersTyped' /\ CleanAnswers' /\ Prompt'
  <2>1. PICK good : good = answer.good
    OBVIOUS
  <2>2. Drained(due, kept, answer)
    BY <1>4, <1>5
  <2>3. announce /\ answer.since \in 0 .. out => KeptClean(good, out)'
    BY <1>8, <2>1
  <2>4. \A g \in Ids \cup {None}, first \in Ids : KeptClean(g, first) => KeptClean(g, first)'
    <3>1. \A first \in Ids : first \in 0 .. NextId
      BY <1>2 DEF Ids
    <3> QED
      BY <1>7, <3>1
  <2>5. ~ AsyncEncoder =>
          (announce => answer.since \in 0 .. out) /\ ~ (announce /\ answer.since = None)
    BY <1>9
  <2> QED
    BY <1>3, <1>5, <1>6, <2>1, <2>2, <2>3, <2>4, <2>5, Handed
<1>11. AgentTyped'
  <2>1. forceIdr' \in BOOLEAN /\ encoding' \in BOOLEAN
    BY <1>1
  <2>2. recoveryRequest' \in 0 .. NextId' /\ encoder' \in Encoders /\ dpb' \subseteq Ids'
    BY <1>1, <1>2, <1>3
  <2> QED
    BY <1>3, <1>10, <2>1, <2>2 DEF AgentTyped
<1>12. MovingTyped' /\ GateTyped' /\ PictureTyped'
  <2>1. /\ GateTyped' /\ PictureTyped'
        /\ toAgent' \in Seq(Ids' \cup {None}) /\ toClient' \in Seq(Ids')
    BY <1>1, <1>2, <1>3, OthersTyped
  <2> QED
    BY <1>10, <2>1 DEF MovingTyped
<1> QED
  BY <1>10, <1>11, <1>12 DEF Inv

(* A step that codes and asks for nothing leaves the answers as clean as   *)
(* they were.                                                              *)
LEMMA Undisturbed ==
  ASSUME Inv, UNCHANGED <<frames, dpb, late, announce, answerVars, encoder, encoding>>,
         forceIdr => forceIdr'
  PROVE  NextId' = NextId /\ Ids' = Ids /\ FrameType' = FrameType
         /\ AnswersTyped' /\ CleanAnswers' /\ Prompt'
<1>1. /\ frames' = frames /\ dpb' = dpb /\ late' = late /\ announce' = announce
      /\ answers' = answers /\ answering' = answering /\ encoder' = encoder /\ encoding' = encoding
  BY DEF answerVars
<1>2. NextId' = NextId /\ Ids' = Ids /\ FrameType' = FrameType /\ NextOut' = NextOut
  BY <1>1 DEF NextId, Ids, FrameType, NextOut
<1>3. AnswersTyped'
  BY <1>1, <1>2 DEF Inv, AnswersTyped, SelectiveRefs
<1>4. CleanAnswers'
  BY <1>1, <1>2 DEF Inv, CleanAnswers, KeptClean, Frame
<1>5. Prompt'
  BY <1>1 DEF Inv, Prompt, AsyncEncoder
<1> QED
  BY <1>2, <1>3, <1>4, <1>5

(* Frames leave the wire, or are taken off its end. *)
LEMMA InvBacklogDropped ==
  ASSUME Inv, UNCHANGED encoder, NEW sent \in 0 .. Len(wire), BacklogDropped(sent)
  PROVE  Inv'
<1>1. /\ wire' = SubSeq(wire, 1, sent) /\ forceIdr' = TRUE
      /\ UNCHANGED <<frames, dpb, recoveryRequest, encoding, announce, late, announced, encoder,
                     toAgent, toClient, gateVars, answerVars, pictureVars>>
  BY DEF BacklogDropped, outputs
<1>2. NextId' = NextId /\ Ids' = Ids /\ FrameType' = FrameType /\ AnswersTyped' /\ CleanAnswers'
      /\ Prompt'
  BY <1>1, Undisturbed
<1>3. SubSeq(wire, 1, sent) \in Seq(Ids)
  BY DEF Inv, MovingTyped
<1> QED
  BY <1>1, <1>2, <1>3 DEF Inv, AgentTyped, MovingTyped, GateTyped, PictureTyped, gateVars, pictureVars

(* A frame lost is one that was on the wire. *)
LEMMA InvFrameLost ==
  ASSUME Inv, UNCHANGED encoder, FrameLost
  PROVE  Inv'
<1>1. /\ wire' = Tail(wire) /\ wire # <<>>
      /\ UNCHANGED <<frames, dpb, forceIdr, recoveryRequest, encoding, announce, late, announced, encoder,
                     toAgent, toClient, gateVars, answerVars, pictureVars>>
  BY DEF FrameLost, agentVars, directives, outputs
<1>2. NextId' = NextId /\ Ids' = Ids /\ FrameType' = FrameType /\ AnswersTyped' /\ CleanAnswers'
      /\ Prompt'
  BY <1>1, Undisturbed
<1>3. Tail(wire) \in Seq(Ids)
  BY <1>1 DEF Inv, MovingTyped
<1> QED
  BY <1>1, <1>2, <1>3 DEF Inv, AgentTyped, MovingTyped, GateTyped, PictureTyped, gateVars, pictureVars

(* A request cites a frame the client has, so the request stored, that     *)
(* frame + 1, is a frame encoded or the next.                              *)
LEMMA InvAgentReceives ==
  ASSUME Inv, UNCHANGED encoder, AgentReceives
  PROVE  Inv'
<1>1. /\ toAgent # <<>> /\ toAgent' = Tail(toAgent)
      /\ UNCHANGED <<frames, dpb, encoding, announce, late, announced, encoder, wire, toClient,
                     gateVars, answerVars, pictureVars>>
      /\ forceIdr => forceIdr'
  BY DEF AgentReceives, outputs
<1>2. NextId' = NextId /\ Ids' = Ids /\ FrameType' = FrameType /\ AnswersTyped' /\ CleanAnswers'
      /\ Prompt'
  BY <1>1, Undisturbed
<1>3. Tail(toAgent) \in Seq(Ids \cup {None}) /\ Head(toAgent) \in Ids \cup {None}
  BY <1>1 DEF Inv, MovingTyped
<1>4. forceIdr' \in BOOLEAN /\ recoveryRequest' \in 0 .. NextId
  <2>1. NextId \in Nat /\ forceIdr \in BOOLEAN /\ recoveryRequest \in 0 .. NextId
    BY DEF Inv, AgentTyped, NextId
  <2>2. CASE Head(toAgent) = None
    BY <2>1, <2>2 DEF AgentReceives
  <2>3. CASE Head(toAgent) # None
    <3>1. Head(toAgent) \in 0 .. NextId - 1
      BY <1>3, <2>3 DEF Ids
    <3> QED
      BY <2>1, <2>3, <3>1 DEF AgentReceives
  <2> QED
    BY <2>2, <2>3
<1> QED
  BY <1>1, <1>2, <1>3, <1>4 DEF Inv, AgentTyped, MovingTyped, GateTyped, PictureTyped,
                                gateVars, pictureVars

(* A point announced is a frame encoded. *)
LEMMA InvAnnounce ==
  ASSUME Inv, UNCHANGED encoder, Announce
  PROVE  Inv'
<1>1. /\ announced > 0 /\ toClient' = Append(toClient, announced - 1) /\ announced' = 0
      /\ UNCHANGED <<frames, dpb, forceIdr, recoveryRequest, encoding, announce, late, encoder, wire,
                     toAgent, gateVars, answerVars, pictureVars>>
  BY DEF Announce, directives
<1>2. NextId' = NextId /\ Ids' = Ids /\ FrameType' = FrameType /\ AnswersTyped' /\ CleanAnswers'
      /\ Prompt'
  BY <1>1, Undisturbed
<1>3. NextId \in Nat /\ announced \in 0 .. NextId /\ toClient \in Seq(Ids)
  BY DEF Inv, AgentTyped, MovingTyped, NextId
<1>4. announced' \in 0 .. NextId /\ toClient' \in Seq(Ids)
  <2>1. announced - 1 \in Ids
    BY <1>1, <1>3 DEF Ids
  <2> QED
    BY <1>1, <1>3, <2>1
<1> QED
  BY <1>1, <1>2, <1>4 DEF Inv, AgentTyped, MovingTyped, GateTyped, PictureTyped, gateVars, pictureVars

(* The client stores a point it was told. *)
LEMMA InvClientHears ==
  ASSUME Inv, UNCHANGED encoder, ClientHears
  PROVE  Inv'
<1>1. /\ toClient # <<>> /\ toClient' = Tail(toClient) /\ recoveryPoint' = Head(toClient) + 1
      /\ UNCHANGED <<frames, dpb, forceIdr, recoveryRequest, encoding, announce, late, announced, encoder,
                     wire, toAgent, lastFrameId, lastDelivered, awaitingIdr, throttled,
                     decodeError, answerVars, pictureVars>>
  BY DEF ClientHears, agentVars, directives, outputs
<1>2. NextId' = NextId /\ Ids' = Ids /\ FrameType' = FrameType /\ AnswersTyped' /\ CleanAnswers'
      /\ Prompt'
  BY <1>1, Undisturbed
<1>3. Tail(toClient) \in Seq(Ids) /\ Head(toClient) \in Ids
  BY <1>1 DEF Inv, MovingTyped
<1>4. recoveryPoint' \in 0 .. NextId
  <2>1. NextId \in Nat
    BY DEF Inv, AgentTyped, NextId
  <2> QED
    BY <1>1, <1>3, <2>1 DEF Ids
<1> QED
  BY <1>1, <1>2, <1>3, <1>4 DEF Inv, AgentTyped, MovingTyped, GateTyped, PictureTyped, pictureVars

(* The timer changes the throttle alone. *)
LEMMA InvThrottleExpires ==
  ASSUME Inv, UNCHANGED encoder, ThrottleExpires
  PROVE  Inv'
<1>1. /\ throttled' = FALSE
      /\ UNCHANGED <<frames, dpb, forceIdr, recoveryRequest, encoding, announce, late, announced, encoder,
                     wire, toAgent, toClient, lastFrameId, lastDelivered, awaitingIdr,
                     recoveryPoint, decodeError, answerVars, pictureVars>>
  BY DEF ThrottleExpires, agentVars, directives, outputs
<1>2. NextId' = NextId /\ Ids' = Ids /\ FrameType' = FrameType /\ AnswersTyped' /\ CleanAnswers'
      /\ Prompt'
  BY <1>1, Undisturbed
<1> QED
  BY <1>1, <1>2 DEF Inv, AgentTyped, MovingTyped, GateTyped, PictureTyped, pictureVars

(* A request goes out with a frame the client was given, or without.       *)
LEMMA RequestTyped ==
  ASSUME Inv, NEW asks \in BOOLEAN, NEW good \in Ids \cup {None}, Request(asks, good)
  PROVE  throttled' \in BOOLEAN /\ toAgent' \in Seq(Ids \cup {None})
<1>1. throttled \in BOOLEAN /\ toAgent \in Seq(Ids \cup {None})
  BY DEF Inv, GateTyped, MovingTyped
<1> QED
  BY <1>1 DEF Request

(* The gate takes the first frame of the wire, skips it or hands it over. *)
LEMMA InvGate ==
  ASSUME Inv, UNCHANGED encoder, NEW error \in BOOLEAN, Gate(error)
  PROVE  Inv'
<1> DEFINE id == Head(wire)
<1>1. /\ wire # <<>> /\ wire' = Tail(wire) /\ decodeError' = FALSE
      /\ GateSkips(id) \/ GateDelivers(id, error)
      /\ UNCHANGED <<frames, dpb, forceIdr, recoveryRequest, encoding, announce, late, announced, encoder,
                     toClient, recoveryPoint, answerVars>>
  BY DEF Gate, agentVars, directives, outputs
<1>2. NextId' = NextId /\ Ids' = Ids /\ FrameType' = FrameType /\ AnswersTyped' /\ CleanAnswers'
      /\ Prompt'
  BY <1>1, Undisturbed
<1>3. Tail(wire) \in Seq(Ids) /\ id \in Ids
  BY <1>1 DEF Inv, MovingTyped
<1> HIDE DEF id
<1>4. GateTyped /\ PictureTyped
  BY DEF Inv
<1>5. /\ lastFrameId' \in Ids \cup {None} /\ lastDelivered' \in Ids \cup {None}
      /\ awaitingIdr' \in BOOLEAN /\ throttled' \in BOOLEAN
      /\ toAgent' \in Seq(Ids \cup {None})
      /\ decoded' \subseteq Ids /\ corrupt' \subseteq Ids
      /\ rejects' \in 0 .. MaxRejects /\ loose' \in BOOLEAN
  <2>1. CASE GateSkips(id)
    <3>1. /\ awaitingIdr' = TRUE /\ lastFrameId' = id /\ Request(TRUE, lastDelivered)
          /\ UNCHANGED <<lastDelivered, decoded, corrupt, rejects, loose>>
      BY <2>1 DEF GateSkips, pictureVars
    <3>2. throttled' \in BOOLEAN /\ toAgent' \in Seq(Ids \cup {None})
      BY <1>4, <3>1, RequestTyped DEF GateTyped
    <3> QED
      BY <1>3, <1>4, <3>1, <3>2 DEF GateTyped, PictureTyped
  <2>2. CASE GateDelivers(id, error)
    <3> DEFINE asked  == FrozenByError \/ FrozenByGap(id)
               citing == IF asked THEN lastDelivered ELSE id
    <3>1. /\ lastFrameId' = id /\ lastDelivered' = id /\ awaitingIdr' = error
          /\ Request(asked \/ error, citing)
      BY <2>2 DEF GateDelivers
    <3>2. citing \in Ids \cup {None} /\ (asked \/ error) \in BOOLEAN
      BY <1>3, <1>4 DEF GateTyped
    <3>3. throttled' \in BOOLEAN /\ toAgent' \in Seq(Ids \cup {None})
      <4> HIDE DEF asked, citing
      <4> QED
        BY <3>1, <3>2, RequestTyped
    <3>4. decoded' \subseteq Ids /\ corrupt' \subseteq Ids
      BY <1>3, <1>4, <2>2 DEF GateDelivers, PictureTyped
    <3>5. rejects' \in 0 .. MaxRejects
      <4>1. MaxRejects \in Nat /\ rejects \in 0 .. MaxRejects
        BY <1>4, LossRecoveryAssumption DEF PictureTyped, LossRecoveryAssumption
      <4>2. /\ error /\ Sound(id) => rejects < MaxRejects
            /\ rejects' = IF error /\ Sound(id) THEN rejects + 1 ELSE rejects
        BY <2>2 DEF GateDelivers
      <4> QED
        BY <4>1, <4>2
    <3>6. loose' \in BOOLEAN
      BY <2>2 DEF GateDelivers
    <3> QED
      BY <1>3, <3>1, <3>3, <3>4, <3>5, <3>6
  <2> QED
    BY <1>1, <2>1, <2>2
<1>6. AgentTyped'
  BY <1>1, <1>2 DEF Inv, AgentTyped
<1>7. MovingTyped'
  BY <1>1, <1>2, <1>3, <1>5 DEF Inv, MovingTyped, id
<1>8. GateTyped' /\ PictureTyped'
  <2>1. recoveryPoint' \in 0 .. NextId /\ decodeError' \in BOOLEAN
    BY <1>1, <1>4 DEF GateTyped
  <2> QED
    BY <1>2, <1>5, <2>1 DEF GateTyped, PictureTyped
<1> QED
  BY <1>2, <1>6, <1>7, <1>8 DEF Inv

(* The embedder takes a picture back. *)
LEMMA InvEmbedderRejects ==
  ASSUME Inv, UNCHANGED encoder, EmbedderRejects
  PROVE  Inv'
<1>1. /\ decoded' = decoded \ {lastDelivered} /\ loose' = (loose \/ lastDelivered \in decoded)
      /\ decodeError' = TRUE
      /\ UNCHANGED <<frames, dpb, forceIdr, recoveryRequest, encoding, announce, late, announced, encoder,
                     wire, toAgent, toClient, lastFrameId, lastDelivered, awaitingIdr,
                     recoveryPoint, throttled, answerVars, corrupt>>
  BY DEF EmbedderRejects, agentVars, directives, outputs
<1>2. NextId' = NextId /\ Ids' = Ids /\ FrameType' = FrameType /\ AnswersTyped' /\ CleanAnswers'
      /\ Prompt'
  BY <1>1, Undisturbed
<1>3. rejects' \in 0 .. MaxRejects
  <2>1. MaxRejects \in Nat /\ rejects \in 0 .. MaxRejects
    BY LossRecoveryAssumption DEF Inv, PictureTyped, LossRecoveryAssumption
  <2> QED
    BY <2>1 DEF EmbedderRejects
<1> QED
  BY <1>1, <1>2, <1>3 DEF Inv, AgentTyped, MovingTyped, GateTyped, PictureTyped

(* Nothing happens. *)
LEMMA InvStutters == Inv /\ UNCHANGED vars => Inv'
<1> SUFFICES ASSUME Inv, UNCHANGED vars PROVE Inv'
  OBVIOUS
<1>1. UNCHANGED <<frames, dpb, forceIdr, recoveryRequest, encoding, announce, late, announced, encoder,
                  wire, toAgent, toClient, gateVars, answerVars, pictureVars>>
  BY DEF vars, agentVars, directives, outputs
<1>2. NextId' = NextId /\ Ids' = Ids /\ FrameType' = FrameType /\ AnswersTyped' /\ CleanAnswers'
      /\ Prompt'
  BY <1>1, Undisturbed
<1> QED
  BY <1>1, <1>2 DEF Inv, AgentTyped, MovingTyped, GateTyped, PictureTyped, gateVars, pictureVars

(* Each action of Next in turn. *)
LEMMA InvNext == Inv /\ [Next]_vars => Inv'
<1> SUFFICES ASSUME Inv, [Next]_vars PROVE Inv'
  OBVIOUS
<1>1. CASE UNCHANGED vars
  BY <1>1, InvStutters
<1>2. CASE Next
  <2> UNCHANGED encoder
    BY <1>2 DEF Next
  <2>0. CASE TakeRequest
    BY <2>0, InvTakeRequest
  <2>1. CASE \E idr \in BOOLEAN, kept \in {0, 1} : EncodeFrame(idr, kept)
    BY <2>1, InvEncodeFrame
  <2>2. CASE \E kept \in {0, 1} : EncoderDrops(kept)
    BY <2>2, InvEncoderDrops
  <2>3. CASE \E sent \in 0 .. Len(wire) : BacklogDropped(sent)
    BY <2>3, InvBacklogDropped
  <2>4. CASE FrameLost
    BY <2>4, InvFrameLost
  <2>5. CASE AgentReceives
    BY <2>5, InvAgentReceives
  <2>6. CASE Announce
    BY <2>6, InvAnnounce
  <2>7. CASE ClientHears
    BY <2>7, InvClientHears
  <2>8. CASE ThrottleExpires
    BY <2>8, InvThrottleExpires
  <2>9. CASE \E error \in BOOLEAN : Gate(error)
    BY <2>9, InvGate
  <2>10. CASE EmbedderRejects
    BY <2>10, InvEmbedderRejects
  <2> QED
    BY <1>2, <2>0, <2>1, <2>2, <2>3, <2>4, <2>5, <2>6, <2>7, <2>8, <2>9, <2>10 DEF Next, Steps
<1> QED
  BY <1>1, <1>2

(* So the invariant holds in every reachable state. *)
LEMMA InvAlways == Spec => []Inv
BY InvInit, InvNext, PTL DEF Spec

-----------------------------------------------------------------------------

(* Whatever the loss, the delays and the encoder, frame ids in flight are  *)
(* of frames that were encoded, and a point announced is one of them.      *)
THEOREM TypeCorrect == Spec => []TypeOK
<1>1. Inv => TypeOK
  BY DEF Inv, AgentTyped, MovingTyped, GateTyped, PictureTyped, AnswersTyped, TypeOK, Ids, FrameType
<1> QED
  BY <1>1, InvAlways, PTL

(* A recovery point keeps its promise (the encode loop of pipeline.rs): no *)
(* frame from the first safe one on references a frame the client reported *)
(* missing.  With NVENC and openh264 that holds of every point announced,  *)
(* for any invalidation window and wherever a request falls between the    *)
(* two swaps; with VideoToolbox, of those announced at the frame coded     *)
(* clean for the request, or later.                                        *)
THEOREM PointsAreClean == Spec => []RecoveryPointClean
<1>1. Inv => RecoveryPointClean
  BY DEF Inv, CleanAnswers, Prompt, KeptClean, CleanFrom, RecoveryPointClean
<1> QED
  BY <1>1, InvAlways, PTL

-----------------------------------------------------------------------------
(* The gate.                                                               *)

(* Frames come out of the encoder, and to the gate, in the order coded.    *)
InOrder ==
  /\ \A i, j \in 1 .. Len(wire) : i < j => wire[i] < wire[j]
  /\ \A i, j \in 1 .. Len(late) : i < j => late[i] < late[j]
  /\ \A i \in 1 .. Len(wire), j \in 1 .. Len(late) : wire[i] < late[j]
  /\ \A i \in 1 .. Len(wire) : wire[i] > lastFrameId
  /\ \A j \in 1 .. Len(late) : late[j] > lastFrameId

(* A gate that waits for nothing has delivered the frame it saw last.      *)
Follows ==
  /\ lastDelivered <= lastFrameId
  /\ ~ awaitingIdr => lastFrameId = lastDelivered /\ lastFrameId # None

(* No frame from one on references the picture, nor may a later one.       *)
Gone(r, from) ==
  r \notin dpb /\ \A id \in from .. NextId - 1 : Frame(id).ref # r

(* References go back, and never past an IDR.                              *)
RefsGoBack ==
  \A id \in Ids :
    /\ Frame(id).ref < id
    /\ Frame(id).kind = "Idr" => Frame(id).ref = None /\ \A r \in 0 .. id - 1 : Gone(r, id)

(* Of the frames up to the last one delivered, those the decoder does not  *)
(* have are of no use any more.                                            *)
Intact == ~ loose => \A r \in (0 .. lastDelivered) \ decoded : Gone(r, lastDelivered + 1)

GateInv == InOrder /\ Follows /\ RefsGoBack /\ Intact

LEMMA GateInitial == Init => GateInv
<1> SUFFICES ASSUME Init PROVE GateInv
  OBVIOUS
<1>1. Len(wire) = 0 /\ Len(late) = 0 /\ Len(frames) = 0
  BY DEF Init
<1>2. InOrder
  BY <1>1 DEF InOrder
<1>3. Follows
  <2>1. lastDelivered = -1 /\ lastFrameId = -1 /\ awaitingIdr = TRUE
    BY DEF Init, None
  <2> QED
    BY <2>1 DEF Follows
<1>4. RefsGoBack
  BY <1>1 DEF RefsGoBack, Ids, NextId
<1>5. Intact
  BY DEF Init, Intact, None
<1> QED
  BY <1>2, <1>3, <1>4, <1>5 DEF GateInv

(* A picture gone stays so: the references of a new frame are among the    *)
(* old ones.                                                               *)
LEMMA GoneStays ==
  ASSUME Inv, NEW idr \in BOOLEAN, frames' = Append(frames, Encoded(idr, dpb)),
         dpb' \subseteq dpb \cup {NextId},
         NEW r \in Ids, NEW from \in Nat, Gone(r, from)
  PROVE  Gone(r, from)'
<1>1. /\ NextId \in Nat /\ NextId' = NextId + 1 /\ Ids' = Ids \cup {NextId}
      /\ Encoded(idr, dpb).ref \in dpb \cup {None}
      /\ \A id \in Ids : Frame(id)' = Frame(id)
      /\ \A id \in Ids' : id = NextId => Frame(id)' = Encoded(idr, dpb)
  BY NewFrame
<1>2. r # NextId /\ r # None /\ r \notin dpb
  BY <1>1 DEF Ids, None, Gone
<1>3. r \notin dpb'
  BY <1>2
<1>4. ASSUME NEW id \in from .. NextId' - 1 PROVE Frame(id)'.ref # r
  <2>1. CASE id = NextId
    <3>1. Frame(id)' = Encoded(idr, dpb)
      BY <1>1, <2>1
    <3> QED
      BY <1>1, <1>2, <3>1
  <2>2. CASE id # NextId
    <3>1. id \in Ids /\ id \in from .. NextId - 1
      BY <1>1, <2>2 DEF Ids
    <3> QED
      BY <1>1, <3>1 DEF Gone
  <2> QED
    BY <2>1, <2>2
<1> QED
  BY <1>3, <1>4 DEF Gone

(* What a new frame leaves to the gate.                                    *)
LEMMA EncodedKeeps ==
  ASSUME Inv, GateInv, NEW idr \in BOOLEAN, frames' = Append(frames, Encoded(idr, dpb)),
         dpb' \subseteq (IF idr THEN {} ELSE dpb) \cup {NextId},
         UNCHANGED <<gateVars, pictureVars>>
  PROVE  Follows' /\ RefsGoBack' /\ Intact'
<1>1. /\ NextId \in Nat /\ NextId' = NextId + 1 /\ Ids' = Ids \cup {NextId}
      /\ Encoded(idr, dpb).ref \in dpb \cup {None} /\ (idr => Encoded(idr, dpb).ref = None)
      /\ \A id \in Ids : Frame(id)' = Frame(id)
      /\ \A id \in Ids' : id = NextId => Frame(id)' = Encoded(idr, dpb)
  BY NewFrame
<1>2. dpb \subseteq Ids
  BY DEF Inv, AgentTyped
<1>3. \A r \in Ids, from \in Nat : Gone(r, from) => Gone(r, from)'
  BY GoneStays
<1>4. Follows'
  BY DEF GateInv, Follows, gateVars
<1>5. RefsGoBack'
  <2>1. ASSUME NEW id \in Ids
        PROVE  /\ Frame(id)'.ref < id
               /\ Frame(id)'.kind = "Idr" =>
                    Frame(id)'.ref = None /\ \A r \in 0 .. id - 1 : Gone(r, id)'
    <3>1. Frame(id)' = Frame(id)
      BY <1>1
    <3>2. id \in Nat /\ \A r \in 0 .. id - 1 : r \in Ids
      BY <1>1 DEF Ids
    <3> QED
      BY <1>3, <3>1, <3>2 DEF GateInv, RefsGoBack
  <2>2. PICK n \in Nat : n = NextId
    BY <1>1
  <2>3. n \in Ids' /\ Frame(n)' = Encoded(idr, dpb)
    BY <1>1, <2>2
  <2>4. Encoded(idr, dpb).ref < n
    <3>1. Encoded(idr, dpb).ref \in (0 .. n - 1) \cup {-1}
      BY <1>1, <1>2, <2>2 DEF Ids, None
    <3> QED
      BY <3>1
  <2>5. Encoded(idr, dpb).kind = "Idr" => idr
    BY DEF Encoded
  <2>6. ASSUME idr, NEW r \in 0 .. n - 1 PROVE Gone(r, n)'
    <3>1. r \notin dpb'
      BY <2>2, <2>6
    <3>2. ASSUME NEW id \in n .. NextId' - 1 PROVE Frame(id)'.ref # r
      <4>1. id = n
        BY <1>1, <2>2
      <4>2. Frame(id)'.ref = None
        BY <1>1, <2>3, <2>6, <4>1
      <4> QED
        BY <4>2 DEF None
    <3> QED
      BY <3>1, <3>2 DEF Gone
  <2>7. SUFFICES ASSUME NEW id \in Ids'
                 PROVE  /\ Frame(id)'.ref < id
                        /\ Frame(id)'.kind = "Idr" =>
                             Frame(id)'.ref = None /\ \A r \in 0 .. id - 1 : Gone(r, id)'
    BY DEF RefsGoBack
  <2>8. CASE id \in Ids
    BY <2>1, <2>8
  <2>9. CASE id = n
    BY <1>1, <2>3, <2>4, <2>5, <2>6, <2>9
  <2> QED
    BY <1>1, <2>2, <2>8, <2>9
<1>6. Intact'
  <2>1. SUFFICES ASSUME ~ loose, NEW r \in (0 .. lastDelivered) \ decoded
                 PROVE  Gone(r, lastDelivered + 1)'
    BY DEF Intact, gateVars, pictureVars, Gone
  <2>2. r \in Ids /\ lastDelivered + 1 \in Nat
    BY <1>1 DEF Inv, GateTyped, Ids, None
  <2>3. Gone(r, lastDelivered + 1)
    BY <2>1 DEF GateInv, Intact
  <2>4. Gone(r, lastDelivered + 1) => \A from \in Nat : from = lastDelivered + 1 => Gone(r, from)'
    BY <1>3, <2>2
  <2> QED
    BY <2>2, <2>3, <2>4 DEF gateVars, Gone
<1> QED
  BY <1>4, <1>5, <1>6

(* The order of what comes out of the encoder, if what is due is in order. *)
LEMMA OutOrdered ==
  ASSUME Inv, InOrder, NEW kept \in {0, 1}, NEW queued \in Seq(Ids \cup {NextId}), NEW answer,
         Drained(queued, kept, answer), UNCHANGED lastFrameId,
         \A i, j \in 1 .. Len(queued) : i < j => queued[i] < queued[j],
         \A i \in 1 .. Len(wire), j \in 1 .. Len(queued) : wire[i] < queued[j],
         \A j \in 1 .. Len(queued) : queued[j] > lastFrameId
  PROVE  InOrder'
<1> DEFINE m   == Len(queued) - kept
           out == SubSeq(queued, 1, m)
<1>1. /\ late' = SubSeq(queued, Len(out) + 1, Len(queued))
      /\ wire' = wire \o out /\ kept <= Len(queued)
      /\ UNCHANGED lastFrameId
  BY DEF Drained
<1>2. /\ wire \in Seq(Ids) /\ NextId \in Nat /\ lastFrameId \in Ids \cup {None}
      /\ Len(queued) \in Nat /\ Len(wire) \in Nat
  BY DEF Inv, AgentTyped, MovingTyped, GateTyped, NextId
<1>3. \A j \in 1 .. Len(wire) : wire[j] \in Ids
  BY <1>2
<1>4. queued \in Seq(Ids \cup {NextId})
  OBVIOUS
<1>5. /\ \A i, j \in 1 .. Len(queued) : i < j => queued[i] < queued[j]
      /\ \A i \in 1 .. Len(wire), j \in 1 .. Len(queued) : wire[i] < queued[j]
      /\ \A j \in 1 .. Len(queued) : queued[j] > lastFrameId
  OBVIOUS
<1>6. m \in 0 .. Len(queued)
  BY <1>1, <1>2
<1> HIDE DEF m
<1>7. out \in Seq(Ids \cup {NextId}) /\ Len(out) = m /\ \A i \in 1 .. m : out[i] = queued[i]
  BY <1>4, <1>6
<1>8. /\ Len(late') = Len(queued) - m
      /\ \A i \in 1 .. Len(late') : late'[i] = queued[m + i]
  <2>1. late' = SubSeq(queued, m + 1, Len(queued))
    BY <1>1, <1>7
  <2> QED
    BY <1>4, <1>6, <2>1, RestOf
<1> HIDE DEF out
<1>9. /\ Len(wire') = Len(wire) + m
      /\ \A i \in 1 .. Len(wire) : wire'[i] = wire[i]
      /\ \A i \in 1 .. m : wire'[Len(wire) + i] = queued[i]
  <2>1. wire \in Seq(Ids \cup {NextId})
    BY <1>2, Grows
  <2>2. /\ Len(wire') = Len(wire) + Len(out)
        /\ \A i \in 1 .. Len(wire) : wire'[i] = wire[i]
        /\ \A i \in 1 .. Len(out) : wire'[Len(wire) + i] = out[i]
    <3>1. /\ Len(wire \o out) = Len(wire) + Len(out)
          /\ \A i \in 1 .. Len(wire) : (wire \o out)[i] = wire[i]
          /\ \A i \in 1 .. Len(out) : (wire \o out)[Len(wire) + i] = out[i]
      <4> DEFINE known == Ids \cup {NextId}
      <4>1. out \in Seq(known) /\ wire \in Seq(known)
        BY <1>7, <2>1
      <4> HIDE DEF known
      <4> QED
        BY ONLY <4>1, Joined, SMTT(30)
    <3> QED
      BY <1>1, <3>1
  <2> QED
    BY <1>7, <2>2
<1>10. Len(queued) \in Nat /\ m \in Nat /\ m <= Len(queued)
  BY <1>4, <1>6
<1>11. \A i \in 1 .. Len(wire') :
         \/ i \in 1 .. Len(wire) /\ wire'[i] = wire[i]
         \/ i > Len(wire) /\ i - Len(wire) \in 1 .. m /\ wire'[i] = queued[i - Len(wire)]
  <2>1. SUFFICES ASSUME NEW i \in 1 .. Len(wire'), i \notin 1 .. Len(wire)
                 PROVE  /\ i > Len(wire) /\ i - Len(wire) \in 1 .. m
                        /\ wire'[i] = queued[i - Len(wire)]
    BY <1>9
  <2>2. i > Len(wire) /\ i - Len(wire) \in 1 .. m
    BY <1>2, <1>9, <1>10, <2>1
  <2>3. wire'[Len(wire) + (i - Len(wire))] = queued[i - Len(wire)]
    BY <1>9, <2>2
  <2>4. Len(wire) + (i - Len(wire)) = i
    BY <1>2, <2>1
  <2> QED
    BY <2>2, <2>3, <2>4
<1>12. \A i, j \in 1 .. Len(wire') : i < j => wire'[i] < wire'[j]
  <2>1. SUFFICES ASSUME NEW i \in 1 .. Len(wire'), NEW j \in 1 .. Len(wire'), i < j
                 PROVE  wire'[i] < wire'[j]
    OBVIOUS
  <2>2. CASE i \in 1 .. Len(wire) /\ j \in 1 .. Len(wire)
    BY <1>9, <2>1, <2>2 DEF InOrder
  <2>3. CASE i \in 1 .. Len(wire) /\ j \notin 1 .. Len(wire)
    <3>1. j - Len(wire) \in 1 .. Len(queued) /\ wire'[j] = queued[j - Len(wire)] /\ wire'[i] = wire[i]
      BY <1>9, <1>10, <1>11, <2>3
    <3> QED
      BY <1>5, <2>3, <3>1
  <2>4. CASE i \notin 1 .. Len(wire)
    <3>1. /\ i - Len(wire) \in 1 .. Len(queued) /\ wire'[i] = queued[i - Len(wire)]
          /\ j \notin 1 .. Len(wire)
      BY <1>2, <1>10, <1>11, <2>1, <2>4
    <3>2. j - Len(wire) \in 1 .. Len(queued) /\ wire'[j] = queued[j - Len(wire)]
      BY <1>10, <1>11, <3>1
    <3>3. i - Len(wire) < j - Len(wire)
      BY <1>2, <2>1
    <3> QED
      BY <1>5, <3>1, <3>2, <3>3
  <2> QED
    BY <2>2, <2>3, <2>4
<1>13. \A i \in 1 .. Len(late') : m + i \in 1 .. Len(queued) /\ m + i > m
  BY <1>8, <1>10
<1>14. \A i, j \in 1 .. Len(late') : i < j => late'[i] < late'[j]
  <2>1. SUFFICES ASSUME NEW i \in 1 .. Len(late'), NEW j \in 1 .. Len(late'), i < j
                 PROVE  queued[m + i] < queued[m + j]
    BY <1>8
  <2>2. m + i < m + j
    BY <1>10, <2>1
  <2> QED
    BY <1>5, <1>13, <2>2
<1>15. \A i \in 1 .. Len(wire'), j \in 1 .. Len(late') : wire'[i] < late'[j]
  <2>1. SUFFICES ASSUME NEW i \in 1 .. Len(wire'), NEW j \in 1 .. Len(late')
                 PROVE  wire'[i] < queued[m + j]
    BY <1>8
  <2>2. CASE i \in 1 .. Len(wire)
    BY <1>5, <1>9, <1>13, <2>2
  <2>3. CASE i \notin 1 .. Len(wire)
    <3>1. i - Len(wire) \in 1 .. m /\ wire'[i] = queued[i - Len(wire)]
      BY <1>11, <2>3
    <3>2. i - Len(wire) \in 1 .. Len(queued) /\ i - Len(wire) < m + j
      BY <1>10, <3>1
    <3> QED
      BY <1>5, <1>13, <3>1, <3>2
  <2> QED
    BY <2>2, <2>3
<1>16. \A i \in 1 .. Len(wire') : wire'[i] > lastFrameId
  <2>1. \A i \in 1 .. m : i \in 1 .. Len(queued)
    BY <1>10
  <2> QED
    BY <1>5, <1>11, <2>1 DEF InOrder
<1>17. \A j \in 1 .. Len(late') : late'[j] > lastFrameId
  BY <1>5, <1>8, <1>13
<1> QED
  BY <1>1, <1>12, <1>14, <1>15, <1>16, <1>17 DEF InOrder

(* The frame coded comes after those whose bitstream is late.              *)
LEMMA EncodeOrdered ==
  ASSUME Inv, InOrder, NEW idr \in BOOLEAN, NEW kept \in {0, 1}, EncodeFrame(idr, kept)
  PROVE  InOrder'
<1>1. Drained(Append(late, NextId), kept, Settled(idr)) /\ UNCHANGED lastFrameId
  BY DEF EncodeFrame, Submitted, gateVars
<1>2. /\ late \in Seq(Ids) /\ wire \in Seq(Ids) /\ NextId \in Nat /\ lastFrameId \in Ids \cup {None}
      /\ Len(late) \in Nat /\ Len(wire) \in Nat
  BY DEF Inv, AgentTyped, MovingTyped, GateTyped, NextId
<1>3. /\ \A j \in 1 .. Len(late) : late[j] \in Ids /\ late[j] < NextId
      /\ \A j \in 1 .. Len(wire) : wire[j] \in Ids /\ wire[j] < NextId
      /\ lastFrameId < NextId /\ lastFrameId \in Int
  BY <1>2 DEF Ids, None
<1>4. PICK queued \in Seq(Ids \cup {NextId}) :
        /\ queued = Append(late, NextId) /\ Len(queued) = Len(late) + 1
        /\ \A j \in 1 .. Len(late) : queued[j] = late[j]
        /\ queued[Len(late) + 1] = NextId
  <2>1. late \in Seq(Ids \cup {NextId}) /\ NextId \in Ids \cup {NextId}
    BY <1>2, Grows
  <2> QED
    BY <2>1, AppendProperties
<1>5. /\ \A i, j \in 1 .. Len(queued) : i < j => queued[i] < queued[j]
      /\ \A i \in 1 .. Len(wire), j \in 1 .. Len(queued) : wire[i] < queued[j]
      /\ \A j \in 1 .. Len(queued) : queued[j] > lastFrameId
  BY <1>2, <1>3, <1>4 DEF InOrder
<1>6. Drained(queued, kept, Settled(idr))
  BY <1>1, <1>4
<1> QED
  BY <1>1, <1>5, <1>6, OutOrdered

(* Frames that leave the wire at either end leave the others in order.     *)
LEMMA TailOrdered ==
  ASSUME Inv, InOrder, wire # <<>>, wire' = Tail(wire), UNCHANGED late,
         lastFrameId' \in {lastFrameId, Head(wire)}
  PROVE  InOrder' /\ Head(wire) > lastFrameId /\ Head(wire) \in Ids
<1>1. /\ wire \in Seq(Ids) /\ Len(wire) \in Nat /\ Len(wire) > 0
      /\ Head(wire) = wire[1] /\ 1 \in 1 .. Len(wire)
      /\ Len(wire') = Len(wire) - 1
      /\ \A i \in 1 .. Len(wire') : wire'[i] = wire[i + 1] /\ i + 1 \in 1 .. Len(wire)
  BY DEF Inv, MovingTyped
<1>2. Head(wire) > lastFrameId /\ Head(wire) \in Ids
  BY <1>1 DEF InOrder
<1>3. \A i \in 1 .. Len(wire') : wire'[i] > Head(wire) /\ wire'[i] > lastFrameId
  BY <1>1 DEF InOrder
<1>4. \A j \in 1 .. Len(late) : late[j] > Head(wire) /\ late[j] > lastFrameId
  BY <1>1 DEF InOrder
<1>5. \A i, j \in 1 .. Len(wire') : i < j => wire'[i] < wire'[j]
  BY <1>1 DEF InOrder
<1>6. \A i \in 1 .. Len(wire'), j \in 1 .. Len(late) : wire'[i] < late[j]
  BY <1>1 DEF InOrder
<1> QED
  BY <1>2, <1>3, <1>4, <1>5, <1>6 DEF InOrder

LEMMA FrontOrdered ==
  ASSUME Inv, InOrder, NEW sent \in 0 .. Len(wire), wire' = SubSeq(wire, 1, sent),
         UNCHANGED <<late, lastFrameId>>
  PROVE  InOrder'
<1>1. /\ wire \in Seq(Ids) /\ Len(wire') = sent
      /\ \A i \in 1 .. Len(wire') : wire'[i] = wire[i] /\ i \in 1 .. Len(wire)
  BY DEF Inv, MovingTyped
<1> QED
  BY <1>1 DEF InOrder

(* Steps of the control stream and the timers.                             *)
LEMMA GateUntouched ==
  ASSUME GateInv, UNCHANGED <<frames, lastFrameId, lastDelivered, awaitingIdr>>,
         dpb' \subseteq dpb, UNCHANGED <<decoded, loose>>
  PROVE  Follows' /\ RefsGoBack' /\ Intact' /\ (UNCHANGED <<wire, late>> => InOrder')
<1>1. NextId' = NextId /\ Ids' = Ids /\ (\A id : Frame(id)' = Frame(id))
      /\ \A r, from : Gone(r, from) => Gone(r, from)'
  BY DEF NextId, Ids, Frame, Gone
<1> QED
  BY <1>1 DEF GateInv, Follows, RefsGoBack, Intact, InOrder

(* Gone from one frame on, gone from a later one on. *)
LEMMA GoneLater ==
  ASSUME NEW r, NEW from \in Nat, NEW to \in Nat, from <= to, NextId \in Nat, Gone(r, from)
  PROVE  Gone(r, to)
BY DEF Gone

(* Of the frames before the one handed over, those the decoder does not    *)
(* have are of no use any more, unless the announcement does not fit: the  *)
(* frame is an IDR; or it follows the one delivered last; or the agent     *)
(* answered that frames after the one delivered last are not referenced.   *)
LEMMA MissingAreGone ==
  ASSUME Inv, GateInv, NEW id \in Ids, id > lastFrameId,
         Frame(id).kind = "Idr" \/ (~ loose /\ (~ Frozen(id) \/ Fits(id))),
         NEW r \in (0 .. id - 1) \ decoded
  PROVE  Gone(r, id)
<1>1. /\ NextId \in Nat /\ id \in Nat /\ id < NextId
      /\ lastDelivered \in Int /\ lastDelivered >= -1 /\ lastDelivered < id /\ r \in Nat /\ r < id
      /\ lastFrameId \in Int
  BY DEF Inv, AgentTyped, GateTyped, GateInv, Follows, NextId, Ids, None
<1>2. ASSUME ~ loose, r <= lastDelivered PROVE Gone(r, id)
  <2>1. r \in (0 .. lastDelivered) \ decoded
    BY <1>1, <1>2
  <2>2. Gone(r, lastDelivered + 1)
    BY <1>2, <2>1 DEF GateInv, Intact
  <2>3. PICK from \in Nat : from = lastDelivered + 1 /\ from <= id
    BY <1>1
  <2> QED
    BY <1>1, <2>2, <2>3, GoneLater
<1>3. CASE Frame(id).kind = "Idr"
  BY <1>1, <1>3 DEF GateInv, RefsGoBack
<1>4. CASE Frame(id).kind # "Idr" /\ ~ loose /\ ~ Frozen(id)
  <2>1. ~ awaitingIdr /\ ~ FrozenByError /\ ~ Gap(id)
    BY <1>4 DEF Frozen, FrozenByGap
  <2>2. lastFrameId = lastDelivered /\ lastFrameId # None
    BY <2>1 DEF GateInv, Follows
  <2>3. id - lastFrameId = 1
    BY <2>1, <2>2 DEF Gap
  <2> QED
    BY <1>1, <1>2, <1>4, <2>2, <2>3
<1>5. CASE ~ loose /\ Fits(id)
  <2>1. /\ id \in DOMAIN answers /\ answers[id].good = lastDelivered
        /\ answers[id].since \in 0 .. id
    BY <1>5 DEF Fits
  <2>2. KeptClean(lastDelivered, id)
    BY <2>1 DEF Inv, CleanAnswers
  <2>3. CASE r > lastDelivered
    <3>1. r \in lastDelivered + 1 .. id - 1
      BY <1>1, <2>3
    <3> QED
      BY <2>2, <3>1 DEF KeptClean, Gone
  <2> QED
    BY <1>1, <1>2, <1>5, <2>3
<1> QED
  BY <1>3, <1>4, <1>5

(* The gate takes a frame: handed over, it is sound or the gate is loose.  *)
LEMMA GateKeeps ==
  ASSUME Inv, GateInv, NEW error \in BOOLEAN, Gate(error)
  PROVE  GateInv' /\ (corrupt' # corrupt => loose')
<1> DEFINE id == Head(wire)
<1>1. /\ wire # <<>> /\ wire' = Tail(wire)
      /\ GateSkips(id) \/ GateDelivers(id, error)
      /\ UNCHANGED <<frames, dpb, late, answers>>
  BY DEF Gate, agentVars, outputs, answerVars
<1>2. NextId' = NextId /\ Ids' = Ids /\ (\A n : Frame(n)' = Frame(n))
      /\ (\A r, from : Gone(r, from)' <=> Gone(r, from)) /\ RefsGoBack'
  <2>1. NextId' = NextId /\ Ids' = Ids /\ (\A n : Frame(n)' = Frame(n))
        /\ \A r, from : Gone(r, from)' <=> Gone(r, from)
    BY <1>1 DEF NextId, Ids, Frame, Gone
  <2> QED
    BY <2>1 DEF GateInv, RefsGoBack
<1>3. lastFrameId' = id
  BY <1>1 DEF GateSkips, GateDelivers
<1>4. InOrder' /\ id > lastFrameId /\ id \in Ids
  BY <1>1, <1>3, TailOrdered DEF GateInv
<1> HIDE DEF id
<1>5. /\ NextId \in Nat /\ id \in Nat /\ id < NextId
      /\ lastDelivered \in Int /\ lastDelivered < id /\ lastFrameId \in Int
  BY <1>4 DEF Inv, AgentTyped, GateTyped, GateInv, Follows, NextId, Ids, None
<1>6. CASE GateSkips(id)
  <2>1. awaitingIdr' = TRUE /\ UNCHANGED <<lastDelivered, decoded, corrupt, loose>>
    BY <1>6 DEF GateSkips, pictureVars
  <2>2. Follows'
    BY <1>3, <1>5, <2>1 DEF Follows
  <2>3. Intact'
    BY <1>2, <2>1 DEF GateInv, Intact
  <2> QED
    BY <1>2, <1>4, <2>1, <2>2, <2>3 DEF GateInv
<1>7. CASE GateDelivers(id, error)
  <2>1. /\ lastDelivered' = id
        /\ decoded' = IF Sound(id) /\ ~ error THEN decoded \cup {id} ELSE decoded
        /\ corrupt' = IF Sound(id) THEN corrupt ELSE corrupt \cup {id}
    BY <1>7 DEF GateDelivers
  <2>2. loose' = \/ error /\ Sound(id)
                 \/ /\ Frame(id).kind # "Idr"
                    /\ loose \/ (Frozen(id) /\ ~ Fits(id))
    BY <1>7 DEF GateDelivers
  <2>3. Follows'
    BY <1>3, <1>5, <2>1 DEF Follows, None
  <2>4. ASSUME ~ loose' PROVE Sound(id) /\ \A r \in (0 .. id - 1) \ decoded : Gone(r, id)
    <3>1. Frame(id).kind = "Idr" \/ (~ loose /\ (~ Frozen(id) \/ Fits(id)))
      BY <2>2, <2>4
    <3>2. \A r \in (0 .. id - 1) \ decoded : Gone(r, id)
      BY <1>4, <3>1, MissingAreGone
    <3>3. Frame(id).ref < id /\ Frame(id).ref \in Ids \cup {None}
      <4>1. Frame(id) \in FrameType
        BY <1>4 DEF Inv, AgentTyped, Frame, Ids, NextId
      <4> QED
        BY <1>4, <4>1 DEF GateInv, RefsGoBack, FrameType
    <3>4. CASE Frame(id).ref \in (0 .. id - 1) \ decoded
      BY <1>5, <3>2, <3>4 DEF Gone
    <3> QED
      BY <1>5, <3>2, <3>3, <3>4 DEF Sound, Ids
  <2>5. Intact'
    <3>1. SUFFICES ASSUME ~ loose', NEW r \in (0 .. id) \ decoded'
                   PROVE  Gone(r, id + 1)
      BY <1>2, <2>1 DEF Intact
    <3>2. Sound(id) /\ ~ error
      BY <2>2, <2>4, <3>1
    <3>3. r \in (0 .. id - 1) \ decoded
      BY <1>5, <2>1, <3>1, <3>2
    <3> QED
      BY <1>5, <2>4, <3>1, <3>3, GoneLater
  <2>6. corrupt' # corrupt => loose'
    BY <2>1, <2>4
  <2> QED
    BY <1>2, <1>4, <2>3, <2>5, <2>6 DEF GateInv
<1> QED
  BY <1>1, <1>6, <1>7 DEF id

(* Each action of Next in turn. *)
LEMMA GateStep ==
  ASSUME Inv, GateInv, [Next]_vars
  PROVE  GateInv' /\ (corrupt' # corrupt => loose')
<1>1. CASE UNCHANGED vars
  BY <1>1, GateUntouched DEF vars, agentVars, outputs, gateVars, pictureVars, GateInv
<1>0. CASE TakeRequest
  <2>1. /\ UNCHANGED <<frames, lastFrameId, lastDelivered, awaitingIdr>> /\ dpb' \subseteq dpb
        /\ UNCHANGED <<decoded, loose>> /\ UNCHANGED <<wire, late, corrupt>>
    BY <1>0 DEF TakeRequest, CleanRefs, gateVars, pictureVars
  <2> QED
    BY <2>1, GateUntouched DEF GateInv
<1>2. ASSUME NEW idr \in BOOLEAN, NEW kept \in {0, 1}, EncodeFrame(idr, kept)
      PROVE  GateInv' /\ corrupt' = corrupt
  <2>1. /\ frames' = Append(frames, Encoded(idr, dpb))
        /\ dpb' = {NextId} \cup (IF idr THEN {} ELSE dpb)
        /\ UNCHANGED <<gateVars, pictureVars>>
    BY <1>2 DEF EncodeFrame, Submitted
  <2>2. Follows' /\ RefsGoBack' /\ Intact'
    BY <2>1, EncodedKeeps
  <2>3. InOrder'
    BY <1>2, EncodeOrdered DEF GateInv
  <2> QED
    BY <2>1, <2>2, <2>3 DEF GateInv, pictureVars
<1>3. ASSUME NEW kept \in {0, 1}, EncoderDrops(kept)
      PROVE  GateInv' /\ corrupt' = corrupt
  <2>1. /\ frames' = IF SelectiveRefs THEN Append(frames, Encoded(FALSE, dpb)) ELSE frames
        /\ dpb' = dpb /\ Drained(late, kept, answering)
        /\ UNCHANGED <<gateVars, pictureVars>>
    BY <1>3 DEF EncoderDrops, Submitted
  <2>2. Follows' /\ RefsGoBack' /\ Intact'
    <3>1. CASE SelectiveRefs
      <4>1. frames' = Append(frames, Encoded(FALSE, dpb))
        BY <2>1, <3>1
      <4> QED
        BY <2>1, <4>1, EncodedKeeps
    <3>2. CASE ~ SelectiveRefs
      BY <2>1, <3>2, GateUntouched DEF gateVars, pictureVars
    <3> QED
      BY <3>1, <3>2
  <2>3. InOrder'
    <3>1. late \in Seq(Ids)
      BY DEF Inv, AgentTyped
    <3>2. PICK queued \in Seq(Ids \cup {NextId}) : queued = late
      BY <3>1, Grows
    <3>3. /\ \A i, j \in 1 .. Len(queued) : i < j => queued[i] < queued[j]
          /\ \A i \in 1 .. Len(wire), j \in 1 .. Len(queued) : wire[i] < queued[j]
          /\ \A j \in 1 .. Len(queued) : queued[j] > lastFrameId
      BY <3>2 DEF GateInv, InOrder
    <3>4. Drained(queued, kept, answering) /\ UNCHANGED lastFrameId
      BY <2>1, <3>2 DEF gateVars
    <3> QED
      BY <3>3, <3>4, OutOrdered DEF GateInv
  <2> QED
    BY <2>1, <2>2, <2>3 DEF GateInv, pictureVars
<1>4. ASSUME NEW sent \in 0 .. Len(wire), BacklogDropped(sent)
      PROVE  GateInv' /\ corrupt' = corrupt
  <2>1. /\ wire' = SubSeq(wire, 1, sent) /\ corrupt' = corrupt
        /\ UNCHANGED <<frames, dpb, late, lastFrameId, lastDelivered, awaitingIdr>>
        /\ UNCHANGED <<decoded, loose>>
    BY <1>4 DEF BacklogDropped, outputs, gateVars, pictureVars
  <2>2. InOrder'
    BY <2>1, FrontOrdered DEF GateInv
  <2> QED
    BY <2>1, <2>2, GateUntouched DEF GateInv
<1>5. CASE FrameLost
  <2>1. /\ wire # <<>> /\ wire' = Tail(wire) /\ corrupt' = corrupt
        /\ UNCHANGED <<frames, dpb, late, lastFrameId, lastDelivered, awaitingIdr>>
        /\ UNCHANGED <<decoded, loose>>
    BY <1>5 DEF FrameLost, agentVars, outputs, gateVars, pictureVars
  <2>2. InOrder'
    BY <2>1, TailOrdered DEF GateInv
  <2> QED
    BY <2>1, <2>2, GateUntouched DEF GateInv
<1>6. CASE AgentReceives \/ Announce \/ ClientHears \/ ThrottleExpires
  <2>1. /\ UNCHANGED <<frames, dpb, late, lastFrameId, lastDelivered, awaitingIdr>>
        /\ UNCHANGED <<decoded, loose>> /\ UNCHANGED <<wire, corrupt>>
    BY <1>6 DEF AgentReceives, Announce, ClientHears, ThrottleExpires, agentVars, outputs,
                gateVars, pictureVars
  <2> QED
    BY <2>1, GateUntouched DEF GateInv
<1>7. ASSUME NEW error \in BOOLEAN, Gate(error)
      PROVE  GateInv' /\ (corrupt' # corrupt => loose')
  BY <1>7, GateKeeps
<1>8. CASE EmbedderRejects
  <2>1. /\ UNCHANGED <<frames, dpb, late, lastFrameId, lastDelivered, awaitingIdr>>
        /\ UNCHANGED <<wire, corrupt>>
        /\ decoded' = decoded \ {lastDelivered}
        /\ loose' = (loose \/ lastDelivered \in decoded)
    BY <1>8 DEF EmbedderRejects, agentVars, outputs
  <2>2. /\ NextId' = NextId /\ Ids' = Ids /\ (\A id : Frame(id)' = Frame(id))
        /\ \A r, from : Gone(r, from)' <=> Gone(r, from)
    BY <2>1 DEF NextId, Ids, Frame, Gone
  <2>3. ~ loose' => ~ loose /\ decoded' = decoded
    BY <2>1
  <2> QED
    BY <2>1, <2>2, <2>3 DEF GateInv, Follows, RefsGoBack, Intact, InOrder
<1> QED
  BY <1>0, <1>1, <1>2, <1>3, <1>4, <1>5, <1>6, <1>7, <1>8 DEF Next, Steps, GateInv, vars, pictureVars

(* What the gate achieves (client-core/src/lib.rs): with any encoder, any  *)
(* loss, any frames that the encoder drops and any number of rejected      *)
(* frames, a picture breaks only after decoding resumed on an announcement *)
(* that does not fit - late, or made before the frame coded clean for the  *)
(* request - or a sound frame was rejected.                                *)
THEOREM BreaksAreExplained == Spec => BreaksOnlyWhenLoose
<1>1. Init => Inv /\ GateInv
  BY InvInit, GateInitial
<1>2. Inv /\ GateInv /\ [Next]_vars => (Inv /\ GateInv)' /\ [corrupt' # corrupt => loose']_vars
  BY InvNext, GateStep
<1> QED
  BY <1>1, <1>2, PTL DEF Spec, BreaksOnlyWhenLoose
=============================================================================
