-------------------------- MODULE ReassemblyProofs --------------------------
(***************************************************************************)
(* Proofs about the reassembler, for every id space, hold limit, window,   *)
(* set of frame shapes and sequence of pushes; and about the stream of an  *)
(* agent that feeds it, which implements ordered delivery.                 *)
(*                                                                         *)
(* All the invariants are proved together: one push preserves their        *)
(* conjunction.  Since `drain` ends three of the four paths of push, its   *)
(* effect is proved once (DrainLemma), over the pending set and the queue  *)
(* it starts from.                                                         *)
(*                                                                         *)
(* What parity buys rests on the layout of groups: group_layout's running  *)
(* sum has a closed form (StartOf), shown by looking at the least group    *)
(* where the two would differ; from it follow the partition, the size of   *)
(* code words and how many lost shards a frame bears.                      *)
(*                                                                         *)
(* In the stream the ids alive at once span less than half the ring        *)
(* (SentOrder), so the neighbouring comparisons of the queue put it in the *)
(* order of frame numbers (QueueOrder), and what a drain releases is all   *)
(* that is complete up to some frame (Released, DrainDelivers).            *)
(***************************************************************************)
EXTENDS VideoStream, FiniteSetTheorems, SequenceTheorems, TLAPS

(* NothingStale, of any pending ids, queue and last released id. *)
Chain(ids, q, lt) ==
  /\ \A i \in 1 .. Len(q) : q[i].id \notin ids
  /\ \A i \in 1 .. Len(q) - 1 : NotBehind(q[i].id, q[i + 1].id)
  /\ lt # None => /\ \A id \in ids : NotBehind(lt, id)
                  /\ q # <<>> => NotBehind(lt, q[1].id)

PendingType(pend) ==
  /\ DOMAIN pend \subseteq Ids
  /\ \A id \in DOMAIN pend : pend[id] \in Entries
  /\ pend = [id \in DOMAIN pend |-> pend[id]]

IInv ==
  /\ TypeOK
  /\ pending = [id \in DOMAIN pending |-> pending[id]]
  /\ Bounded
  /\ HeldForCause
  /\ NothingStale
  /\ Accounting

-----------------------------------------------------------------------------
(* Arithmetic of the wrapping ids. *)

(* WrappingSub stays on the ring, and turns around with its arguments.     *)
LEMMA SubInIds ==
  ASSUME NEW a \in Ids, NEW b \in Ids
  PROVE  /\ WrappingSub(a, b) \in Ids
         /\ WrappingSub(a, b) = 0 <=> a = b
         /\ a # b => WrappingSub(b, a) = IdSpace - WrappingSub(a, b)
BY ReassemblyAssumption DEF WrappingSub, Ids, IdSpace

(* What is older than b does not lie behind b.                             *)
LEMMA OlderIsNotBehind ==
  ASSUME NEW a \in Ids, NEW b \in Ids, Older(a, b)
  PROVE  NotBehind(a, b)
BY ReassemblyAssumption DEF Older, NotBehind, WrappingSub, Ids, IdSpace

(* Of two different ids one does not lie behind the other.                 *)
LEMMA NotOlderIsNotBehind ==
  ASSUME NEW a \in Ids, NEW b \in Ids, a # b, ~ Older(b, a)
  PROVE  NotBehind(a, b)
BY ReassemblyAssumption DEF Older, NotBehind, WrappingSub, Ids, IdSpace

(* The value before the first release is no id.                            *)
LEMMA NoneIsNoId == None \notin Ids
BY ReassemblyAssumption DEF None, Ids, IdSpace

(* Sets of ids have a cardinality.                                         *)
LEMMA IdsFinite ==
  ASSUME NEW S \in SUBSET Ids
  PROVE  IsFiniteSet(S) /\ Cardinality(S) \in Nat
<1>1. IsFiniteSet(Ids)
  BY FS_Interval, ReassemblyAssumption DEF Ids, IdSpace
<1>2. IsFiniteSet(S)
  BY <1>1, FS_Subset
<1> QED
  BY <1>2, FS_CardinalityType

(* The elements of a queue of frames.                                      *)
LEMMA FramesOf ==
  ASSUME NEW q \in Seq(Frames)
  PROVE  /\ Len(q) \in Nat
         /\ \A i \in 1 .. Len(q) : q[i] \in Frames /\ q[i].id \in Ids
<1>1. Len(q) \in Nat /\ \A i \in 1 .. Len(q) : q[i] \in Frames
  BY ElementOfSeq, LenProperties
<1>2. \A f \in Frames : f.id \in Ids
  BY DEF Frames
<1> QED
  BY <1>1, <1>2

-----------------------------------------------------------------------------
(* Releasing the first n frames of the queue keeps the order. *)
LEMMA ReleaseKeepsChain ==
  ASSUME NEW ids \in SUBSET Ids, NEW q \in Seq(Frames),
         NEW lt \in Ids \cup {None}, NEW n \in 0 .. Len(q),
         Chain(ids, q, lt)
  PROVE  Chain(Surviving(ids, q, n), SubSeq(q, n + 1, Len(q)),
               IF n = 0 THEN lt ELSE q[n].id)
<1> DEFINE left == Surviving(ids, q, n)
           rest == SubSeq(q, n + 1, Len(q))
           lt2  == IF n = 0 THEN lt ELSE q[n].id
<1>1. /\ Len(q) \in Nat
      /\ \A i \in 1 .. Len(q) : q[i] \in Frames /\ q[i].id \in Ids
  BY FramesOf
<1>2. /\ rest \in Seq(Frames)
      /\ Len(rest) = Len(q) - n
      /\ \A i \in 1 .. Len(rest) : rest[i] = q[n + i]
  BY <1>1, SubSeqProperties, SMT
<1>3. left \subseteq ids
  BY DEF Surviving
<1>4. \A i \in 1 .. Len(rest) : rest[i].id \notin left
  BY <1>1, <1>2, <1>3 DEF Chain
<1>5. \A i \in 1 .. Len(rest) - 1 : NotBehind(rest[i].id, rest[i + 1].id)
  <2> TAKE i \in 1 .. Len(rest) - 1
  <2>1. rest[i] = q[n + i] /\ rest[i + 1] = q[n + i + 1]
    BY <1>1, <1>2
  <2>2. n + i \in 1 .. Len(q) - 1
    BY <1>1, <1>2
  <2> QED
    BY <2>1, <2>2 DEF Chain
<1>6. ASSUME lt2 # None
      PROVE  /\ \A id \in left : NotBehind(lt2, id)
             /\ rest # <<>> => NotBehind(lt2, rest[1].id)
  <2>1. CASE n = 0
    <3>1. rest # <<>> => q # <<>> /\ rest[1] = q[1]
      BY <1>1, <1>2, <2>1, EmptySeq
    <3> QED
      BY <1>3, <1>6, <2>1, <3>1 DEF Chain
  <2>2. CASE n # 0
    <3>1. n \in 1 .. Len(q) /\ lt2 = q[n].id /\ lt2 \in Ids
      BY <1>1, <2>2
    <3>2. ASSUME NEW id \in left PROVE NotBehind(lt2, id)
      <4>1. id \in Ids /\ id # lt2 /\ ~ Older(id, lt2)
        BY <1>3, <3>1, <3>2 DEF Chain, Surviving
      <4> QED
        BY <3>1, <4>1, NotOlderIsNotBehind
    <3>3. ASSUME rest # <<>> PROVE NotBehind(lt2, rest[1].id)
      <4>1. Len(rest) # 0
        BY <1>2, <3>3, EmptySeq
      <4>2. rest[1] = q[n + 1] /\ n \in 1 .. Len(q) - 1
        BY <1>1, <1>2, <3>1, <4>1
      <4> QED
        BY <3>1, <4>2 DEF Chain
    <3> QED
      BY <3>2, <3>3
  <2> QED
    BY <2>1, <2>2
<1> HIDE DEF left, rest, lt2
<1>7. Chain(left, rest, lt2)
  BY <1>4, <1>5, <1>6 DEF Chain
<1> QED
  BY <1>7 DEF left, rest, lt2

(* Surviving ids and pruned ids make up what was pending. *)
LEMMA PrunedAndSurviving ==
  ASSUME NEW ids \in SUBSET Ids, NEW q, NEW n
  PROVE  /\ Surviving(ids, q, n) \in SUBSET ids
         /\ PrunedCount(ids, Surviving(ids, q, n)) \in Nat
         /\ PrunedCount(ids, Surviving(ids, q, n))
              + Cardinality(Surviving(ids, q, n)) = Cardinality(ids)
<1> DEFINE left == Surviving(ids, q, n)
<1>1. left \subseteq ids /\ ids \cap left = left
  BY DEF Surviving
<1> HIDE DEF left
<1>2. IsFiniteSet(ids) /\ Cardinality(ids) \in Nat /\ Cardinality(left) \in Nat
  BY <1>1, IdsFinite
<1>3. Cardinality(ids \ left) = Cardinality(ids) - Cardinality(left)
  BY <1>1, <1>2, FS_Difference
<1>4. Cardinality(ids \ left) \in Nat
  BY IdsFinite
<1>5. /\ left \in SUBSET ids
      /\ PrunedCount(ids, left) \in Nat
      /\ PrunedCount(ids, left) + Cardinality(left) = Cardinality(ids)
  BY <1>1, <1>2, <1>3, <1>4 DEF PrunedCount
<1> QED
  BY <1>5 DEF left

-----------------------------------------------------------------------------
(* The effect of drain, from a pending set and a queue in order. *)

(* From a chain, drain leaves a chain with a cause to hold its head,       *)
(* releases in order, and counts what it prunes.                           *)
LEMMA DrainLemma ==
  ASSUME NEW pend, PendingType(pend),
         NEW q \in Seq(Frames), NEW lost \in Nat,
         latest \in Ids \cup {None}, dropped \in Nat, delivered \in Nat,
         Chain(DOMAIN pend, q, latest),
         Drain(pend, q, lost)
  PROVE  /\ PendingType(pending')
         /\ held' \in Seq(Frames) /\ released' \in Seq(Frames)
         /\ latest' \in Ids \cup {None}
         /\ dropped' \in Nat /\ delivered' \in Nat
         /\ Cardinality(DOMAIN pending') <= Cardinality(DOMAIN pend)
         /\ Len(held') <= HOLD_LIMIT
         /\ HeldForCause'
         /\ Chain(DOMAIN pending', held', latest')
         /\ delivered' + dropped' + Cardinality(DOMAIN pending') + Len(held')
              = delivered + dropped + lost + Cardinality(DOMAIN pend) + Len(q)
         /\ ReleasesInOrder
<1>1. PICK n \in 0 .. Len(q) :
        /\ DrainCount(DOMAIN pend, q, n)
        /\ released'  = SubSeq(q, 1, n)
        /\ held'      = SubSeq(q, n + 1, Len(q))
        /\ latest'    = IF n = 0 THEN latest ELSE q[n].id
        /\ pending'   = [id \in Surviving(DOMAIN pend, q, n) |-> pend[id]]
        /\ dropped'   = dropped + lost
                         + PrunedCount(DOMAIN pend, Surviving(DOMAIN pend, q, n))
        /\ delivered' = delivered + n
  BY DEF Drain
<1> DEFINE left == Surviving(DOMAIN pend, q, n)
<1>2. /\ Len(q) \in Nat
      /\ \A i \in 1 .. Len(q) : q[i] \in Frames /\ q[i].id \in Ids
  BY FramesOf
<1>3. DOMAIN pend \in SUBSET Ids
  BY DEF PendingType
<1>4. /\ left \in SUBSET DOMAIN pend
      /\ PrunedCount(DOMAIN pend, left) \in Nat
      /\ PrunedCount(DOMAIN pend, left) + Cardinality(left) = Cardinality(DOMAIN pend)
  BY <1>3, PrunedAndSurviving
<1>5. Cardinality(left) \in Nat /\ Cardinality(DOMAIN pend) \in Nat
  BY <1>3, <1>4, IdsFinite
<1>6. /\ held' \in Seq(Frames)
      /\ Len(held') = Len(q) - n
      /\ \A i \in 1 .. Len(held') : held'[i] = q[n + i]
  BY <1>1, <1>2, SubSeqProperties, SMT
<1>7. /\ released' \in Seq(Frames)
      /\ Len(released') = n
      /\ \A i \in 1 .. n : released'[i] = q[i]
  BY <1>1, <1>2, SubSeqProperties, SMT
<1>8. DOMAIN pending' = left /\ \A id \in left : pending'[id] = pend[id]
  BY <1>1
<1>9. PendingType(pending')
  BY <1>1, <1>4, <1>8 DEF PendingType
<1>10. latest' \in Ids \cup {None}
  BY <1>1, <1>2
<1>11. dropped' \in Nat /\ delivered' \in Nat
  BY <1>1, <1>4
<1>12. Chain(DOMAIN pending', held', latest')
  BY <1>1, <1>3, <1>8, ReleaseKeepsChain
<1>13. Cardinality(DOMAIN pending') <= Cardinality(DOMAIN pend)
  BY <1>4, <1>5, <1>8
<1>14. delivered' + dropped' + Cardinality(DOMAIN pending') + Len(held')
         = delivered + dropped + lost + Cardinality(DOMAIN pend) + Len(q)
  <2>1. /\ delivered' = delivered + n
        /\ dropped' = dropped + lost + PrunedCount(DOMAIN pend, left)
        /\ Cardinality(DOMAIN pending') = Cardinality(left)
        /\ Len(held') = Len(q) - n
        /\ n \in Nat
    BY <1>1, <1>2, <1>6, <1>8
  <2>2. delivered' + dropped' + Cardinality(DOMAIN pending') + Len(held')
          = (delivered + n) + (dropped + lost + PrunedCount(DOMAIN pend, left))
            + Cardinality(left) + (Len(q) - n)
    BY <2>1, Zenon
  <2>3. /\ lost \in Nat /\ dropped \in Nat /\ delivered \in Nat
        /\ n \in Nat /\ Len(q) \in Nat
    BY <1>2, <2>1
  <2> HIDE DEF left
  <2> QED
    BY <2>2, <2>3, <1>4, <1>5, SMTT(30)
<1>15. Len(held') <= HOLD_LIMIT /\ HeldForCause'
  <2>1. CASE n = Len(q)
    <3>1. Len(held') = 0
      BY <1>2, <1>6, <2>1
    <3>2. held' = <<>>
      BY <1>6, <3>1, EmptySeq
    <3> QED
      BY <3>1, <3>2, ReassemblyAssumption DEF HeldForCause
  <2>2. CASE Waits(DOMAIN pend, q, n)
    <3>1. /\ n < Len(q)
          /\ \E id \in left : Older(id, q[n + 1].id)
          /\ q[n + 1].kind # "Idr"
          /\ Len(q) - n <= HOLD_LIMIT
      BY <2>2 DEF Waits
    <3>2. held'[1] = q[n + 1]
      BY <1>2, <1>6, <3>1
    <3> QED
      BY <1>6, <1>8, <3>1, <3>2 DEF HeldForCause, Older, WrappingSub, IdSpace
  <2> QED
    BY <1>1, <2>1, <2>2 DEF DrainCount
<1>16. ReleasesInOrder
  <2>1. ASSUME released' # <<>>, latest # None
        PROVE  NotBehind(latest, released'[1].id)
    <3>1. n # 0
      BY <1>7, <2>1, EmptySeq
    <3>2. released'[1] = q[1] /\ q # <<>>
      BY <1>2, <1>7, <3>1, EmptySeq
    <3> QED
      BY <2>1, <3>2 DEF Chain
  <2>2. \A i \in 1 .. Len(released') - 1 :
          NotBehind(released'[i].id, released'[i + 1].id)
    <3> TAKE i \in 1 .. Len(released') - 1
    <3>1. released'[i] = q[i] /\ released'[i + 1] = q[i + 1] /\ i \in 1 .. Len(q) - 1
      BY <1>2, <1>7
    <3> QED
      BY <3>1 DEF Chain
  <2> QED
    BY <2>1, <2>2 DEF ReleasesInOrder
<1> QED
  BY <1>6, <1>7, <1>9, <1>10, <1>11, <1>12, <1>13, <1>14, <1>15, <1>16

-----------------------------------------------------------------------------
(* What an accepted shard meets. *)

(* The parts of a header.                                                  *)
LEMMA HeaderType ==
  ASSUME NEW h \in Headers
  PROVE  /\ h.id \in Ids /\ h.kind \in Kinds
         /\ \E g \in Geometries : h.geo = g /\ h.index \in 0 .. g.k + g.m - 1
BY DEF Headers

(* The entry of a frame with one more shard.                               *)
LEMMA WithShardType ==
  ASSUME TypeOK, NEW h \in Headers
  PROVE  WithShard(h) \in Entries
<1>1. PICK g \in Geometries : h.geo = g /\ h.index \in 0 .. g.k + g.m - 1
  BY HeaderType
<1>2. \A got \in SUBSET (0 .. g.k + g.m - 1) : [geo |-> g, got |-> got] \in Entries
  BY DEF Entries
<1>3. CASE h.id \in DOMAIN pending /\ pending[h.id].geo = h.geo
  <2>1. pending[h.id] \in Entries
    BY <1>3 DEF TypeOK
  <2>2. PICK got \in SUBSET (0 .. g.k + g.m - 1) : pending[h.id] = [geo |-> g, got |-> got]
    BY <1>1, <1>3, <2>1 DEF Entries
  <2>3. Entry(h) = [geo |-> g, got |-> got]
    BY <1>3, <2>2 DEF Entry
  <2>4. WithShard(h) = [geo |-> g, got |-> got \cup {h.index}]
    BY <2>3 DEF WithShard
  <2> QED
    BY <1>1, <1>2, <2>4
<1>4. CASE ~ (h.id \in DOMAIN pending /\ pending[h.id].geo = h.geo)
  <2>1. Entry(h) = [geo |-> g, got |-> {}]
    BY <1>1, <1>4 DEF Entry, Fresh
  <2>2. WithShard(h) = [geo |-> g, got |-> {} \cup {h.index}]
    BY <2>1 DEF WithShard
  <2> QED
    BY <1>1, <1>2, <2>2
<1> QED
  BY <1>3, <1>4

(* An accepted shard is of no held frame and of none behind the last       *)
(* release.                                                                *)
LEMMA AcceptedIsNew ==
  ASSUME IInv, NEW h \in Headers, Accepted(h)
  PROVE  /\ \A i \in 1 .. Len(held) : held[i].id # h.id
         /\ latest # None => NotBehind(latest, h.id)
         /\ Chain(DOMAIN pending \cup {h.id}, held, latest)
<1>1. /\ Len(held) \in Nat
      /\ DOMAIN held = 1 .. Len(held)
      /\ \A i \in 1 .. Len(held) : held[i].id \in Ids
  BY FramesOf, LenProperties DEF IInv, TypeOK
<1>2. \A i \in 1 .. Len(held) : held[i].id # h.id
  BY <1>1 DEF Accepted, IsHeld
<1>3. latest # None => NotBehind(latest, h.id)
  <2>1. WrappingSub(latest, h.id) \in Int \/ latest = None
    BY HeaderType, SubInIds DEF IInv, TypeOK, Ids
  <2> QED
    BY <2>1, ReassemblyAssumption DEF Accepted, Stale, NotBehind
<1> QED
  BY <1>1, <1>2, <1>3 DEF IInv, NothingStale, Chain

(* Before the first push.                                                  *)
LEMMA InitInv == Init => IInv
<1> SUFFICES ASSUME Init PROVE IInv
  OBVIOUS
<1> USE DEF Init
<1>1. DOMAIN pending = {} /\ Cardinality(DOMAIN pending) = 0
  BY FS_EmptySet
<1>2. held = <<>> /\ Len(held) = 0 /\ DOMAIN held = {} /\ held \in Seq(Frames)
  BY EmptySeq
<1>3. TypeOK
  BY <1>1, <1>2 DEF TypeOK
<1>4. Bounded /\ HeldForCause /\ NothingStale /\ Accounting
  BY <1>1, <1>2, ReassemblyAssumption DEF Bounded, HeldForCause, NothingStale, Accounting
<1> QED
  BY <1>1, <1>3, <1>4 DEF IInv

(* What DrainLemma shows of a push is all the invariant asks. *)
LEMMA DrainRestoresInv ==
  ASSUME IInv,
         NEW pend, PendingType(pend), Cardinality(DOMAIN pend) <= MAX_PENDING,
         NEW q \in Seq(Frames), NEW lost \in Nat,
         Chain(DOMAIN pend, q, latest),
         Drain(pend, q, lost),
         recovered' \in Nat, opened' \in Nat,
         opened' = delivered + dropped + lost + Cardinality(DOMAIN pend) + Len(q)
  PROVE  IInv' /\ ReleasesInOrder
<1>1. latest \in Ids \cup {None} /\ dropped \in Nat /\ delivered \in Nat
  BY DEF IInv, TypeOK
<1>2. /\ PendingType(pending')
      /\ held' \in Seq(Frames) /\ released' \in Seq(Frames)
      /\ latest' \in Ids \cup {None}
      /\ dropped' \in Nat /\ delivered' \in Nat
      /\ Cardinality(DOMAIN pending') <= Cardinality(DOMAIN pend)
      /\ Len(held') <= HOLD_LIMIT
      /\ HeldForCause'
      /\ Chain(DOMAIN pending', held', latest')
      /\ delivered' + dropped' + Cardinality(DOMAIN pending') + Len(held')
           = delivered + dropped + lost + Cardinality(DOMAIN pend) + Len(q)
      /\ ReleasesInOrder
  BY <1>1, DrainLemma
<1>3. TypeOK'
  BY <1>2 DEF TypeOK, PendingType
<1>4. Bounded'
  <2>1. Cardinality(DOMAIN pend) \in Nat /\ Cardinality(DOMAIN pending') \in Nat
    BY <1>2, IdsFinite DEF PendingType
  <2> QED
    BY <1>2, <2>1, ReassemblyAssumption DEF Bounded
<1>5. NothingStale'
  BY <1>2, LenProperties DEF NothingStale, Chain
<1>6. Accounting'
  BY <1>2 DEF Accounting
<1> QED
  BY <1>2, <1>3, <1>4, <1>5, <1>6 DEF IInv, PendingType

-----------------------------------------------------------------------------
(* One lemma for each path of push. *)

(* A shard that is behind, or of a held frame.                             *)
LEMMA IgnoredKeepsInv ==
  ASSUME IInv, NEW h \in Headers, PushIgnored(h)
  PROVE  IInv' /\ ReleasesInOrder
<1>1. /\ UNCHANGED <<pending, held, latest, dropped, recovered, opened, delivered>>
      /\ released' = <<>> /\ released' \in Seq(Frames) /\ Len(released') = 0
  BY EmptySeq DEF PushIgnored
<1>2. TypeOK'
  BY <1>1 DEF IInv, TypeOK
<1>3. Bounded' /\ HeldForCause' /\ NothingStale' /\ Accounting'
  BY <1>1 DEF IInv, Bounded, HeldForCause, NothingStale, Accounting
<1>4. ReleasesInOrder
  BY <1>1 DEF ReleasesInOrder
<1> QED
  BY <1>1, <1>2, <1>3, <1>4 DEF IInv

(* A shard after which its frame still lacks some.                         *)
LEMMA IncompleteKeepsInv ==
  ASSUME IInv, NEW h \in Headers, PushIncomplete(h)
  PROVE  IInv' /\ ReleasesInOrder
<1> DEFINE e    == WithShard(h)
           ids  == DOMAIN pending \cup {h.id}
           with == [id \in ids |-> IF id = h.id THEN e ELSE pending[id]]
<1>1. /\ Accepted(h) /\ Open(h)
      /\ recovered' = recovered
      /\ \/ /\ Cardinality(ids) > MAX_PENDING
            /\ \E oldest \in ids : Drain([id \in ids \ {oldest} |-> with[id]], held, 1)
         \/ Cardinality(ids) <= MAX_PENDING /\ Drain(with, held, 0)
  BY DEF PushIncomplete
<1>2. ids \in SUBSET Ids
  BY HeaderType DEF IInv, TypeOK
<1>3. /\ IsFiniteSet(ids) /\ Cardinality(ids) \in Nat
      /\ Cardinality(ids) = IF h.id \in DOMAIN pending
                             THEN Cardinality(DOMAIN pending)
                             ELSE Cardinality(DOMAIN pending) + 1
  BY <1>2, IdsFinite, FS_AddElement DEF IInv, TypeOK
<1>4. \A id \in ids : with[id] \in Entries
  BY WithShardType DEF IInv, TypeOK
<1>5. Chain(ids, held, latest)
  BY <1>1, AcceptedIsNew
<1>6. /\ held \in Seq(Frames) /\ Len(held) \in Nat
      /\ opened \in Nat /\ delivered \in Nat /\ dropped \in Nat
      /\ recovered' \in Nat
      /\ Cardinality(DOMAIN pending) \in Nat
  BY <1>1, LenProperties, IdsFinite DEF IInv, TypeOK
<1>7. /\ opened' \in Nat
      /\ opened' = delivered + dropped + Cardinality(ids) + Len(held)
  <2>1. opened = delivered + dropped + Cardinality(DOMAIN pending) + Len(held)
    BY DEF IInv, Accounting
  <2>2. opened' = IF h.id \in DOMAIN pending THEN opened ELSE opened + 1
    BY <1>1 DEF Open
  <2> HIDE DEF ids
  <2> QED
    BY <1>3, <1>6, <2>1, <2>2
<1>8. Cardinality(DOMAIN pending) <= MAX_PENDING
  BY DEF IInv, Bounded
<1>9. CASE /\ Cardinality(ids) > MAX_PENDING
           /\ \E oldest \in ids : Drain([id \in ids \ {oldest} |-> with[id]], held, 1)
  <2>1. PICK oldest \in ids : Drain([id \in ids \ {oldest} |-> with[id]], held, 1)
    BY <1>9
  <2> DEFINE kept == [id \in ids \ {oldest} |-> with[id]]
  <2>2. DOMAIN kept = ids \ {oldest}
    OBVIOUS
  <2>3. PendingType(kept)
    BY <1>2, <1>4, <2>2 DEF PendingType
  <2>4. Chain(DOMAIN kept, held, latest)
    BY <1>5, <2>2 DEF Chain
  <2>5. Cardinality(DOMAIN kept) = Cardinality(ids) - 1
    BY <1>3, <2>2, FS_RemoveElement
  <2>6. Cardinality(DOMAIN kept) <= MAX_PENDING
    BY <1>3, <1>6, <1>8, <2>5, ReassemblyAssumption
  <2>7. opened' = delivered + dropped + 1 + Cardinality(DOMAIN kept) + Len(held)
    <3> HIDE DEF ids, kept
    <3> QED
      BY <1>3, <1>6, <1>7, <2>5
  <2> HIDE DEF kept
  <2> QED
    BY <1>6, <1>7, <2>1, <2>3, <2>4, <2>6, <2>7, DrainRestoresInv DEF kept
<1>10. CASE Cardinality(ids) <= MAX_PENDING /\ Drain(with, held, 0)
  <2>1. DOMAIN with = ids
    OBVIOUS
  <2>2. PendingType(with)
    BY <1>2, <1>4, <2>1 DEF PendingType
  <2>3. opened' = delivered + dropped + 0 + Cardinality(DOMAIN with) + Len(held)
    <3> HIDE DEF ids, with
    <3> QED
      BY <1>6, <1>7, <2>1
  <2> HIDE DEF with, ids
  <2> QED
    BY <1>5, <1>6, <1>7, <1>10, <2>1, <2>2, <2>3, DrainRestoresInv
<1> QED
  BY <1>1, <1>9, <1>10

(* The entries left when h's frame is taken out of the pending set. *)
LEMMA OthersFacts ==
  ASSUME IInv, NEW h \in Headers, Accepted(h), Open(h)
  PROVE  /\ PendingType(Others(h))
         /\ DOMAIN Others(h) = DOMAIN pending \ {h.id}
         /\ Cardinality(DOMAIN Others(h)) \in Nat
         /\ Cardinality(DOMAIN Others(h)) <= MAX_PENDING
         /\ Chain(DOMAIN Others(h), held, latest)
         /\ opened' \in Nat
         /\ opened' = delivered + dropped + 1 + Cardinality(DOMAIN Others(h)) + Len(held)
<1>1. DOMAIN Others(h) = DOMAIN pending \ {h.id}
  BY DEF Others
<1>2. PendingType(Others(h))
  BY <1>1 DEF PendingType, Others, IInv, TypeOK
<1>3. IsFiniteSet(DOMAIN pending) /\ Cardinality(DOMAIN pending) \in Nat
  BY IdsFinite DEF IInv, TypeOK
<1>4. /\ Cardinality(DOMAIN Others(h)) \in Nat
      /\ Cardinality(DOMAIN Others(h)) = IF h.id \in DOMAIN pending
                                         THEN Cardinality(DOMAIN pending) - 1
                                         ELSE Cardinality(DOMAIN pending)
  BY <1>1, <1>2, <1>3, FS_RemoveElement, IdsFinite DEF PendingType
<1>5. Chain(DOMAIN Others(h), held, latest)
  BY <1>1, AcceptedIsNew DEF Chain
<1>6. /\ Len(held) \in Nat
      /\ opened \in Nat /\ delivered \in Nat /\ dropped \in Nat
  BY LenProperties DEF IInv, TypeOK
<1>7. /\ opened = delivered + dropped + Cardinality(DOMAIN pending) + Len(held)
      /\ Cardinality(DOMAIN pending) <= MAX_PENDING
      /\ opened' = IF h.id \in DOMAIN pending THEN opened ELSE opened + 1
  BY DEF IInv, Accounting, Bounded, Open
<1>8. /\ opened' \in Nat
      /\ opened' = delivered + dropped + 1 + Cardinality(DOMAIN Others(h)) + Len(held)
      /\ Cardinality(DOMAIN Others(h)) <= MAX_PENDING
  BY <1>3, <1>4, <1>6, <1>7, ReassemblyAssumption
<1> QED
  BY <1>1, <1>2, <1>4, <1>5, <1>8

(* The shard of a frame that cannot be rebuilt.                            *)
LEMMA UnrecoverableKeepsInv ==
  ASSUME IInv, NEW h \in Headers, PushUnrecoverable(h)
  PROVE  IInv' /\ ReleasesInOrder
<1>1. /\ Accepted(h) /\ Open(h) /\ Drain(Others(h), held, 1)
      /\ recovered' = recovered
  BY DEF PushUnrecoverable
<1>2. held \in Seq(Frames) /\ recovered' \in Nat
  BY <1>1 DEF IInv, TypeOK
<1> QED
  BY <1>1, <1>2, OthersFacts, DrainRestoresInv

(* The queue with one more frame, entry by entry. *)
LEMMA Inserted ==
  ASSUME held \in Seq(Frames), NEW f \in Frames, NEW p \in 1 .. Len(held) + 1
  PROVE  /\ InsertHeld(f, p) \in Seq(Frames)
         /\ Len(InsertHeld(f, p)) = Len(held) + 1
         /\ \A i \in 1 .. Len(held) + 1 :
              InsertHeld(f, p)[i] = IF i < p THEN held[i] ELSE IF i = p THEN f ELSE held[i - 1]
<1> DEFINE before == SubSeq(held, 1, p - 1)
           after  == SubSeq(held, p, Len(held))
           q      == InsertHeld(f, p)
<1>1. /\ Len(held) \in Nat
      /\ \A i \in 1 .. Len(held) : held[i] \in Frames /\ held[i].id \in Ids
  BY FramesOf
<1>2. /\ before \in Seq(Frames) /\ Len(before) = p - 1
      /\ \A i \in 1 .. p - 1 : before[i] = held[i]
  BY <1>1, SubSeqProperties, SMT
<1>3. /\ after \in Seq(Frames) /\ Len(after) = Len(held) - p + 1
      /\ \A i \in 1 .. Len(held) - p + 1 : after[i] = held[p + i - 1]
  BY <1>1, SubSeqProperties, SMT
<1>4. /\ <<f>> \in Seq(Frames) /\ Len(<<f>>) = 1 /\ <<f>>[1] = f
  OBVIOUS
<1> HIDE DEF before, after
<1>5. /\ before \o <<f>> \in Seq(Frames)
      /\ Len(before \o <<f>>) = p
      /\ \A i \in 1 .. p : (before \o <<f>>)[i] = IF i < p THEN held[i] ELSE f
  BY <1>1, <1>2, <1>4, ConcatProperties, SMT
<1>6. /\ (before \o <<f>>) \o after \in Seq(Frames)
      /\ Len((before \o <<f>>) \o after) = Len(held) + 1
      /\ \A i \in 1 .. Len(held) + 1 :
           ((before \o <<f>>) \o after)[i] = IF i < p THEN held[i]
                                            ELSE IF i = p THEN f ELSE held[i - 1]
  <2> DEFINE front == before \o <<f>>
  <2>1. front \in Seq(Frames) /\ Len(front) = p
    BY <1>5
  <2>2. \A i \in 1 .. p : front[i] = IF i < p THEN held[i] ELSE f
    BY <1>5
  <2>3. \A i \in 1 .. Len(held) + 1 : i > p => after[i - p] = held[i - 1]
    BY <1>1, <1>3
  <2> HIDE DEF front, q
  <2>4. /\ front \o after \in Seq(Frames)
        /\ Len(front \o after) = Len(front) + Len(after)
        /\ \A i \in 1 .. Len(front) + Len(after) :
             (front \o after)[i] = IF i <= Len(front) THEN front[i]
                                   ELSE after[i - Len(front)]
    BY <1>3, <2>1, ConcatProperties
  <2>5. Len(front) + Len(after) = Len(held) + 1
    BY <1>1, <1>3, <2>1
  <2>6. \A i \in 1 .. Len(held) + 1 :
          (front \o after)[i] = IF i < p THEN held[i]
                                ELSE IF i = p THEN f ELSE held[i - 1]
    BY <1>1, <2>1, <2>2, <2>3, <2>4, <2>5
  <2> QED
    BY <2>4, <2>5, <2>6 DEF front
<1> QED
  BY <1>6 DEF before, after, InsertHeld

(* A completed frame put in its place keeps the queue in order. *)
LEMMA InsertKeepsChain ==
  ASSUME NEW ids \in SUBSET Ids, held \in Seq(Frames), latest \in Ids \cup {None},
         Chain(ids, held, latest),
         NEW f \in Frames, f.id \notin ids,
         \A i \in 1 .. Len(held) : held[i].id # f.id,
         latest # None => NotBehind(latest, f.id),
         NEW p \in 1 .. Len(held) + 1, InsertPosition(f, p)
  PROVE  /\ InsertHeld(f, p) \in Seq(Frames)
         /\ Len(InsertHeld(f, p)) = Len(held) + 1
         /\ Chain(ids, InsertHeld(f, p), latest)
<1> DEFINE q == InsertHeld(f, p)
<1>1. /\ Len(held) \in Nat /\ f.id \in Ids
      /\ \A i \in 1 .. Len(held) : held[i] \in Frames /\ held[i].id \in Ids
  BY FramesOf DEF Frames
<1>7. /\ q \in Seq(Frames)
      /\ Len(q) = Len(held) + 1
      /\ \A i \in 1 .. Len(held) + 1 :
           q[i] = IF i < p THEN held[i] ELSE IF i = p THEN f ELSE held[i - 1]
  BY Inserted
<1> HIDE DEF q
<1>8. \A i \in 1 .. Len(q) : q[i].id \notin ids
  <2> TAKE i \in 1 .. Len(q)
  <2>1. q[i] = f \/ \E j \in 1 .. Len(held) : q[i] = held[j]
    <3>1. CASE i < p
      <4>1. i \in 1 .. Len(held) /\ q[i] = held[i]
        BY <1>1, <1>7, <3>1
      <4> QED
        BY <4>1
    <3>2. CASE i = p
      BY <1>1, <1>7, <3>2
    <3>3. CASE i > p
      <4>1. i - 1 \in 1 .. Len(held) /\ q[i] = held[i - 1]
        BY <1>1, <1>7, <3>3
      <4> QED
        BY <4>1
    <3> QED
      BY <1>1, <1>7, <3>1, <3>2, <3>3
  <2> QED
    BY <2>1 DEF Chain
<1>9. \A i \in 1 .. Len(q) - 1 : NotBehind(q[i].id, q[i + 1].id)
  <2> TAKE i \in 1 .. Len(q) - 1
  <2>1. CASE i < p - 1
    BY <1>1, <1>7, <2>1 DEF Chain
  <2>2. CASE i = p - 1
    <3>1. q[i] = held[i] /\ q[i + 1] = f /\ i \in 1 .. Len(held) /\ i \in 1 .. p - 1
      BY <1>1, <1>7, <2>2
    <3>2. ~ Older(f.id, held[i].id)
      BY <3>1 DEF InsertPosition
    <3> QED
      BY <1>1, <3>1, <3>2, NotOlderIsNotBehind
  <2>3. CASE i = p
    <3>1. q[i] = f /\ q[i + 1] = held[p] /\ p \in 1 .. Len(held)
      BY <1>1, <1>7, <2>3
    <3>2. Older(f.id, held[p].id)
      BY <1>1, <3>1 DEF InsertPosition
    <3> QED
      BY <1>1, <3>1, <3>2, OlderIsNotBehind
  <2>4. CASE i > p
    <3>1. i \in 1 .. Len(held) + 1 /\ i + 1 \in 1 .. Len(held) + 1
      BY <1>1, <1>7
    <3>2. q[i] = held[i - 1] /\ q[i + 1] = held[(i + 1) - 1]
      BY <1>1, <1>7, <2>4, <3>1
    <3>3. i - 1 \in 1 .. Len(held) - 1 /\ (i + 1) - 1 = (i - 1) + 1
      BY <1>1, <2>4, <3>1
    <3> QED
      BY <3>2, <3>3 DEF Chain
  <2> QED
    BY <1>1, <2>1, <2>2, <2>3, <2>4
<1>10. latest # None => /\ \A id \in ids : NotBehind(latest, id)
                        /\ q # <<>> => NotBehind(latest, q[1].id)
  <2>1. q[1] = IF p = 1 THEN f ELSE held[1]
    BY <1>1, <1>7
  <2>2. p # 1 => held # <<>>
    BY <1>1, EmptySeq
  <2> QED
    BY <2>1, <2>2 DEF Chain
<1>11. Chain(ids, q, latest)
  BY <1>8, <1>9, <1>10 DEF Chain
<1> QED
  BY <1>7, <1>11 DEF q

(* The shard that completes its frame.                                     *)
LEMMA CompleteKeepsInv ==
  ASSUME IInv, NEW h \in Headers, PushComplete(h)
  PROVE  IInv' /\ ReleasesInOrder
<1> DEFINE f == [id |-> h.id, kind |-> h.kind]
<1>1. PICK p \in 1 .. Len(held) + 1 :
        InsertPosition(f, p) /\ Drain(Others(h), InsertHeld(f, p), 0)
  BY DEF PushComplete
<1>2. /\ Accepted(h) /\ Open(h)
      /\ recovered' \in Nat
  BY DEF PushComplete, IInv, TypeOK
<1>3. /\ held \in Seq(Frames) /\ Len(held) \in Nat
      /\ latest \in Ids \cup {None}
      /\ delivered \in Nat /\ dropped \in Nat
  BY LenProperties DEF IInv, TypeOK
<1>4. f \in Frames /\ f.id = h.id
  BY HeaderType DEF Frames
<1>5. /\ PendingType(Others(h))
      /\ DOMAIN Others(h) \in SUBSET Ids
      /\ h.id \notin DOMAIN Others(h)
      /\ Cardinality(DOMAIN Others(h)) \in Nat
      /\ Cardinality(DOMAIN Others(h)) <= MAX_PENDING
      /\ Chain(DOMAIN Others(h), held, latest)
      /\ opened' \in Nat
      /\ opened' = delivered + dropped + 1 + Cardinality(DOMAIN Others(h)) + Len(held)
  BY <1>2, OthersFacts DEF PendingType
<1>6. /\ \A i \in 1 .. Len(held) : held[i].id # h.id
      /\ latest # None => NotBehind(latest, h.id)
  BY <1>2, AcceptedIsNew
<1> HIDE DEF f
<1>7. /\ InsertHeld(f, p) \in Seq(Frames)
      /\ Len(InsertHeld(f, p)) = Len(held) + 1
      /\ Chain(DOMAIN Others(h), InsertHeld(f, p), latest)
  BY <1>1, <1>3, <1>4, <1>5, <1>6, InsertKeepsChain
<1>8. opened' = delivered + dropped + 0 + Cardinality(DOMAIN Others(h))
                + Len(InsertHeld(f, p))
  BY <1>3, <1>5, <1>7
<1> QED
  BY <1>1, <1>2, <1>5, <1>7, <1>8, DrainRestoresInv

-----------------------------------------------------------------------------
(* The layout of a frame's groups. *)

(* A division with its remainder.                                          *)
LEMMA Division ==
  ASSUME NEW n \in Nat, NEW G \in Nat \ {0}
  PROVE  /\ n \div G \in Nat /\ n % G \in 0 .. G - 1
         /\ n % G = n - G * (n \div G)
OBVIOUS

(* A non-empty set of numbers up to n has a least member: of the segments  *)
(* that start at 0 and end at its members, one is minimal.                 *)
LEMMA LeastMember ==
  ASSUME NEW n \in Nat, NEW S, S # {}
  PROVE  S \subseteq 0 .. n => \E x \in S : \A y \in S : x <= y
<1> DEFINE U     == 0 .. n
           T     == {0 .. x : x \in S}
           Order == StrictSubsetOrdering(U)
<1>1. IsFiniteSet(U)
  BY FS_Interval
<1>2. IsWellFoundedOn(Order, SUBSET U)
  BY <1>1, FS_FiniteSubsetsOfFinite, FS_StrictSubsetOrderingWellFounded
<1>3. ASSUME S \subseteq U PROVE \E x \in S : \A y \in S : x <= y
  <2>1. T \subseteq SUBSET U /\ T # {}
    <3>1. \A x \in S : 0 .. x \subseteq U
      BY <1>3
    <3> HIDE DEF U
    <3> QED
      BY <3>1
  <2> HIDE DEF Order
  <2>2. PICK A \in T : \A B \in T : <<B, A>> \notin Order
    BY <1>2, <2>1, WFMin
  <2>3. PICK x \in S : A = 0 .. x
    BY <2>2
  <2>4. ASSUME NEW y \in S, y < x PROVE FALSE
    <3>1. 0 .. y \in T /\ 0 .. y \in SUBSET U /\ A \in SUBSET U
      BY <2>1, <2>2
    <3>2. 0 .. y \subseteq A /\ 0 .. y # A
      <4>1. x \in Nat /\ y \in Nat
        BY <1>3
      <4>2. x \in 0 .. x /\ x \notin 0 .. y
        BY <2>4, <4>1
      <4> QED
        BY <2>3, <2>4, <4>1, <4>2
    <3>3. <<0 .. y, A>> \in Order
      BY <3>1, <3>2 DEF Order, StrictSubsetOrdering
    <3> QED
      BY <2>2, <3>1, <3>3
  <2>5. \A y \in S : x \in Int /\ y \in Int
    BY <1>3
  <2> QED
    BY <2>4, <2>5
<1> QED
  BY <1>3

(* Where the g-th of G shares of n starts: after g shares, the first n % G *)
(* of which have one more than the rest.                                   *)
LEMMA StartOf ==
  ASSUME NEW n \in Nat, NEW G \in Nat \ {0}, NEW first \in Nat
  PROVE  \A g \in 0 .. G - 1 :
           ShareStart(n, G, first)[g] = first + g * (n \div G) + AtMost(g, n % G)
<1> DEFINE q       == n \div G
           r       == n % G
           at(g)   == first + g * q + AtMost(g, r)
           direct  == [g \in 0 .. G - 1 |-> at(g)]
           start   == ShareStart(n, G, first)
<1>1. q \in Nat /\ r \in 0 .. G - 1
  BY Division
<1>2. ASSUME NEW g \in 1 .. G - 1
      PROVE  g - 1 \in 0 .. G - 1 /\ at(g) = at(g - 1) + Share(n, G, g - 1)
  <2> DEFINE one == IF g - 1 < r THEN 1 ELSE 0
  <2>1. Share(n, G, g - 1) = q + one
    BY DEF Share
  <2>2. AtMost(g, r) = AtMost(g - 1, r) + one /\ one \in Int
    BY <1>1 DEF AtMost
  <2>3. g * q = (g - 1) * q + q /\ (g - 1) * q \in Nat /\ g * q \in Nat
    BY <1>1
  <2>4. AtMost(g - 1, r) \in Int
    BY <1>1 DEF AtMost
  <2> HIDE DEF q, r, one
  <2>5. at(g) = at(g - 1) + Share(n, G, g - 1)
    <3>1. at(g) = first + ((g - 1) * q + q) + (AtMost(g - 1, r) + one)
      BY <2>2, <2>3
    <3>2. at(g - 1) + Share(n, G, g - 1)
            = first + (g - 1) * q + AtMost(g - 1, r) + (q + one)
      BY <2>1
    <3> QED
      BY <1>1, <2>2, <2>3, <2>4, <3>1, <3>2
  <2> QED
    BY <2>5
<1>3. at(0) = first
  BY <1>1 DEF AtMost
<1> HIDE DEF q, r, at
<1>4. direct = [g \in 0 .. G - 1 |->
                  IF g = 0 THEN first ELSE direct[g - 1] + Share(n, G, g - 1)]
  <2>1. ASSUME NEW g \in 0 .. G - 1
        PROVE  direct[g] = IF g = 0 THEN first ELSE direct[g - 1] + Share(n, G, g - 1)
    <3>1. CASE g = 0
      BY <1>3, <3>1
    <3>2. CASE g # 0
      <4>1. g \in 1 .. G - 1 /\ g - 1 \in 0 .. G - 1
        BY <3>2
      <4> QED
        BY <1>2, <3>2, <4>1
    <3> QED
      BY <3>1, <3>2
  <2> QED
    BY <2>1
<1> HIDE DEF direct
<1>5. start = [g \in 0 .. G - 1 |->
                 IF g = 0 THEN first ELSE start[g - 1] + Share(n, G, g - 1)]
  BY <1>4 DEF ShareStart
<1> HIDE DEF start
<1> DEFINE wrong == {g \in 0 .. G - 1 : start[g] # at(g)}
<1>6. CASE wrong = {}
  BY <1>6 DEF start, at, q, r
<1>7. CASE wrong # {}
  <2>1. G - 1 \in Nat /\ wrong \subseteq 0 .. G - 1
    OBVIOUS
  <2> HIDE DEF wrong
  <2>2. PICK g \in wrong : \A h \in wrong : g <= h
    BY <1>7, <2>1, LeastMember
  <2>3. g \in 0 .. G - 1 /\ start[g] # at(g)
    BY <2>2 DEF wrong
  <2>4. CASE g = 0
    BY <1>3, <1>5, <2>3, <2>4
  <2>5. CASE g # 0
    <3>1. g \in 1 .. G - 1 /\ g - 1 \in 0 .. G - 1 /\ ~ (g <= g - 1)
      BY <2>3, <2>5
    <3>2. start[g - 1] = at(g - 1)
      BY <2>2, <3>1 DEF wrong
    <3>3. start[g] = start[g - 1] + Share(n, G, g - 1)
      BY <1>5, <2>3, <2>5
    <3> QED
      BY <1>2, <2>3, <3>1, <3>2, <3>3
  <2> QED
    BY <2>4, <2>5
<1> QED
  BY <1>6, <1>7

(* Every share lies within what is dealt, and none is smaller than n \div G. *)
LEMMA ShareFits ==
  ASSUME NEW n \in Nat, NEW G \in Nat \ {0}, NEW first \in Nat, NEW g \in 0 .. G - 1
  PROVE  /\ ShareStart(n, G, first)[g] \in Nat
         /\ Share(n, G, g) \in Nat /\ Share(n, G, g) >= n \div G
         /\ first <= ShareStart(n, G, first)[g]
         /\ ShareStart(n, G, first)[g] + Share(n, G, g) <= first + n
<1> DEFINE q == n \div G
           r == n % G
           s == ShareStart(n, G, first)[g]
<1>1. q \in Nat /\ r \in 0 .. G - 1 /\ r = n - G * q
  BY Division
<1>2. s = first + g * q + AtMost(g, r)
  BY StartOf
<1>3. Share(n, G, g) = q + (IF g < r THEN 1 ELSE 0)
  BY DEF Share
<1> HIDE DEF q, r, s
<1>4. g * q \in Nat /\ g * q + q <= G * q /\ G * q \in Nat
  <2>1. g * q + q = (g + 1) * q
    BY <1>1
  <2>2. (g + 1) * q <= G * q
    BY <1>1
  <2> QED
    BY <1>1, <2>1, <2>2
<1>5. AtMost(g, r) \in Nat /\ AtMost(g, r) + (IF g < r THEN 1 ELSE 0) <= r
  BY <1>1 DEF AtMost
<1>6. /\ s \in Nat /\ Share(n, G, g) \in Nat /\ Share(n, G, g) >= q
      /\ first <= s /\ s + Share(n, G, g) <= first + n
  BY <1>1, <1>2, <1>3, <1>4, <1>5
<1> QED
  BY <1>6 DEF q, s

(* Any frame has a group. *)
LEMMA GroupsExist == ASSUME NEW k \in Nat PROVE GroupCount(k) \in Nat \ {0}
<1>1. DivCeil(k, MAX_GROUP_DATA) \in Nat
  <2>1. k + MAX_GROUP_DATA - 1 \in Nat
    BY FecAssumption
  <2> QED
    BY <2>1, FecAssumption, Division DEF DivCeil
<1> QED
  BY <1>1 DEF GroupCount, AtLeastOne

(* A group's data and parity are shards of the frame, and its parity is at *)
(* least that of the poorest group.                                        *)
LEMMA GroupShards ==
  ASSUME NEW k \in Nat, NEW m \in Nat, NEW g \in 0 .. GroupCount(k) - 1
  PROVE  LET group == GroupLayout(k, m)[g]
         IN  /\ group.data \subseteq 0 .. k - 1
             /\ group.parity \subseteq k .. k + m - 1
             /\ Cardinality(group.data) \in Nat /\ Cardinality(group.parity) \in Nat
             /\ Cardinality(group.parity) >= Tolerance(k, m)
<1> DEFINE G == GroupCount(k)
           d == ShareStart(k, G, 0)[g]
           p == ShareStart(m, G, k)[g]
<1>1. G \in Nat \ {0}
  BY GroupsExist
<1>2. GroupLayout(k, m)[g] = [data   |-> d .. d + Share(k, G, g) - 1,
                              parity |-> p .. p + Share(m, G, g) - 1]
  BY DEF GroupLayout
<1> HIDE DEF G
<1>3. /\ d \in Nat /\ Share(k, G, g) \in Nat /\ d + Share(k, G, g) <= 0 + k
      /\ p \in Nat /\ Share(m, G, g) \in Nat /\ k <= p /\ p + Share(m, G, g) <= k + m
      /\ Share(m, G, g) >= m \div G
  BY <1>1, ShareFits DEF G
<1> HIDE DEF d, p
<1>4. /\ d .. d + Share(k, G, g) - 1 \subseteq 0 .. k - 1
      /\ p .. p + Share(m, G, g) - 1 \subseteq k .. k + m - 1
  BY <1>3
<1>5. ASSUME NEW a \in Nat, NEW n \in Nat PROVE Cardinality(a .. a + n - 1) = n
  BY FS_Interval
<1>6. Tolerance(k, m) = m \div G
  BY DEF Tolerance, G
<1> DEFINE group == GroupLayout(k, m)[g]
<1>7. /\ group.data = d .. d + Share(k, G, g) - 1
      /\ group.parity = p .. p + Share(m, G, g) - 1
  BY <1>2
<1>8. Cardinality(group.data) = Share(k, G, g) /\ Cardinality(group.parity) = Share(m, G, g)
  BY <1>3, <1>5, <1>7
<1> QED
  BY <1>3, <1>4, <1>6, <1>7, <1>8

(* What parity buys, of any frame: as long as no more shards are missing   *)
(* than the poorest group has parity, every group can be rebuilt, and      *)
(* there are at least as many shards as the frame has data.                *)
LEMMA LayoutTolerates ==
  ASSUME NEW k \in Nat, NEW m \in Nat, NEW got \in SUBSET (0 .. k + m - 1),
         Cardinality((0 .. k + m - 1) \ got) <= Tolerance(k, m)
  PROVE  Recoverable(k, m, got) /\ Cardinality(got) >= k
<1> DEFINE all     == 0 .. k + m - 1
           missing == all \ got
<1>1. IsFiniteSet(all) /\ Cardinality(all) = k + m
  <2> DEFINE top == k + m - 1
  <2>1. top \in Int /\ top >= -1
    OBVIOUS
  <2> HIDE DEF top
  <2>2. IsFiniteSet(0 .. top) /\ Cardinality(0 .. top) = top + 1
    BY <2>1, FS_Interval
  <2> QED
    BY <2>2 DEF top
<1>2. GroupCount(k) \in Nat \ {0} /\ Tolerance(k, m) \in Nat /\ Tolerance(k, m) <= m
  <2>1. GroupCount(k) \in Nat \ {0}
    BY GroupsExist
  <2>2. ASSUME NEW G \in Nat \ {0} PROVE m \div G \in Nat /\ m \div G <= m
    <3>1. m \div G \in Nat /\ m - G * (m \div G) \in 0 .. G - 1
      BY Division
    <3>2. 1 * (m \div G) <= G * (m \div G)
      BY <3>1
    <3> QED
      BY <3>1, <3>2
  <2> QED
    BY <2>1, <2>2 DEF Tolerance
<1>3. IsFiniteSet(missing) /\ IsFiniteSet(got)
      /\ Cardinality(missing) \in Nat /\ Cardinality(got) \in Nat
  BY <1>1, FS_Subset, FS_CardinalityType
<1>4. Cardinality(missing) <= Tolerance(k, m)
  OBVIOUS
<1>5. got \subseteq all
  OBVIOUS
<1> HIDE DEF all
<1>6. Cardinality(got) >= k
  <2>1. Cardinality(missing) = Cardinality(all) - Cardinality(all \cap got)
    BY <1>1, FS_Difference
  <2>2. all \cap got = got
    BY <1>5
  <2> QED
    BY <1>1, <1>2, <1>3, <1>4, <2>1, <2>2
<1>7. ASSUME NEW g \in 0 .. GroupCount(k) - 1
      PROVE  Cardinality(got \cap GroupLayout(k, m)[g].data)
               + Cardinality(got \cap GroupLayout(k, m)[g].parity)
               >= Cardinality(GroupLayout(k, m)[g].data)
  <2> DEFINE D == GroupLayout(k, m)[g].data
             P == GroupLayout(k, m)[g].parity
  <2>1. /\ D \subseteq 0 .. k - 1 /\ P \subseteq k .. k + m - 1
        /\ Cardinality(D) \in Nat /\ Cardinality(P) \in Nat
        /\ Cardinality(P) >= Tolerance(k, m)
    BY GroupShards
  <2> HIDE DEF D, P
  <2>2. D \subseteq all /\ P \subseteq all /\ D \cap P = {}
    <3>1. 0 .. k - 1 \subseteq all /\ k .. k + m - 1 \subseteq all
          /\ (0 .. k - 1) \cap (k .. k + m - 1) = {}
      BY DEF all
    <3> QED
      BY <2>1, <3>1
  <2>3. IsFiniteSet(D) /\ IsFiniteSet(P)
    BY <1>1, <2>2, FS_Subset
  <2>4. /\ Cardinality(D \ got) = Cardinality(D) - Cardinality(D \cap got)
        /\ Cardinality(P \ got) = Cardinality(P) - Cardinality(P \cap got)
    BY <2>3, FS_Difference
  <2>5. Cardinality(D \ got) + Cardinality(P \ got) <= Cardinality(missing)
    <3>1. IsFiniteSet(D \ got) /\ IsFiniteSet(P \ got)
      BY <2>3, FS_Subset
    <3>2. Cardinality((D \ got) \cup (P \ got))
            = Cardinality(D \ got) + Cardinality(P \ got) - Cardinality((D \ got) \cap (P \ got))
      BY <3>1, FS_Union
    <3>3. (D \ got) \cap (P \ got) = {} /\ (D \ got) \cup (P \ got) \subseteq missing
      BY <2>2
    <3>4. Cardinality((D \ got) \cup (P \ got)) <= Cardinality(missing)
      BY <1>3, <3>3, FS_Subset
    <3>5. Cardinality((D \ got) \cap (P \ got)) = 0
      BY <3>3, FS_EmptySet
    <3>6. Cardinality(D \ got) \in Nat /\ Cardinality(P \ got) \in Nat
      BY <3>1, FS_CardinalityType
    <3> QED
      BY <3>2, <3>4, <3>5, <3>6
  <2>6. Cardinality(D \cap got) \in Nat /\ Cardinality(P \cap got) \in Nat
    BY <2>3, FS_Intersection, FS_CardinalityType, FS_Subset
  <2>7. got \cap D = D \cap got /\ got \cap P = P \cap got
    OBVIOUS
  <2>8. Cardinality(D \cap got) + Cardinality(P \cap got) >= Cardinality(D)
    <3> HIDE DEF missing
    <3> QED
      BY <1>2, <1>3, <1>4, <2>1, <2>4, <2>5, <2>6
  <2> QED
    BY <2>7, <2>8 DEF D, P
<1>8. Recoverable(k, m, got)
  <2> SUFFICES ASSUME NEW g \in 0 .. GroupCount(k) - 1
               PROVE  Cardinality(got \cap GroupLayout(k, m)[g].data)
                        + Cardinality(got \cap GroupLayout(k, m)[g].parity)
                        >= Cardinality(GroupLayout(k, m)[g].data)
    BY DEF Recoverable
  <2> QED
    BY <1>7
<1> QED
  BY <1>6, <1>8

(* Where one share starts the one before it has ended, and the last ends   *)
(* where the whole does.                                                   *)
LEMMA SharesMeet ==
  ASSUME NEW n \in Nat, NEW G \in Nat \ {0}, NEW first \in Nat
  PROVE  LET start == ShareStart(n, G, first)
         IN  /\ start[0] = first
             /\ \A g \in 1 .. G - 1 : start[g] = start[g - 1] + Share(n, G, g - 1)
             /\ start[G - 1] + Share(n, G, G - 1) = first + n
             /\ \A g, h \in 0 .. G - 1 : g < h => start[g] + Share(n, G, g) <= start[h]
<1> DEFINE q     == n \div G
           r     == n % G
           start == ShareStart(n, G, first)
<1>1. q \in Nat /\ r \in 0 .. G - 1 /\ r = n - G * q
  BY Division
<1>2. \A g \in 0 .. G - 1 : start[g] = first + g * q + AtMost(g, r)
  BY StartOf
<1>3. \A g \in 0 .. G - 1 : Share(n, G, g) = q + (IF g < r THEN 1 ELSE 0)
  BY DEF Share
<1> HIDE DEF q, r, start
<1>4. ASSUME NEW g \in 0 .. G - 1
      PROVE  start[g] + Share(n, G, g) = first + (g + 1) * q + AtMost(g + 1, r)
  <2>1. (g + 1) * q = g * q + q /\ g * q \in Nat
    BY <1>1
  <2>2. AtMost(g + 1, r) = AtMost(g, r) + (IF g < r THEN 1 ELSE 0)
    BY <1>1 DEF AtMost
  <2>3. AtMost(g, r) \in Nat
    BY <1>1 DEF AtMost
  <2> QED
    BY <1>1, <1>2, <1>3, <2>1, <2>2, <2>3
<1>5. start[0] = first
  <2>1. 0 \in 0 .. G - 1 /\ 0 * q = 0 /\ AtMost(0, r) = 0
    BY <1>1 DEF AtMost
  <2> QED
    BY <1>2, <2>1
<1>6. ASSUME NEW g \in 1 .. G - 1 PROVE start[g] = start[g - 1] + Share(n, G, g - 1)
  <2>1. g - 1 \in 0 .. G - 1 /\ (g - 1) + 1 = g /\ g \in 0 .. G - 1
    OBVIOUS
  <2> QED
    BY <1>2, <1>4, <2>1
<1>7. start[G - 1] + Share(n, G, G - 1) = first + n
  <2>1. G - 1 \in 0 .. G - 1 /\ (G - 1) + 1 = G
    OBVIOUS
  <2>2. AtMost(G, r) = r
    BY <1>1 DEF AtMost
  <2>3. start[G - 1] + Share(n, G, G - 1) = first + G * q + r
    BY <1>4, <2>1, <2>2
  <2>4. G * q \in Nat
    BY <1>1
  <2> QED
    BY <1>1, <2>3, <2>4
<1>8. ASSUME NEW g \in 0 .. G - 1, NEW h \in 0 .. G - 1, g < h
      PROVE  start[g] + Share(n, G, g) <= start[h]
  <2>1. (g + 1) * q <= h * q /\ (g + 1) * q \in Nat /\ h * q \in Nat
    BY <1>1, <1>8
  <2>2. AtMost(g + 1, r) <= AtMost(h, r) /\ AtMost(g + 1, r) \in Nat /\ AtMost(h, r) \in Nat
    BY <1>1, <1>8 DEF AtMost
  <2>3. start[h] = first + h * q + AtMost(h, r)
    BY <1>2
  <2>4. start[g] + Share(n, G, g) = first + (g + 1) * q + AtMost(g + 1, r)
    BY <1>4
  <2> QED
    BY <2>1, <2>2, <2>3, <2>4
<1> QED
  BY <1>5, <1>6, <1>7, <1>8 DEF start

(* The shares of n things that start at first. *)
Shares(n, G, first) ==
  [g \in 0 .. G - 1 |-> ShareStart(n, G, first)[g]
                          .. ShareStart(n, G, first)[g] + Share(n, G, g) - 1]

(* They partition what is dealt. *)
LEMMA SharesPartition ==
  ASSUME NEW n \in Nat, NEW G \in Nat \ {0}, NEW first \in Nat
  PROVE  /\ UNION {Shares(n, G, first)[g] : g \in 0 .. G - 1} = first .. first + n - 1
         /\ \A g, h \in 0 .. G - 1 :
              g # h => Shares(n, G, first)[g] \cap Shares(n, G, first)[h] = {}
         /\ \A g \in 0 .. G - 1 : Cardinality(Shares(n, G, first)[g]) = Share(n, G, g)
<1> DEFINE part  == Shares(n, G, first)
           start == ShareStart(n, G, first)
           size(g) == Share(n, G, g)
<1>1. \A g \in 0 .. G - 1 : /\ start[g] \in Nat /\ size(g) \in Nat
                            /\ first <= start[g] /\ start[g] + size(g) <= first + n
  BY ShareFits
<1>2. /\ start[0] = first
      /\ \A g \in 1 .. G - 1 : start[g] = start[g - 1] + size(g - 1)
      /\ start[G - 1] + size(G - 1) = first + n
      /\ \A g, h \in 0 .. G - 1 : g < h => start[g] + size(g) <= start[h]
  BY SharesMeet
<1>3. \A g \in 0 .. G - 1 : part[g] = start[g] .. start[g] + size(g) - 1
  BY DEF Shares
<1> HIDE DEF start, size, part
<1>4. ASSUME NEW i \in first .. first + n - 1
      PROVE  \E g \in 0 .. G - 1 : i \in part[g]
  <2> DEFINE past == {g \in 0 .. G - 1 : i < start[g] + size(g)}
  <2>1. G - 1 \in past
    BY <1>2
  <2>2. past \subseteq 0 .. G - 1 /\ G - 1 \in Nat /\ past # {}
    BY <2>1
  <2> HIDE DEF past
  <2>3. PICK g \in past : \A h \in past : g <= h
    BY <2>2, LeastMember
  <2>4. g \in 0 .. G - 1 /\ i < start[g] + size(g)
    BY <2>3 DEF past
  <2>5. start[g] <= i
    <3>1. CASE g = 0
      BY <1>2, <3>1
    <3>2. CASE g # 0
      <4>1. g \in 1 .. G - 1 /\ g - 1 \in 0 .. G - 1 /\ ~ (g <= g - 1)
        BY <2>4, <3>2
      <4>2. ~ (i < start[g - 1] + size(g - 1))
        BY <2>3, <4>1 DEF past
      <4>3. start[g] = start[g - 1] + size(g - 1)
        BY <1>2, <4>1
      <4>4. start[g] \in Nat
        BY <1>1, <2>4
      <4> QED
        BY <4>2, <4>3, <4>4
    <3> QED
      BY <3>1, <3>2
  <2>6. i \in start[g] .. start[g] + size(g) - 1
    BY <1>1, <2>4, <2>5
  <2> QED
    BY <1>3, <2>4, <2>6
<1>5. ASSUME NEW g \in 0 .. G - 1 PROVE part[g] \subseteq first .. first + n - 1
  <2>1. ASSUME NEW a \in Nat, NEW c \in Nat, first <= a, a + c <= first + n
        PROVE  a .. a + c - 1 \subseteq first .. first + n - 1
    BY <2>1
  <2>2. /\ start[g] \in Nat /\ size(g) \in Nat
        /\ first <= start[g] /\ start[g] + size(g) <= first + n
    BY <1>1
  <2>3. part[g] = start[g] .. start[g] + size(g) - 1
    BY <1>3
  <2> QED
    BY <2>1, <2>2, <2>3
<1>6. UNION {part[g] : g \in 0 .. G - 1} = first .. first + n - 1
  BY <1>4, <1>5
<1>7. ASSUME NEW g \in 0 .. G - 1, NEW h \in 0 .. G - 1, g < h
      PROVE  part[g] \cap part[h] = {}
  <2>1. start[g] + size(g) <= start[h]
    BY <1>2, <1>7
  <2>2. /\ start[g] \in Nat /\ size(g) \in Nat /\ start[h] \in Nat /\ size(h) \in Nat
    BY <1>1
  <2>3. /\ part[g] = start[g] .. start[g] + size(g) - 1
        /\ part[h] = start[h] .. start[h] + size(h) - 1
    BY <1>3
  <2> QED
    BY <2>1, <2>2, <2>3
<1>8. ASSUME NEW g \in 0 .. G - 1, NEW h \in 0 .. G - 1, g # h
      PROVE  part[g] \cap part[h] = {}
  <2>1. g < h \/ h < g
    BY <1>8
  <2> QED
    BY <1>7, <2>1
<1>9. ASSUME NEW g \in 0 .. G - 1 PROVE Cardinality(part[g]) = size(g)
  <2>1. ASSUME NEW a \in Nat, NEW c \in Nat PROVE Cardinality(a .. a + c - 1) = c
    BY FS_Interval
  <2>2. start[g] \in Nat /\ size(g) \in Nat
    BY <1>1
  <2>3. part[g] = start[g] .. start[g] + size(g) - 1
    BY <1>3
  <2> QED
    BY <2>1, <2>2, <2>3
<1> QED
  BY <1>6, <1>8, <1>9 DEF size, part

(* No group is empty or has more data than the coder takes. *)
LEMMA DataShares ==
  ASSUME NEW k \in Nat \ {0}, NEW g \in 0 .. GroupCount(k) - 1
  PROVE  Share(k, GroupCount(k), g) \in 1 .. MAX_GROUP_DATA
<1> DEFINE M == MAX_GROUP_DATA
           G == GroupCount(k)
           q == k \div G
           r == k % G
           c == (k + M - 1) \div M
<1>1. M \in Nat \ {0} /\ k + M - 1 \in Nat
  BY FecAssumption
<1>2. c \in Nat /\ (k + M - 1) - M * c \in 0 .. M - 1
  BY <1>1, Division
<1> HIDE DEF c, M
<1>3. c # 0 /\ k <= M * c /\ M * c <= k + M - 1
  <2>1. M * c \in Nat
    BY <1>1, <1>2
  <2>2. k <= M * c /\ M * c <= k + M - 1
    BY <1>1, <1>2, <2>1
  <2>3. c = 0 => M * c = 0
    BY <1>1
  <2> QED
    BY <2>2, <2>3
<1>4. c <= k
  <2>1. ASSUME c >= k + 1 PROVE FALSE
    <3>1. M * (k + 1) <= M * c
      BY <1>1, <1>2, <2>1
    <3>2. M * (k + 1) = M * k + M /\ 1 * k <= M * k
      BY <1>1
    <3>3. M * k \in Nat /\ M * c \in Nat
      BY <1>1, <1>2
    <3> QED
      BY <1>1, <1>3, <3>1, <3>2, <3>3
  <2> QED
    BY <1>2, <2>1
<1>5. G = c
  BY <1>3 DEF GroupCount, AtLeastOne, DivCeil, c, M
<1>6. G \in Nat \ {0} /\ G <= k /\ k <= M * G
  BY <1>2, <1>3, <1>4, <1>5
<1> HIDE DEF G
<1>7. q \in Nat /\ r \in 0 .. G - 1 /\ r = k - G * q
  BY <1>6, Division
<1>8. Share(k, G, g) = q + (IF g < r THEN 1 ELSE 0) /\ g \in Nat
  BY <1>6 DEF Share, G
<1> HIDE DEF q, r
<1>9. q >= 1
  <2>1. q = 0 => G * q = 0
    BY <1>6
  <2> QED
    BY <1>6, <1>7, <2>1
<1>10. CASE q < M
  <2>1. q + (IF g < r THEN 1 ELSE 0) \in 1 .. M
    BY <1>1, <1>7, <1>8, <1>9, <1>10
  <2> QED
    BY <1>8, <2>1 DEF G, M
<1>11. CASE q >= M
  <2>1. M * G <= G * q
    BY <1>1, <1>6, <1>7, <1>11
  <2>2. G * q \in Nat /\ M * G \in Nat
    BY <1>1, <1>6, <1>7
  <2>3. r = 0 /\ G * q = M * G
    BY <1>6, <1>7, <2>1, <2>2
  <2>4. q = M
    <3>1. ASSUME q >= M + 1 PROVE FALSE
      <4>1. (M + 1) * G <= q * G /\ q * G = G * q /\ (M + 1) * G = M * G + G
        BY <1>1, <1>6, <1>7, <3>1
      <4> QED
        BY <1>6, <2>2, <2>3, <4>1
    <3> QED
      BY <1>1, <1>7, <1>11, <3>1
  <2>5. ~ (g < r)
    BY <1>8, <2>3
  <2>6. Share(k, G, g) = M
    BY <1>1, <1>8, <2>4, <2>5
  <2> QED
    BY <1>1, <2>6 DEF G, M
<1> QED
  BY <1>1, <1>7, <1>10, <1>11

(* group_layout divides the shards of any frame into groups that partition *)
(* them, data before parity, whose sizes differ by one at most; every      *)
(* group has data, and no more than the coder takes.                       *)
THEOREM LayoutIsEven == \A k \in Nat \ {0}, m \in Nat : IsEvenPartition(k, m)
<1> SUFFICES ASSUME NEW k \in Nat \ {0}, NEW m \in Nat PROVE IsEvenPartition(k, m)
  OBVIOUS
<1> DEFINE G      == GroupCount(k)
           layout == GroupLayout(k, m)
           data   == Shares(k, G, 0)
           parity == Shares(m, G, k)
<1>1. G \in Nat \ {0}
  BY GroupsExist
<1>2. /\ DOMAIN layout = 0 .. G - 1
      /\ \A g \in 0 .. G - 1 : layout[g] = [data |-> data[g], parity |-> parity[g]]
  BY DEF GroupLayout, Shares
<1>3. /\ UNION {data[g] : g \in 0 .. G - 1} = 0 .. 0 + k - 1
      /\ \A g, h \in 0 .. G - 1 : g # h => data[g] \cap data[h] = {}
      /\ \A g \in 0 .. G - 1 : Cardinality(data[g]) = Share(k, G, g)
  <2> HIDE DEF G
  <2> QED
    BY <1>1, SharesPartition
<1>4. /\ UNION {parity[g] : g \in 0 .. G - 1} = k .. k + m - 1
      /\ \A g, h \in 0 .. G - 1 : g # h => parity[g] \cap parity[h] = {}
      /\ \A g \in 0 .. G - 1 : Cardinality(parity[g]) = Share(m, G, g)
  <2> HIDE DEF G
  <2> QED
    BY <1>1, SharesPartition
<1>5. \A g \in 0 .. G - 1 : Share(k, G, g) \in 1 .. MAX_GROUP_DATA
  BY DataShares
<1>6. ASSUME NEW n \in Nat, NEW g \in 0 .. G - 1, NEW h \in 0 .. G - 1
      PROVE  Share(n, G, g) - Share(n, G, h) \in -1 .. 1
  <2>1. n \div G \in Nat
    BY <1>1, Division
  <2> HIDE DEF G
  <2> QED
    BY <2>1 DEF Share
<1> HIDE DEF G, layout, data, parity
<1>7. \A g \in 0 .. G - 1 : layout[g].data = data[g] /\ layout[g].parity = parity[g]
                            /\ layout[g]["data"] = data[g] /\ layout[g]["parity"] = parity[g]
  BY <1>2
<1>8. UNION {layout[g].data : g \in DOMAIN layout} = 0 .. k - 1
  <2>1. {layout[g].data : g \in DOMAIN layout} = {data[g] : g \in 0 .. G - 1}
    BY <1>2, <1>7
  <2>2. 0 + k - 1 = k - 1
    OBVIOUS
  <2> QED
    BY <1>3, <2>1, <2>2
<1>9. UNION {layout[g].parity : g \in DOMAIN layout} = k .. k + m - 1
  <2>1. {layout[g].parity : g \in DOMAIN layout} = {parity[g] : g \in 0 .. G - 1}
    BY <1>2, <1>7
  <2> QED
    BY <1>4, <2>1
<1>10. \A g \in DOMAIN layout : Cardinality(layout[g].data) \in 1 .. MAX_GROUP_DATA
  BY <1>2, <1>3, <1>5, <1>7
<1>11. ASSUME NEW g \in DOMAIN layout, NEW h \in DOMAIN layout, g # h
       PROVE  /\ layout[g]["data"] \cap layout[h]["data"] = {}
              /\ Cardinality(layout[g]["data"]) - Cardinality(layout[h]["data"]) \in -1 .. 1
              /\ layout[g]["parity"] \cap layout[h]["parity"] = {}
              /\ Cardinality(layout[g]["parity"]) - Cardinality(layout[h]["parity"]) \in -1 .. 1
  <2>1. g \in 0 .. G - 1 /\ h \in 0 .. G - 1
    BY <1>2
  <2>2. /\ layout[g]["data"] = data[g] /\ layout[h]["data"] = data[h]
        /\ layout[g]["parity"] = parity[g] /\ layout[h]["parity"] = parity[h]
    BY <1>7, <2>1
  <2>3. data[g] \cap data[h] = {} /\ parity[g] \cap parity[h] = {}
    BY <1>3, <1>4, <1>11, <2>1
  <2>4. Cardinality(data[g]) - Cardinality(data[h]) \in -1 .. 1
    BY <1>3, <1>6, <2>1
  <2>5. Cardinality(parity[g]) - Cardinality(parity[h]) \in -1 .. 1
    BY <1>4, <1>6, <2>1
  <2> QED
    BY <2>2, <2>3, <2>4, <2>5
<1> QED
  BY <1>8, <1>9, <1>10, <1>11 DEF IsEvenPartition, layout

(* Parity of a frame of two groups or more: no group has more than half of *)
(* it, rounded up.                                                         *)
LEMMA HalfAtMost ==
  ASSUME NEW m \in Nat, NEW G \in Nat, G >= 2, NEW g \in 0 .. G - 1
  PROVE  Share(m, G, g) \in Nat /\ 2 * Share(m, G, g) <= m + 1
<1> DEFINE q == m \div G
           r == m % G
<1>1. q \in Nat /\ r \in 0 .. G - 1 /\ r = m - G * q
  <2>1. G \in Nat \ {0}
    OBVIOUS
  <2> QED
    BY <2>1, Division
<1>2. Share(m, G, g) = q + (IF g < r THEN 1 ELSE 0)
  BY DEF Share
<1> HIDE DEF q, r
<1>3. 2 * q <= G * q /\ G * q \in Nat
  BY <1>1
<1> QED
  BY <1>1, <1>2, <1>3

(* The parity of a frame is no more than the wire can count. *)
LEMMA ParityCapped ==
  ASSUME NEW count \in Nat, NEW permille \in Nat
  PROVE  ParityCount(count, permille) \in 0 .. MAX_SHARDS
<1> DEFINE wanted == IF permille = 0 THEN 0 ELSE AtLeastOne(DivCeil(count * permille, 1000))
<1>1. wanted \in Nat
  <2>1. count * permille \in Nat
    OBVIOUS
  <2>2. \A x \in Nat : DivCeil(x, 1000) \in Nat
    BY DEF DivCeil
  <2> QED
    BY <2>1, <2>2 DEF AtLeastOne
<1>2. AtMost(wanted, MAX_SHARDS) \in 0 .. MAX_SHARDS
  <2> HIDE DEF wanted
  <2> QED
    BY <1>1, FecAssumption DEF AtMost
<1>3. ParityCount(count, permille) \in {0, AtMost(wanted, MAX_SHARDS)}
  BY DEF ParityCount
<1> QED
  BY <1>2, <1>3, FecAssumption

(* encode_parity is never given a code word the field is too small for,    *)
(* for any frame and any rate of parity: the chunker sends a frame of one  *)
(* group without parity when it would be, and the groups of a larger frame *)
(* are small enough as long as two of data fit, as 2 * 32 in 255 do.       *)
THEOREM CodeWordsAlwaysFit ==
  2 * MAX_GROUP_DATA < MAX_SHARDS =>
    \A k \in Nat \ {0}, permille \in Nat : CodeWordsFit(k, ParityCount(k, permille))
<1> SUFFICES ASSUME 2 * MAX_GROUP_DATA < MAX_SHARDS,
                    NEW k \in Nat \ {0}, NEW permille \in Nat,
                    ParityCount(k, permille) > 0,
                    NEW g \in 0 .. GroupCount(k) - 1
             PROVE  LET group == GroupLayout(k, ParityCount(k, permille))[g]
                    IN  Cardinality(group.data \cup group.parity) <= MAX_SHARDS
  BY DEF CodeWordsFit, GroupLayout
<1> DEFINE m     == ParityCount(k, permille)
           G     == GroupCount(k)
           group == GroupLayout(k, m)[g]
<1>1. m \in 0 .. MAX_SHARDS /\ m \in Nat /\ MAX_SHARDS \in Nat /\ MAX_GROUP_DATA \in Nat \ {0}
  BY ParityCapped, FecAssumption
<1>2. G \in Nat \ {0}
  BY GroupsExist
<1>3. group = [data |-> Shares(k, G, 0)[g], parity |-> Shares(m, G, k)[g]]
  BY DEF GroupLayout, Shares
<1>4. Cardinality(group.data) = Share(k, G, g) /\ Cardinality(group.parity) = Share(m, G, g)
  <2>1. /\ Cardinality(Shares(k, G, 0)[g]) = Share(k, G, g)
        /\ Cardinality(Shares(m, G, k)[g]) = Share(m, G, g)
    <3> HIDE DEF m, G
    <3> QED
      BY <1>1, <1>2, SharesPartition DEF G
  <2> HIDE DEF m, G, group
  <2> QED
    BY <1>3, <2>1
<1>5. IsFiniteSet(group.data) /\ IsFiniteSet(group.parity)
  <2>1. group.data \subseteq 0 .. k - 1 /\ group.parity \subseteq k .. k + m - 1
    <3> HIDE DEF m
    <3> QED
      BY <1>1, GroupShards
  <2>2. IsFiniteSet(0 .. k - 1) /\ IsFiniteSet(k .. k + m - 1)
    <3>1. k - 1 \in Int /\ k + m - 1 \in Int
      BY <1>1
    <3> HIDE DEF m
    <3> QED
      BY <3>1, FS_Interval
  <2> HIDE DEF m, G, group
  <2> QED
    BY <2>1, <2>2, FS_Subset
<1>6. Share(k, G, g) \in 1 .. MAX_GROUP_DATA
  BY DataShares
<1>7. Share(m, G, g) \in Nat /\ Share(k, G, g) + Share(m, G, g) <= MAX_SHARDS
  <2>1. CASE G = 1
    <3>1. k <= MAX_GROUP_DATA
      <4> DEFINE c == (k + MAX_GROUP_DATA - 1) \div MAX_GROUP_DATA
      <4>1. c \in Nat /\ (k + MAX_GROUP_DATA - 1) - MAX_GROUP_DATA * c \in 0 .. MAX_GROUP_DATA - 1
        <5>1. k + MAX_GROUP_DATA - 1 \in Nat
          BY <1>1
        <5> QED
          BY <1>1, <5>1, Division
      <4>2. c <= 1
        BY <2>1, <4>1 DEF GroupCount, AtLeastOne, DivCeil
      <4> HIDE DEF c
      <4>3. MAX_GROUP_DATA * c <= MAX_GROUP_DATA
        BY <1>1, <4>1, <4>2
      <4>4. MAX_GROUP_DATA * c \in Nat
        BY <1>1, <4>1
      <4> QED
        BY <1>1, <4>1, <4>3, <4>4
    <3>2. k + m <= MAX_SHARDS
      BY <1>1, <3>1 DEF ParityCount
    <3>3. Share(k, G, g) <= k /\ Share(m, G, g) <= m /\ Share(m, G, g) \in Nat
      <4>1. g = 0 /\ \A n \in Nat : n \div 1 = n /\ n % 1 = 0
        BY <2>1
      <4> HIDE DEF m, G
      <4> QED
        BY <1>1, <2>1, <4>1 DEF Share
    <3> HIDE DEF m, G
    <3> QED
      BY <1>1, <1>6, <3>2, <3>3
  <2>2. CASE G # 1
    <3>1. Share(m, G, g) \in Nat /\ 2 * Share(m, G, g) <= m + 1
      <4>1. G \in Nat /\ G >= 2
        BY <1>2, <2>2
      <4>2. g \in 0 .. G - 1
        OBVIOUS
      <4> HIDE DEF m, G
      <4> QED
        BY <1>1, <4>1, <4>2, HalfAtMost
    <3> HIDE DEF m, G
    <3> QED
      BY <1>1, <1>6, <3>1
  <2> QED
    BY <2>1, <2>2
<1>8. Cardinality(group.data \cup group.parity)
        <= Cardinality(group.data) + Cardinality(group.parity)
  <2> HIDE DEF group
  <2>1. Cardinality(group.data \cup group.parity)
          = Cardinality(group.data) + Cardinality(group.parity)
            - Cardinality(group.data \cap group.parity)
    BY <1>5, FS_Union
  <2>2. /\ Cardinality(group.data) \in Nat /\ Cardinality(group.parity) \in Nat
        /\ Cardinality(group.data \cap group.parity) \in Nat
    BY <1>5, FS_Intersection, FS_CardinalityType
  <2> QED
    BY <2>1, <2>2
<1>9. Cardinality(group.data \cup group.parity) \in Nat
  BY <1>5, FS_Union, FS_CardinalityType
<1> HIDE DEF group, m, G
<1>10. Cardinality(group.data \cup group.parity) <= MAX_SHARDS
  BY <1>1, <1>4, <1>6, <1>7, <1>8, <1>9
<1> QED
  BY <1>10 DEF group, m

-----------------------------------------------------------------------------
(* A pending frame cannot be completed. *)

ShortOf(e) == ~ CompleteDirect(e) /\ ~ Reconstructable(e)

AllShort == \A id \in DOMAIN pending : ShortOf(pending[id])

(* A frame that cannot be completed misses more than parity covers.        *)
LEMMA ShortMissesMore ==
  ASSUME NEW e \in Entries, ShortOf(e)
  PROVE  Cardinality((0 .. e.geo.k + e.geo.m - 1) \ e.got) > Tolerance(e.geo.k, e.geo.m)
<1> DEFINE k == e.geo.k
           m == e.geo.m
<1>1. k \in Nat /\ m \in Nat /\ e.got \in SUBSET (0 .. k + m - 1)
  BY ReassemblyAssumption DEF Entries
<1>2. CASE Cardinality((0 .. k + m - 1) \ e.got) <= Tolerance(k, m)
  <2>1. Recoverable(k, m, e.got) /\ Cardinality(e.got) >= k
    BY <1>1, <1>2, LayoutTolerates
  <2> QED
    BY <2>1 DEF ShortOf, Reconstructable
<1>3. Cardinality((0 .. k + m - 1) \ e.got) \in Nat /\ Tolerance(k, m) \in Int
  <2>1. IsFiniteSet(0 .. k + m - 1)
    <3>1. k + m - 1 \in Int
      BY <1>1
    <3> HIDE DEF k, m
    <3> QED
      BY <3>1, FS_Interval
  <2>2. IsFiniteSet((0 .. k + m - 1) \ e.got)
    BY <2>1, FS_Subset
  <2>3. Tolerance(k, m) \in Nat
    BY <1>1, GroupsExist, Division DEF Tolerance
  <2> QED
    BY <2>2, <2>3, FS_CardinalityType
<1> QED
  BY <1>2, <1>3

(* drain keeps the entries it leaves as they were.                         *)
LEMMA DrainKeepsShort ==
  ASSUME NEW pend, NEW q, NEW lost, Drain(pend, q, lost),
         \A id \in DOMAIN pend : ShortOf(pend[id])
  PROVE  AllShort'
<1>1. PICK n \in 0 .. Len(q) :
        pending' = [id \in Surviving(DOMAIN pend, q, n) |-> pend[id]]
  BY DEF Drain
<1>2. Surviving(DOMAIN pend, q, n) \subseteq DOMAIN pend
  BY DEF Surviving
<1>3. ASSUME NEW id \in DOMAIN pending' PROVE ShortOf(pending'[id])
  BY <1>1, <1>2
<1> QED
  BY <1>3 DEF AllShort, ShortOf, CompleteDirect, Reconstructable

(* Nor does any push leave a frame pending that it could complete.         *)
LEMMA PushKeepsShort == ASSUME AllShort, Next PROVE AllShort'
<1>1. PICK h \in Headers : Push(h)
  BY DEF Next
<1>2. \A id \in DOMAIN Others(h) : ShortOf(Others(h)[id])
  BY DEF AllShort, Others
<1>3. CASE PushIgnored(h)
  BY <1>3 DEF PushIgnored, AllShort, ShortOf, CompleteDirect, Reconstructable
<1>4. CASE PushIncomplete(h)
  <2> DEFINE e    == WithShard(h)
             ids  == DOMAIN pending \cup {h.id}
             with == [id \in ids |-> IF id = h.id THEN e ELSE pending[id]]
  <2>1. ShortOf(e)
    BY <1>4 DEF PushIncomplete, ShortOf
  <2>2. \A id \in ids : ShortOf(with[id])
    BY <2>1 DEF AllShort
  <2>3. \/ \E oldest \in ids : Drain([id \in ids \ {oldest} |-> with[id]], held, 1)
        \/ Drain(with, held, 0)
    BY <1>4 DEF PushIncomplete
  <2> HIDE DEF with
  <2>4. ASSUME NEW oldest \in ids, Drain([id \in ids \ {oldest} |-> with[id]], held, 1)
        PROVE  AllShort'
    <3>1. \A id \in ids \ {oldest} : ShortOf([i \in ids \ {oldest} |-> with[i]][id])
      BY <2>2
    <3> QED
      BY <2>4, <3>1, DrainKeepsShort
  <2>5. CASE Drain(with, held, 0)
    <3>1. DOMAIN with = ids
      BY DEF with
    <3> QED
      BY <2>2, <2>5, <3>1, DrainKeepsShort
  <2> QED
    BY <2>3, <2>4, <2>5
<1>5. CASE PushComplete(h)
  BY <1>2, <1>5, DrainKeepsShort DEF PushComplete
<1>6. CASE PushUnrecoverable(h)
  BY <1>2, <1>6, DrainKeepsShort DEF PushUnrecoverable
<1> QED
  BY <1>1, <1>3, <1>4, <1>5, <1>6 DEF Push

-----------------------------------------------------------------------------
(* The theorems. *)

(* One push, whichever path it takes.                                      *)
LEMMA PushKeepsInv ==
  ASSUME IInv, Next
  PROVE  IInv' /\ ReleasesInOrder
<1>1. PICK h \in Headers : Push(h)
  BY DEF Next
<1>2. CASE PushIgnored(h)
  BY <1>2, IgnoredKeepsInv
<1>3. CASE PushIncomplete(h)
  BY <1>3, IncompleteKeepsInv
<1>4. CASE PushComplete(h)
  BY <1>4, CompleteKeepsInv
<1>5. CASE PushUnrecoverable(h)
  BY <1>5, UnrecoverableKeepsInv
<1> QED
  BY <1>1, <1>2, <1>3, <1>4, <1>5 DEF Push

(* And no push.                                                            *)
LEMMA StutterKeepsInv ==
  ASSUME IInv, UNCHANGED vars
  PROVE  IInv'
BY DEF vars, IInv, TypeOK, Bounded, HeldForCause, NothingStale, Accounting

(* The conjunction is an invariant of the reassembler whatever it is fed.  *)
THEOREM Invariance == Spec => []IInv
<1>1. Init => IInv
  BY InitInv
<1>2. IInv /\ [Next]_vars => IInv'
  BY PushKeepsInv, StutterKeepsInv
<1> QED
  BY <1>1, <1>2, PTL DEF Spec

(* Every id, shard index and counter of the reassembler stays in range.    *)
THEOREM TypeCorrect == Spec => []TypeOK
<1>1. IInv => TypeOK
  BY DEF IInv
<1> QED
  BY <1>1, Invariance, PTL

(* push keeps the pending window at MAX_PENDING frames and the held queue  *)
(* at HOLD_LIMIT, whatever shards arrive.                                  *)
THEOREM WindowsBounded == Spec => []Bounded
<1>1. IInv => Bounded
  BY DEF IInv
<1> QED
  BY <1>1, Invariance, PTL

(* drain never leaves a releasable frame waiting.                          *)
THEOREM NoIdleHold == Spec => []HeldForCause
<1>1. IInv => HeldForCause
  BY DEF IInv
<1> QED
  BY <1>1, Invariance, PTL

(* Trailing shards never reopen a frame that completed or was released.    *)
THEOREM NoStaleFrame == Spec => []NothingStale
<1>1. IInv => NothingStale
  BY DEF IInv
<1> QED
  BY <1>1, Invariance, PTL

(* frames_dropped() accounts for every opened frame that was not released. *)
THEOREM DropsAccounted == Spec => []Accounting
<1>1. IInv => Accounting
  BY DEF IInv
<1> QED
  BY <1>1, Invariance, PTL

(* push hands frames out in id order, whatever order their shards came in. *)
THEOREM OrderedRelease == Spec => ReleaseInOrder
<1>1. IInv /\ [Next]_vars => [ReleasesInOrder]_vars
  BY PushKeepsInv
<1> QED
  BY <1>1, Invariance, PTL DEF Spec, ReleaseInOrder

(* A frame stays pending only while it misses more shards than the poorest *)
(* of its groups has parity, for every layout the counts of a header give. *)
THEOREM LossTolerated == Spec => []ToleratesLoss
<1>1. Init => AllShort
  BY DEF Init, AllShort
<1>2. AllShort /\ [Next]_vars => AllShort'
  <2>1. ASSUME AllShort, UNCHANGED vars PROVE AllShort'
    BY <2>1 DEF vars, AllShort, ShortOf, CompleteDirect, Reconstructable
  <2> QED
    BY <2>1, PushKeepsShort
<1>3. TypeOK /\ AllShort => ToleratesLoss
  BY ShortMissesMore DEF TypeOK, AllShort, ToleratesLoss
<1> QED
  BY <1>1, <1>2, <1>3, TypeCorrect, PTL DEF Spec

-----------------------------------------------------------------------------
(* The stream: frame numbers and wire ids.                                 *)

(* The ids of the frames sent so far.                                      *)
SentIds == {WireId(n) : n \in 0 .. Sent - 1}

(* What the reassembler holds is of these.                                 *)
StreamTyped ==
  /\ kinds \in Seq(Kinds) /\ Sent \in 0 .. MaxFrames
  /\ DOMAIN pending \subseteq SentIds
  /\ \A i \in 1 .. Len(held) : held[i].id \in SentIds
  /\ latest # None => latest \in SentIds
  /\ released # <<>> =>
       /\ released[1].id \in SentIds /\ latest # None
       /\ Number(released[1].id) <= Number(latest)

SInv == IInv /\ StreamTyped

Numbers(q) == {Number(q[i].id) : i \in 1 .. Len(q)}

(* A frame's number is found in its id, across the wrap.                   *)
LEMMA NumberOf ==
  ASSUME NEW n \in 0 .. MaxFrames
  PROVE  WireId(n) \in Ids /\ Number(WireId(n)) = n
BY StreamAssumption, ReassemblyAssumption DEF WireId, Number, WrappingSub, Ids, IdSpace

(* On the frames sent, the orders on the ring are the order of numbers.    *)
LEMMA SentOrder ==
  ASSUME Sent \in 0 .. MaxFrames, NEW a \in SentIds, NEW b \in SentIds
  PROVE  /\ a \in Ids /\ Number(a) \in 0 .. Sent - 1
         /\ Number(a) = Number(b) => a = b
         /\ NotBehind(a, b) <=> Number(a) < Number(b)
         /\ Older(a, b) <=> Number(a) < Number(b)
<1>1. PICK m \in 0 .. Sent - 1 : a = WireId(m)
  BY DEF SentIds
<1>2. PICK n \in 0 .. Sent - 1 : b = WireId(n)
  BY DEF SentIds
<1>3. m \in 0 .. MaxFrames /\ n \in 0 .. MaxFrames /\ MaxFrames \in Nat /\ MaxFrames < HALF
  BY StreamAssumption
<1>4. a \in Ids /\ Number(a) = m /\ Number(b) = n
  BY <1>1, <1>2, <1>3, NumberOf
<1>5. m >= n => WrappingSub(a, b) = m - n
  BY <1>1, <1>2, <1>3, StreamAssumption, ReassemblyAssumption DEF WireId, WrappingSub, Ids, IdSpace
<1>6. n > m => WrappingSub(a, b) = m + IdSpace - n /\ WrappingSub(b, a) = n - m
  BY <1>1, <1>2, <1>3, StreamAssumption, ReassemblyAssumption DEF WireId, WrappingSub, Ids, IdSpace
<1>7. m > n => WrappingSub(b, a) = n + IdSpace - m
  BY <1>1, <1>2, <1>3, StreamAssumption, ReassemblyAssumption DEF WireId, WrappingSub, Ids, IdSpace
<1>8. m = n => WrappingSub(b, a) = 0
  BY <1>1, <1>2, <1>3, StreamAssumption, ReassemblyAssumption DEF WireId, WrappingSub, Ids, IdSpace
<1>9. NotBehind(a, b) <=> m < n
  BY <1>3, <1>5, <1>6, ReassemblyAssumption DEF NotBehind, IdSpace
<1>10. Older(a, b) <=> m < n
  BY <1>3, <1>6, <1>7, <1>8, ReassemblyAssumption DEF Older, IdSpace
<1> QED
  BY <1>1, <1>2, <1>4, <1>9, <1>10

(* Numbers that increase from each to the next increase all along.         *)
LEMMA AdjacentOrder ==
  ASSUME NEW n \in Nat, NEW f \in [1 .. n -> Int], \A i \in 1 .. n - 1 : f[i] < f[i + 1]
  PROVE  \A i, j \in 1 .. n : i < j => f[i] < f[j]
<1> DEFINE S == {d \in 1 .. n : \E i \in 1 .. n : i + d \in 1 .. n /\ f[i] >= f[i + d]}
<1>1. CASE S # {}
  <2>1. S \subseteq 0 .. n
    OBVIOUS
  <2> HIDE DEF S
  <2>2. PICK d \in S : \A e \in S : d <= e
    BY <1>1, <2>1, LeastMember
  <2>3. PICK i \in 1 .. n : d \in 1 .. n /\ i + d \in 1 .. n /\ f[i] >= f[i + d]
    BY <2>2 DEF S
  <2> DEFINE e == d - 1
             j == i + e
  <2>4. j \in 1 .. n - 1 /\ j + 1 = i + d /\ f[j] < f[j + 1]
    BY <2>3
  <2>5. d # 1
    BY <2>3, <2>4
  <2>6. e \in 1 .. n /\ e \in Nat /\ e < d
    BY <2>3, <2>5
  <2>7. e \notin S
    <3>1. ~ (d <= e)
      BY <2>3, <2>6
    <3> HIDE DEF e
    <3> QED
      BY <2>2, <3>1
  <2>8. j \in 1 .. n /\ f[i] \in Int /\ f[j] \in Int /\ f[i + d] \in Int
    BY <2>3, <2>4
  <2>9. ~ (f[i] >= f[j])
    BY <2>6, <2>7, <2>8 DEF S
  <2> QED
    BY <2>3, <2>4, <2>8, <2>9
<1>2. CASE S = {}
  <2> TAKE i, j \in 1 .. n
  <2> HAVE i < j
  <2>1. j - i \in 1 .. n /\ i + (j - i) = j
    OBVIOUS
  <2>2. ~ (f[i] >= f[i + (j - i)])
    <3> DEFINE d == j - i
    <3>1. d \in 1 .. n /\ i + d \in 1 .. n
      BY <2>1
    <3> HIDE DEF d
    <3>2. d \notin S
      BY <1>2
    <3> QED
      BY <3>1, <3>2 DEF d
  <2> QED
    BY <2>1, <2>2
<1> QED
  BY <1>1, <1>2

(* A queue in order has its frames in the order of their numbers.          *)
LEMMA QueueOrder ==
  ASSUME Sent \in 0 .. MaxFrames, NEW q \in Seq(Frames),
         \A i \in 1 .. Len(q) : q[i].id \in SentIds,
         \A i \in 1 .. Len(q) - 1 : NotBehind(q[i].id, q[i + 1].id)
  PROVE  /\ \A i \in 1 .. Len(q) : Number(q[i].id) \in Int
         /\ \A i, j \in 1 .. Len(q) : i < j => Number(q[i].id) < Number(q[j].id)
<1> DEFINE f == [i \in 1 .. Len(q) |-> Number(q[i].id)]
<1>1. Len(q) \in Nat
  BY FramesOf
<1>2. \A i \in 1 .. Len(q) : Number(q[i].id) \in Int
  BY SentOrder
<1>3. \A i \in 1 .. Len(q) - 1 : f[i] < f[i + 1]
  <2> TAKE i \in 1 .. Len(q) - 1
  <2>1. i \in 1 .. Len(q) /\ i + 1 \in 1 .. Len(q)
    BY <1>1
  <2> QED
    BY <2>1, SentOrder
<1>4. f \in [1 .. Len(q) -> Int]
  BY <1>2
<1> HIDE DEF f
<1>5. \A i, j \in 1 .. Len(q) : i < j => f[i] < f[j]
  BY <1>1, <1>3, <1>4, AdjacentOrder
<1> QED
  BY <1>2, <1>5 DEF f

(* What a release of the first r frames is, in numbers: all up to the last *)
(* of them.                                                                *)
LEMMA Released ==
  ASSUME Sent \in 0 .. MaxFrames, NEW q \in Seq(Frames),
         \A i \in 1 .. Len(q) : q[i].id \in SentIds,
         \A i \in 1 .. Len(q) - 1 : NotBehind(q[i].id, q[i + 1].id),
         NEW r \in 1 .. Len(q)
  PROVE  /\ Cardinality({x \in Numbers(q) : x <= Number(q[r].id)}) = r
         /\ Numbers(SubSeq(q, r + 1, Len(q))) = {x \in Numbers(q) : x > Number(q[r].id)}
<1> DEFINE num(i) == Number(q[i].id)
           upTo   == {x \in Numbers(q) : x <= num(r)}
           rest   == SubSeq(q, r + 1, Len(q))
<1>1. /\ Len(q) \in Nat
      /\ \A i \in 1 .. Len(q) : num(i) \in Int
      /\ \A i, j \in 1 .. Len(q) : i < j => num(i) < num(j)
  BY FramesOf, QueueOrder
<1>2. /\ rest \in Seq(Frames) /\ Len(rest) = Len(q) - r
      /\ \A i \in 1 .. Len(rest) : rest[i] = q[r + i]
  BY <1>1, SubSeqProperties, SMT
<1> HIDE DEF num, rest
<1>3. Numbers(q) = {num(i) : i \in 1 .. Len(q)}
  BY DEF Numbers, num
<1>4. upTo = {num(i) : i \in 1 .. r}
  <2>1. ASSUME NEW i \in 1 .. Len(q) PROVE num(i) <= num(r) <=> i \in 1 .. r
    BY <1>1
  <2>2. \A i \in 1 .. r : i \in 1 .. Len(q)
    BY <1>1
  <2> QED
    BY <1>3, <2>1, <2>2
<1>5. Cardinality(upTo) = r
  <2> DEFINE f == [i \in 1 .. r |-> num(i)]
  <2>1. \A i, j \in 1 .. r : num(i) = num(j) => i = j
    BY <1>1
  <2>2. f \in Bijection(1 .. r, upTo)
    <3>1. f \in [1 .. r -> upTo] /\ \A x \in upTo : \E i \in 1 .. r : f[i] = x
      BY <1>4
    <3>2. \A i, j \in 1 .. r : f[i] = f[j] => i = j
      BY <2>1
    <3> HIDE DEF f, upTo
    <3> QED
      BY <3>1, <3>2 DEF Bijection, Injection, Surjection, IsInjective
  <2>3. ExistsBijection(1 .. r, upTo)
    BY <2>2 DEF ExistsBijection
  <2>4. r \in Nat
    BY <1>1
  <2> HIDE DEF upTo
  <2> QED
    BY <2>3, <2>4, FS_CountingElements
<1>6. Numbers(rest) = {x \in Numbers(q) : x > num(r)}
  <2>1. ASSUME NEW i \in 1 .. Len(rest)
        PROVE  r + i \in 1 .. Len(q) /\ Number(rest[i].id) = num(r + i) /\ num(r + i) > num(r)
    BY <1>1, <1>2 DEF num
  <2>2. ASSUME NEW i \in 1 .. Len(q), num(i) > num(r)
        PROVE  i - r \in 1 .. Len(rest) /\ Number(rest[i - r].id) = num(i)
    <3>1. i > r
      BY <1>1, <2>2
    <3>2. i - r \in 1 .. Len(rest) /\ r + (i - r) = i
      BY <1>1, <1>2, <3>1
    <3> QED
      BY <1>2, <3>2 DEF num
  <2> QED
    BY <1>3, <2>1, <2>2 DEF Numbers
<1> QED
  BY <1>5, <1>6 DEF num, rest

-----------------------------------------------------------------------------
(* The stream: every push is a step of ordered delivery, or none.          *)

(* The refinement mapping.                                                 *)
Completed == {Number(held[i].id) : i \in DOMAIN held}
Newest    == IF latest = None THEN -1 ELSE Number(latest)

(* Both levels count alike.                                                *)
LEMMA SameCount == ASSUME NEW S PROVE Abstract!Cardinality(S) = Cardinality(S)
BY Zenon DEF Abstract!Cardinality, Cardinality

(* A drain delivers a part of what is complete, in order, or nothing.      *)
LEMMA DrainDelivers ==
  ASSUME StreamTyped, latest \in Ids \cup {None}, delivered \in Nat,
         NEW pend, NEW q \in Seq(Frames), NEW lost, Drain(pend, q, lost), UNCHANGED kinds,
         DOMAIN pend \subseteq SentIds,
         \A i \in 1 .. Len(q) : q[i].id \in SentIds,
         \A i \in 1 .. Len(q) - 1 : NotBehind(q[i].id, q[i + 1].id)
  PROVE  /\ StreamTyped'
         /\ \/ Completed' = Numbers(q) /\ UNCHANGED <<latest, delivered>>
            \/ \E cut \in Numbers(q) : Abstract!Deliver(Numbers(q), cut)
<1>1. PICK r \in 0 .. Len(q) :
        /\ held' = SubSeq(q, r + 1, Len(q))
        /\ latest' = (IF r = 0 THEN latest ELSE q[r].id)
        /\ released' = SubSeq(q, 1, r)
        /\ pending' = [id \in Surviving(DOMAIN pend, q, r) |-> pend[id]]
        /\ delivered' = delivered + r
  BY DEF Drain
<1>2. /\ Len(q) \in Nat /\ \A i \in 1 .. Len(q) : q[i].id \in Ids
  BY FramesOf
<1>3. /\ held' \in Seq(Frames) /\ Len(held') = Len(q) - r
      /\ \A i \in 1 .. Len(held') : held'[i] = q[r + i]
  BY <1>1, <1>2, SubSeqProperties, SMT
<1>4. StreamTyped'
  <2>1. DOMAIN pending' \subseteq SentIds
    BY <1>1 DEF Surviving
  <2>2. \A i \in 1 .. Len(held') : held'[i].id \in SentIds
    <3> TAKE i \in 1 .. Len(held')
    <3>1. i \in 1 .. Len(q) - r
      BY <1>3
    <3>2. r + i \in 1 .. Len(q)
      BY <1>2, <3>1
    <3> QED
      BY <1>3, <3>2
  <2>3. latest' # None => latest' \in SentIds
    <3>1. r # 0 => r \in 1 .. Len(q)
      BY <1>2
    <3> QED
      BY <1>1, <3>1 DEF StreamTyped
  <2>4. ASSUME released' # <<>>
        PROVE  /\ released'[1].id \in SentIds /\ latest' # None
               /\ Number(released'[1].id) <= Number(latest')
    <3>1. /\ released' \in Seq(Frames) /\ Len(released') = r
          /\ \A i \in 1 .. r : released'[i] = q[i]
      BY <1>1, <1>2, SubSeqProperties, SMT
    <3>2. r # 0
      <4>1. r = 0 => released' = <<>>
        BY <3>1, EmptySeq
      <4> QED
        BY <2>4, <4>1
    <3>3. 1 \in 1 .. r /\ 1 \in 1 .. Len(q) /\ r \in 1 .. Len(q) /\ released'[1] = q[1]
      BY <1>2, <3>1, <3>2
    <3>4. latest' = q[r].id /\ latest' # None
      BY <1>1, <1>2, <3>2, <3>3, NoneIsNoId
    <3>5. 1 < r => Number(q[1].id) < Number(q[r].id)
      BY <3>3, QueueOrder DEF StreamTyped
    <3>6. Number(q[1].id) \in Int /\ Number(q[r].id) \in Int
      BY <3>3, QueueOrder DEF StreamTyped
    <3>7. Number(q[1].id) <= Number(q[r].id)
      BY <3>3, <3>5, <3>6
    <3> QED
      BY <3>3, <3>4, <3>7
  <2>5. (Number(released[1].id) <= Number(latest))' <=> Number(released'[1].id) <= Number(latest')
    BY DEF Number, WrappingSub
  <2> QED
    BY <2>1, <2>2, <2>3, <2>4, <2>5 DEF StreamTyped, SentIds, Sent
<1>5. Completed' = Numbers(held')
  <2>1. DOMAIN held' = 1 .. Len(held')
    BY <1>3, LenProperties
  <2> QED
    BY <2>1 DEF Completed, Numbers, Number, WrappingSub
<1>6. CASE r = 0
  <2>1. held' = q
    BY <1>1, <1>2, <1>6
  <2>2. delivered' = delivered /\ latest' = latest
    BY <1>1, <1>6
  <2> QED
    BY <1>4, <1>5, <2>1, <2>2
<1>7. CASE r # 0
  <2>1. r \in 1 .. Len(q)
    BY <1>2, <1>7
  <2>2. /\ Cardinality({x \in Numbers(q) : x <= Number(q[r].id)}) = r
        /\ Numbers(held') = {x \in Numbers(q) : x > Number(q[r].id)}
    BY <1>1, <2>1, Released DEF StreamTyped
  <2>3. Newest' = Number(q[r].id)
    BY <1>1, <1>2, <1>7, <2>1, NoneIsNoId DEF Newest, Number, WrappingSub
  <2>4. Number(q[r].id) \in Numbers(q)
    BY <2>1 DEF Numbers
  <2>5. Abstract!Deliver(Numbers(q), Number(q[r].id))
    BY <1>1, <1>5, <2>2, <2>3, <2>4, SameCount DEF Abstract!Deliver, Completed, Newest
  <2> QED
    BY <1>4, <2>4, <2>5
<1> QED
  BY <1>6, <1>7

(* A drain that releases something although an older frame was pending has *)
(* drain's reasons.                                                        *)
LEMMA DrainWaits ==
  ASSUME NEW pend, NEW q \in Seq(Frames), NEW lost, Drain(pend, q, lost), released' # <<>>
  PROVE  /\ released'[1] = q[1] /\ DOMAIN released' = 1 .. Len(released') /\ 1 \in DOMAIN released'
         /\ Len(released') + Len(held') = Len(q)
         /\ (\E id \in DOMAIN pend : Older(id, q[1].id)) =>
               q[1].kind = "Idr" \/ Len(q) > HOLD_LIMIT
<1>1. PICK r \in 0 .. Len(q) :
        /\ DrainCount(DOMAIN pend, q, r)
        /\ released' = SubSeq(q, 1, r) /\ held' = SubSeq(q, r + 1, Len(q))
  BY DEF Drain
<1>2. Len(q) \in Nat
  BY LenProperties
<1>3. /\ released' \in Seq(Frames) /\ Len(released') = r
      /\ \A i \in 1 .. r : released'[i] = q[i]
  BY <1>1, <1>2, SubSeqProperties, SMT
<1>4. Len(held') = Len(q) - r
  BY <1>1, <1>2, SubSeqProperties, SMT
<1>5. r # 0
  <2>1. r = 0 => released' = <<>>
    BY <1>3, EmptySeq
  <2> QED
    BY <2>1
<1>6. ~ Waits(DOMAIN pend, q, 0) /\ 0 < Len(q)
  BY <1>1, <1>2, <1>5 DEF DrainCount
<1>7. Surviving(DOMAIN pend, q, 0) = DOMAIN pend
  <2>1. \A i \in 1 .. 0 : FALSE
    OBVIOUS
  <2> QED
    BY <2>1 DEF Surviving
<1>8. (\E id \in DOMAIN pend : Older(id, q[1].id)) => q[1].kind = "Idr" \/ Len(q) > HOLD_LIMIT
  BY <1>2, <1>6, <1>7, ReassemblyAssumption DEF Waits
<1>9. DOMAIN released' = 1 .. Len(released') /\ 1 \in DOMAIN released'
  BY <1>2, <1>3, <1>5, LenProperties
<1> QED
  BY <1>2, <1>3, <1>4, <1>5, <1>8, <1>9

(* The held queue, before and after a completed frame is put in its place. *)
LEMMA HeldOrder ==
  ASSUME SInv
  PROVE  /\ held \in Seq(Frames) /\ latest \in Ids \cup {None} /\ delivered \in Nat
         /\ DOMAIN held = 1 .. Len(held) /\ Completed = Numbers(held)
         /\ \A i \in 1 .. Len(held) - 1 : NotBehind(held[i].id, held[i + 1].id)
<1>1. held \in Seq(Frames) /\ latest \in Ids \cup {None} /\ delivered \in Nat
  BY DEF SInv, IInv, TypeOK
<1>2. DOMAIN held = 1 .. Len(held)
  BY <1>1, LenProperties
<1>3. \A i \in 1 .. Len(held) - 1 : NotBehind(held[i].id, held[i + 1].id)
  BY DEF SInv, IInv, NothingStale
<1> QED
  BY <1>1, <1>2, <1>3 DEF Completed, Numbers

(* A shard of a frame still short of shards unblocks what waited for the   *)
(* one given up, if any.                                                   *)
LEMMA IncompleteRefines ==
  ASSUME SInv, NEW h \in Headers, h.id \in SentIds, PushIncomplete(h), UNCHANGED kinds
  PROVE  StreamTyped' /\ [Abstract!Next]_(Abstract!vars) /\ WaitsForOlder
<1> DEFINE e    == WithShard(h)
           ids  == DOMAIN pending \cup {h.id}
           with == [id \in ids |-> IF id = h.id THEN e ELSE pending[id]]
<1>1. PICK pend, lost :
        /\ Drain(pend, held, lost)
        /\ \/ DOMAIN pend = ids
           \/ Cardinality(ids) > MAX_PENDING /\ \E oldest \in ids : DOMAIN pend = ids \ {oldest}
  <2>1. \/ Drain(with, held, 0)
        \/ /\ Cardinality(ids) > MAX_PENDING
           /\ \E oldest \in ids : Drain([id \in ids \ {oldest} |-> with[id]], held, 1)
    BY DEF PushIncomplete
  <2>2. DOMAIN with = ids
    OBVIOUS
  <2>3. \A oldest \in ids : DOMAIN [id \in ids \ {oldest} |-> with[id]] = ids \ {oldest}
    OBVIOUS
  <2> HIDE DEF with, ids
  <2> QED
    BY <2>1, <2>2, <2>3
<1>2. StreamTyped /\ DOMAIN pend \subseteq SentIds
  BY <1>1 DEF SInv, StreamTyped
<1>3. /\ StreamTyped'
      /\ \/ Completed' = Completed /\ UNCHANGED <<latest, delivered>>
         \/ \E cut \in Completed : Abstract!Deliver(Completed, cut)
  BY <1>1, <1>2, HeldOrder, DrainDelivers DEF StreamTyped
<1>4. [Abstract!Next]_(Abstract!vars)
  BY <1>3 DEF Abstract!Next, Abstract!Unblock, Abstract!vars, Completed, Sent
<1>5. WaitsForOlder
  <2> SUFFICES ASSUME released' # <<>>, NEW id \in DOMAIN pending, Older(id, released'[1].id)
               PROVE  \/ released'[1].kind = "Idr"
                      \/ Len(released') + Len(held') > HOLD_LIMIT
                      \/ GaveUp
    BY DEF WaitsForOlder
  <2>1. CASE id \in DOMAIN pend
    BY <1>1, <2>1, HeldOrder, DrainWaits
  <2>2. CASE id \notin DOMAIN pend
    <3>1. Cardinality(ids) > MAX_PENDING
      BY <1>1, <2>2
    <3>2. Cardinality(DOMAIN pending) <= MAX_PENDING /\ opened \in Nat
      BY DEF SInv, IInv, Bounded, TypeOK
    <3>3. IsFiniteSet(DOMAIN pending) /\ Cardinality(DOMAIN pending) \in Nat
      BY IdsFinite DEF SInv, IInv, TypeOK
    <3>4. Cardinality(ids) = IF h.id \in DOMAIN pending THEN Cardinality(DOMAIN pending)
                                                         ELSE Cardinality(DOMAIN pending) + 1
      BY <3>3, FS_AddElement
    <3>5. /\ h.id \notin DOMAIN pending
          /\ Cardinality(DOMAIN pending) = MAX_PENDING
      BY <3>1, <3>2, <3>3, <3>4, ReassemblyAssumption
    <3>6. opened' > opened
      BY <3>2, <3>5 DEF PushIncomplete, Open
    <3> QED
      BY <3>5, <3>6 DEF GaveUp
  <2> QED
    BY <2>1, <2>2
<1> QED
  BY <1>3, <1>4, <1>5

(* A completed frame enters what is complete, and may go out with others.  *)
LEMMA CompleteRefines ==
  ASSUME SInv, NEW n \in 0 .. Sent - 1, NEW h \in Headers, h.id = WireId(n),
         PushComplete(h), UNCHANGED kinds
  PROVE  StreamTyped' /\ Abstract!Complete(n) /\ WaitsForOlder
<1> DEFINE f == [id |-> h.id, kind |-> h.kind]
<1>1. PICK p \in 1 .. Len(held) + 1 :
        InsertPosition(f, p) /\ Drain(Others(h), InsertHeld(f, p), 0)
  BY DEF PushComplete
<1>2. /\ Accepted(h) /\ IInv /\ StreamTyped
      /\ f \in Frames /\ f.id = h.id
      /\ held \in Seq(Frames) /\ latest \in Ids \cup {None} /\ delivered \in Nat
      /\ DOMAIN held = 1 .. Len(held) /\ Completed = Numbers(held)
  BY HeldOrder, HeaderType DEF PushComplete, SInv, Frames
<1>3. /\ \A i \in 1 .. Len(held) : held[i].id # h.id
      /\ latest # None => NotBehind(latest, h.id)
      /\ Chain(DOMAIN pending \cup {h.id}, held, latest)
  BY <1>2, AcceptedIsNew
<1>4. /\ DOMAIN Others(h) = DOMAIN pending \ {h.id}
      /\ DOMAIN Others(h) \in SUBSET Ids
      /\ Chain(DOMAIN Others(h), held, latest)
  <2>1. DOMAIN Others(h) = DOMAIN pending \ {h.id}
    BY DEF Others
  <2> QED
    BY <1>2, <1>3, <2>1 DEF Chain, IInv, TypeOK
<1>5. /\ Sent \in 0 .. MaxFrames /\ n \in 0 .. MaxFrames
      /\ h.id \in SentIds /\ Number(h.id) = n
      /\ DOMAIN Others(h) \subseteq SentIds
  <2>1. Sent \in 0 .. MaxFrames /\ n \in 0 .. MaxFrames
    BY <1>2, StreamAssumption DEF StreamTyped
  <2> QED
    BY <1>2, <1>4, <2>1, NumberOf DEF StreamTyped, SentIds
<1> DEFINE q == InsertHeld(f, p)
<1> HIDE DEF f
<1>6. /\ q \in Seq(Frames) /\ Len(q) = Len(held) + 1
      /\ Chain(DOMAIN Others(h), q, latest)
  BY <1>1, <1>2, <1>3, <1>4, InsertKeepsChain
<1>7. /\ \A i \in 1 .. Len(q) : q[i] = IF i < p THEN held[i] ELSE IF i = p THEN f ELSE held[i - 1]
  BY <1>1, <1>2, Inserted
<1> HIDE DEF q
<1>8. Len(held) \in Nat
  BY <1>2, LenProperties
<1>9. \A i \in 1 .. Len(q) : q[i] = f \/ \E j \in 1 .. Len(held) : q[i] = held[j]
  <2> TAKE i \in 1 .. Len(q)
  <2>1. i < p => i \in 1 .. Len(held)
    BY <1>6, <1>8
  <2>2. i > p => i - 1 \in 1 .. Len(held)
    BY <1>6, <1>8
  <2>3. i \in Int /\ p \in Int
    BY <1>6, <1>8
  <2> QED
    BY <1>7, <2>1, <2>2, <2>3
<1>10. /\ \A j \in 1 .. Len(held) : \E i \in 1 .. Len(q) : q[i] = held[j]
       /\ p \in 1 .. Len(q) /\ q[p] = f
  <2>1. ASSUME NEW j \in 1 .. Len(held) PROVE \E i \in 1 .. Len(q) : q[i] = held[j]
    <3>1. CASE j < p
      <4>1. j \in 1 .. Len(q) /\ q[j] = held[j]
        BY <1>6, <1>7, <1>8, <3>1
      <4> QED
        BY <4>1
    <3>2. CASE j >= p
      <4>1. j + 1 \in 1 .. Len(q) /\ ~ (j + 1 < p) /\ j + 1 # p /\ (j + 1) - 1 = j
        BY <1>6, <1>8, <3>2
      <4>2. q[j + 1] = held[j]
        BY <1>7, <4>1
      <4> QED
        BY <4>1, <4>2
    <3> QED
      BY <1>8, <3>1, <3>2
  <2>2. p \in 1 .. Len(q) /\ ~ (p < p)
    BY <1>6, <1>8
  <2> QED
    BY <1>7, <2>1, <2>2
<1>11. Numbers(q) = Completed \cup {n}
  BY <1>2, <1>5, <1>9, <1>10 DEF Numbers
<1>12. /\ \A i \in 1 .. Len(q) : q[i].id \in SentIds
       /\ \A i \in 1 .. Len(q) - 1 : NotBehind(q[i].id, q[i + 1].id)
  BY <1>2, <1>5, <1>6, <1>9 DEF StreamTyped, Chain
<1>13. /\ StreamTyped'
       /\ \/ Completed' = Completed \cup {n} /\ UNCHANGED <<latest, delivered>>
          \/ \E cut \in Completed \cup {n} : Abstract!Deliver(Completed \cup {n}, cut)
  <2>1. Drain(Others(h), q, 0)
    BY <1>1 DEF q
  <2> QED
    BY <1>2, <1>5, <1>6, <1>11, <1>12, <2>1, DrainDelivers
<1>14. n > Newest
  <2>1. CASE latest = None
    BY <1>5, <2>1 DEF Newest
  <2>2. CASE latest # None
    <3>1. latest \in SentIds
      BY <1>2, <2>2 DEF StreamTyped
    <3>2. Number(latest) < Number(h.id) /\ Number(latest) \in Int
      BY <1>3, <1>5, <2>2, <3>1, SentOrder
    <3> QED
      BY <1>5, <2>2, <3>2 DEF Newest
  <2> QED
    BY <2>1, <2>2
<1>15. n \notin Completed
  <2>1. ASSUME NEW i \in 1 .. Len(held), Number(held[i].id) = n PROVE FALSE
    <3>1. held[i].id \in SentIds
      BY <1>2 DEF StreamTyped
    <3>2. held[i].id = h.id
      BY <1>5, <2>1, <3>1, SentOrder
    <3> QED
      BY <1>3, <3>2
  <2> QED
    BY <1>2, <2>1 DEF Numbers
<1>16. Abstract!Complete(n)
  BY <1>13, <1>14, <1>15 DEF Abstract!Complete, Completed, Newest, Sent
<1>17. WaitsForOlder
  <2> SUFFICES ASSUME released' # <<>>, NEW id \in DOMAIN pending, Older(id, released'[1].id),
                      ~ \E i \in DOMAIN released' : released'[i].id = id
               PROVE  \/ released'[1].kind = "Idr"
                      \/ Len(released') + Len(held') > HOLD_LIMIT
    BY DEF WaitsForOlder
  <2>1. Drain(Others(h), q, 0)
    BY <1>1 DEF q
  <2>2. /\ released'[1] = q[1] /\ 1 \in DOMAIN released'
        /\ Len(released') + Len(held') = Len(q)
        /\ (\E i \in DOMAIN Others(h) : Older(i, q[1].id)) => q[1].kind = "Idr" \/ Len(q) > HOLD_LIMIT
    BY <1>6, <2>1, DrainWaits
  <2>3. CASE id \in DOMAIN Others(h)
    BY <2>2, <2>3
  <2>4. CASE id \notin DOMAIN Others(h)
    <3>1. id = h.id
      BY <1>4, <2>4
    <3>2. CASE p = 1
      BY <1>2, <1>10, <2>2, <3>1, <3>2
    <3>3. CASE p # 1
      <4>1. 1 \in 1 .. Len(q) /\ 1 < p /\ 1 \in 1 .. p - 1
        BY <1>6, <1>8, <3>3
      <4>2. q[1] = held[1] /\ ~ Older(f.id, held[1].id)
        BY <1>1, <1>7, <4>1 DEF InsertPosition
      <4> QED
        BY <1>2, <2>2, <3>1, <4>2
    <3> QED
      BY <3>2, <3>3
  <2> QED
    BY <2>3, <2>4
<1> QED
  BY <1>13, <1>16, <1>17

(* A frame arriving or being sent.                                         *)
LEMMA StreamStep ==
  ASSUME SInv, StreamNext
  PROVE  SInv' /\ [Abstract!Next]_(Abstract!vars) /\ WaitsForOlder
<1>1. CASE \E kind \in Kinds : SendFrame(kind)
  <2>1. PICK kind \in Kinds : SendFrame(kind)
    BY <1>1
  <2>2. /\ kinds \in Seq(Kinds) /\ kinds' = Append(kinds, kind) /\ Sent < MaxFrames
        /\ UNCHANGED vars /\ UNCHANGED <<pending, held, latest, delivered, released>>
    BY <2>1 DEF SendFrame, SInv, StreamTyped, vars
  <2>3. Sent' = Sent + 1 /\ Sent \in Nat /\ kinds' \in Seq(Kinds)
    BY <2>2, AppendProperties, LenProperties DEF Sent
  <2>4. SentIds \subseteq SentIds' /\ Sent' \in 0 .. MaxFrames
    BY <2>2, <2>3, StreamAssumption DEF SentIds, WireId
  <2>5. StreamTyped'
    BY <2>2, <2>3, <2>4 DEF SInv, StreamTyped
  <2>6. Abstract!Send
    BY <2>2, <2>3 DEF Abstract!Send, Number, WrappingSub
  <2>7. SInv'
    BY <2>2, <2>5, StutterKeepsInv DEF SInv
  <2>8. ASSUME released # <<>>, NEW id \in DOMAIN pending PROVE ~ Older(id, released[1].id)
    <3>1. /\ id \in SentIds /\ released[1].id \in SentIds /\ latest \in SentIds
          /\ NotBehind(latest, id) /\ Number(released[1].id) <= Number(latest)
          /\ Sent \in 0 .. MaxFrames
      BY <2>8 DEF SInv, StreamTyped, IInv, NothingStale
    <3>2. Number(latest) < Number(id)
      BY <3>1, SentOrder
    <3>3. Number(latest) \in Int /\ Number(id) \in Int /\ Number(released[1].id) \in Int
      BY <3>1, SentOrder
    <3> QED
      BY <3>1, <3>2, <3>3, SentOrder
  <2>9. WaitsForOlder
    BY <2>2, <2>8 DEF WaitsForOlder
  <2> QED
    BY <2>6, <2>7, <2>9 DEF Abstract!Next
<1>2. CASE \E n \in 0 .. Sent - 1, index \in 0 .. Shape.k + Shape.m - 1 : Arrive(n, index)
  <2>1. PICK n \in 0 .. Sent - 1, index \in 0 .. Shape.k + Shape.m - 1 : Arrive(n, index)
    BY <1>2
  <2> DEFINE h == [id |-> WireId(n), kind |-> kinds[n + 1], geo |-> Shape, index |-> index]
  <2>2. UNCHANGED kinds /\ (PushIgnored(h) \/ PushIncomplete(h) \/ PushComplete(h))
    BY <2>1 DEF Arrive
  <2>3. h \in Headers /\ h.id = WireId(n) /\ h.id \in SentIds
    <3>1. n \in 0 .. MaxFrames /\ n + 1 \in 1 .. Len(kinds)
      BY StreamAssumption DEF SInv, StreamTyped, Sent
    <3>2. WireId(n) \in Ids /\ kinds[n + 1] \in Kinds
      BY <3>1, NumberOf DEF SInv, StreamTyped
    <3> QED
      BY <3>2, StreamAssumption DEF Headers, SentIds
  <2> HIDE DEF h
  <2>4. IInv'
    BY <2>2, <2>3, PushKeepsInv DEF Next, Push, SInv
  <2>5. CASE PushIgnored(h)
    <3>1. released' = <<>> /\ UNCHANGED <<pending, held, latest, delivered, kinds>>
      BY <2>2, <2>5 DEF PushIgnored
    <3>2. StreamTyped'
      BY <3>1 DEF SInv, StreamTyped, SentIds, Sent
    <3>3. UNCHANGED Abstract!vars
      BY <3>1 DEF Abstract!vars, Sent, Number, WrappingSub
    <3> QED
      BY <2>4, <3>1, <3>2, <3>3 DEF SInv, WaitsForOlder
  <2>6. CASE PushIncomplete(h)
    BY <2>2, <2>3, <2>4, <2>6, IncompleteRefines DEF SInv
  <2>7. CASE PushComplete(h)
    BY <2>2, <2>3, <2>4, <2>7, CompleteRefines DEF SInv, Abstract!Next, Sent
  <2> QED
    BY <2>2, <2>5, <2>6, <2>7
<1> QED
  BY <1>1, <1>2 DEF StreamNext

(* What holds of the stream throughout. *)
LEMMA StreamInv == StreamSpec => []SInv
<1>1. StreamInit => SInv
  <2> SUFFICES ASSUME StreamInit PROVE SInv
    OBVIOUS
  <2>1. Init /\ kinds = <<>> /\ kinds \in Seq(Kinds) /\ Sent = 0
    BY EmptySeq DEF StreamInit, Sent
  <2>2. DOMAIN pending = {} /\ Len(held) = 0 /\ latest = None /\ released = <<>>
    BY <2>1, EmptySeq DEF Init
  <2> QED
    BY <2>1, <2>2, InitInv, StreamAssumption DEF SInv, StreamTyped
<1>2. SInv /\ UNCHANGED streamVars => SInv'
  <2> SUFFICES ASSUME SInv, UNCHANGED streamVars PROVE SInv'
    OBVIOUS
  <2>1. UNCHANGED vars /\ UNCHANGED <<pending, held, latest, released, kinds>>
    BY DEF streamVars, vars
  <2> QED
    BY <2>1, StutterKeepsInv DEF SInv, StreamTyped, SentIds, Sent, Number, WrappingSub
<1>3. SInv /\ [StreamNext]_streamVars => SInv'
  BY <1>2, StreamStep
<1> QED
  BY <1>1, <1>3, PTL DEF StreamSpec

(* The stream implements ordered delivery: however shards are lost, late,  *)
(* doubled or out of order, and wherever the ids wrap, what push releases  *)
(* are the agent's frames in their order, each once, and none complete is  *)
(* left out.                                                               *)
THEOREM StreamDelivers == StreamSpec => DeliversInOrder
<1>1. StreamInit => Abstract!Init
  <2> SUFFICES ASSUME StreamInit PROVE Abstract!Init
    OBVIOUS
  <2>1. held = <<>> /\ DOMAIN held = {} /\ Sent = 0 /\ latest = None /\ delivered = 0
    BY EmptySeq DEF StreamInit, Init, Sent
  <2> QED
    BY <2>1 DEF Abstract!Init
<1>2. SInv /\ [StreamNext]_streamVars => [Abstract!Next]_(Abstract!vars)
  <2>1. UNCHANGED streamVars => UNCHANGED Abstract!vars
    BY DEF streamVars, vars, Abstract!vars, Sent, Number, WrappingSub
  <2> QED
    BY <2>1, StreamStep
<1> QED
  BY <1>1, <1>2, StreamInv, PTL DEF StreamSpec, DeliversInOrder, Abstract!Spec

(* And drain releases nothing that references an older frame which may     *)
(* still come, but for its three reasons.                                  *)
THEOREM ReleasesPatiently == StreamSpec => PatientRelease
<1>1. SInv /\ [StreamNext]_streamVars => [WaitsForOlder]_streamVars
  BY StreamStep
<1> QED
  BY <1>1, StreamInv, PTL DEF StreamSpec, PatientRelease

=============================================================================
