---------------------------- MODULE FeedbackProofs ----------------------------
(***************************************************************************)
(* Every datagram the sender stamps meets one fate: it is in the history,  *)
(* pending, reported received, reported lost, or evicted.  The invariant   *)
(* Inv partitions the numbers stamped among these places, and says what    *)
(* keeps the steps apart: the history is increasing, so that a join takes  *)
(* a prefix of it; nothing asked for or received lies past the highest     *)
(* number seen, so that a gap is always news; and what a batch reported,   *)
(* but for the samples past its last, has left history and pending.        *)
(***************************************************************************)
EXTENDS Feedback, SequenceTheorems, FiniteSetTheorems, WellFoundedInduction, TLAPS

(* The history lists the numbers in their order. *)
Increasing(q) == \A i, j \in 1 .. Len(q) : i < j => q[i] < q[j]

Messages ==
  [type : {"Nack"}, seqs : (SUBSET Sent) \ {{}}] \cup [type : {"Feedback"}, seqs : Seq(Sent) \ {<<>>}]

SenderTyped ==
  /\ nextSeq \in 0 .. MaxSent /\ aged \in 0 .. nextSeq
  /\ history \in Seq(Sent) /\ Len(history) <= HistoryCap /\ Increasing(history)
  /\ ring \in Seq(Sent) /\ Len(ring) <= RingCap

WireTyped == inTransit \subseteq Sent \X {0, 1} /\ uplink \in Seq(Messages)

(* The client has asked for nothing, and received nothing, past the        *)
(* highest number it has seen.                                             *)
ClientTyped ==
  /\ highest \in Sent \cup {NoSeq} /\ used \in 0 .. NackBudget
  /\ nacked \subseteq Sent /\ Cardinality(nacked) <= NackedCap
  /\ batch \in Seq(Sent) /\ Len(batch) < MaxBatch
  /\ arrived \cup asked \subseteq 0 .. highest

(* Every datagram is in one place, and what a batch has told of within its *)
(* reach is neither in the history nor pending any more.                   *)
DriverTyped ==
  /\ ToSet(history) \cup pending \cup acked \cup lost \cup evicted = Sent
  /\ ToSet(history) \cap (pending \cup acked \cup lost \cup evicted) = {}
  /\ pending \cap (acked \cup lost \cup evicted) = {}
  /\ acked \cap (lost \cup evicted) = {}
  /\ lost \cap evicted = {}
  /\ beyond \subseteq told /\ told \subseteq Sent
  /\ (told \ beyond) \cap (ToSet(history) \cup pending) = {}

Inv == SenderTyped /\ WireTyped /\ ClientTyped /\ DriverTyped

-----------------------------------------------------------------------------
(* Sequences and their sets of entries.                                    *)

(* A sequence over a set is one over any larger set.                       *)
LEMMA Grows == ASSUME NEW S, NEW T, S \subseteq T, NEW q \in Seq(S) PROVE q \in Seq(T)
BY SeqMonotonic

(* The entries of a sequence are in its set, and found at its indices.     *)
LEMMA InRange ==
  ASSUME NEW S, NEW q \in Seq(S)
  PROVE  ToSet(q) \subseteq S /\ ToSet(q) = {q[i] : i \in 1 .. Len(q)}
BY DEF ToSet

(* A sequence that is not empty is its head, then its tail.                *)
LEMMA ConsMember ==
  ASSUME NEW S, NEW q \in Seq(S), q # <<>>
  PROVE  /\ Tail(q) \in Seq(S) /\ ToSet(q) = {Head(q)} \cup ToSet(Tail(q))
         /\ Len(Tail(q)) = Len(q) - 1 /\ \A i \in 1 .. Len(Tail(q)) : Tail(q)[i] = q[i + 1]
<1>1. Tail(q) \in Seq(S) /\ Len(Tail(q)) = Len(q) - 1 /\ \A i \in 1 .. Len(Tail(q)) : Tail(q)[i] = q[i + 1]
  OBVIOUS
<1>2. ToSet(q) = {q[i] : i \in 1 .. Len(q)} /\ ToSet(Tail(q)) = {Tail(q)[i] : i \in 1 .. Len(Tail(q))}
  BY <1>1, InRange
<1>3. ASSUME NEW i \in 1 .. Len(q) PROVE q[i] \in {Head(q)} \cup ToSet(Tail(q))
  <2>1. CASE i = 1
    BY <2>1
  <2>2. CASE i # 1
    <3>1. i - 1 \in 1 .. Len(Tail(q)) /\ Tail(q)[i - 1] = q[i]
      BY <1>1, <2>2
    <3> QED
      BY <1>2, <3>1
  <2> QED
    BY <2>1, <2>2
<1>4. ASSUME NEW i \in 1 .. Len(Tail(q)) PROVE Tail(q)[i] \in ToSet(q)
  BY <1>1, <1>2
<1>5. Head(q) \in ToSet(q)
  BY <1>2
<1> QED
  BY <1>1, <1>2, <1>3, <1>4, <1>5

(* Appending adds one entry.                                               *)
LEMMA AppendMember ==
  ASSUME NEW S, NEW q \in Seq(S), NEW e \in S
  PROVE  /\ Append(q, e) \in Seq(S) /\ ToSet(Append(q, e)) = ToSet(q) \cup {e}
         /\ Len(Append(q, e)) = Len(q) + 1
<1>1. /\ Append(q, e) \in Seq(S) /\ Len(Append(q, e)) = Len(q) + 1
      /\ \A i \in 1 .. Len(q) : Append(q, e)[i] = q[i]
      /\ Append(q, e)[Len(q) + 1] = e
  OBVIOUS
<1>2. ToSet(q) = {q[i] : i \in 1 .. Len(q)}
      /\ ToSet(Append(q, e)) = {Append(q, e)[i] : i \in 1 .. Len(q) + 1}
  BY <1>1, InRange
<1> QED
  BY <1>1, <1>2

(* Where the two entries are that concatenation adds.                      *)
LEMMA TwoMore ==
  ASSUME NEW S, NEW q \in Seq(S), NEW a, NEW b
  PROVE  /\ DOMAIN (q \o <<a>> \o <<b>>) = 1 .. Len(q) + 2
         /\ (q \o <<a>> \o <<b>>)[Len(q) + 1] = a /\ (q \o <<a>> \o <<b>>)[Len(q) + 2] = b
<1>1. q \in Seq(S \cup {a, b}) /\ <<a>> \in Seq(S \cup {a, b}) /\ <<b>> \in Seq(S \cup {a, b})
  BY Grows
<1>2. q \o <<a>> \in Seq(S \cup {a, b}) /\ Len(q \o <<a>>) = Len(q) + 1 /\ (q \o <<a>>)[Len(q) + 1] = a
  BY <1>1
<1> DEFINE r == q \o <<a>>
<1> HIDE DEF r
<1>3. /\ DOMAIN (r \o <<b>>) = 1 .. Len(r) + 1 /\ (r \o <<b>>)[Len(r) + 1] = b
      /\ \A i \in 1 .. Len(r) : (r \o <<b>>)[i] = r[i]
  BY <1>1, <1>2 DEF r
<1> QED
  BY <1>2, <1>3 DEF r

(* Pushing on a full queue lets go of its oldest entry. *)
LEMMA Pushed ==
  ASSUME NEW S, NEW T, S \subseteq T, NEW q \in Seq(S), NEW e \in T,
         NEW cap \in Nat \ {0}, Len(q) <= cap
  PROVE  PushCapped(q, e, cap) \in Seq(T) /\ Len(PushCapped(q, e, cap)) <= cap
<1>1. CASE Len(q) = cap
  <2>1. q # <<>>
    BY <1>1
  <2>2. Tail(q) \in Seq(S) /\ Len(Tail(q)) = Len(q) - 1 /\ ToSet(q) = {Head(q)} \cup ToSet(Tail(q))
    BY <2>1, ConsMember
  <2>3. Tail(q) \in Seq(T)
    BY <2>2, Grows
  <2>4. /\ Append(Tail(q), e) \in Seq(T) /\ ToSet(Append(Tail(q), e)) = ToSet(Tail(q)) \cup {e}
        /\ Len(Append(Tail(q), e)) = Len(Tail(q)) + 1
    BY <2>3, AppendMember
  <2> QED
    BY <1>1, <2>2, <2>4 DEF PushCapped
<1>2. CASE Len(q) # cap
  <2>1. q \in Seq(T) /\ Len(q) \in Nat
    BY Grows
  <2>2. /\ Append(q, e) \in Seq(T) /\ ToSet(Append(q, e)) = ToSet(q) \cup {e}
        /\ Len(Append(q, e)) = Len(q) + 1
    BY <2>1, AppendMember
  <2> QED
    BY <1>2, <2>1, <2>2 DEF PushCapped
<1> QED
  BY <1>1, <1>2

(* The tail of an increasing sequence does not hold its head, and a        *)
(* greater entry may follow it.                                            *)
LEMMA IncreasingTail ==
  ASSUME NEW S, S \subseteq Int, NEW q \in Seq(S), q # <<>>, Increasing(q)
  PROVE  Increasing(Tail(q)) /\ Head(q) \notin ToSet(Tail(q))
<1>1. /\ Tail(q) \in Seq(S) /\ Len(Tail(q)) = Len(q) - 1
      /\ \A i \in 1 .. Len(Tail(q)) : Tail(q)[i] = q[i + 1]
  BY ConsMember
<1>2. /\ Len(q) \in Nat /\ 1 \in 1 .. Len(q) /\ Head(q) = q[1]
      /\ \A i \in 1 .. Len(q) : q[i] \in Int
  <2>1. Len(q) \in Nat /\ 1 \in 1 .. Len(q) /\ Head(q) = q[1]
    OBVIOUS
  <2>2. \A i \in 1 .. Len(q) : q[i] \in S
    OBVIOUS
  <2> QED
    BY <2>1, <2>2
<1>3. \A i \in 1 .. Len(Tail(q)) : i + 1 \in 1 .. Len(q) /\ 1 < i + 1 /\ q[1] < q[i + 1]
  BY <1>1, <1>2 DEF Increasing
<1>4. Increasing(Tail(q))
  <2> SUFFICES ASSUME NEW i \in 1 .. Len(Tail(q)), NEW j \in 1 .. Len(Tail(q)), i < j
               PROVE  Tail(q)[i] < Tail(q)[j]
    BY DEF Increasing
  <2>1. i + 1 \in 1 .. Len(q) /\ j + 1 \in 1 .. Len(q) /\ i + 1 < j + 1
    BY <1>1, <1>2
  <2> QED
    BY <1>1, <2>1 DEF Increasing
<1>5. ToSet(Tail(q)) = {Tail(q)[i] : i \in 1 .. Len(Tail(q))}
  BY <1>1, InRange
<1>6. \A i \in 1 .. Len(Tail(q)) : Tail(q)[i] # q[1]
  <2> TAKE i \in 1 .. Len(Tail(q))
  <2>1. q[i + 1] \in Int /\ q[1] \in Int /\ q[1] < q[i + 1]
    BY <1>2, <1>3
  <2> QED
    BY <1>1, <1>2, <2>1
<1> QED
  BY <1>2, <1>4, <1>5, <1>6

(* A number above all entries extends an increasing sequence.              *)
LEMMA IncreasingAppend ==
  ASSUME NEW S, S \subseteq Int, NEW q \in Seq(S), Increasing(q),
         NEW e \in Int, \A s \in S : s < e
  PROVE  Increasing(Append(q, e))
<1>1. /\ Len(q) \in Nat /\ Len(Append(q, e)) = Len(q) + 1 /\ Append(q, e)[Len(q) + 1] = e
      /\ \A i \in 1 .. Len(q) : Append(q, e)[i] = q[i] /\ q[i] \in S
  <2>1. q \in Seq(Int)
    BY Grows
  <2> QED
    BY <2>1
<1> SUFFICES ASSUME NEW i \in 1 .. Len(q) + 1, NEW j \in 1 .. Len(q) + 1, i < j
             PROVE  Append(q, e)[i] < Append(q, e)[j]
  BY <1>1 DEF Increasing
<1>2. i \in 1 .. Len(q)
  BY <1>1
<1>3. CASE j = Len(q) + 1
  BY <1>1, <1>2, <1>3
<1>4. CASE j # Len(q) + 1
  <2>1. j \in 1 .. Len(q)
    BY <1>1, <1>4
  <2> QED
    BY <1>1, <1>2, <2>1 DEF Increasing
<1> QED
  BY <1>3, <1>4

(* Cutting an increasing sequence parts its members. *)
LEMMA Cut ==
  ASSUME NEW S, S \subseteq Int, NEW q \in Seq(S), Increasing(q), NEW n \in 0 .. Len(q)
  PROVE  LET front == {q[i] : i \in 1 .. n}
             rest  == SubSeq(q, n + 1, Len(q))
         IN  /\ rest \in Seq(S) /\ Increasing(rest) /\ Len(rest) <= Len(q)
             /\ ToSet(q) = front \cup ToSet(rest) /\ front \cap ToSet(rest) = {}
             /\ \A s \in ToSet(rest) : n < Len(q) /\ s >= q[n + 1]
<1> DEFINE front == {q[i] : i \in 1 .. n}
           rest  == SubSeq(q, n + 1, Len(q))
<1>1. /\ rest \in Seq(S) /\ Len(rest) = Len(q) - n
      /\ \A i \in 1 .. Len(rest) : rest[i] = q[n + i]
  <2>1. CASE n = Len(q)
    <3>1. rest = <<>>
      BY <2>1, SubSeqEmpty
    <3> QED
      BY <2>1, <3>1, EmptySeq
  <2>2. CASE n < Len(q)
    BY <2>2, SubSeqProperties
  <2> QED
    BY <2>1, <2>2
<1> HIDE DEF rest
<1>2. ToSet(rest) = {rest[i] : i \in 1 .. Len(rest)}
  BY <1>1, InRange
<1>3. ToSet(q) = {q[i] : i \in 1 .. Len(q)}
  BY InRange
<1>4. /\ Len(q) \in Nat /\ Len(rest) \in Nat
      /\ \A i \in 1 .. Len(q) : q[i] \in S /\ q[i] \in Int
  <2>1. Len(q) \in Nat /\ Len(rest) \in Nat
    BY <1>1
  <2>2. \A i \in 1 .. Len(q) : q[i] \in S
    BY <2>1
  <2> QED
    BY <2>1, <2>2
<1>5. Increasing(rest)
  <2> SUFFICES ASSUME NEW i \in 1 .. Len(rest), NEW j \in 1 .. Len(rest), i < j
               PROVE  rest[i] < rest[j]
    BY DEF Increasing
  <2>1. n + i \in 1 .. Len(q) /\ n + j \in 1 .. Len(q) /\ n + i < n + j
    BY <1>1, <1>4
  <2>2. q[n + i] < q[n + j]
    BY <2>1 DEF Increasing
  <2> QED
    BY <1>1, <2>2
<1>6. ASSUME NEW i \in 1 .. Len(q) PROVE q[i] \in front \cup ToSet(rest)
  <2>1. CASE i <= n
    BY <2>1
  <2>2. CASE i > n
    <3>1. i - n \in 1 .. Len(rest) /\ rest[i - n] = q[i]
      BY <1>1, <1>4, <2>2
    <3> QED
      BY <1>2, <3>1
  <2> QED
    BY <2>1, <2>2, <1>4
<1>7. ASSUME NEW i \in 1 .. Len(rest)
      PROVE  /\ rest[i] \in ToSet(q) /\ n < Len(q) /\ rest[i] >= q[n + 1]
             /\ \A k \in 1 .. n : q[k] # rest[i]
  <2>1. n + i \in 1 .. Len(q) /\ rest[i] = q[n + i] /\ n + 1 \in 1 .. Len(q) /\ n + 1 <= n + i
    BY <1>1, <1>4
  <2>2. \A k \in 1 .. n : k \in 1 .. Len(q) /\ k < n + i
    BY <1>4, <2>1
  <2>3. \A k \in 1 .. n : q[k] < q[n + i]
    BY <2>1, <2>2 DEF Increasing
  <2>4. n + 1 < n + i => q[n + 1] < q[n + i]
    BY <2>1 DEF Increasing
  <2>5. q[n + 1] \in Int /\ q[n + i] \in Int /\ \A k \in 1 .. n : q[k] \in Int
    BY <1>4, <2>1, <2>2
  <2>6. n < Len(q)
    BY <2>1, <1>4
  <2>7. rest[i] >= q[n + 1]
    <3>1. CASE n + 1 = n + i
      BY <2>1, <2>5, <3>1
    <3>2. CASE n + 1 < n + i
      BY <2>1, <2>4, <2>5, <3>2
    <3> QED
      BY <3>1, <3>2, <2>1
  <2>8. \A k \in 1 .. n : q[k] # rest[i]
    BY <2>1, <2>3, <2>5
  <2> QED
    BY <1>3, <2>1, <2>6, <2>7, <2>8
<1>8. front \subseteq ToSet(q)
  BY <1>3, <1>4
<1>9. ToSet(q) = front \cup ToSet(rest)
  BY <1>2, <1>3, <1>6, <1>7, <1>8
<1>10. front \cap ToSet(rest) = {}
  BY <1>2, <1>7
<1>11. \A s \in ToSet(rest) : n < Len(q) /\ s >= q[n + 1]
  BY <1>2, <1>7
<1>12. Len(rest) <= Len(q)
  BY <1>1, <1>4
<1> QED
  BY <1>1, <1>5, <1>9, <1>10, <1>11, <1>12 DEF rest

-----------------------------------------------------------------------------
(* Finite sets of numbers.                                                 *)

(* Of a family of finite sets one is minimal.                              *)
LEMMA Minimal ==
  ASSUME NEW U, IsFiniteSet(U), NEW S, S # {}, NEW seg \in [S -> SUBSET U]
  PROVE  \E x \in S : \A y \in S : seg[y] \subseteq seg[x] => seg[y] = seg[x]
<1> DEFINE T == {seg[x] : x \in S}
           Order == StrictSubsetOrdering(U)
<1>1. FiniteSubsetsOf(U) = SUBSET U
  BY FS_FiniteSubsetsOfFinite
<1>2. IsWellFoundedOn(Order, SUBSET U)
  BY <1>1, FS_StrictSubsetOrderingWellFounded
<1>3. T \subseteq SUBSET U /\ T # {}
  OBVIOUS
<1> HIDE DEF Order
<1>4. PICK A \in T : \A B \in T : <<B, A>> \notin Order
  BY <1>2, <1>3, WFMin
<1>5. PICK x \in S : A = seg[x]
  OBVIOUS
<1>6. ASSUME NEW y \in S, seg[y] \subseteq seg[x], seg[y] # seg[x] PROVE FALSE
  <2>1. seg[y] \in T /\ seg[y] \in SUBSET U /\ seg[x] \in SUBSET U
    OBVIOUS
  <2>2. <<seg[y], A>> \in Order
    BY <1>5, <1>6, <2>1 DEF Order, StrictSubsetOrdering
  <2> QED
    BY <1>4, <2>1, <2>2
<1> QED
  BY <1>6

(* A non-empty set of numbers up to n has a least and a greatest member:   *)
(* of the segments that start, or end, at its members, one is minimal.     *)
LEMMA LeastMember ==
  ASSUME NEW n \in Nat, NEW S, S # {}
  PROVE  S \subseteq 0 .. n => \E x \in S : \A y \in S : x <= y
<1>1. IsFiniteSet(0 .. n)
  BY FS_Interval
<1>2. ASSUME S \subseteq 0 .. n PROVE \E x \in S : \A y \in S : x <= y
  <2>1. \A x \in S : 0 .. x \subseteq 0 .. n
    BY <1>2
  <2>2. PICK seg \in [S -> SUBSET (0 .. n)] : \A x \in S : seg[x] = 0 .. x
    <3>1. [x \in S |-> 0 .. x] \in [S -> SUBSET (0 .. n)]
      BY <2>1
    <3> QED
      BY <3>1
  <2>3. PICK x \in S : \A y \in S : seg[y] \subseteq seg[x] => seg[y] = seg[x]
    BY <1>1, Minimal
  <2>4. ASSUME NEW y \in S, y < x PROVE FALSE
    <3>1. 0 .. y \subseteq 0 .. x /\ x \in 0 .. x /\ x \notin 0 .. y
      BY <1>2, <2>4
    <3> QED
      BY <2>2, <2>3, <3>1
  <2>5. \A y \in S : x \in Int /\ y \in Int
    BY <1>2
  <2> QED
    BY <2>4, <2>5
<1> QED
  BY <1>2

(* The same for the greatest.                                              *)
LEMMA GreatestMember ==
  ASSUME NEW n \in Nat, NEW S, S # {}
  PROVE  S \subseteq 0 .. n => \E x \in S : \A y \in S : x >= y
<1>1. IsFiniteSet(0 .. n)
  BY FS_Interval
<1>2. ASSUME S \subseteq 0 .. n PROVE \E x \in S : \A y \in S : x >= y
  <2>1. \A x \in S : x .. n \subseteq 0 .. n
    BY <1>2
  <2>2. PICK seg \in [S -> SUBSET (0 .. n)] : \A x \in S : seg[x] = x .. n
    <3>1. [x \in S |-> x .. n] \in [S -> SUBSET (0 .. n)]
      BY <2>1
    <3> QED
      BY <3>1
  <2>3. PICK x \in S : \A y \in S : seg[y] \subseteq seg[x] => seg[y] = seg[x]
    BY <1>1, Minimal
  <2>4. ASSUME NEW y \in S, y > x PROVE FALSE
    <3>1. y .. n \subseteq x .. n /\ x \in x .. n /\ x \notin y .. n
      BY <1>2, <2>4
    <3> QED
      BY <2>2, <2>3, <3>1
  <2>5. \A y \in S : x \in Int /\ y \in Int
    BY <1>2
  <2> QED
    BY <2>4, <2>5
<1> QED
  BY <1>2

(* The first n, and the newest n, of a set are n at most: all but the last *)
(* of them precede the last.                                               *)
LEMMA FirstFew ==
  ASSUME NEW m \in Nat, NEW S, S \subseteq 0 .. m, NEW n \in Nat
  PROVE  First(n, S) \subseteq S /\ Cardinality(First(n, S)) \in 0 .. n
<1> DEFINE F == First(n, S)
<1>1. F \subseteq S /\ IsFiniteSet(F) /\ IsFiniteSet(S)
  <2>1. IsFiniteSet(0 .. m)
    BY FS_Interval
  <2>2. F \subseteq S
    BY DEF First
  <2> QED
    BY <2>1, <2>2, FS_Subset
<1>2. CASE F = {}
  BY <1>1, <1>2, FS_EmptySet
<1>3. CASE F # {}
  <2>1. PICK x \in F : \A y \in F : x >= y
    BY <1>1, <1>3, GreatestMember
  <2> DEFINE B == {t \in S : t < x}
  <2>2. Cardinality(B) < n
    BY <2>1 DEF First
  <2>0. x \in Int /\ \A y \in F : y \in Int
    <3>1. \A y \in S : y \in Int
      OBVIOUS
    <3> HIDE DEF F
    <3> QED
      BY <1>1, <2>1, <3>1
  <2>3. IsFiniteSet(B) /\ x \notin B /\ F \subseteq B \cup {x}
    <3>1. B \subseteq S /\ x \notin B
      BY <2>0
    <3>2. ASSUME NEW y \in F PROVE y \in B \cup {x}
      BY <1>1, <2>1, <2>0
    <3>3. IsFiniteSet(B)
      BY <1>1, <3>1, FS_Subset
    <3> QED
      BY <3>1, <3>2, <3>3
  <2>4. IsFiniteSet(B \cup {x}) /\ Cardinality(B \cup {x}) = Cardinality(B) + 1
    BY <2>3, FS_AddElement
  <2>5. Cardinality(F) <= Cardinality(B \cup {x})
    BY <2>3, <2>4, FS_Subset
  <2>6. Cardinality(F) \in Nat /\ Cardinality(B) \in Nat
    BY <1>1, <2>3, FS_CardinalityType
  <2> HIDE DEF B, F
  <2>7. Cardinality(F) \in 0 .. n
    BY <2>2, <2>4, <2>5, <2>6
  <2> QED
    BY <1>1, <2>7 DEF F
<1> QED
  BY <1>2, <1>3

(* The same counted from the other end.                                    *)
LEMMA NewestFew ==
  ASSUME NEW m \in Nat, NEW S, S \subseteq 0 .. m, NEW n \in Nat
  PROVE  Newest(n, S) \subseteq S /\ Cardinality(Newest(n, S)) \in 0 .. n
<1> DEFINE F == Newest(n, S)
<1>1. F \subseteq S /\ IsFiniteSet(F) /\ IsFiniteSet(S)
  <2>1. IsFiniteSet(0 .. m)
    BY FS_Interval
  <2>2. F \subseteq S
    BY DEF Newest
  <2> QED
    BY <2>1, <2>2, FS_Subset
<1>2. CASE F = {}
  BY <1>1, <1>2, FS_EmptySet
<1>3. CASE F # {}
  <2>1. PICK x \in F : \A y \in F : x <= y
    BY <1>1, <1>3, LeastMember
  <2> DEFINE B == {t \in S : t > x}
  <2>2. Cardinality(B) < n
    BY <2>1 DEF Newest
  <2>0. x \in Int /\ \A y \in F : y \in Int
    <3>1. \A y \in S : y \in Int
      OBVIOUS
    <3> HIDE DEF F
    <3> QED
      BY <1>1, <2>1, <3>1
  <2>3. IsFiniteSet(B) /\ x \notin B /\ F \subseteq B \cup {x}
    <3>1. B \subseteq S /\ x \notin B
      BY <2>0
    <3>2. ASSUME NEW y \in F PROVE y \in B \cup {x}
      BY <1>1, <2>1, <2>0
    <3>3. IsFiniteSet(B)
      BY <1>1, <3>1, FS_Subset
    <3> QED
      BY <3>1, <3>2, <3>3
  <2>4. IsFiniteSet(B \cup {x}) /\ Cardinality(B \cup {x}) = Cardinality(B) + 1
    BY <2>3, FS_AddElement
  <2>5. Cardinality(F) <= Cardinality(B \cup {x})
    BY <2>3, <2>4, FS_Subset
  <2>6. Cardinality(F) \in Nat /\ Cardinality(B) \in Nat
    BY <1>1, <2>3, FS_CardinalityType
  <2> HIDE DEF B, F
  <2>7. Cardinality(F) \in 0 .. n
    BY <2>2, <2>4, <2>5, <2>6
  <2> QED
    BY <1>1, <2>7 DEF F
<1> QED
  BY <1>2, <1>3

(* There is a longest prefix not past max.                                 *)
LEMMA TakeCountProperties ==
  ASSUME NEW max \in Int, history \in Seq(Sent), nextSeq \in Nat
  PROVE  /\ TakeCount(max) \in 0 .. Len(history)
         /\ \A i \in 1 .. TakeCount(max) : history[i] <= max
         /\ TakeCount(max) < Len(history) => history[TakeCount(max) + 1] > max
<1> DEFINE Fits(n) == /\ \A i \in 1 .. n : history[i] <= max
                      /\ n < Len(history) => history[n + 1] > max
           Past == {i \in 1 .. Len(history) : history[i] > max}
<1>1. \E n \in 0 .. Len(history) : Fits(n)
  <2>1. \A i \in 1 .. Len(history) : history[i] \in Int
    BY DEF Sent
  <2>2. CASE Past = {}
    BY <2>1, <2>2
  <2>3. CASE Past # {}
    <3> DEFINE n == Len(history)
    <3>0. n \in Nat /\ Past \subseteq 0 .. n
      OBVIOUS
    <3> HIDE DEF n, Past
    <3>b. \E x \in Past : \A y \in Past : x <= y
      BY <3>0, <2>3, LeastMember
    <3> USE DEF n, Past
    <3>1. PICK x \in Past : \A y \in Past : x <= y
      BY <3>b
    <3>2. x - 1 \in 0 .. Len(history) /\ \A i \in 1 .. x - 1 : i \in 1 .. Len(history) /\ i \notin Past
      BY <3>1
    <3>3. Fits(x - 1)
      BY <2>1, <3>2
    <3> QED
      BY <3>2, <3>3
  <2> QED
    BY <2>2, <2>3
<1>2. TakeCount(max) = CHOOSE n \in 0 .. Len(history) : Fits(n)
  BY DEF TakeCount
<1> HIDE DEF Fits
<1>3. TakeCount(max) \in 0 .. Len(history) /\ Fits(TakeCount(max))
  BY <1>1, <1>2
<1> QED
  BY <1>3 DEF Fits
-----------------------------------------------------------------------------
(* The invariant is inductive.                                             *)

(* Nothing was stamped yet.                                                *)
LEMMA InvInit == FeedbackInit => Inv
<1> SUFFICES ASSUME FeedbackInit PROVE Inv
  OBVIOUS
<1> USE FeedbackAssumption DEF FeedbackInit
<1>1. ToSet(<<>>) = {} /\ Cardinality({}) = 0
  BY FS_EmptySet DEF ToSet
<1>2. SenderTyped
  BY DEF SenderTyped, Increasing, Sent
<1>3. WireTyped
  BY DEF WireTyped
<1>4. ClientTyped
  BY <1>1 DEF ClientTyped, NoSeq
<1>5. DriverTyped
  BY <1>1 DEF DriverTyped, Sent
<1> QED
  BY <1>2, <1>3, <1>4, <1>5 DEF Inv

(* A new number joins the history, at the cost of its oldest when full.    *)
LEMMA InvSend ==
  ASSUME Inv, NEW padding \in BOOLEAN, Send(padding)
  PROVE  Inv'
<1> USE FeedbackAssumption DEF Inv
<1>1. /\ nextSeq \in Nat /\ nextSeq + 1 \in 0 .. MaxSent
      /\ Sent' = Sent \cup {nextSeq} /\ Sent \subseteq Int /\ nextSeq \notin Sent
      /\ \A s \in Sent : s < nextSeq
  BY DEF Sent, SenderTyped, Send
<1> HIDE DEF Inv
<1> DEFINE kept == IF Len(history) = HistoryCap THEN Tail(history) ELSE history
           gone == IF Len(history) = HistoryCap THEN {Head(history)} ELSE {}
<1>2. /\ history' = Append(kept, nextSeq) /\ kept \in Seq(Sent)
      /\ history' \in Seq(Sent') /\ Len(history') <= HistoryCap
      /\ ToSet(history') = ToSet(kept) \cup {nextSeq}
      /\ ToSet(history) = ToSet(kept) \cup gone
  <2>1. /\ history \in Seq(Sent) /\ Len(history) <= HistoryCap /\ HistoryCap \in Nat \ {0}
        /\ Sent \subseteq Sent' /\ nextSeq \in Sent'
    BY <1>1 DEF Inv, SenderTyped
  <2>2. history' = PushCapped(history, nextSeq, HistoryCap)
    BY DEF Send
  <2> DEFINE p == PushCapped(history, nextSeq, HistoryCap)
  <2>3. /\ p \in Seq(Sent') /\ Len(p) <= HistoryCap
        /\ Len(history) = HistoryCap =>
              /\ p = Append(Tail(history), nextSeq) /\ Tail(history) \in Seq(Sent)
              /\ ToSet(p) = ToSet(Tail(history)) \cup {nextSeq}
              /\ ToSet(history) = {Head(history)} \cup ToSet(Tail(history))
        /\ Len(history) # HistoryCap =>
              /\ p = Append(history, nextSeq)
              /\ ToSet(p) = ToSet(history) \cup {nextSeq}
    <3> USE <2>1
    <3>1. p \in Seq(Sent') /\ Len(p) <= HistoryCap
      BY Pushed
    <3>2. ASSUME Len(history) = HistoryCap
          PROVE  /\ p = Append(Tail(history), nextSeq) /\ Tail(history) \in Seq(Sent)
                 /\ ToSet(p) = ToSet(Tail(history)) \cup {nextSeq}
                 /\ ToSet(history) = {Head(history)} \cup ToSet(Tail(history))
      <4>1. history # <<>>
        BY <3>2
      <4>2. /\ Tail(history) \in Seq(Sent)
            /\ ToSet(history) = {Head(history)} \cup ToSet(Tail(history))
        BY <4>1, ConsMember
      <4>3. Tail(history) \in Seq(Sent')
        BY <4>2, Grows
      <4>4. ToSet(Append(Tail(history), nextSeq)) = ToSet(Tail(history)) \cup {nextSeq}
        BY <4>3, AppendMember
      <4> QED
        BY <3>2, <4>2, <4>4 DEF PushCapped
    <3>3. ASSUME Len(history) # HistoryCap
          PROVE  /\ p = Append(history, nextSeq)
                 /\ ToSet(p) = ToSet(history) \cup {nextSeq}
      <4>1. history \in Seq(Sent')
        BY Grows
      <4>2. ToSet(Append(history, nextSeq)) = ToSet(history) \cup {nextSeq}
        BY <4>1, AppendMember
      <4> QED
        BY <3>3, <4>2 DEF PushCapped
    <3> HIDE DEF p
    <3> QED
      BY <3>1, <3>2, <3>3
  <2> HIDE DEF p
  <2>4. CASE Len(history) = HistoryCap
    BY <2>1, <2>2, <2>3, <2>4 DEF p
  <2>5. CASE Len(history) # HistoryCap
    BY <2>1, <2>2, <2>3, <2>5 DEF p
  <2> QED
    BY <2>4, <2>5
<1>3. Increasing(kept) /\ gone \cap ToSet(kept) = {}
  <2>1. history \in Seq(Sent) /\ Sent \subseteq Int /\ Increasing(history) /\ HistoryCap \in Nat \ {0}
    BY <1>1 DEF Inv, SenderTyped
  <2>2. CASE Len(history) = HistoryCap
    <3>1. history # <<>>
      BY <2>1, <2>2
    <3>2. Increasing(Tail(history)) /\ Head(history) \notin ToSet(Tail(history))
      BY <2>1, <3>1, IncreasingTail
    <3> QED
      BY <2>2, <3>2
  <2>3. CASE Len(history) # HistoryCap
    BY <2>1, <2>3
  <2> QED
    BY <2>2, <2>3
<1>4. ToSet(kept) \subseteq Sent
  BY <1>2, InRange
<1> HIDE DEF kept
<1>5. Increasing(history')
  <2>1. nextSeq \in Int
    BY <1>1
  <2>2. Increasing(Append(kept, nextSeq))
    BY <1>1, <1>2, <1>3, <2>1, IncreasingAppend
  <2> QED
    BY <1>2, <2>2
<1>6. ring' \in Seq(Sent') /\ Len(ring') <= RingCap
  <2>1. CASE padding
    BY <1>1, <2>1, Grows DEF Send, Inv, SenderTyped
  <2>2. CASE ~ padding
    <3>1. /\ ring \in Seq(Sent) /\ Len(ring) <= RingCap /\ RingCap \in Nat \ {0}
          /\ Sent \subseteq Sent' /\ nextSeq \in Sent'
      BY <1>1 DEF Inv, SenderTyped
    <3>2. ring' = PushCapped(ring, nextSeq, RingCap)
      BY <2>2 DEF Send
    <3> QED
      BY <3>1, <3>2, Pushed
  <2> QED
    BY <2>1, <2>2
<1>7. SenderTyped'
  <2>1. nextSeq' \in 0 .. MaxSent /\ aged' \in 0 .. nextSeq'
    BY <1>1 DEF Inv, SenderTyped, Send
  <2> QED
    BY <1>2, <1>5, <1>6, <2>1 DEF SenderTyped
<1>8. WireTyped'
  <2>1. Messages \subseteq Messages'
    BY <1>1, Grows DEF Messages
  <2>2. uplink' \in Seq(Messages')
    BY <2>1, Grows DEF Send, Inv, WireTyped
  <2>3. inTransit' \subseteq Sent' \X {0, 1}
    BY <1>1 DEF Send, Inv, WireTyped
  <2> QED
    BY <2>2, <2>3 DEF WireTyped
<1>9. ClientTyped'
  <2>1. batch' \in Seq(Sent')
    BY <1>1, Grows DEF Send, clientVars, Inv, ClientTyped
  <2> QED
    BY <1>1, <2>1 DEF Send, clientVars, Inv, ClientTyped
<1>10. DriverTyped'
  <2>1. evicted' = evicted \cup gone /\ UNCHANGED driverVars
    BY DEF Send
  <2> QED
    BY <1>1, <1>2, <1>3, <1>4, <2>1 DEF Inv, DriverTyped, driverVars
<1> QED
  BY <1>7, <1>8, <1>9, <1>10 DEF Inv

(* A retransmission is of a number stamped before.                         *)
LEMMA InvRetransmit == Inv /\ Retransmit => Inv'
<1> SUFFICES ASSUME Inv, Retransmit PROVE Inv'
  OBVIOUS
<1>1. UNCHANGED <<senderVars, clientVars, driverVars, aged, evicted>> /\ Sent' = Sent
  BY DEF Retransmit, senderVars, Sent
<1>2. WireTyped'
  <2>1. Messages' = Messages
    BY <1>1 DEF Messages
  <2>2. uplink' \in Seq(Messages)
    BY DEF Retransmit, Inv, WireTyped
  <2>3. ToSet(ring) \subseteq Sent
    BY InRange DEF Inv, SenderTyped
  <2>4. inTransit' \subseteq Sent \X {0, 1}
    BY <2>3 DEF Retransmit, Inv, WireTyped
  <2> QED
    BY <1>1, <2>1, <2>2, <2>4 DEF WireTyped
<1>3. SenderTyped' /\ ClientTyped' /\ DriverTyped'
  BY <1>1 DEF Inv, SenderTyped, ClientTyped, DriverTyped, senderVars, clientVars, driverVars
<1> QED
  BY <1>2, <1>3 DEF Inv

(* The passing of time moves no datagram.                                  *)
LEMMA InvTimePasses == Inv /\ TimePasses => Inv'
<1> SUFFICES ASSUME Inv, TimePasses PROVE Inv'
  OBVIOUS
<1>1. UNCHANGED <<senderVars, clientVars, driverVars, inTransit, uplink, evicted>> /\ Sent' = Sent
  BY DEF TimePasses, senderVars, Sent
<1>2. SenderTyped'
  BY <1>1 DEF TimePasses, Inv, SenderTyped, senderVars
<1>3. WireTyped' /\ ClientTyped' /\ DriverTyped'
  BY <1>1 DEF Inv, WireTyped, Messages, ClientTyped, DriverTyped, senderVars, clientVars, driverVars
<1> QED
  BY <1>2, <1>3 DEF Inv

(* A gap lies above everything asked for or received, and below the        *)
(* datagram that reveals it.                                               *)
LEMMA Requested ==
  ASSUME Inv, NEW seq \in Sent, NEW spent \in 0 .. NackBudget
  PROVE  /\ Missing(seq, spent) \subseteq Jumped(seq) /\ Jumped(seq) \subseteq Sent \ {seq}
         /\ Jumped(seq) \cap (arrived \cup asked) = {}
         /\ Jumped(seq) # {} => Jumped(seq) \subseteq 0 .. seq - 1 /\ highest < seq
         /\ Cardinality(Missing(seq, spent)) \in 0 .. NackBudget - spent
<1> USE FeedbackAssumption
<1>1. nextSeq \in Nat \ {0} /\ seq \in 0 .. nextSeq - 1 /\ highest \in 0 .. nextSeq - 1 \cup {-1}
  BY DEF Inv, SenderTyped, ClientTyped, Sent, NoSeq
<1>2. /\ Jumped(seq) \subseteq Sent \ {seq} /\ \A s \in Jumped(seq) : s > highest
      /\ Jumped(seq) # {} => Jumped(seq) \subseteq 0 .. seq - 1 /\ highest < seq
  BY <1>1 DEF Jumped, Sent, NoSeq
<1>3. arrived \cup asked \subseteq 0 .. highest
  BY DEF Inv, ClientTyped
<1>4. Jumped(seq) \cap (arrived \cup asked) = {}
  BY <1>1, <1>2, <1>3
<1> DEFINE m == nextSeq - 1
           n == IF spent > NackBudget THEN 0 ELSE NackBudget - spent
<1>5. m \in Nat /\ n \in Nat /\ n = NackBudget - spent /\ Jumped(seq) \ nacked \subseteq 0 .. m
  BY <1>1, <1>2 DEF Sent
<1> HIDE DEF m, n
<1>6. First(n, Jumped(seq) \ nacked) \subseteq Jumped(seq) \ nacked
      /\ Cardinality(First(n, Jumped(seq) \ nacked)) \in 0 .. n
  BY <1>5, FirstFew
<1> QED
  BY <1>2, <1>4, <1>5, <1>6 DEF Missing, n

(* An arrival is noted, and what it jumped over is asked for.              *)
LEMMA InvArrive ==
  ASSUME Inv, NEW copy \in inTransit, NEW newWindow \in BOOLEAN, NEW due \in BOOLEAN,
         Arrive(copy, newWindow, due)
  PROVE  Inv'
<1> USE FeedbackAssumption
<1> DEFINE seq     == copy[1]
           spent   == IF newWindow /\ Jumped(seq) # {} THEN 0 ELSE used
           missing == Missing(seq, spent)
           samples == Append(batch, seq)
           flushes == due \/ Len(samples) >= MaxBatch
           nack    == IF missing = {} THEN <<>> ELSE <<[type |-> "Nack", seqs |-> missing]>>
           report  == IF flushes THEN <<[type |-> "Feedback", seqs |-> samples]>> ELSE <<>>
<1>1. seq \in Sent /\ spent \in 0 .. NackBudget
  BY DEF Inv, WireTyped, ClientTyped
<1>2. /\ UNCHANGED <<senderVars, driverVars, aged, evicted>> /\ Sent' = Sent
      /\ inTransit' \subseteq inTransit
      /\ arrived' = arrived \cup {seq} /\ used' = spent + Cardinality(missing)
      /\ asked' = asked \cup missing /\ nacked' = Newest(NackedCap, nacked \cup missing)
      /\ highest' = (IF seq > highest THEN seq ELSE highest)
      /\ batch' = (IF flushes THEN <<>> ELSE samples)
      /\ uplink' = uplink \o nack \o report
  BY DEF Arrive, RecordArrival, senderVars, Sent
<1>3. /\ missing \subseteq Jumped(seq) /\ Jumped(seq) \subseteq Sent \ {seq}
      /\ Jumped(seq) # {} => Jumped(seq) \subseteq 0 .. seq - 1 /\ highest < seq
      /\ Cardinality(missing) \in 0 .. NackBudget - spent
  BY <1>1, Requested
<1>4. samples \in Seq(Sent) /\ samples # <<>> /\ Len(samples) \in Nat
  <2>1. batch \in Seq(Sent)
    BY DEF Inv, ClientTyped
  <2>2. samples \in Seq(Sent) /\ Len(samples) = Len(batch) + 1
    BY <1>1, <2>1, AppendMember
  <2>3. Len(batch) \in Nat
    BY <2>1
  <2> HIDE DEF samples
  <2> QED
    BY <2>2, <2>3
<1> HIDE DEF seq, spent, missing, samples
<1>5. ClientTyped'
  <2>1. nextSeq \in Nat \ {0} /\ seq \in 0 .. nextSeq - 1 /\ highest \in 0 .. nextSeq - 1 \cup {-1}
    BY <1>1 DEF Inv, SenderTyped, ClientTyped, Sent, NoSeq
  <2>2. highest' \in Sent /\ used' \in 0 .. NackBudget
    BY <1>1, <1>2, <1>3, <2>1 DEF Sent
  <2>3. nacked' \subseteq Sent /\ Cardinality(nacked') <= NackedCap
    <3> DEFINE m == nextSeq - 1
               S == nacked \cup missing
    <3>1. m \in Nat /\ S \subseteq 0 .. m /\ NackedCap \in Nat
      <4>1. m \in Nat /\ Sent = 0 .. m /\ NackedCap \in Nat
        BY <2>1 DEF Sent
      <4>2. nacked \subseteq Sent /\ missing \subseteq Sent
        BY <1>3 DEF Inv, ClientTyped
      <4> QED
        BY <4>1, <4>2
    <3>0. Sent = 0 .. m
      BY DEF Sent
    <3> HIDE DEF m, S
    <3>2. Newest(NackedCap, S) \subseteq S /\ Cardinality(Newest(NackedCap, S)) \in 0 .. NackedCap
      BY <3>1, NewestFew
    <3>3. nacked' = Newest(NackedCap, S) /\ Sent' = Sent
      BY <1>2 DEF S
    <3>4. nacked' \subseteq Sent
      BY <3>1, <3>2, <3>3, <3>0
    <3>5. Cardinality(nacked') <= NackedCap
      BY <3>1, <3>2, <3>3
    <3> QED
      BY <3>3, <3>4, <3>5
  <2>4. batch' \in Seq(Sent) /\ Len(batch') < MaxBatch
    BY <1>2, <1>4
  <2>5. arrived' \cup asked' \subseteq 0 .. highest'
    <3>1. arrived \cup asked \subseteq 0 .. highest
      BY DEF Inv, ClientTyped
    <3>2. missing \subseteq 0 .. highest'
      BY <1>2, <1>3, <2>1
    <3>3. highest' \in Int /\ highest <= highest' /\ seq \in 0 .. highest'
      BY <1>2, <2>1
    <3>4. 0 .. highest \subseteq 0 .. highest'
      BY <2>1, <3>3
    <3>5. arrived' = arrived \cup {seq} /\ asked' = asked \cup missing
      BY <1>2
    <3> QED
      BY <3>1, <3>2, <3>3, <3>4, <3>5
  <2> QED
    BY <1>2, <2>2, <2>3, <2>4, <2>5 DEF ClientTyped
<1>6. WireTyped'
  <2>1. nack \in Seq(Messages) /\ report \in Seq(Messages)
    <3>1. ASSUME missing # {} PROVE [type |-> "Nack", seqs |-> missing] \in Messages
      <4>1. missing \in (SUBSET Sent) \ {{}}
        BY <1>3, <3>1
      <4> QED
        BY <4>1 DEF Messages
    <3>2. [type |-> "Feedback", seqs |-> samples] \in Messages
      BY <1>4 DEF Messages
    <3> QED
      BY <3>1, <3>2
  <2> HIDE DEF nack, report
  <2>2. uplink' \in Seq(Messages) /\ Messages' = Messages
    BY <1>2, <2>1 DEF Inv, WireTyped, Messages
  <2>3. inTransit' \subseteq Sent' \X {0, 1}
    BY <1>2 DEF Inv, WireTyped
  <2> QED
    BY <2>2, <2>3 DEF WireTyped
<1>7. SenderTyped' /\ DriverTyped'
  BY <1>2 DEF Inv, SenderTyped, DriverTyped, senderVars, driverVars
<1> QED
  BY <1>5, <1>6, <1>7 DEF Inv

(* A join moves records from history and pending to their verdicts.        *)
LEMMA InvJoin == Inv /\ Join => Inv'
<1> SUFFICES ASSUME Inv, Join PROVE Inv'
  OBVIOUS
<1> DEFINE samples == Head(uplink).seqs
           max     == Last(samples)
           taken   == TakeCount(max)
           front   == {history[i] : i \in 1 .. taken}
           records == pending \cup front
           rest    == SubSeq(history, taken + 1, Len(history))
<1>1. samples \in Seq(Sent) /\ samples # <<>> /\ uplink' \in Seq(Messages)
  <2>1. Head(uplink) \in Messages /\ Head(uplink).type = "Feedback" /\ uplink' \in Seq(Messages)
    BY DEF Inv, WireTyped, Join
  <2> QED
    BY <2>1 DEF Messages
<1> HIDE DEF samples
<1>2. max \in Sent /\ ToSet(samples) \subseteq Sent
  BY <1>1, InRange DEF Last
<1> HIDE DEF max
<1>3. nextSeq \in Nat /\ history \in Seq(Sent) /\ max \in Int /\ Sent \subseteq Int /\ Increasing(history)
  BY <1>2 DEF Inv, SenderTyped, Sent
<1>4. /\ taken \in 0 .. Len(history)
      /\ taken < Len(history) => history[taken + 1] > max
  BY <1>3, TakeCountProperties
<1> HIDE DEF taken
<1>5. /\ rest \in Seq(Sent) /\ Increasing(rest) /\ Len(rest) <= Len(history)
      /\ ToSet(history) = front \cup ToSet(rest) /\ front \cap ToSet(rest) = {}
      /\ \A s \in ToSet(rest) : taken < Len(history) /\ s >= history[taken + 1]
  BY <1>3, <1>4, Cut
<1>6. \A s \in ToSet(rest) : s > max
  <2> TAKE s \in ToSet(rest)
  <2>1. taken < Len(history) /\ s >= history[taken + 1] /\ history[taken + 1] > max
    BY <1>4, <1>5
  <2>0. Len(history) \in Nat
    BY <1>3
  <2>2. taken + 1 \in 1 .. Len(history) /\ s \in Sent
    <3>1. taken + 1 \in 1 .. Len(history)
      BY <1>4, <2>1, <2>0
    <3>2. ToSet(rest) \subseteq Sent
      BY <1>5, InRange
    <3> QED
      BY <3>1, <3>2
  <2>3. history[taken + 1] \in Sent
    BY <1>3, <2>2
  <2>4. s \in Int /\ history[taken + 1] \in Int
    BY <1>3, <2>2, <2>3
  <2> QED
    BY <1>3, <2>1, <2>4
<1>7. /\ history' = rest
      /\ acked' = acked \cup (records \cap ToSet(samples))
      /\ lost' = lost \cup {seq \in records \ ToSet(samples) : seq < aged}
      /\ pending' = {seq \in records : seq \notin ToSet(samples) /\ seq >= aged}
      /\ told' = told \cup ToSet(samples)
      /\ beyond' = beyond \cup {seq \in ToSet(samples) : seq > max}
      /\ UNCHANGED <<nextSeq, ring, clientVars, inTransit, aged, evicted>> /\ Sent' = Sent
  BY DEF Join, StillPending, samples, max, taken, Sent
<1>8. aged \in Int /\ front \subseteq ToSet(history) /\ ToSet(history) \subseteq Sent /\ pending \subseteq Sent
  BY <1>5 DEF Inv, SenderTyped, DriverTyped
<1> HIDE DEF front, rest
<1>9. DriverTyped'
  <2>1. ToSet(history') \cup pending' \cup acked' \cup lost' \cup evicted' = Sent'
    <3>1. records \subseteq acked' \cup lost' \cup pending'
      <4> SUFFICES ASSUME NEW s \in records PROVE s \in acked' \cup lost' \cup pending'
        OBVIOUS
      <4>1. s \in Int /\ (s < aged \/ s >= aged)
        BY <1>3, <1>8
      <4> QED
        BY <1>7, <4>1
    <3>2. acked' \cup lost' \cup pending' \subseteq acked \cup lost \cup records
      BY <1>7
    <3> QED
      BY <1>5, <1>7, <1>8, <3>1, <3>2 DEF Inv, DriverTyped
  <2>2. ToSet(history') \cap (pending' \cup acked' \cup lost' \cup evicted') = {}
    BY <1>5, <1>7, <1>8 DEF Inv, DriverTyped
  <2>3. pending' \cap (acked' \cup lost' \cup evicted') = {}
    <3>1. \A seq \in Sent : ~ (seq < aged /\ seq >= aged)
      BY <1>3, <1>8
    <3>2. records \cap (acked \cup lost \cup evicted) = {} /\ records \subseteq Sent
      BY <1>5, <1>8 DEF Inv, DriverTyped
    <3> QED
      BY <1>7, <3>1, <3>2
  <2>4. acked' \cap (lost' \cup evicted') = {} /\ lost' \cap evicted' = {}
    <3>1. records \cap (acked \cup lost \cup evicted) = {}
      BY <1>5, <1>8 DEF Inv, DriverTyped
    <3>2. acked \cap (lost \cup evicted) = {} /\ lost \cap evicted = {}
      BY DEF Inv, DriverTyped
    <3> QED
      BY <1>7, <3>1, <3>2
  <2>5. beyond' \subseteq told' /\ told' \subseteq Sent'
    BY <1>2, <1>7 DEF Inv, DriverTyped
  <2>6. (told' \ beyond') \cap (ToSet(history') \cup pending') = {}
    <3> SUFFICES ASSUME NEW s \in told' \ beyond' PROVE s \notin ToSet(rest) \cup pending'
      BY <1>7
    <3>1. CASE s \in ToSet(samples)
      <4>1. s \notin pending' /\ ~ (s > max)
        BY <1>7, <3>1
      <4> QED
        BY <1>6, <4>1
    <3>2. CASE s \notin ToSet(samples)
      <4>1. s \in told \ beyond
        BY <1>7, <3>2
      <4>2. s \notin ToSet(history) \cup pending
        BY <4>1 DEF Inv, DriverTyped
      <4> QED
        BY <1>5, <1>7, <4>2
    <3> QED
      BY <3>1, <3>2
  <2> QED
    BY <2>1, <2>2, <2>3, <2>4, <2>5, <2>6 DEF DriverTyped
<1>10. SenderTyped'
  <2>1. Len(rest) \in Nat /\ Len(history) \in Nat /\ HistoryCap \in Nat
    BY <1>3, <1>5, FeedbackAssumption
  <2> QED
    BY <1>5, <1>7, <2>1 DEF Inv, SenderTyped
<1>11. WireTyped' /\ ClientTyped'
  BY <1>1, <1>7 DEF Inv, WireTyped, Messages, ClientTyped, clientVars
<1> QED
  BY <1>9, <1>10, <1>11 DEF Inv

(* So every step keeps the invariant,                                      *)
LEMMA InvNext == Inv /\ [FeedbackNext]_feedbackVars => Inv'
<1> SUFFICES ASSUME Inv, [FeedbackNext]_feedbackVars PROVE Inv'
  OBVIOUS
<1>1. ASSUME NEW padding \in BOOLEAN, Send(padding) PROVE Inv'
  BY <1>1, InvSend
<1>2. ASSUME NEW copy \in inTransit, NEW newWindow \in BOOLEAN, NEW due \in BOOLEAN,
             Arrive(copy, newWindow, due)
      PROVE  Inv'
  BY <1>2, InvArrive
<1>3. CASE UNCHANGED feedbackVars
  BY <1>3 DEF feedbackVars, senderVars, clientVars, driverVars, Inv, SenderTyped, WireTyped,
     ClientTyped, DriverTyped, Messages, Sent
<1> QED
  BY <1>1, <1>2, <1>3, InvRetransmit, InvTimePasses, InvJoin DEF FeedbackNext

(* and it holds throughout.                                                *)
LEMMA InvAlways == FeedbackSpec => []Inv
BY InvInit, InvNext, PTL DEF FeedbackSpec

-----------------------------------------------------------------------------
(* What follows.                                                           *)

(* Every number queued, requested, reported or judged is one that was      *)
(* stamped, and every queue keeps its bound (FeedbackTypeOK).                      *)
THEOREM TypeCorrect == FeedbackSpec => []FeedbackTypeOK
<1>1. Inv => FeedbackTypeOK
  <2> SUFFICES ASSUME Inv PROVE FeedbackTypeOK
    OBVIOUS
  <2>1. \A i \in DOMAIN uplink :
          \/ uplink[i].type = "Nack" /\ uplink[i].seqs \in (SUBSET Sent) \ {{}}
          \/ uplink[i].type = "Feedback" /\ uplink[i].seqs \in Seq(Sent) \ {<<>>}
    <3>1. \A i \in DOMAIN uplink : uplink[i] \in Messages
      BY DEF Inv, WireTyped
    <3> QED
      BY <3>1 DEF Messages
  <2>2. highest \in Sent \cup {NoSeq} /\ highest \in Int /\ \A s \in 0 .. highest : s \in Sent
    BY DEF Inv, ClientTyped, SenderTyped, Sent, NoSeq
  <2> QED
    BY <2>1, <2>2 DEF Inv, SenderTyped, WireTyped, ClientTyped, DriverTyped, FeedbackTypeOK
<1> QED
  BY <1>1, InvAlways, PTL

(* No datagram gets two verdicts, and none is forgotten (OneVerdict),      *)
(* whatever is lost, resent, delayed or reported twice, and whatever the   *)
(* sizes of history, ring and batches.                                     *)
THEOREM VerdictsPartition == FeedbackSpec => []OneVerdict
<1>1. Inv => OneVerdict
  <2> SUFFICES ASSUME Inv PROVE OneVerdict
    OBVIOUS
  <2> DEFINE places == <<ToSet(history), pending, acked, lost, evicted>>
  <2>1. DOMAIN places = 1 .. 5 /\ ToSet(places) = {ToSet(history), pending, acked, lost, evicted}
    BY DEF ToSet
  <2>2. UNION ToSet(places) = Sent
    BY <2>1 DEF Inv, DriverTyped
  <2>3. \A i, j \in 1 .. 5 : i # j => places[i] \cap places[j] = {}
    BY DEF Inv, DriverTyped
  <2> QED
    BY <2>1, <2>2, <2>3 DEF OneVerdict
<1> QED
  BY <1>1, InvAlways, PTL

(* A request goes out only for datagrams that have not arrived and were    *)
(* never asked for (NacksOnlyMissing), however few requests the client     *)
(* remembers: a gap lies above all of them.                                *)
THEOREM AsksOnce == FeedbackSpec => NacksOnlyMissing
<1>1. ASSUME Inv, FeedbackNext
      PROVE  \A seqs \in AskedNow : seqs \cap arrived' = {} /\ seqs \cap asked = {}
  <2> SUFFICES ASSUME NEW j \in DOMAIN uplink', j > Len(uplink), uplink'[j].type = "Nack"
               PROVE  uplink'[j].seqs \cap arrived' = {} /\ uplink'[j].seqs \cap asked = {}
    BY DEF AskedNow
  <2>1. Len(uplink) \in Nat /\ uplink \in Seq(Messages)
    BY <1>1 DEF Inv, WireTyped
  <2>2. CASE UNCHANGED uplink
    BY <2>1, <2>2
  <2>3. CASE uplink # <<>> /\ uplink' = Tail(uplink)
    BY <2>1, <2>3
  <2>4. ASSUME NEW copy \in inTransit, NEW newWindow \in BOOLEAN, NEW due \in BOOLEAN,
               Arrive(copy, newWindow, due)
        PROVE  uplink'[j].seqs \cap arrived' = {} /\ uplink'[j].seqs \cap asked = {}
    <3> DEFINE seq     == copy[1]
               spent   == IF newWindow /\ Jumped(seq) # {} THEN 0 ELSE used
               missing == Missing(seq, spent)
               flushes == due \/ Len(Append(batch, seq)) >= MaxBatch
               nack    == IF missing = {} THEN <<>> ELSE <<[type |-> "Nack", seqs |-> missing]>>
               report  == IF flushes THEN <<[type |-> "Feedback", seqs |-> Append(batch, seq)]>> ELSE <<>>
    <3>1. seq \in Sent /\ spent \in 0 .. NackBudget
      BY <1>1, <2>4, FeedbackAssumption DEF Inv, WireTyped, ClientTyped
    <3>2. missing \subseteq Jumped(seq) /\ Jumped(seq) \subseteq Sent \ {seq}
          /\ Jumped(seq) \cap (arrived \cup asked) = {}
      BY <1>1, <3>1, Requested
    <3>3. uplink' = uplink \o nack \o report /\ arrived' = arrived \cup {seq}
      BY <2>4 DEF Arrive, RecordArrival
    <3> HIDE DEF missing, flushes
    <3>4. uplink'[j].seqs = missing
      <4>5. [type |-> "Nack", seqs |-> missing].seqs = missing
        OBVIOUS
      <4>6. [type |-> "Feedback", seqs |-> Append(batch, seq)].type = "Feedback"
        OBVIOUS
      <4>1. CASE missing = {} /\ ~ flushes
        BY <2>1, <3>3, <4>1
      <4>2. CASE missing # {} /\ ~ flushes
        <5>1. uplink' = Append(uplink, [type |-> "Nack", seqs |-> missing])
          BY <2>1, <3>3, <4>2
        <5> QED
          BY <2>1, <4>5, <5>1
      <4>3. CASE missing = {} /\ flushes
        <5>1. uplink' = Append(uplink, [type |-> "Feedback", seqs |-> Append(batch, seq)])
          BY <2>1, <3>3, <4>3
        <5> QED
          BY <2>1, <4>6, <5>1
      <4>4. CASE missing # {} /\ flushes
        <5>1. uplink' = uplink \o <<[type |-> "Nack", seqs |-> missing]>>
                                 \o <<[type |-> "Feedback", seqs |-> Append(batch, seq)]>>
          BY <3>3, <4>4
        <5> DEFINE a == [type |-> "Nack", seqs |-> missing]
                   b == [type |-> "Feedback", seqs |-> Append(batch, seq)]
        <5>2. /\ DOMAIN uplink' = 1 .. Len(uplink) + 2
              /\ uplink'[Len(uplink) + 1] = a /\ uplink'[Len(uplink) + 2] = b
          <6> HIDE DEF a, b
          <6>1. uplink' = uplink \o <<a>> \o <<b>>
            BY <5>1 DEF a, b
          <6>2. /\ DOMAIN (uplink \o <<a>> \o <<b>>) = 1 .. Len(uplink) + 2
                /\ (uplink \o <<a>> \o <<b>>)[Len(uplink) + 1] = a
                /\ (uplink \o <<a>> \o <<b>>)[Len(uplink) + 2] = b
            BY <2>1, TwoMore
          <6> QED
            BY <6>1, <6>2
        <5> QED
          BY <2>1, <4>5, <4>6, <5>2
      <4> QED
        BY <4>1, <4>2, <4>3, <4>4
    <3> QED
      BY <3>2, <3>3, <3>4
  <2> QED
    BY <1>1, <2>2, <2>3, <2>4 DEF FeedbackNext, Send, Retransmit, TimePasses, Join
<1>2. Inv /\ [FeedbackNext]_feedbackVars => [AsksOnlyMissing]_feedbackVars
  BY <1>1 DEF AsksOnlyMissing
<1> QED
  BY <1>2, InvAlways, PTL DEF FeedbackSpec, NacksOnlyMissing

(* No datagram a batch has reported is told to the estimator as lost       *)
(* later, but for those past the last sample of their batch                *)
(* (ReportedLostOnlyBeyond).                                               *)
THEOREM ReportsStand == FeedbackSpec => ReportedLostOnlyBeyond
<1>1. ASSUME Inv, FeedbackNext PROVE (lost' \ lost) \cap told \subseteq beyond
  <2>1. CASE Join
    <3> DEFINE samples == Head(uplink).seqs
               taken   == TakeCount(Last(samples))
               front   == {history[i] : i \in 1 .. taken}
    <3>1. lost' \ lost \subseteq pending \cup front
      BY <2>1 DEF Join
    <3>2. samples \in Seq(Sent) /\ samples # <<>>
      <4>1. Head(uplink) \in Messages /\ Head(uplink).type = "Feedback"
        BY <1>1, <2>1 DEF Inv, WireTyped, Join
      <4> QED
        BY <4>1 DEF Messages
    <3>3. Last(samples) \in Int
      <4>1. Last(samples) \in Sent
        BY <3>2 DEF Last
      <4> QED
        BY <1>1, <4>1 DEF Sent, Inv, SenderTyped
    <3>4. taken \in 0 .. Len(history)
      BY <1>1, <3>3, TakeCountProperties DEF Inv, SenderTyped
    <3>5. front \subseteq ToSet(history)
      BY <1>1, <3>4, InRange DEF Inv, SenderTyped
    <3> QED
      BY <1>1, <3>1, <3>5 DEF Inv, DriverTyped
  <2> QED
    BY <1>1, <2>1 DEF FeedbackNext, Send, Retransmit, TimePasses, Arrive, driverVars
<1>2. Inv /\ [FeedbackNext]_feedbackVars => [(lost' \ lost) \cap told \subseteq beyond]_feedbackVars
  BY <1>1
<1> QED
  BY <1>2, InvAlways, PTL DEF FeedbackSpec, ReportedLostOnlyBeyond
=============================================================================
