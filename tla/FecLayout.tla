------------------------------ MODULE FecLayout ------------------------------
(***************************************************************************)
(* The shard arithmetic of the video datagrams: how many parity shards a   *)
(* frame ships with, how its shards are divided into independent           *)
(* Reed-Solomon groups, and when what arrived of a frame is recoverable.   *)
(*                                                                         *)
(* Chunker and reassembler both derive the layout from the two counts of   *)
(* the header, so this module is shared by both sides.  Shard indices run  *)
(* over 0 .. k + m - 1: the k data shards first, then the m parity shards. *)
(* Of the code itself only its erasure property is used: a group of k_g    *)
(* data shards is rebuilt from any k_g of its shards; module ErasureCode   *)
(* has the arithmetic behind it.                                           *)
(***************************************************************************)
EXTENDS Integers, FiniteSets

CONSTANTS
  MAX_GROUP_DATA,  \* data shards per group at most (32 in the code)
  MAX_SHARDS       \* parity_count is a u8, a code word has at most 255 shards

ASSUME FecAssumption ==
  /\ MAX_GROUP_DATA \in Nat \ {0}
  /\ MAX_SHARDS \in Nat \ {0}

DivCeil(a, b) == (a + b - 1) \div b

AtLeastOne(n) == IF n = 0 THEN 1 ELSE n

AtMost(n, cap) == IF n > cap THEN cap ELSE n

-----------------------------------------------------------------------------

(* `groups` of group_layout: as many groups as full ones would be needed. *)
GroupCount(k) == AtLeastOne(DivCeil(k, MAX_GROUP_DATA))

(* The g-th share of n shards dealt evenly over `groups` groups: the first *)
(* n % groups groups get one more than the rest.                           *)
Share(n, groups, g) == n \div groups + (IF g < n % groups THEN 1 ELSE 0)

(* Where the g-th share starts: the loop's running sum.                    *)
ShareStart(n, groups, first) ==
  LET start[g \in 0 .. groups - 1] ==
        IF g = 0 THEN first ELSE start[g - 1] + Share(n, groups, g - 1)
  IN  start

(* The shard indices of every group, data and parity apart.                *)
GroupLayout(k, m) ==
  LET groups == GroupCount(k)
      data   == ShareStart(k, groups, 0)
      parity == ShareStart(m, groups, k)
  IN  [g \in 0 .. groups - 1 |->
        [data   |-> data[g] .. data[g] + Share(k, groups, g) - 1,
         parity |-> parity[g] .. parity[g] + Share(m, groups, g) - 1]]

-----------------------------------------------------------------------------

(* Parity shards the chunker adds to a frame of `count` data shards: the   *)
(* permille rounded up, at least one, capped by the wire; a single-group   *)
(* frame whose code word would be too long ships without parity.  The cap  *)
(* on chunk indices binds only within 255 shards of 65,535: left out.      *)
ParityCount(count, permille) ==
  LET wanted == IF permille = 0 THEN 0
                ELSE AtLeastOne(DivCeil(count * permille, 1000))
      capped == AtMost(wanted, MAX_SHARDS)
  IN  IF count <= MAX_GROUP_DATA /\ count + capped > MAX_SHARDS
      THEN 0 ELSE capped

(* Pending::recoverable: every group has all its data, or as many shards   *)
(* of either sort as it has data shards.                                   *)
Recoverable(k, m, got) ==
  \A g \in 0 .. GroupCount(k) - 1 :
    LET group == GroupLayout(k, m)[g]
        data  == Cardinality(got \cap group.data)
    IN  \/ data = Cardinality(group.data)
        \/ data + Cardinality(got \cap group.parity) >= Cardinality(group.data)

-----------------------------------------------------------------------------
(* What chunker and reassembler rely on, as formulas over one layout.      *)

(* The groups partition the shards, data before parity; none is empty or   *)
(* has more data than the coder takes, and their sizes differ by one at    *)
(* most.                                                                   *)
IsEvenPartition(k, m) ==
  LET layout == GroupLayout(k, m)
      G      == DOMAIN layout
      Even(part) ==
        \A g, h \in G : g # h =>
          /\ layout[g][part] \cap layout[h][part] = {}
          /\ Cardinality(layout[g][part]) - Cardinality(layout[h][part]) \in -1 .. 1
  IN  /\ UNION {layout[g].data : g \in G} = 0 .. k - 1
      /\ UNION {layout[g].parity : g \in G} = k .. k + m - 1
      /\ \A g \in G : Cardinality(layout[g].data) \in 1 .. MAX_GROUP_DATA
      /\ Even("data") /\ Even("parity")

(* encode_parity panics on a code word past the field.                     *)
CodeWordsFit(k, m) ==
  m > 0 => \A g \in DOMAIN GroupLayout(k, m) :
             LET group == GroupLayout(k, m)[g]
             IN  Cardinality(group.data \cup group.parity) <= MAX_SHARDS

(* What parity buys: the parity of the poorest group.                      *)
Tolerance(k, m) == m \div GroupCount(k)

ToleratesAny(k, m) ==
  \A missing \in SUBSET (0 .. k + m - 1) :
    Cardinality(missing) <= Tolerance(k, m) =>
      Recoverable(k, m, (0 .. k + m - 1) \ missing)

=============================================================================
