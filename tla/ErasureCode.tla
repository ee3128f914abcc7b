----------------------------- MODULE ErasureCode -----------------------------
(***************************************************************************)
(* The Reed-Solomon code of the video datagrams (protocol/src/fec) and the *)
(* two ends that use it: the chunker pads a frame to equal shards and adds *)
(* parity group by group, the reassembler rebuilds the frame from what     *)
(* arrived.                                                                *)
(*                                                                         *)
(* A shard is a sequence of bytes, the shards that arrived are a function  *)
(* from their indices.  Bytes are elements of GF(2^8).                     *)
(***************************************************************************)
EXTENDS FecLayout, Sequences, Bitwise, SequencesExt

-----------------------------------------------------------------------------
(* The field: powers of the generator 2 modulo x^8 + x^4 + x^3 + x^2 + 1.  *)

Double(x) == IF 2 * x < 256 THEN 2 * x ELSE (2 * x) ^^ 285

\* exp and log of build_tables, exp not doubled: exponents are reduced.
Exp == LET powers == FoldLeft(LAMBDA s, i : Append(s, Double(s[i])), <<1>>, [i \in 1 .. 254 |-> i])
       IN  [i \in 0 .. 254 |-> powers[i + 1]]

Log == LET exp == Exp IN [x \in 1 .. 255 |-> CHOOSE i \in 0 .. 254 : exp[i] = x]

Mul(a, b) == IF a = 0 \/ b = 0 THEN 0 ELSE Exp[(Log[a] + Log[b]) % 255]
Inv(a)    == Exp[(255 - Log[a]) % 255]

\* The Cauchy coefficient of parity row j over data column i.
Coef(k, j, i) == Inv((k + j) ^^ i)

-----------------------------------------------------------------------------
(* Shards.                                                                 *)

Plus(s, t)  == [b \in DOMAIN s |-> s[b] ^^ t[b]]
Scaled(c, s) == [b \in DOMAIN s |-> Mul(c, s[b])]

\* The sum of the coefficients c(i) times the shards s(i), from `start` on.
Combined(start, c(_), s(_), indices) ==
  FoldSet(LAMBDA i, sum : Plus(sum, Scaled(c(i), s(i))), start, indices)

Zero(len) == [b \in 1 .. len |-> 0]

\* encode_parity, of k data shards from index 0 on; the code word must fit.
EncodeParity(data, k, parity, len) ==
  [j \in 0 .. parity - 1 |->
     Combined(Zero(len), LAMBDA i : Coef(k, j, i), LAMBDA i : data[i], 0 .. k - 1)]

-----------------------------------------------------------------------------
(* Elimination.  A matrix is a function of row and column from 1 on.       *)

Identity(n) == [r \in 1 .. n |-> [c \in 1 .. n |-> IF r = c THEN 1 ELSE 0]]

Swapped(m, r, s) == [m EXCEPT ![r] = m[s], ![s] = m[r]]

\* One column: the pivot's row is scaled to 1 and cleared from the others.
\* Both matrices go through the same row operations.
Eliminate(both, col) ==
  LET pivots == {r \in col .. Len(both.a) : both.a[r][col] # 0}
      pivot  == CHOOSE r \in pivots : \A q \in pivots : r <= q
      a      == Swapped(both.a, col, pivot)
      inv    == Swapped(both.inv, col, pivot)
      Step(m, r) ==
        LET row == Scaled(Inv(a[col][col]), m[col])
        IN  IF r = col THEN row ELSE Plus(m[r], Scaled(a[r][col], row))
      Rows(m) == [r \in DOMAIN m |-> Step(m, r)]
  IN  IF both.singular \/ pivots = {} THEN [both EXCEPT !.singular = TRUE]
      ELSE [both EXCEPT !.a = Rows(a), !.inv = Rows(inv)]

\* invert: the inverse, or singular.
Invert(a) ==
  FoldLeft(Eliminate, [a |-> a, inv |-> Identity(Len(a)), singular |-> FALSE],
           [col \in 1 .. Len(a) |-> col])

-----------------------------------------------------------------------------
(* reconstruct_data: the shards of one group with the missing data         *)
(* recovered, or none.  Its parity rows are the first that arrived.        *)

Ordered(indices) == SetToSortSeq(indices, <)

CanReconstruct(shards, k, total) ==
  LET missing == (0 .. k - 1) \ DOMAIN shards
      lengths == {Len(shards[i]) : i \in DOMAIN shards}
  IN  /\ k > 0 /\ total >= k /\ total <= MAX_SHARDS
      /\ missing = {} \/ /\ Cardinality(DOMAIN shards \ (0 .. k - 1)) >= Cardinality(missing)
                         /\ Cardinality(lengths) = 1 /\ lengths # {0}

Reconstructed(shards, k) ==
  LET missing == Ordered((0 .. k - 1) \ DOMAIN shards)
      present == DOMAIN shards \cap 0 .. k - 1
      n       == Len(missing)
      rows    == SubSeq(Ordered({i - k : i \in DOMAIN shards \ (0 .. k - 1)}), 1, n)
      inverse == Invert([r \in 1 .. n |-> [c \in 1 .. n |-> Coef(k, rows[r], missing[c])]]).inv
      rhs     == [r \in 1 .. n |->
                    Combined(shards[k + rows[r]], LAMBDA i : Coef(k, rows[r], i),
                             LAMBDA i : shards[i], present)]
      Solved(c) == Combined(Zero(Len(rhs[1])), LAMBDA r : inverse[c][r], LAMBDA r : rhs[r], 1 .. n)
  IN  [i \in 0 .. k - 1 |->
         IF i \in present THEN shards[i] ELSE Solved(CHOOSE c \in 1 .. n : missing[c] = i)]

-----------------------------------------------------------------------------
(* The ends.                                                               *)

Padded(shard, len) == [b \in 1 .. len |-> IF b <= Len(shard) THEN shard[b] ELSE 0]

Piece(frame, i, payload) ==
  SubSeq(frame, i * payload + 1, AtMost((i + 1) * payload, Len(frame)))

DataCount(frame, payload) == AtLeastOne(DivCeil(Len(frame), payload))

\* chunk_video_frame: what is sent of a frame, index by index.
Chunked(frame, payload, permille) ==
  LET k      == DataCount(frame, payload)
      m      == ParityCount(k, permille)
      len    == AtLeastOne(AtMost(Len(frame), payload))
      shard(i) == Padded(Piece(frame, i, payload), len)
      layout == GroupLayout(k, m)
      first(part) == CHOOSE i \in part : \A j \in part : i <= j
      Code(g) == LET start == first(g.data)
                     size  == Cardinality(g.data)
                 IN  EncodeParity([i \in 0 .. size - 1 |-> shard(start + i)], size,
                                  Cardinality(g.parity), len)
      GroupOf(i) == CHOOSE g \in DOMAIN layout : i \in layout[g].parity
  IN  [i \in 0 .. k + m - 1 |->
         IF i < k THEN Piece(frame, i, payload)
         ELSE Code(layout[GroupOf(i)])[i - first(layout[GroupOf(i)].parity)]]

\* The uniform length: that of the longest shard but the last of the data.
ShardLength(got, k) ==
  LET lengths == {Len(got[i]) : i \in DOMAIN got \ {k - 1}}
  IN  IF lengths = {} THEN 0 ELSE CHOOSE n \in lengths : \A l \in lengths : l <= n

\* reconstruct: the frame of the given length, or <<>> for none.
Rebuilt(got, k, m, frameLen) ==
  LET len    == ShardLength(got, k)
      fits   == {i \in DOMAIN got : Len(got[i]) = len \/ (i = k - 1 /\ Len(got[i]) < len)}
      shards == [i \in fits |-> Padded(got[i], len)]
      layout == GroupLayout(k, m)
      \* the g-th group's shards, numbered from 0 with its parity behind
      Members(g) == SetToSortSeq(layout[g].data, <) \o SetToSortSeq(layout[g].parity, <)
      Arrived(g) == {n \in 0 .. Len(Members(g)) - 1 : Members(g)[n + 1] \in fits}
      Group(g)   == [n \in Arrived(g) |-> shards[Members(g)[n + 1]]]
      Size(g)    == Cardinality(layout[g].data)
      Whole(g)   == layout[g].data \subseteq fits
      Ready(g)   == Whole(g) \/ CanReconstruct(Group(g), Size(g), Len(Members(g)))
      Data(g)    == LET all == IF Whole(g) THEN Group(g) ELSE Reconstructed(Group(g), Size(g))
                    IN  [n \in 1 .. Size(g) |-> all[n - 1]]
      Bytes      == FlattenSeq(FlattenSeq([g \in 1 .. GroupCount(k) |-> Data(g - 1)]))
  IN  IF m = 0 \/ len = 0 \/ ~\A g \in DOMAIN layout : Ready(g) THEN <<>>
      ELSE SubSeq(Bytes, 1, AtMost(frameLen, Len(Bytes)))

=============================================================================
