----------------------------- MODULE Reassembly -----------------------------
(***************************************************************************)
(* The client's datagram-to-frame reassembler                              *)
(* (client-core/src/reassembly.rs).                                        *)
(*                                                                         *)
(* Its single entry point, Reassembler::push, takes one shard of one frame *)
(* and returns the frames it releases, oldest first.  A push is one of     *)
(* four actions, by the path it takes through the code; the trailing       *)
(* `drain` and the pruning are part of each of them.  Shards come in any   *)
(* order, any number of times, or never; nothing is assumed of their       *)
(* headers beyond what the datagram parser lets through.                   *)
(*                                                                         *)
(* Frame ids are u32 on the wire and wrap.  The id space is a parameter    *)
(* here, written 2 * HALF + 2 where HALF is the code's u32::MAX / 2, and   *)
(* wrapping subtraction is spelled out.                                    *)
(***************************************************************************)
EXTENDS FecLayout, Sequences

CONSTANTS
  HALF,         \* u32::MAX / 2: ages below it mean "older"
  HOLD_LIMIT,   \* completed frames wait for at most this many newer ones
  MAX_PENDING,  \* in-flight frame ids tracked before the oldest is pruned
  Geometries    \* the [k, m, len, epoch] a header can carry

ASSUME ReassemblyAssumption ==
  /\ HALF \in Nat \ {0}
  /\ HOLD_LIMIT \in Nat
  /\ MAX_PENDING \in Nat
  /\ \A g \in Geometries : g.k \in Nat \ {0} /\ g.m \in Nat

VARIABLES
  pending,    \* frame id -> the shards of an incomplete frame
  held,       \* completed frames not yet released, oldest first
  latest,     \* latest_delivered: the last id released, or None
  dropped,    \* frames discarded incomplete
  recovered,  \* frames completed only thanks to parity
  released,   \* what the last push returned
  opened,     \* history: how many times a frame was opened
  delivered   \* history: how many frames were released

vars == <<pending, held, latest, dropped, recovered, released, opened, delivered>>

-----------------------------------------------------------------------------

IdSpace == 2 * HALF + 2
Ids     == 0 .. IdSpace - 1
Kinds   == {"Idr", "P"}
None    == -1
Frames  == [id : Ids, kind : Kinds]

(* A parsed video header.  The parser refuses an index past the shards.    *)
Headers ==
  UNION {[id : Ids, kind : Kinds, geo : {g}, index : 0 .. g.k + g.m - 1] :
           g \in Geometries}

(* An incomplete frame: its shape and the shards that have arrived. *)
Entries == UNION {[geo : {g}, got : SUBSET (0 .. g.k + g.m - 1)] : g \in Geometries}

(* a.wrapping_sub(b) *)
WrappingSub(a, b) == IF a >= b THEN a - b ELSE a + IdSpace - b

(* Wrap-aware "a is older than b". *)
Older(a, b) == WrappingSub(b, a) > 0 /\ WrappingSub(b, a) < HALF

(* Mutant: trailing shards of the frame just released are let through.     *)
StaleStrictly(id) == latest # None /\ Older(id, latest)

(* push's first test: at or behind the last released frame. *)
Stale(id) == latest # None /\ WrappingSub(latest, id) < HALF

IsHeld(id) == \E i \in DOMAIN held : held[i].id = id

-----------------------------------------------------------------------------
(* One frame's shards. *)

Fresh(h) == [geo |-> h.geo, got |-> {}]

(* The entry of h's frame, restarted when h disagrees on epoch or shape. *)
Entry(h) ==
  IF h.id \in DOMAIN pending /\ pending[h.id].geo = h.geo
  THEN pending[h.id] ELSE Fresh(h)

(* Mutant: shard indices counted from one. *)
WithShardFromOne(h) == [Entry(h) EXCEPT !.got = @ \cup {h.index + 1}]

WithShard(h) == [Entry(h) EXCEPT !.got = @ \cup {h.index}]

CompleteDirect(e) == 0 .. e.geo.k - 1 \subseteq e.got

(* Mutant: reconstruction waits for one shard more than it needs. *)
ReconstructableLate(e) ==
  /\ ~ CompleteDirect(e)
  /\ Cardinality(e.got) > e.geo.k
  /\ Recoverable(e.geo.k, e.geo.m, e.got)

Reconstructable(e) ==
  /\ ~ CompleteDirect(e)
  /\ Cardinality(e.got) >= e.geo.k
  /\ Recoverable(e.geo.k, e.geo.m, e.got)

-----------------------------------------------------------------------------
(* Releasing and pruning. *)

(* Mutant: a release prunes nothing. *)
SurvivingAll(ids, q, n) == ids

(* What prune_older_than leaves after the first n frames of q went out. *)
Surviving(ids, q, n) == {id \in ids : \A i \in 1 .. n : ~ Older(id, q[i].id)}

(* Mutant: the hold limit is forgotten. *)
WaitsForever(ids, q, n) ==
  /\ n < Len(q)
  /\ \E id \in Surviving(ids, q, n) : Older(id, q[n + 1].id)
  /\ q[n + 1].kind # "Idr"

(* Mutant: an IDR waits like any other frame. *)
WaitsEvenIdr(ids, q, n) ==
  /\ n < Len(q)
  /\ \E id \in Surviving(ids, q, n) : Older(id, q[n + 1].id)
  /\ Len(q) - n <= HOLD_LIMIT

(* Mutant: the hold limit is reached one frame early. *)
WaitsImpatient(ids, q, n) ==
  /\ n < Len(q)
  /\ \E id \in Surviving(ids, q, n) : Older(id, q[n + 1].id)
  /\ q[n + 1].kind # "Idr"
  /\ Len(q) - n < HOLD_LIMIT

(* The loop of `drain` stops after n releases: the head waits for an older *)
(* pending frame, is no IDR, and the hold limit is not passed.             *)
Waits(ids, q, n) ==
  /\ n < Len(q)
  /\ \E id \in Surviving(ids, q, n) : Older(id, q[n + 1].id)
  /\ q[n + 1].kind # "Idr"
  /\ Len(q) - n <= HOLD_LIMIT

(* drain releases exactly n frames of q. *)
DrainCount(ids, q, n) ==
  /\ n = Len(q) \/ Waits(ids, q, n)
  /\ \A j \in 0 .. n - 1 : ~ Waits(ids, q, j)

(* Mutant: pruning does not count. *)
UncountedPruned(ids, left) == 0

(* What the releases of one drain add to the dropped counter. *)
PrunedCount(ids, left) == Cardinality(ids \ left)

(* The whole of drain, with the pending entries and the queue it starts    *)
(* from and the frames already counted as dropped in this call.            *)
Drain(pend, q, lost) ==
  \E n \in 0 .. Len(q) :
    LET left == Surviving(DOMAIN pend, q, n)
    IN  /\ DrainCount(DOMAIN pend, q, n)
        /\ released'  = SubSeq(q, 1, n)
        /\ held'      = SubSeq(q, n + 1, Len(q))
        /\ latest'    = IF n = 0 THEN latest ELSE q[n].id
        /\ pending'   = [id \in left |-> pend[id]]
        /\ dropped'   = dropped + lost + PrunedCount(DOMAIN pend, left)
        /\ delivered' = delivered + n

(* prune_oldest takes id out of ids: the newest is the numerically largest *)
(* key, the oldest the key furthest behind it.                             *)
PrunesOldest(ids, id) ==
  \E newest \in ids :
    /\ \A i \in ids : i <= newest
    /\ id \in ids
    /\ \A i \in ids : WrappingSub(newest, i) <= WrappingSub(newest, id)

(* held with a completed frame put before the first one it is older than. *)
InsertPosition(f, p) ==
  /\ p \in 1 .. Len(held) + 1
  /\ p <= Len(held) => Older(f.id, held[p].id)
  /\ \A i \in 1 .. p - 1 : ~ Older(f.id, held[i].id)

InsertHeld(f, p) ==
  SubSeq(held, 1, p - 1) \o <<f>> \o SubSeq(held, p, Len(held))

-----------------------------------------------------------------------------
(* push, by the path a shard takes. *)

Accepted(h) == ~ Stale(h.id) /\ ~ IsHeld(h.id)

Open(h) == opened' = IF h.id \in DOMAIN pending THEN opened ELSE opened + 1

(* A shard of a released or a held frame: dropped on the spot. *)
PushIgnored(h) ==
  /\ ~ Accepted(h)
  /\ released' = <<>>
  /\ UNCHANGED <<pending, held, latest, dropped, recovered, opened, delivered>>

(* The frame is still short of shards: keep it, and make room if the       *)
(* window is over its limit.                                               *)
PushIncomplete(h) ==
  LET e    == WithShard(h)
      ids  == DOMAIN pending \cup {h.id}
      with == [id \in ids |-> IF id = h.id THEN e ELSE pending[id]]
  IN  /\ Accepted(h)
      /\ ~ CompleteDirect(e) /\ ~ Reconstructable(e)
      /\ Open(h)
      /\ \/ /\ Cardinality(ids) > MAX_PENDING
            /\ \E oldest \in ids :
                 /\ PrunesOldest(ids, oldest)
                 /\ Drain([id \in ids \ {oldest} |-> with[id]], held, 1)
         \/ /\ Cardinality(ids) <= MAX_PENDING
            /\ Drain(with, held, 0)
      /\ UNCHANGED recovered

Others(h) == [id \in DOMAIN pending \ {h.id} |-> pending[id]]

(* The frame completes, by its data or by reconstruction. *)
PushComplete(h) ==
  LET e == WithShard(h)
      f == [id |-> h.id, kind |-> h.kind]
  IN  /\ Accepted(h)
      /\ CompleteDirect(e) \/ Reconstructable(e)
      /\ Open(h)
      /\ \E p \in 1 .. Len(held) + 1 :
           InsertPosition(f, p) /\ Drain(Others(h), InsertHeld(f, p), 0)
      /\ recovered' = IF CompleteDirect(e) THEN recovered ELSE recovered + 1

(* Enough shards, but their payload lengths disagree: reconstruct returns  *)
(* None and the frame is counted as dropped.                               *)
PushUnrecoverable(h) ==
  /\ Accepted(h)
  /\ Reconstructable(WithShard(h))
  /\ Open(h)
  /\ Drain(Others(h), held, 1)
  /\ UNCHANGED recovered

Push(h) ==
  \/ PushIgnored(h)
  \/ PushIncomplete(h)
  \/ PushComplete(h)
  \/ PushUnrecoverable(h)

-----------------------------------------------------------------------------

Init ==
  /\ pending   = <<>>
  /\ held      = <<>>
  /\ latest    = None
  /\ dropped   = 0
  /\ recovered = 0
  /\ released  = <<>>
  /\ opened    = 0
  /\ delivered = 0

Next == \E h \in Headers : Push(h)

Spec == Init /\ [][Next]_vars

-----------------------------------------------------------------------------
(* Properties. *)

(* Every frame id, shard index and counter is in its range. *)
TypeOK ==
  /\ DOMAIN pending \subseteq Ids
  /\ \A id \in DOMAIN pending : pending[id] \in Entries
  /\ held \in Seq(Frames)
  /\ released \in Seq(Frames)
  /\ latest \in Ids \cup {None}
  /\ dropped \in Nat /\ recovered \in Nat
  /\ opened \in Nat /\ delivered \in Nat

(* b comes after a: a shard of b is not stale once a is out. *)
NotBehind(a, b) == WrappingSub(a, b) >= HALF

(* The window guards hold after every push, whatever arrives: at most      *)
(* MAX_PENDING frames are in flight (prune_oldest runs on one path of push *)
(* only) and at most HOLD_LIMIT completed frames wait.                     *)
Bounded ==
  /\ Cardinality(DOMAIN pending) <= MAX_PENDING
  /\ Len(held) <= HOLD_LIMIT

(* A completed frame waits only for a reason: it is no IDR and an older    *)
(* frame is still pending.  `drain` never leaves a releasable frame behind.*)
HeldForCause ==
  held # <<>> =>
    /\ held[1].kind # "Idr"
    /\ \E id \in DOMAIN pending : Older(id, held[1].id)

(* Nothing that is pending or held is behind what was released or held     *)
(* before it, and no frame is both: trailing shards never reopen a frame.  *)
NothingStale ==
  /\ \A i \in DOMAIN held : held[i].id \notin DOMAIN pending
  /\ \A i \in 1 .. Len(held) - 1 : NotBehind(held[i].id, held[i + 1].id)
  /\ latest # None =>
       /\ \A id \in DOMAIN pending : NotBehind(latest, id)
       /\ held # <<>> => NotBehind(latest, held[1].id)

(* Every frame ever opened is in exactly one place: released, counted as   *)
(* dropped, pending or held.  frames_dropped() neither misses a frame      *)
(* discarded by a release, a full window or a failed reconstruction, nor   *)
(* counts one twice.                                                       *)
Accounting ==
  opened = delivered + dropped + Cardinality(DOMAIN pending) + Len(held)

(* What parity buys: a frame stays pending only while it misses more       *)
(* shards than the poorest of its groups has parity, whichever they are    *)
(* and however often the others came.  The count of shards that push tests *)
(* before the groups never holds a recoverable frame back.                 *)
ToleratesLoss ==
  \A id \in DOMAIN pending :
    LET g == pending[id].geo
    IN  Cardinality((0 .. g.k + g.m - 1) \ pending[id].got) > Tolerance(g.k, g.m)

(* push releases frames in id order, across calls and within one call, and *)
(* never the same one twice in a row, whatever order the shards came in.   *)
ReleasesInOrder ==
  /\ released' # <<>> /\ latest # None => NotBehind(latest, released'[1].id)
  /\ \A i \in 1 .. Len(released') - 1 :
       NotBehind(released'[i].id, released'[i + 1].id)

ReleaseInOrder == [][ReleasesInOrder]_vars

=============================================================================
