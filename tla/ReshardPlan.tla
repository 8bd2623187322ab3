---------------------------- MODULE ReshardPlan -----------------------------
(***************************************************************************)
(* zuku::Reshard: which copies move an array from one sharding to another. *)
(*                                                                         *)
(* Every device runs Reshard on its own.  From the two shardings and its   *)
(* own id alone it chooses a strategy (reshard.cc) and issues its sends    *)
(* and receives to the ReshardManager, each under a key and for a box of   *)
(* the array (the reshard_*.cc).  The module takes the pairs of shardings  *)
(* in Cases one by one and follows the copies until nothing moves any      *)
(* more.  That one key's copy waits for both sides is module               *)
(* ReshardManager's subject; here the copies that can run do so together.  *)
(***************************************************************************)
EXTENDS Sharding

CONSTANT Cases    \* the pairs [src, dst] of shardings that are tried

ASSUME CasesAssumption == \A c \in Cases : ValidSharding(c.src) /\ ValidSharding(c.dst)

VARIABLES
  src, dst,   \* the two shardings
  issued,     \* have the devices run Reshard?
  sends, receives, undefined,   \* what they issued; those that met undefined behaviour
  copied,     \* the keys whose copy is done
  held        \* the elements of its tile that each target shard has

vars == <<src, dst, issued, sends, receives, undefined, copied, held>>

Device ==
  LET stop(s) == s.devices.start + s.devices.num IN
  0 .. (IF stop(src) > stop(dst) THEN stop(src) ELSE stop(dst)) - 1

\* ShardedArray::HasTile on device p, and its shard there.
HasTile(s, p) == Contains(s.devices, p)
SrcShard(p) == ShardId(src.devices, p)
DstShard(p) == ShardId(dst.devices, p)

\* A ReshardKey: a copy comes from the source array or, in a broadcast, from another
\* shard of the target.
Key(from, i, j) == [from |-> from, src |-> i, dst |-> j]
Op(from, i, j, box) == [key |-> Key(from, i, j), box |-> box]

\* What a device issues; undefined behaviour is an outcome of its own.
Nothing == [sends |-> {}, receives |-> {}, undefined |-> FALSE]
Plan(out, in) == [sends |-> out, receives |-> in, undefined |-> FALSE]
Undefined == [Nothing EXCEPT !.undefined = TRUE]

\* The ops of a device that holds a tile of s, none otherwise.
OfTile(s, p, ops) == IF HasTile(s, p) THEN ops ELSE {}

-----------------------------------------------------------------------------
\* ReshardPointToPoint: shard i to shard i.
PointToPoint(p) ==
  Plan(OfTile(src, p, {Op("src", SrcShard(p), SrcShard(p),
                          ComputeTileBounds(SrcShard(p), src))}),
       OfTile(dst, p, {Op("src", DstShard(p), DstShard(p),
                          ComputeTileBounds(DstShard(p), dst))}))

\* ReshardGatherShards, for the box that each source shard contributes: every source
\* shard goes to every target shard.
GatherShards(p, box) ==
  Plan(OfTile(src, p, {Op("src", SrcShard(p), j, box[SrcShard(p)]) : j \in Shards(dst)}),
       OfTile(dst, p, {Op("src", i, DstShard(p), box[i]) : i \in Shards(src)}))

\* ReshardScatterShards: every replica feeds its share of the target shards.  With
\* fewer targets than replicas the target divides by zero.
ScatterShards(p) ==
  LET perSource == dst.devices.num \div src.devices.num IN
  IF perSource = 0
  THEN IF HasTile(dst, p) THEN Undefined ELSE Nothing
  ELSE Plan(OfTile(src, p, {Op("src", SrcShard(p), j, ComputeTileBounds(j, dst)) :
                              j \in perSource * SrcShard(p) .. perSource * (SrcShard(p) + 1) - 1}),
            OfTile(dst, p, {Op("src", DstShard(p) \div perSource, DstShard(p),
                               ComputeTileBounds(DstShard(p), dst))}))

-----------------------------------------------------------------------------
(***************************************************************************)
(* ReshardBroadcast: each source shard feeds one target shard, the root of *)
(* a tree over its leaves_per_root neighbours.                             *)
(***************************************************************************)
NextPowerOf2(n) ==
  LET double[power \in 1 .. 2 * n] == IF power < n THEN double[power * 2] ELSE power
  IN double[1]

\* The split_size at which the search meets rank, from split_start 0 and all the tree.
Descend(rank, whole) ==
  LET split[size \in 0 .. whole] ==
        [start \in 0 .. whole |->
           LET half == size \div 2 IN
           IF start = rank \/ size = 0 THEN size
           ELSE split[half][IF rank > start THEN start + half ELSE start - half]]
  IN split[whole][0]

\* The leaves of a rank among n, the farthest first, from a split_size on.
LeafRanks(rank, halfSize, n) ==
  LET from[size \in 0 .. halfSize] ==
        [next \in 0 .. rank + halfSize |->
           IF next < n /\ size > 0 THEN {next} \cup from[size \div 2][next - size \div 2] ELSE {}]
  IN from[halfSize][rank + halfSize]

\* Mutant: the root of the tree skips its nearest leaf.
TargetConfigOffByOne(rank, n) ==
  LET size == Descend(rank, NextPowerOf2(n)) IN
  IF rank % 2 = 1 THEN [parent |-> rank - 1, leaves |-> {}]
  ELSE [parent |-> rank - size, leaves |-> LeafRanks(rank, size \div 2, n) \ {rank + 1}]

\* GetTargetConfig of one of n ranks; the parent of rank 0 is the source shard.
GetTargetConfig(rank, n) ==
  LET size == Descend(rank, NextPowerOf2(n)) IN
  IF rank % 2 = 1 THEN [parent |-> rank - 1, leaves |-> {}]
  ELSE [parent |-> rank - size, leaves |-> LeafRanks(rank, size \div 2, n)]

LeavesPerRoot == (dst.devices.num + src.devices.num - 1) \div src.devices.num

\* The ranks of the tree that source shard i feeds.
TreeSize(i) ==
  LET n == LeavesPerRoot
      rest == dst.devices.num - i * n
  IN IF n < rest THEN n ELSE rest

\* GetBroadcastConfig returns an empty configuration for a surplus source shard, and
\* its caller reads the two optionals it lacks.
Broadcast(p) ==
  LET n == LeavesPerRoot
      surplus == HasTile(src, p) /\ SrcShard(p) * n >= dst.devices.num
      root == DstShard(p) \div n
      rank == DstShard(p) % n
      config == GetTargetConfig(rank, TreeSize(root))
      box == ComputeTileBounds(DstShard(p), dst)
      receive == IF rank = 0 THEN Op("src", root, DstShard(p), box)
                 ELSE Op("dst", root * n + config.parent, DstShard(p), box)
      forward == {Op("dst", DstShard(p), root * n + l, box) : l \in config.leaves}
      feed == {Op("src", SrcShard(p), SrcShard(p) * n, ComputeTileBounds(SrcShard(p), src))}
  IN IF surplus THEN Undefined
     ELSE Plan(OfTile(src, p, feed) \cup OfTile(dst, p, forward), OfTile(dst, p, {receive}))

-----------------------------------------------------------------------------
(***************************************************************************)
(* ReshardScatterGather: the shardings differ in one dimension only.       *)
(***************************************************************************)

\* MakeTileBox: the coordinates are taken by position among the real dimensions.
MakeTileBox(index, s) ==
  LET real == InOrder({d \in DOMAIN s.dims : Extent(s.dims[d]) > 0}, s)
  IN [r \in DOMAIN real |->
        Range1(index[r] * Extent(s.dims[real[r]]), Extent(s.dims[real[r]]))]

\* From the side with coarse tiles: the slices of its shard i and their fine shards.
Slices(i, coarse, fine, dim) ==
  LET ratio == fine.dims[dim].sharding \div coarse.dims[dim].sharding
      index == ComputeTileIndex(i, coarse)
  IN {[index EXCEPT ![dim] = @ * ratio + slice] : slice \in 0 .. ratio - 1}

\* Mutant: the coarse tile is looked up under the fine index.
PartOfUnscaled(i, fine, coarse, dim) == ComputeTileShard(ComputeTileIndex(i, fine), coarse)

\* From the side with fine tiles: the coarse shard its shard i is part of.
PartOf(i, fine, coarse, dim) ==
  LET ratio == fine.dims[dim].sharding \div coarse.dims[dim].sharding
  IN ComputeTileShard([ComputeTileIndex(i, fine) EXCEPT ![dim] = @ \div ratio], coarse)

\* GetScatterGatherConfig, both directions.
ScatterGather(p, dim) ==
  LET i == SrcShard(p)
      j == DstShard(p)
      own(shard, s) == MakeTileBox(ComputeTileIndex(shard, s), s)
  IN IF src.dims[dim].sharding > dst.dims[dim].sharding
     THEN Plan(OfTile(src, p, {Op("src", i, PartOf(i, src, dst, dim), own(i, src))}),
               OfTile(dst, p, {Op("src", ComputeTileShard(x, src), j, MakeTileBox(x, src)) :
                                 x \in Slices(j, dst, src, dim)}))
     ELSE Plan(OfTile(src, p, {Op("src", i, ComputeTileShard(x, dst), MakeTileBox(x, dst)) :
                                 x \in Slices(i, src, dst, dim)}),
               OfTile(dst, p, {Op("src", PartOf(j, dst, src, dim), j, own(j, dst))}))

-----------------------------------------------------------------------------
(***************************************************************************)
(* DetermineShardingConfig and Reshard.                                    *)
(***************************************************************************)
FirstOf(S) == CHOOSE x \in S : \A y \in S : x <= y

\* Mutant: every replica sends the first slice.
SliceDimFirst(box, number, total, r) ==
  [box EXCEPT ![r] = Range1(box[r].lo, (box[r].hi - box[r].lo + 1) \div total)]

\* SliceDim, on the r-th dimension of a box.
SliceDim(box, number, total, r) ==
  LET extent == (box[r].hi - box[r].lo + 1) \div total
  IN [box EXCEPT ![r] = Range1(box[r].lo + extent * number, extent)]

\* DeterminePartialToReplicatedConfig: the replicas of a tile share the work of sending
\* it, cut along the first dimension that divides.
ReplicatedDim == FirstOf({d \in DOMAIN src.dims : Replicates(src.dims[d])})
Replication == src.dims[ReplicatedDim].sharding
SliceDims ==
  LET real == RealDims(src) IN
  {r \in DOMAIN real : src.dims[real[r]].size % (src.dims[real[r]].sharding * Replication) = 0}
PartialBox(i) ==
  SliceDim(ComputeTileBounds(i, src), ComputeTileIndex(i, src)[ReplicatedDim], Replication,
           FirstOf(SliceDims))

\* DetermineShardingConfigFullyReplicated.
FullyReplicated(p) ==
  IF src.devices.num < dst.devices.num THEN Broadcast(p)
  ELSE IF ~HasTile(dst, p) /\ SrcShard(p) >= dst.devices.num THEN Nothing
       ELSE PointToPoint(p)

DifferentDims == {d \in DOMAIN src.dims : src.dims[d] # dst.dims[d]}

\* The strategy is the same on every device; "unsupported" throws.
Strategy ==
  IF FullySharded(src) /\ IsReplicated(dst) THEN "gather_shards"
  ELSE IF FullySharded(dst) /\ IsReplicated(src) THEN "scatter_shards"
  ELSE IF IsReplicated(src) /\ IsReplicated(dst) THEN "fully_replicated"
  ELSE IF IsPartiallyReplicated(src) /\ IsReplicated(dst)
    THEN IF SliceDims = {} THEN "unsupported" ELSE "partial_to_replicated"
  ELSE IF Len(src.dims) # Len(dst.dims) THEN "unsupported"
  ELSE IF DifferentDims = {} THEN "point_to_point"
  ELSE IF Cardinality(DifferentDims) = 1 THEN "scatter_gather"
  ELSE "unsupported"

Reshard(p) ==
  CASE Strategy = "gather_shards" -> GatherShards(p, [i \in Shards(src) |-> ComputeTileBounds(i, src)])
    [] Strategy = "scatter_shards" -> ScatterShards(p)
    [] Strategy = "fully_replicated" -> FullyReplicated(p)
    [] Strategy = "partial_to_replicated" -> GatherShards(p, [i \in Shards(src) |-> PartialBox(i)])
    [] Strategy = "point_to_point" -> PointToPoint(p)
    [] Strategy = "scatter_gather" -> ScatterGather(p, FirstOf(DifferentDims))
    [] OTHER -> Nothing

-----------------------------------------------------------------------------
Init ==
  /\ \E c \in Cases :
       /\ src = c.src /\ dst = c.dst
       /\ held = [j \in Shards(c.dst) |-> {}]
  /\ issued = FALSE
  /\ sends = {} /\ receives = {} /\ undefined = {} /\ copied = {}

\* The devices run Reshard.  None looks at what another has done, so their order does
\* not matter.
Issue ==
  LET plan == [p \in Device |-> Reshard(p)] IN
  /\ ~issued /\ issued' = TRUE
  /\ sends' = UNION {plan[p].sends : p \in Device}
  /\ receives' = UNION {plan[p].receives : p \in Device}
  /\ undefined' = {p \in Device : plan[p].undefined}
  /\ UNCHANGED <<src, dst, copied, held>>

SrcTile(i) == Points(ComputeTileBounds(i, src))
DstTile(j) == Points(ComputeTileBounds(j, dst))

\* The shard has all it waits for: Store::ReadyAfter of its receives.
DstReady(j) == \A r \in receives : r.key.dst = j => r.key \in copied

\* The copies that can run: both sides have issued them and the sender has its data
\* (a forwarding view is taken after ReadyAfter).
Ready ==
  {op \in sends : /\ op.key \notin copied
                  /\ \E r \in receives : r.key = op.key
                  /\ op.key.from = "dst" => DstReady(op.key.src)}

\* The copy engine moves the elements of the box, right or wrong.
Deliver ==
  LET now == Ready
      has(key) == IF key.from = "src" THEN SrcTile(key.src) ELSE held[key.src]
      into(j) == {op \in now : op.key.dst = j}
  IN
  /\ now # {}
  /\ copied' = copied \cup {op.key : op \in now}
  /\ held' = [j \in Shards(dst) |->
                (held[j] \cup UNION {Points(op.box) : op \in into(j)})
                  \ UNION {Points(op.box) \ has(op.key) : op \in into(j)}]
  /\ UNCHANGED <<src, dst, issued, sends, receives, undefined>>

\* Nothing moves any more.
Settled == issued /\ Ready = {} /\ UNCHANGED vars

Next == Issue \/ Deliver \/ Settled
Spec == Init /\ [][Next]_vars

\* Every device calls Reshard, and Realm runs every copy that can run.
FairSpec == Spec /\ WF_vars(Issue) /\ WF_vars(Deliver)

-----------------------------------------------------------------------------
(***************************************************************************)
(* Properties.                                                             *)
(***************************************************************************)

\* The tiles of an array cover it, each element as often as the array is replicated
\* (ComputeTileBounds and ComputeTileIndex, for every permutation of the dimensions).
TilesPartition ==
  \A s \in {src, dst} :
    \A pt \in Points(Whole(s)) :
      Cardinality({i \in Shards(s) : pt \in Points(ComputeTileBounds(i, s))})
        = s.devices.num \div TotalSharding(s)

\* Two devices that never speak to each other agree: each send has exactly one receive
\* under its key and conversely, for the same box, and the box lies in both tiles.
SendsMatchReceives ==
  /\ {op.key : op \in sends} = {op.key : op \in receives}
  /\ \A op \in sends, r \in receives :
       r.key = op.key =>
         /\ r.box = op.box
         /\ r.key.dst \in Shards(dst) /\ Points(r.box) \subseteq DstTile(r.key.dst)
         /\ IF r.key.from = "src" THEN Points(r.box) \subseteq SrcTile(r.key.src)
            ELSE Points(r.box) \subseteq DstTile(r.key.src)

Throws == Strategy = "unsupported"

\* A target shard whose receives are all done holds every element of its tile, with
\* the value the source array has there (unless Reshard throws).
ReadyMeansFilled == Throws \/ \A j \in Shards(dst) : issued /\ DstReady(j) => held[j] = DstTile(j)

\* No rank of a tree of n is left out: the first leaf of a rank that has any is in the tree.
TreeComplete(n) ==
  \A rank \in 0 .. n - 2 :
    rank % 2 = 0 => rank + Descend(rank, NextPowerOf2(n)) \div 2 < n

\* The pairs of shardings that the code handles: of one array, and for each strategy
\* what it takes for granted.
Supported ==
  /\ Whole(src) = Whole(dst) /\ Tileable(src) /\ Tileable(dst)
  /\ Strategy = "scatter_shards" => dst.devices.num % src.devices.num = 0
  /\ Strategy = "fully_replicated" /\ src.devices.num >= dst.devices.num =>
       \A p \in Device : HasTile(src, p) /\ HasTile(dst, p) => SrcShard(p) < dst.devices.num
  /\ Strategy = "fully_replicated" /\ src.devices.num < dst.devices.num =>
       \A i \in Shards(src) :
         /\ i * LeavesPerRoot < dst.devices.num
         /\ TreeComplete(TreeSize(i))
  /\ Strategy = "scatter_gather" =>
       /\ RowMajor(src) /\ RowMajor(dst)
       /\ \A d \in DifferentDims :
            \/ src.dims[d].sharding % dst.dims[d].sharding = 0
            \/ dst.dims[d].sharding % src.dims[d].sharding = 0

\* Every send and every receive is completed and every target tile is filled: no device
\* waits for a copy that nobody issues, and no two forwarders for each other.
Completes ==
  <>[](\/ Throws
       \/ /\ issued
          /\ \A op \in sends \cup receives : op.key \in copied
          /\ \A j \in Shards(dst) : held[j] = DstTile(j))
=============================================================================
