------------------------- MODULE ReshardPlanProofs --------------------------
(***************************************************************************)
(* The plans of module ReshardPlan, for every pair of shardings that the   *)
(* code handles (Supported): what the devices issue without speaking to    *)
(* each other fits together, and a target shard that has all it waits for  *)
(* has all of its tile.                                                    *)
(*                                                                         *)
(* The proof has two halves.  SupportedFits is about the operators alone:  *)
(* per strategy, the sends of all devices are their receives (PlanFits).   *)
(* The rest is the invariant that a target shard holds exactly what was    *)
(* copied into it.                                                         *)
(***************************************************************************)
EXTENDS ReshardPlan, ShardingProofs

\* What all devices issue together.
PlanSends == UNION {Reshard(p).sends : p \in Device}
PlanReceives == UNION {Reshard(p).receives : p \in Device}

\* The two sides issue the same, a box per key, within the tiles of both ends, and all
\* of every target tile; nobody meets undefined behaviour.
Within(op) ==
  /\ op.key.from \in {"src", "dst"}
  /\ op.key.dst \in Shards(dst) /\ Points(op.box) \subseteq DstTile(op.key.dst)
  /\ IF op.key.from = "src"
     THEN op.key.src \in Shards(src) /\ Points(op.box) \subseteq SrcTile(op.key.src)
     ELSE op.key.src \in Shards(dst) /\ Points(op.box) \subseteq DstTile(op.key.src)
PlanFits ==
  /\ PlanSends = PlanReceives
  /\ \A a, b \in PlanSends : a.key = b.key => a.box = b.box
  /\ \A a \in PlanSends : Within(a)
  /\ Throws \/ \A j \in Shards(dst) : \A pt \in DstTile(j) :
                 \E a \in PlanSends : a.key.dst = j /\ pt \in Points(a.box)
  /\ \A p \in Device : ~Reshard(p).undefined

-----------------------------------------------------------------------------
\* The shards of a sharding are on consecutive devices.
LEMMA ShardNumbers ==
  ASSUME NEW s, ValidSharding(s)
  PROVE  /\ s.devices.num \in Nat \ {0} /\ s.devices.start \in Nat
         /\ Shards(s) \subseteq Nat /\ 0 \in Shards(s)
         /\ \A i \in Shards(s) : i < s.devices.num
         /\ \A i \in Nat : i < s.devices.num => i \in Shards(s)
<1>1. s.devices.num \in Nat \ {0} /\ s.devices.start \in Nat BY ShardsFromSteps DEF ValidSharding
<1> QED BY <1>1 DEF Shards

\* Every shard of either array is on one of the devices, and HasTile finds it.
LEMMA DeviceOf ==
  ASSUME ValidSharding(src), ValidSharding(dst)
  PROVE  /\ Device \subseteq Int
         /\ \A p \in Device : /\ HasTile(src, p) <=> SrcShard(p) \in Shards(src)
                              /\ HasTile(dst, p) <=> DstShard(p) \in Shards(dst)
         /\ \A i \in Shards(src) : \E p \in Device : HasTile(src, p) /\ SrcShard(p) = i
         /\ \A j \in Shards(dst) : \E p \in Device : HasTile(dst, p) /\ DstShard(p) = j
<1> DEFINE a == src.devices.start
           m == src.devices.num
           b == dst.devices.start
           n == dst.devices.num
<1>1. m \in Nat \ {0} /\ a \in Nat /\ n \in Nat \ {0} /\ b \in Nat BY ShardNumbers
<1>2. Device = 0 .. (IF a + m > b + n THEN a + m ELSE b + n) - 1 BY DEF Device
<1>3. \A p : HasTile(src, p) <=> p >= a /\ p < a + m BY DEF HasTile, Contains
<1>4. \A p : HasTile(dst, p) <=> p >= b /\ p < b + n BY DEF HasTile, Contains
<1>5. \A p : SrcShard(p) = p - a /\ DstShard(p) = p - b BY DEF SrcShard, DstShard, ShardId
<1>6. Shards(src) = 0 .. m - 1 /\ Shards(dst) = 0 .. n - 1 BY DEF Shards
<1> HIDE DEF a, b, m, n
<1>7. ASSUME NEW i \in Shards(src) PROVE \E p \in Device : HasTile(src, p) /\ SrcShard(p) = i
  <2>1. a + i \in Device /\ a + i >= a /\ a + i < a + m /\ (a + i) - a = i BY <1>1, <1>2, <1>6
  <2> QED BY <1>3, <1>5, <2>1
<1>8. ASSUME NEW j \in Shards(dst) PROVE \E p \in Device : HasTile(dst, p) /\ DstShard(p) = j
  <2>1. b + j \in Device /\ b + j >= b /\ b + j < b + n /\ (b + j) - b = j BY <1>1, <1>2, <1>6
  <2> QED BY <1>4, <1>5, <2>1
<1>9. ASSUME NEW p \in Device
      PROVE  /\ p \in Int
             /\ HasTile(src, p) <=> SrcShard(p) \in Shards(src)
             /\ HasTile(dst, p) <=> DstShard(p) \in Shards(dst)
  <2>1. p \in Int BY <1>1, <1>2
  <2>2. p >= a /\ p < a + m <=> p - a \in 0 .. m - 1 BY <1>1, <2>1
  <2>3. p >= b /\ p < b + n <=> p - b \in 0 .. n - 1 BY <1>1, <2>1
  <2> QED BY <1>3, <1>4, <1>5, <1>6, <2>1, <2>2, <2>3
<1> QED BY <1>7, <1>8, <1>9

\* If every device issues its own shards' part of x and y, all of x and y are issued.
LEMMA PlanOf ==
  ASSUME ValidSharding(src), ValidSharding(dst), NEW x, NEW y,
         \A p \in Device :
           Reshard(p) = Plan(OfTile(src, p, x[SrcShard(p)]), OfTile(dst, p, y[DstShard(p)]))
  PROVE  /\ PlanSends = UNION {x[i] : i \in Shards(src)}
         /\ PlanReceives = UNION {y[j] : j \in Shards(dst)}
         /\ \A p \in Device : ~Reshard(p).undefined
<1>1. \A p \in Device : /\ Reshard(p).sends = IF HasTile(src, p) THEN x[SrcShard(p)] ELSE {}
                        /\ Reshard(p).receives = IF HasTile(dst, p) THEN y[DstShard(p)] ELSE {}
                        /\ ~Reshard(p).undefined
  BY DEF Plan, OfTile
<1>2. PlanSends = UNION {x[i] : i \in Shards(src)}
  <2>1. ASSUME NEW op, op \in PlanSends PROVE \E i \in Shards(src) : op \in x[i]
    <3>1. PICK p \in Device : op \in Reshard(p).sends BY <2>1 DEF PlanSends
    <3>2. HasTile(src, p) /\ op \in x[SrcShard(p)] BY <1>1, <3>1
    <3> QED BY <3>2, DeviceOf
  <2>2. ASSUME NEW i \in Shards(src), NEW op \in x[i] PROVE op \in PlanSends
    <3>1. PICK p \in Device : HasTile(src, p) /\ SrcShard(p) = i BY DeviceOf
    <3>2. op \in Reshard(p).sends BY <1>1, <3>1
    <3> QED BY <3>2 DEF PlanSends
  <2> QED BY <2>1, <2>2
<1>3. PlanReceives = UNION {y[j] : j \in Shards(dst)}
  <2>1. ASSUME NEW op, op \in PlanReceives PROVE \E j \in Shards(dst) : op \in y[j]
    <3>1. PICK p \in Device : op \in Reshard(p).receives BY <2>1 DEF PlanReceives
    <3>2. HasTile(dst, p) /\ op \in y[DstShard(p)] BY <1>1, <3>1
    <3> QED BY <3>2, DeviceOf
  <2>2. ASSUME NEW j \in Shards(dst), NEW op \in y[j] PROVE op \in PlanReceives
    <3>1. PICK p \in Device : HasTile(dst, p) /\ DstShard(p) = j BY DeviceOf
    <3>2. op \in Reshard(p).receives BY <1>1, <3>1
    <3> QED BY <3>2 DEF PlanReceives
  <2> QED BY <2>1, <2>2
<1> QED BY <1>1, <1>2, <1>3

\* The fields of an op.
LEMMA OpFields ==
  ASSUME NEW from, NEW i, NEW j, NEW box
  PROVE  /\ Op(from, i, j, box).key = Key(from, i, j) /\ Op(from, i, j, box).box = box
         /\ Key(from, i, j).from = from /\ Key(from, i, j).src = i /\ Key(from, i, j).dst = j
BY DEF Op, Key

\* What a strategy says of the shardings.
LEMMA StrategyMeans ==
  /\ Strategy = "gather_shards" => FullySharded(src) /\ IsReplicated(dst)
  /\ Strategy = "scatter_shards" => FullySharded(dst) /\ IsReplicated(src)
  /\ Strategy = "fully_replicated" => IsReplicated(src) /\ IsReplicated(dst)
  /\ Strategy = "partial_to_replicated" =>
       IsPartiallyReplicated(src) /\ IsReplicated(dst) /\ SliceDims # {}
  /\ Strategy = "point_to_point" => Len(src.dims) = Len(dst.dims) /\ DifferentDims = {}
  /\ Strategy = "scatter_gather" =>
       /\ Len(src.dims) = Len(dst.dims) /\ Cardinality(DifferentDims) = 1
       /\ ~(IsReplicated(src) /\ IsReplicated(dst))
  /\ Strategy \in {"gather_shards", "scatter_shards", "fully_replicated", "partial_to_replicated",
                   "point_to_point", "scatter_gather", "unsupported"}
BY DEF Strategy

\* What each strategy makes a device issue.
LEMMA ReshardIs ==
  ASSUME NEW p
  PROVE  /\ Strategy = "gather_shards" =>
              Reshard(p) = GatherShards(p, [i \in Shards(src) |-> ComputeTileBounds(i, src)])
         /\ Strategy = "scatter_shards" => Reshard(p) = ScatterShards(p)
         /\ Strategy = "fully_replicated" => Reshard(p) = FullyReplicated(p)
         /\ Strategy = "partial_to_replicated" =>
              Reshard(p) = GatherShards(p, [i \in Shards(src) |-> PartialBox(i)])
         /\ Strategy = "point_to_point" => Reshard(p) = PointToPoint(p)
         /\ Strategy = "scatter_gather" => Reshard(p) = ScatterGather(p, FirstOf(DifferentDims))
         /\ Strategy = "unsupported" => Reshard(p) = Nothing
BY DEF Reshard

\* The two shardings are of one array and have equal tiles.
Comparable ==
  /\ ValidSharding(src) /\ ValidSharding(dst)
  /\ Whole(src) = Whole(dst) /\ Tileable(src) /\ Tileable(dst)

\* A tile is part of the array; a replicated array has all of itself in each.
LEMMA TileInWhole ==
  ASSUME Comparable
  PROVE  /\ \A i \in Shards(src) : SrcTile(i) \subseteq Points(Whole(dst))
         /\ \A j \in Shards(dst) : DstTile(j) \subseteq Points(Whole(src))
         /\ IsReplicated(src) => \A i \in Shards(src) : ComputeTileBounds(i, src) = Whole(src)
         /\ IsReplicated(dst) => \A j \in Shards(dst) : ComputeTileBounds(j, dst) = Whole(dst)
<1>1. Shards(src) \subseteq Nat /\ Shards(dst) \subseteq Nat BY ShardNumbers DEF Comparable
<1>2. \A i \in Shards(src) : SrcTile(i) \subseteq Points(Whole(src)) BY <1>1, TilePoint DEF Comparable, SrcTile
<1>3. \A j \in Shards(dst) : DstTile(j) \subseteq Points(Whole(dst)) BY <1>1, TilePoint DEF Comparable, DstTile
<1>4. IsReplicated(src) => \A i \in Shards(src) : ComputeTileBounds(i, src) = Whole(src)
  BY <1>1, ReplicatedTile DEF Comparable
<1>5. IsReplicated(dst) => \A j \in Shards(dst) : ComputeTileBounds(j, dst) = Whole(dst)
  BY <1>1, ReplicatedTile DEF Comparable
<1>6. Whole(src) = Whole(dst) BY DEF Comparable
<1> QED BY <1>2, <1>3, <1>4, <1>5, <1>6

\* Every source shard to every target shard: enough that the boxes are parts of the
\* source tiles and cover the array.
LEMMA GatherFits ==
  ASSUME Comparable, IsReplicated(dst), NEW box,
         \A i \in Shards(src) : Points(box[i]) \subseteq SrcTile(i),
         \A pt \in Points(Whole(src)) : \E i \in Shards(src) : pt \in Points(box[i]),
         \A p \in Device : Reshard(p) = GatherShards(p, box)
  PROVE  PlanFits
<1> DEFINE x == [i \in Shards(src) |-> {Op("src", i, j, box[i]) : j \in Shards(dst)}]
           y == [j \in Shards(dst) |-> {Op("src", i, j, box[i]) : i \in Shards(src)}]
<1>1. \A p \in Device :
        Reshard(p) = Plan(OfTile(src, p, x[SrcShard(p)]), OfTile(dst, p, y[DstShard(p)]))
  <2> SUFFICES ASSUME NEW p \in Device
               PROVE  Reshard(p) = Plan(OfTile(src, p, x[SrcShard(p)]), OfTile(dst, p, y[DstShard(p)]))
    OBVIOUS
  <2>1. HasTile(src, p) => SrcShard(p) \in Shards(src) BY DeviceOf DEF Comparable
  <2>2. HasTile(dst, p) => DstShard(p) \in Shards(dst) BY DeviceOf DEF Comparable
  <2>3. OfTile(src, p, {Op("src", SrcShard(p), j, box[SrcShard(p)]) : j \in Shards(dst)})
          = OfTile(src, p, x[SrcShard(p)])
    BY <2>1 DEF OfTile
  <2>4. OfTile(dst, p, {Op("src", i, DstShard(p), box[i]) : i \in Shards(src)})
          = OfTile(dst, p, y[DstShard(p)])
    BY <2>2 DEF OfTile
  <2> QED BY <2>3, <2>4 DEF GatherShards
<1>2. /\ PlanSends = UNION {x[i] : i \in Shards(src)} /\ PlanReceives = UNION {y[j] : j \in Shards(dst)}
      /\ \A p \in Device : ~Reshard(p).undefined
  <2> HIDE DEF x, y
  <2> QED BY <1>1, PlanOf DEF Comparable
<1> DEFINE All == {Op("src", i, j, box[i]) : i \in Shards(src), j \in Shards(dst)}
<1>3. PlanSends = All /\ PlanReceives = All BY <1>2
<1>4. \A a \in All : \E i \in Shards(src), j \in Shards(dst) :
                       a.key = Key("src", i, j) /\ a.box = box[i] /\ a.key.from = "src" /\ a.key.src = i /\ a.key.dst = j
  BY OpFields
<1>5. \A i \in Shards(src), j \in Shards(dst) : Op("src", i, j, box[i]) \in All OBVIOUS
<1> HIDE DEF All
<1>6. \A a, b \in All : a.key = b.key => a.box = b.box BY <1>4
<1>7. \A j \in Shards(dst) : DstTile(j) = Points(Whole(src)) BY TileInWhole DEF DstTile, Comparable
<1>8. \A i \in Shards(src) : SrcTile(i) \subseteq Points(Whole(src)) BY TileInWhole DEF Comparable
<1>9. \A a \in All : Within(a) BY <1>4, <1>7, <1>8 DEF Within
<1>10. ASSUME NEW j \in Shards(dst), NEW pt \in DstTile(j)
       PROVE  \E a \in All : a.key.dst = j /\ pt \in Points(a.box)
  <2>1. PICK i \in Shards(src) : pt \in Points(box[i]) BY <1>7
  <2>2. Op("src", i, j, box[i]).key.dst = j /\ Op("src", i, j, box[i]).box = box[i] BY OpFields
  <2> QED BY <1>5, <2>1, <2>2
<1> QED BY <1>2, <1>3, <1>6, <1>9, <1>10 DEF PlanFits

\* Every element of an array is in the tile of a shard.
LEMMA ShardWith ==
  ASSUME NEW s, ValidSharding(s), Tileable(s), NEW pt \in Points(Whole(s))
  PROVE  \E i \in Shards(s) : pt \in Points(ComputeTileBounds(i, s))
<1> DEFINE w == [d \in DOMAIN s.dims |-> 0]
<1>1. \A d \in DOMAIN s.dims : w[d] = 0 /\ s.dims[d].sharding \in Nat \ {0} BY ValidDims
<1> HIDE DEF w
<1>2. \A d \in DOMAIN s.dims \ RealSet(s) : w[d] \in 0 .. s.dims[d].sharding - 1 BY <1>1
<1> QED BY <1>2, ShardAt

\* ReshardGatherShards.
LEMMA GatherShardsFits ==
  ASSUME Comparable, Strategy = "gather_shards"
  PROVE  PlanFits
<1> DEFINE box == [i \in Shards(src) |-> ComputeTileBounds(i, src)]
<1>1. IsReplicated(dst) BY StrategyMeans
<1>2. \A i \in Shards(src) : Points(box[i]) \subseteq SrcTile(i) BY DEF SrcTile
<1>3. \A pt \in Points(Whole(src)) : \E i \in Shards(src) : pt \in Points(box[i]) BY ShardWith DEF Comparable
<1>4. \A p \in Device : Reshard(p) = GatherShards(p, box) BY ReshardIs
<1> HIDE DEF box
<1> QED BY <1>1, <1>2, <1>3, <1>4, GatherFits

\* ReshardPointToPoint, of equal shardings or of a replicated array: enough that the
\* source has at least the shards of the target, and sends those.
LEMMA PointToPointFits ==
  ASSUME Comparable, ~Throws,
         \A j \in Shards(dst) : /\ j \in Shards(src)
                                /\ ComputeTileBounds(j, src) = ComputeTileBounds(j, dst),
         \A p \in Device :
           Reshard(p) = Plan(OfTile(src, p, IF SrcShard(p) \in Shards(dst)
                                            THEN {Op("src", SrcShard(p), SrcShard(p), ComputeTileBounds(SrcShard(p), src))}
                                            ELSE {}),
                             OfTile(dst, p, {Op("src", DstShard(p), DstShard(p), ComputeTileBounds(DstShard(p), dst))}))
  PROVE  PlanFits
<1> DEFINE x == [i \in Shards(src) |-> IF i \in Shards(dst) THEN {Op("src", i, i, ComputeTileBounds(i, src))} ELSE {}]
           y == [j \in Shards(dst) |-> {Op("src", j, j, ComputeTileBounds(j, dst))}]
<1>1. \A p \in Device :
        Reshard(p) = Plan(OfTile(src, p, x[SrcShard(p)]), OfTile(dst, p, y[DstShard(p)]))
  <2> SUFFICES ASSUME NEW p \in Device
               PROVE  Reshard(p) = Plan(OfTile(src, p, x[SrcShard(p)]), OfTile(dst, p, y[DstShard(p)]))
    OBVIOUS
  <2>1. HasTile(src, p) => SrcShard(p) \in Shards(src) BY DeviceOf DEF Comparable
  <2>2. HasTile(dst, p) => DstShard(p) \in Shards(dst) BY DeviceOf DEF Comparable
  <2>3. OfTile(src, p, IF SrcShard(p) \in Shards(dst)
                       THEN {Op("src", SrcShard(p), SrcShard(p), ComputeTileBounds(SrcShard(p), src))}
                       ELSE {}) = OfTile(src, p, x[SrcShard(p)])
    BY <2>1 DEF OfTile
  <2>4. OfTile(dst, p, {Op("src", DstShard(p), DstShard(p), ComputeTileBounds(DstShard(p), dst))})
          = OfTile(dst, p, y[DstShard(p)])
    BY <2>2 DEF OfTile
  <2> QED BY <2>3, <2>4
<1>2. /\ PlanSends = UNION {x[i] : i \in Shards(src)} /\ PlanReceives = UNION {y[j] : j \in Shards(dst)}
      /\ \A p \in Device : ~Reshard(p).undefined
  <2> HIDE DEF x, y
  <2> QED BY <1>1, PlanOf DEF Comparable
<1> DEFINE All == {Op("src", j, j, ComputeTileBounds(j, dst)) : j \in Shards(dst)}
<1>3. PlanSends = All /\ PlanReceives = All BY <1>2
<1>4. \A a \in All : \E j \in Shards(dst) :
                       a.key = Key("src", j, j) /\ a.box = ComputeTileBounds(j, dst)
                       /\ a.key.from = "src" /\ a.key.src = j /\ a.key.dst = j
  BY OpFields
<1>5. \A j \in Shards(dst) : Op("src", j, j, ComputeTileBounds(j, dst)) \in All OBVIOUS
<1> HIDE DEF All
<1>6. \A a, b \in All : a.key = b.key => a.box = b.box BY <1>4
<1>7. \A a \in All : Within(a) BY <1>4 DEF Within, DstTile, SrcTile
<1>8. ASSUME NEW j \in Shards(dst), NEW pt \in DstTile(j)
       PROVE  \E a \in All : a.key.dst = j /\ pt \in Points(a.box)
  <2>1. /\ Op("src", j, j, ComputeTileBounds(j, dst)).key.dst = j
        /\ Op("src", j, j, ComputeTileBounds(j, dst)).box = ComputeTileBounds(j, dst)
    BY OpFields
  <2> QED BY <1>5, <2>1 DEF DstTile
<1> QED BY <1>2, <1>3, <1>6, <1>7, <1>8 DEF PlanFits

\* Of equal shardings.
LEMMA EqualShardingsFit ==
  ASSUME Comparable, Strategy = "point_to_point"
  PROVE  PlanFits
<1>1. Len(src.dims) = Len(dst.dims) /\ DifferentDims = {} BY StrategyMeans
<1>2. DOMAIN src.dims = DOMAIN dst.dims BY <1>1, ValidDims DEF Comparable
<1>3. src.dims \in Seq(DimType) /\ dst.dims \in Seq(DimType) BY DEF Comparable, ValidSharding
<1>4. \A d \in DOMAIN src.dims : src.dims[d] = dst.dims[d] BY <1>1 DEF DifferentDims
<1>5. src.dims = dst.dims BY <1>2, <1>3, <1>4
<1>6. src.devices.num = dst.devices.num BY <1>5 DEF Comparable, ValidSharding
<1>7. Shards(src) = Shards(dst) BY <1>6 DEF Shards
<1>8. \A j : ComputeTileIndex(j, src) = ComputeTileIndex(j, dst) BY <1>5 DEF ComputeTileIndex
<1>9. RealDims(src) = RealDims(dst) BY <1>5 DEF RealDims, InOrder
<1>10. \A j : ComputeTileBounds(j, src) = ComputeTileBounds(j, dst) BY <1>5, <1>8, <1>9 DEF ComputeTileBounds
<1>11. ASSUME NEW p \in Device
       PROVE  Reshard(p) = Plan(OfTile(src, p, IF SrcShard(p) \in Shards(dst)
                                            THEN {Op("src", SrcShard(p), SrcShard(p), ComputeTileBounds(SrcShard(p), src))}
                                            ELSE {}),
                             OfTile(dst, p, {Op("src", DstShard(p), DstShard(p), ComputeTileBounds(DstShard(p), dst))}))
  <2>1. HasTile(src, p) => SrcShard(p) \in Shards(dst) BY <1>7, DeviceOf DEF Comparable
  <2>2. Reshard(p) = PointToPoint(p) BY ReshardIs
  <2> QED BY <2>1, <2>2 DEF PointToPoint, OfTile
<1>12. ~Throws BY DEF Throws
<1> QED BY <1>7, <1>10, <1>11, <1>12, PointToPointFits

\* Of a replicated array, to no more shards than it has.
LEMMA ReplicasFit ==
  ASSUME Comparable, Strategy = "fully_replicated", src.devices.num >= dst.devices.num,
         \A p \in Device : HasTile(src, p) /\ HasTile(dst, p) => SrcShard(p) < dst.devices.num
  PROVE  PlanFits
<1>1. IsReplicated(src) /\ IsReplicated(dst) /\ ~Throws BY StrategyMeans DEF Throws
<1>2. \A j \in Shards(dst) : j \in Shards(src)
  <2>1. Shards(dst) \subseteq Nat /\ \A j \in Shards(dst) : j < dst.devices.num BY ShardNumbers DEF Comparable
  <2>2. src.devices.num \in Nat /\ dst.devices.num \in Nat BY ShardNumbers DEF Comparable
  <2>3. \A i \in Nat : i < src.devices.num => i \in Shards(src) BY ShardNumbers DEF Comparable
  <2> QED BY <2>1, <2>2, <2>3
<1>3. \A j \in Shards(dst) : ComputeTileBounds(j, src) = ComputeTileBounds(j, dst)
  BY <1>1, <1>2, TileInWhole DEF Comparable
<1>4. ASSUME NEW p \in Device
      PROVE  Reshard(p) = Plan(OfTile(src, p, IF SrcShard(p) \in Shards(dst)
                                            THEN {Op("src", SrcShard(p), SrcShard(p), ComputeTileBounds(SrcShard(p), src))}
                                            ELSE {}),
                             OfTile(dst, p, {Op("src", DstShard(p), DstShard(p), ComputeTileBounds(DstShard(p), dst))}))
  <2>1. Reshard(p) = IF ~HasTile(dst, p) /\ SrcShard(p) >= dst.devices.num THEN Nothing ELSE PointToPoint(p)
    <3>1. src.devices.num \in Nat /\ dst.devices.num \in Nat BY ShardNumbers DEF Comparable
    <3> QED BY <3>1, ReshardIs DEF FullyReplicated
  <2>2. HasTile(src, p) => SrcShard(p) \in Nat /\ (SrcShard(p) \in Shards(dst) <=> SrcShard(p) < dst.devices.num)
    <3>1. HasTile(src, p) => SrcShard(p) \in Shards(src) BY DeviceOf DEF Comparable
    <3>2. Shards(src) \subseteq Nat BY ShardNumbers DEF Comparable
    <3>3. \A i \in Nat : i < dst.devices.num <=> i \in Shards(dst) BY ShardNumbers DEF Comparable
    <3> QED BY <3>1, <3>2, <3>3
  <2>3. dst.devices.num \in Nat BY ShardNumbers DEF Comparable
  <2>4. CASE ~HasTile(dst, p) /\ SrcShard(p) >= dst.devices.num
    <3>1. Reshard(p) = Plan({}, {}) BY <2>1, <2>4 DEF Nothing, Plan
    <3>2. HasTile(src, p) => SrcShard(p) \notin Shards(dst) BY <2>2, <2>3, <2>4
    <3> QED BY <2>4, <3>1, <3>2 DEF OfTile
  <2>5. CASE ~(~HasTile(dst, p) /\ SrcShard(p) >= dst.devices.num)
    <3>1. HasTile(src, p) => SrcShard(p) < dst.devices.num BY <2>2, <2>3, <2>5
    <3>2. HasTile(src, p) => SrcShard(p) \in Shards(dst) BY <2>2, <3>1
    <3>3. Reshard(p) = PointToPoint(p) BY <2>1, <2>5
    <3> QED BY <3>2, <3>3 DEF PointToPoint, OfTile
  <2> QED BY <2>4, <2>5
<1> QED BY <1>1, <1>2, <1>3, <1>4, PointToPointFits

\* Enough for a plan with one receive per target shard, for all of its tile.
LEMMA OnePerTarget ==
  ASSUME Comparable, NEW f,
         \A j \in Shards(dst) : f[j] \in Shards(src) /\ DstTile(j) \subseteq SrcTile(f[j]),
         PlanSends = {Op("src", f[j], j, ComputeTileBounds(j, dst)) : j \in Shards(dst)},
         PlanReceives = {Op("src", f[j], j, ComputeTileBounds(j, dst)) : j \in Shards(dst)},
         \A p \in Device : ~Reshard(p).undefined
  PROVE  PlanFits
<1> DEFINE All == {Op("src", f[j], j, ComputeTileBounds(j, dst)) : j \in Shards(dst)}
<1>1. \A a \in All : \E j \in Shards(dst) :
                       a.key = Key("src", f[j], j) /\ a.box = ComputeTileBounds(j, dst)
                       /\ a.key.from = "src" /\ a.key.src = f[j] /\ a.key.dst = j
  BY OpFields
<1>2. \A j \in Shards(dst) : Op("src", f[j], j, ComputeTileBounds(j, dst)) \in All OBVIOUS
<1>3. PlanSends = All /\ PlanReceives = All OBVIOUS
<1> HIDE DEF All
<1>4. \A a, b \in All : a.key = b.key => a.box = b.box BY <1>1
<1>5. \A a \in All : Within(a) BY <1>1 DEF Within, DstTile
<1>6. ASSUME NEW j \in Shards(dst), NEW pt \in DstTile(j)
       PROVE  \E a \in All : a.key.dst = j /\ pt \in Points(a.box)
  <2>1. /\ Op("src", f[j], j, ComputeTileBounds(j, dst)).key.dst = j
        /\ Op("src", f[j], j, ComputeTileBounds(j, dst)).box = ComputeTileBounds(j, dst)
    BY OpFields
  <2> QED BY <1>2, <2>1 DEF DstTile
<1> QED BY <1>3, <1>4, <1>5, <1>6 DEF PlanFits

\* ReshardScatterShards, when the targets divide evenly among the replicas.
LEMMA ScatterShardsFits ==
  ASSUME Comparable, Strategy = "scatter_shards", dst.devices.num % src.devices.num = 0
  PROVE  PlanFits
<1> DEFINE m == src.devices.num
           n == dst.devices.num
           k == n \div m
           x == [i \in Shards(src) |-> {Op("src", i, j, ComputeTileBounds(j, dst)) : j \in k * i .. k * (i + 1) - 1}]
           y == [j \in Shards(dst) |-> {Op("src", j \div k, j, ComputeTileBounds(j, dst))}]
           f == [j \in Shards(dst) |-> j \div k]
<1>1. m \in Nat \ {0} /\ n \in Nat \ {0} BY ShardNumbers DEF Comparable
<1>2. Shards(src) = 0 .. m - 1 /\ Shards(dst) = 0 .. n - 1 BY DEF Shards
<1>3. k \in Nat /\ k > 0 /\ n = m * k
  <2>2. n % m = 0 OBVIOUS
  <2> HIDE DEF m, n
  <2>1. k \in Nat /\ n = m * k + (n % m) BY <1>1, DivNat
  <2> HIDE DEF k
  <2>3. n = m * k BY <1>1, <2>1, <2>2
  <2> QED BY <1>1, <2>1, <2>3
<1>4. ASSUME NEW p \in Device
      PROVE  Reshard(p) = Plan(OfTile(src, p, x[SrcShard(p)]), OfTile(dst, p, y[DstShard(p)]))
  <2>1. HasTile(src, p) => SrcShard(p) \in Shards(src) BY DeviceOf DEF Comparable
  <2>2. HasTile(dst, p) => DstShard(p) \in Shards(dst) BY DeviceOf DEF Comparable
  <2>3. Reshard(p) = ScatterShards(p) BY ReshardIs
  <2>4. k # 0 BY <1>3
  <2>5. ScatterShards(p) =
          Plan(OfTile(src, p, {Op("src", SrcShard(p), j, ComputeTileBounds(j, dst)) :
                                 j \in k * SrcShard(p) .. k * (SrcShard(p) + 1) - 1}),
               OfTile(dst, p, {Op("src", DstShard(p) \div k, DstShard(p), ComputeTileBounds(DstShard(p), dst))}))
    BY <2>4 DEF ScatterShards
  <2> HIDE DEF k
  <2>6. OfTile(src, p, {Op("src", SrcShard(p), j, ComputeTileBounds(j, dst)) :
                                 j \in k * SrcShard(p) .. k * (SrcShard(p) + 1) - 1}) = OfTile(src, p, x[SrcShard(p)])
    BY <2>1 DEF OfTile
  <2>7. OfTile(dst, p, {Op("src", DstShard(p) \div k, DstShard(p), ComputeTileBounds(DstShard(p), dst))})
          = OfTile(dst, p, y[DstShard(p)])
    BY <2>2 DEF OfTile
  <2> QED BY <2>3, <2>5, <2>6, <2>7
<1>5. /\ PlanSends = UNION {x[i] : i \in Shards(src)} /\ PlanReceives = UNION {y[j] : j \in Shards(dst)}
      /\ \A p \in Device : ~Reshard(p).undefined
  <2> HIDE DEF x, y
  <2> QED BY <1>4, PlanOf DEF Comparable
<1>6. ASSUME NEW i \in Shards(src), NEW j \in Int
      PROVE  j \in k * i .. k * (i + 1) - 1 <=> j \in Shards(dst) /\ i = j \div k
  <2> HIDE DEF k, m, n
  <2>1. i \in 0 .. m - 1 BY <1>2
  <2>2. j \in k * i .. k * i + k - 1 <=> j \in 0 .. m * k - 1 /\ i = j \div k BY <1>1, <1>3, <2>1, InRange
  <2>3. k * (i + 1) - 1 = k * i + k - 1 BY <1>1, <1>3, <2>1
  <2> QED BY <1>2, <1>3, <2>2, <2>3
<1>7. \A j \in Shards(dst) : j \in Int /\ j \div k \in Shards(src)
  <2> HIDE DEF k, m, n
  <2> QED BY <1>1, <1>2, <1>3, TileOf
<1> HIDE DEF k
<1>8. UNION {x[i] : i \in Shards(src)} = {Op("src", f[j], j, ComputeTileBounds(j, dst)) : j \in Shards(dst)}
  <2>1. ASSUME NEW i \in Shards(src), NEW op \in x[i]
        PROVE  \E j \in Shards(dst) : op = Op("src", f[j], j, ComputeTileBounds(j, dst))
    <3>1. PICK j \in k * i .. k * (i + 1) - 1 : op = Op("src", i, j, ComputeTileBounds(j, dst)) OBVIOUS
    <3>2. j \in Int
      <4>1. k * i \in Int /\ k * (i + 1) - 1 \in Int BY <1>1, <1>2, <1>3
      <4> QED BY <4>1
    <3>3. j \in Shards(dst) /\ i = j \div k BY <1>6, <3>2
    <3> QED BY <3>1, <3>3
  <2>2. ASSUME NEW j \in Shards(dst)
        PROVE  \E i \in Shards(src) : Op("src", f[j], j, ComputeTileBounds(j, dst)) \in x[i]
    <3>1. j \div k \in Shards(src) /\ j \in k * (j \div k) .. k * ((j \div k) + 1) - 1 BY <1>6, <1>7
    <3>2. f[j] = j \div k OBVIOUS
    <3> QED BY <3>1, <3>2
  <2> HIDE DEF f, x
  <2> QED BY <2>1, <2>2
<1>9. UNION {y[j] : j \in Shards(dst)} = {Op("src", f[j], j, ComputeTileBounds(j, dst)) : j \in Shards(dst)}
  OBVIOUS
<1>10. \A j \in Shards(dst) : f[j] \in Shards(src) /\ DstTile(j) \subseteq SrcTile(f[j])
  <2>1. \A i \in Shards(src) : SrcTile(i) = Points(Whole(src)) BY TileInWhole, StrategyMeans DEF SrcTile
  <2>2. \A j \in Shards(dst) : DstTile(j) \subseteq Points(Whole(src)) BY TileInWhole
  <2>3. \A j \in Shards(dst) : f[j] \in Shards(src) BY <1>7
  <2> QED BY <2>1, <2>2, <2>3
<1> HIDE DEF f, x, y
<1> QED BY <1>5, <1>8, <1>9, <1>10, OnePerTarget

\* FirstOf finds the least of a set of dimensions.
LEMMA FirstIn ==
  ASSUME NEW S, S \subseteq Nat, S # {}
  PROVE  FirstOf(S) \in S
<1>1. \E l \in S : \A j \in S : l <= j BY LeastNat
<1> QED BY <1>1 DEF FirstOf

\* A factor taken out of both sides.
LEMMA Cancel ==
  ASSUME NEW a \in Nat, a > 0, NEW b \in Int, NEW c \in Int, a * b = a * c
  PROVE  b = c
OBVIOUS

\* DeterminePartialToReplicatedConfig: the slices of a tile's replicas are the tile.
LEMMA PartialFits ==
  ASSUME Comparable, Strategy = "partial_to_replicated"
  PROVE  PlanFits
<1> DEFINE real == RealDims(src)
           rho == ReplicatedDim
           R == Replication
           r0 == FirstOf(SliceDims)
           d0 == real[r0]
           e == Extent(src.dims[d0])
           b == src.dims[d0].sharding
           q == e \div R
           index(i) == ComputeTileIndex(i, src)
           bounds(i) == ComputeTileBounds(i, src)
           box == [i \in Shards(src) |-> PartialBox(i)]
<1>1. ValidSharding(src) /\ Tileable(src) /\ IsReplicated(dst) /\ IsPartiallyReplicated(src) /\ SliceDims # {}
  BY StrategyMeans DEF Comparable
<1>2. Shards(src) \subseteq Nat BY <1>1, ShardNumbers
<1>3. rho \in DOMAIN src.dims /\ rho \notin RealSet(src) /\ R = src.dims[rho].sharding /\ R \in Nat /\ R > 0
  <2> DEFINE S == {d \in DOMAIN src.dims : Replicates(src.dims[d])}
  <2>1. S # {}
    <3> SUFFICES ASSUME S = {} PROVE FALSE OBVIOUS
    <3>1. RealSet(src) = DOMAIN src.dims BY DEF RealSet
    <3>2. TotalSharding(src) = src.devices.num BY <1>1, <3>1, TotalAt
    <3>3. src.devices.num \in Nat BY <1>1, ShardNumbers
    <3> QED BY <1>1, <3>2, <3>3 DEF IsPartiallyReplicated
  <2>2. S \subseteq Nat BY <1>1, ValidDims
  <2>3. rho \in S BY <2>1, <2>2, FirstIn DEF ReplicatedDim
  <2>4. src.dims[rho].sharding \in Nat \ {0} BY <1>1, <2>3, ValidDims
  <2> QED BY <2>3, <2>4 DEF RealSet, Replication
<1>4. r0 \in SliceDims /\ r0 \in DOMAIN real
  <2>1. SliceDims \subseteq DOMAIN real BY DEF SliceDims
  <2>2. DOMAIN real \subseteq Nat BY <1>1, RealAt
  <2>3. r0 \in SliceDims BY <1>1, <2>1, <2>2, FirstIn
  <2> QED BY <2>1, <2>3
<1>5. real # <<>> BY <1>1, <1>4, RealAt
<1>6. /\ d0 \in RealSet(src) /\ b \in Nat \ {0} /\ e \in Nat /\ e > 0 /\ src.dims[d0].size = b * e
      /\ \A i \in Shards(src) : index(i)[d0] \in Nat /\ index(i)[d0] \in 0 .. b - 1 /\ e * index(i)[d0] \in Nat
  <2>1. \A i \in Shards(src) : /\ index(i)[d0] \in 0 .. b - 1 /\ e * index(i)[d0] \in Nat /\ b \in Nat
    BY <1>1, <1>2, <1>4, RealDimAt
  <2>2. 0 \in Nat OBVIOUS
  <2>3. d0 \in RealSet(src) /\ b \in Nat \ {0} /\ e \in Nat /\ e > 0 /\ src.dims[d0].size = b * e
    BY <1>1, <1>4, <2>2, RealDimAt
  <2> QED BY <2>1, <2>3
<1>7. q \in Nat /\ q > 0 /\ e = R * q
  <2>1. src.dims[d0].size % (b * R) = 0 BY <1>4 DEF SliceDims
  <2> DEFINE z == (b * e) \div (b * R)
  <2>2. b * e \in Nat /\ b * R \in Nat /\ b * R > 0 BY <1>3, <1>6, Times
  <2>3. z \in Nat /\ b * e = (b * R) * z + ((b * e) % (b * R)) BY <2>2, DivNat
  <2>4. (b * e) % (b * R) = 0 BY <1>6, <2>1
  <2> HIDE DEF z, e, b, R
  <2>5. b * e = b * (R * z) BY <1>3, <1>6, <2>2, <2>3, <2>4
  <2>6. R * z \in Nat BY <1>3, <2>3, Times
  <2>7. e = R * z BY <1>6, <2>5, <2>6, Cancel
  <2>8. z > 0 BY <1>3, <1>6, <2>3, <2>7
  <2>9. e = R * z + 0 BY <1>6, <2>7
  <2>10. e \div R = z BY <1>3, <2>3, <2>9, DivUnique
  <2> QED BY <2>3, <2>7, <2>8, <2>10
<1>8. \A i \in Shards(src) : index(i)[rho] \in 0 .. R - 1 BY <1>1, <1>2, <1>3, IndexAt
<1>9. ASSUME NEW i \in Shards(src)
      PROVE  /\ DOMAIN bounds(i) = DOMAIN real /\ DOMAIN PartialBox(i) = DOMAIN real
             /\ \A r \in DOMAIN real : bounds(i)[r].lo \in Int /\ bounds(i)[r].hi \in Int
             /\ bounds(i)[r0].lo = e * index(i)[d0] /\ bounds(i)[r0].hi = e * index(i)[d0] + e - 1
             /\ \A r \in DOMAIN real \ {r0} : PartialBox(i)[r] = bounds(i)[r]
             /\ PartialBox(i)[r0].lo = e * index(i)[d0] + q * index(i)[rho]
             /\ PartialBox(i)[r0].hi = e * index(i)[d0] + q * index(i)[rho] + q - 1
  <2>1. bounds(i) = [r \in DOMAIN real |->
                       Range1(Extent(src.dims[real[r]]) * index(i)[real[r]], Extent(src.dims[real[r]]))]
    BY <1>1, <1>2, <1>5, BoundsAt
  <2>2. \A r \in DOMAIN real : Extent(src.dims[real[r]]) \in Nat /\ Extent(src.dims[real[r]]) * index(i)[real[r]] \in Nat
    BY <1>1, <1>2, RealDimAt
  <2>3. DOMAIN bounds(i) = DOMAIN real /\ \A r \in DOMAIN real : bounds(i)[r].lo \in Int /\ bounds(i)[r].hi \in Int
    BY <2>1, <2>2 DEF Range1
  <2>4. bounds(i)[r0].lo = e * index(i)[d0] /\ bounds(i)[r0].hi = e * index(i)[d0] + e - 1
    BY <1>4, <2>1 DEF Range1
  <2>5. PartialBox(i) = SliceDim(bounds(i), index(i)[rho], R, r0) BY DEF PartialBox
  <2>6. e * index(i)[d0] \in Nat /\ e \in Nat BY <1>6
  <2> HIDE DEF bounds, e, R, r0, rho, d0, index, real
  <2>7. bounds(i)[r0].hi - bounds(i)[r0].lo + 1 = e BY <2>4, <2>6
  <2>8. PartialBox(i) = [bounds(i) EXCEPT ![r0] = Range1(bounds(i)[r0].lo + q * index(i)[rho], q)]
    BY <2>5, <2>7 DEF SliceDim
  <2>9. /\ DOMAIN PartialBox(i) = DOMAIN real
        /\ \A r \in DOMAIN real \ {r0} : PartialBox(i)[r] = bounds(i)[r]
        /\ PartialBox(i)[r0] = Range1(e * index(i)[d0] + q * index(i)[rho], q)
    BY <1>4, <2>3, <2>4, <2>8
  <2> QED BY <2>3, <2>4, <2>9 DEF Range1
<1> HIDE DEF e, b, R, q, d0, r0, rho, index, bounds, real
<1>10. ASSUME NEW i \in Shards(src), NEW pt
       PROVE  pt \in Points(PartialBox(i)) <=>
                /\ pt \in Points(bounds(i))
                /\ pt[r0] \in e * index(i)[d0] + q * index(i)[rho] .. e * index(i)[d0] + q * index(i)[rho] + q - 1
  <2>1. /\ e * index(i)[d0] \in Nat /\ index(i)[rho] \in Nat /\ q * index(i)[rho] \in Nat
        /\ q * index(i)[rho] + q <= e
    <3>1. index(i)[rho] \in Nat /\ index(i)[rho] <= R - 1 BY <1>3, <1>8
    <3>2. q * index(i)[rho] <= q * (R - 1) BY <1>3, <1>7, <3>1
    <3>3. q * (R - 1) = R * q - q BY <1>3, <1>7
    <3>4. q * index(i)[rho] \in Nat BY <1>7, <3>1, Times
    <3> QED BY <1>3, <1>6, <1>7, <3>1, <3>2, <3>3, <3>4
  <2>2. pt \in Points(bounds(i)) <=> /\ pt \in [DOMAIN real -> Int]
                                     /\ \A r \in DOMAIN real : pt[r] \in bounds(i)[r].lo .. bounds(i)[r].hi
    BY <1>9, PointIn
  <2>3. \A r \in DOMAIN real : PartialBox(i)[r].lo \in Int /\ PartialBox(i)[r].hi \in Int
    <3>1. PartialBox(i)[r0].lo \in Int /\ PartialBox(i)[r0].hi \in Int BY <1>7, <1>9, <2>1
    <3> QED BY <1>9, <3>1
  <2>4. pt \in Points(PartialBox(i)) <=> /\ pt \in [DOMAIN real -> Int]
                                     /\ \A r \in DOMAIN real : pt[r] \in PartialBox(i)[r].lo .. PartialBox(i)[r].hi
    BY <1>9, <2>3, PointIn
  <2>5. ASSUME pt \in [DOMAIN real -> Int]
        PROVE  pt[r0] \in e * index(i)[d0] + q * index(i)[rho] .. e * index(i)[d0] + q * index(i)[rho] + q - 1
                 => pt[r0] \in e * index(i)[d0] .. e * index(i)[d0] + e - 1
    <3>1. pt[r0] \in Int BY <1>4, <2>5
    <3> DEFINE u == e * index(i)[d0]
               v == q * index(i)[rho]
    <3> HIDE DEF u, v
    <3>2. u \in Nat /\ v \in Nat /\ v + q <= e BY <2>1 DEF u, v
    <3>3. pt[r0] \in u + v .. u + v + q - 1 => pt[r0] \in u .. u + e - 1 BY <1>6, <1>7, <3>1, <3>2
    <3> QED BY <3>3 DEF u, v
  <2> QED BY <1>4, <1>9, <2>2, <2>4, <2>5
<1>11. \A i \in Shards(src) : box[i] = PartialBox(i) OBVIOUS
<1> HIDE DEF box
<1>12. \A i \in Shards(src) : Points(box[i]) \subseteq SrcTile(i) BY <1>10, <1>11 DEF SrcTile, bounds
<1>13. ASSUME NEW pt \in Points(Whole(src)) PROVE \E i \in Shards(src) : pt \in Points(box[i])
  <2> DEFINE t == pt[r0]
             c == (t % e) \div q
             w == [d \in DOMAIN src.dims |-> c]
  <2>1. t \in 0 .. b * e - 1 BY <1>1, <1>4, <1>5, <1>6, WholePoint DEF real, d0
  <2>2. t \in Nat BY <2>1
  <2>3. t % e \in 0 .. R * q - 1 BY <1>6, <1>7, <2>2, DivNat
  <2>4. c \in 0 .. R - 1 BY <1>3, <1>7, <2>3, TileOf
  <2>5. \A d \in DOMAIN src.dims \ RealSet(src) : d = rho BY <1>1, <1>3 DEF RealSet, Tileable
  <2>6. \A d \in DOMAIN src.dims \ RealSet(src) : w[d] \in 0 .. src.dims[d].sharding - 1 BY <1>3, <2>4, <2>5
  <2>7. w[rho] = c BY <1>3
  <2> HIDE DEF w
  <2>8. PICK i \in Shards(src) : /\ pt \in Points(ComputeTileBounds(i, src))
                                 /\ ComputeTileIndex(i, src)[rho] = w[rho]
    BY <1>1, <1>3, <2>6, ShardAt
  <2>9. index(i)[rho] = c BY <2>7, <2>8 DEF index
  <2>10. index(i)[d0] = t \div e BY <1>1, <1>2, <1>4, <2>8, TilePoint DEF index, d0, e, real
  <2>11. t = e * (t \div e) + (t % e) BY <1>6, <2>2, DivNat
  <2>12. t % e \in q * c .. q * c + q - 1
    <3> DEFINE y == t % e
    <3>1. y \in Int /\ y \in 0 .. R * q - 1 /\ c = y \div q BY <1>3, <1>7, <2>3
    <3> HIDE DEF y, c
    <3>2. y \in q * c .. q * c + q - 1 BY <1>3, <1>7, <2>4, <3>1, InRange
    <3> QED BY <3>2 DEF y
  <2>13. t \in e * index(i)[d0] + q * index(i)[rho] .. e * index(i)[d0] + q * index(i)[rho] + q - 1
    <3> DEFINE u == e * index(i)[d0]
               v == q * index(i)[rho]
               y == t % e
    <3>1. u \in Nat /\ v \in Nat /\ y \in Int /\ t = u + y /\ y \in v .. v + q - 1
      <4>1. u \in Nat BY <1>6
      <4>2. v \in Nat BY <1>7, <2>4, <2>9, Times
      <4>3. y \in Int BY <1>3, <1>7, <2>3
      <4> QED BY <2>9, <2>10, <2>11, <2>12, <4>1, <4>2, <4>3
    <3> HIDE DEF u, v, y
    <3>2. t \in u + v .. u + v + q - 1 BY <1>7, <2>2, <3>1
    <3> QED BY <3>2 DEF u, v
  <2>14. pt \in Points(PartialBox(i)) BY <1>10, <2>8, <2>13 DEF bounds
  <2> QED BY <1>11, <2>14
<1>14. \A p \in Device : Reshard(p) = GatherShards(p, box) BY ReshardIs DEF box
<1> QED BY <1>1, <1>12, <1>13, <1>14, GatherFits

-----------------------------------------------------------------------------
(***************************************************************************)
(* ReshardScatterGather.                                                   *)
(***************************************************************************)

\* F is C with dimension dim cut ratio times finer.
Finer(C, F, dim, ratio) ==
  /\ ValidSharding(C) /\ Tileable(C) /\ RowMajor(C)
  /\ ValidSharding(F) /\ Tileable(F) /\ RowMajor(F)
  /\ DOMAIN C.dims = DOMAIN F.dims /\ Len(C.dims) = Len(F.dims) /\ Len(C.dims) > 0
  /\ RealSet(C) # {} /\ RealSet(C) = RealSet(F) /\ Whole(C) = Whole(F)
  /\ dim \in DOMAIN C.dims /\ ratio \in Nat \ {0}
  /\ F.dims[dim].sharding = ratio * C.dims[dim].sharding
  /\ \A d \in DOMAIN C.dims : F.dims[d].size = C.dims[d].size
  /\ \A d \in DOMAIN C.dims \ {dim} : F.dims[d].sharding = C.dims[d].sharding

\* The real dimensions of a row-major sharding are its first ones.
LEMMA FirstReal ==
  ASSUME NEW s, ValidSharding(s), RowMajor(s)
  PROVE  \E k \in 0 .. Len(s.dims) : /\ RealSet(s) = 1 .. k /\ DOMAIN RealDims(s) = 1 .. k
                                     /\ \A r \in 1 .. k : RealDims(s)[r] = r
<1> DEFINE n == Len(s.dims)
<1>1. n \in Nat /\ DOMAIN s.dims = 1 .. n BY ValidDims
<1>2. \E k \in 0 .. n : RealSet(s) = 1 .. k
  <2>1. CASE n > 0 /\ Replicates(s.dims[n])
    <3>1. n - 1 \in 0 .. n BY <1>1, <2>1
    <3>2. RealSet(s) = 1 .. n - 1 BY <1>1, <2>1 DEF RealSet, RowMajor
    <3> QED BY <3>1, <3>2
  <2>2. CASE ~(n > 0 /\ Replicates(s.dims[n]))
    <3>1. RealSet(s) = 1 .. n BY <1>1, <2>2 DEF RealSet, RowMajor
    <3>2. n \in 0 .. n BY <1>1
    <3> QED BY <3>1, <3>2
  <2> QED BY <2>1, <2>2
<1> QED BY <1>2, RealAt

\* MakeTileBox of an index is the box of its shard.
LEMMA TileBox ==
  ASSUME NEW s, ValidSharding(s), Tileable(s), RowMajor(s), RealSet(s) # {},
         NEW i \in Nat, NEW x, \A d \in DOMAIN s.dims : x[d] = ComputeTileIndex(i, s)[d]
  PROVE  MakeTileBox(x, s) = ComputeTileBounds(i, s)
<1>1. PICK k \in 0 .. Len(s.dims) : /\ RealSet(s) = 1 .. k /\ DOMAIN RealDims(s) = 1 .. k
                                    /\ \A r \in 1 .. k : RealDims(s)[r] = r
  BY FirstReal
<1>2. RealDims(s) # <<>> BY RealAt
<1>3. {d \in DOMAIN s.dims : Extent(s.dims[d]) > 0} = {d \in DOMAIN s.dims : ~Replicates(s.dims[d])}
  <2>1. \A d \in RealSet(s) : Extent(s.dims[d]) > 0 BY ExtentAt
  <2>2. ASSUME NEW d \in DOMAIN s.dims, Replicates(s.dims[d]) PROVE Extent(s.dims[d]) = 0
    <3>1. s.dims[d].size = 1 /\ s.dims[d].sharding > 1 /\ s.dims[d].sharding \in Nat
      BY <2>2, ValidDims DEF Replicates
    <3>2. 1 \div s.dims[d].sharding = 0 BY <3>1, DivNat
    <3> QED BY <3>1, <3>2 DEF Extent
  <2> QED BY <2>1, <2>2 DEF RealSet
<1>4. InOrder({d \in DOMAIN s.dims : Extent(s.dims[d]) > 0}, s) = RealDims(s) BY <1>3 DEF RealDims
<1>5. MakeTileBox(x, s) = [r \in DOMAIN RealDims(s) |->
                             Range1(x[r] * Extent(s.dims[RealDims(s)[r]]), Extent(s.dims[RealDims(s)[r]]))]
  BY <1>4 DEF MakeTileBox
<1>6. ComputeTileBounds(i, s) =
        [r \in DOMAIN RealDims(s) |->
           Range1(Extent(s.dims[RealDims(s)[r]]) * ComputeTileIndex(i, s)[RealDims(s)[r]],
                  Extent(s.dims[RealDims(s)[r]]))]
  BY <1>2, BoundsAt
<1>7. ASSUME NEW r \in DOMAIN RealDims(s)
      PROVE  x[r] * Extent(s.dims[RealDims(s)[r]])
               = Extent(s.dims[RealDims(s)[r]]) * ComputeTileIndex(i, s)[RealDims(s)[r]]
  <2>1. RealDims(s)[r] = r /\ r \in DOMAIN s.dims BY <1>1, RealDimAt
  <2>2. Extent(s.dims[r]) \in Nat /\ s.dims[r].sharding \in Nat /\ ComputeTileIndex(i, s)[r] \in 0 .. s.dims[r].sharding - 1
    BY <2>1, RealDimAt
  <2>3. x[r] \in Nat /\ x[r] = ComputeTileIndex(i, s)[r] BY <2>1, <2>2
  <2> QED BY <2>1, <2>2, <2>3
<1> QED BY <1>5, <1>6, <1>7

\* The index of a shard as a function.
LEMMA IndexType ==
  ASSUME NEW s, ValidSharding(s), NEW i \in Nat
  PROVE  /\ ComputeTileIndex(i, s) \in [DOMAIN s.dims -> Nat]
         /\ \A d \in DOMAIN s.dims : ComputeTileIndex(i, s)[d] \in 0 .. s.dims[d].sharding - 1
<1>1. \A d \in DOMAIN s.dims : s.dims[d].sharding \in Nat BY ValidDims
<1>2. \A d \in DOMAIN s.dims : ComputeTileIndex(i, s)[d] \in 0 .. s.dims[d].sharding - 1 BY IndexAt
<1>3. \A d \in DOMAIN s.dims : ComputeTileIndex(i, s)[d] \in Nat BY <1>1, <1>2
<1>4. ComputeTileIndex(i, s) = [d \in DOMAIN s.dims |-> ComputeTileIndex(i, s)[d]] BY DEF ComputeTileIndex
<1> QED BY <1>2, <1>3, <1>4

\* The ratio as the code computes it.
LEMMA RatioIs ==
  ASSUME NEW C, NEW F, NEW dim, NEW ratio, Finer(C, F, dim, ratio)
  PROVE  /\ F.dims[dim].sharding \div C.dims[dim].sharding = ratio
         /\ C.dims[dim].sharding \in Nat \ {0} /\ F.dims[dim].sharding \in Nat \ {0}
<1> DEFINE c == C.dims[dim].sharding
<1>1. c \in Nat \ {0} /\ ratio \in Nat \ {0} /\ F.dims[dim].sharding \in Nat \ {0} BY ValidDims DEF Finer
<1>2. F.dims[dim].sharding = ratio * c BY DEF Finer
<1> HIDE DEF c
<1>3. ratio * c = c * ratio + 0 BY <1>1
<1>4. (c * ratio + 0) \div c = ratio BY <1>1, DivUnique
<1> QED BY <1>1, <1>2, <1>3, <1>4 DEF c

\* PartOf: the coarse shard has the fine one's index, divided in dimension dim.
LEMMA PartAt ==
  ASSUME NEW C, NEW F, NEW dim, NEW ratio, Finer(C, F, dim, ratio), NEW j \in Shards(F)
  PROVE  /\ PartOf(j, F, C, dim) \in Shards(C)
         /\ ComputeTileIndex(PartOf(j, F, C, dim), C)[dim] = ComputeTileIndex(j, F)[dim] \div ratio
         /\ \A d \in DOMAIN C.dims \ {dim} :
              ComputeTileIndex(PartOf(j, F, C, dim), C)[d] = ComputeTileIndex(j, F)[d]
<1> DEFINE u == ComputeTileIndex(j, F)
           x == [u EXCEPT ![dim] = u[dim] \div ratio]
<1>1. j \in Nat BY ShardNumbers DEF Finer
<1>2. u \in [DOMAIN C.dims -> Nat] /\ \A d \in DOMAIN C.dims : u[d] \in 0 .. F.dims[d].sharding - 1
  BY <1>1, IndexType DEF Finer
<1>3. PartOf(j, F, C, dim) = ComputeTileShard(x, C) BY RatioIs DEF PartOf
<1>4. dim \in DOMAIN C.dims /\ ratio \in Nat \ {0} BY DEF Finer
<1> HIDE DEF u
<1>5. u[dim] \div ratio \in 0 .. C.dims[dim].sharding - 1
  <2>1. u[dim] \in 0 .. C.dims[dim].sharding * ratio - 1
    <3>1. ratio * C.dims[dim].sharding = C.dims[dim].sharding * ratio BY <1>4, RatioIs
    <3>2. F.dims[dim].sharding = ratio * C.dims[dim].sharding BY DEF Finer
    <3> QED BY <1>2, <1>4, <3>1, <3>2
  <2> QED BY <1>4, <2>1, RatioIs, TileOf
<1>6. u[dim] \div ratio \in Nat BY <1>5, RatioIs
<1>7. x \in [DOMAIN C.dims -> Nat] /\ x[dim] = u[dim] \div ratio /\ \A d \in DOMAIN C.dims \ {dim} : x[d] = u[d]
  BY <1>2, <1>4, <1>6
<1> HIDE DEF x
<1>8. \A d \in DOMAIN C.dims : x[d] \in 0 .. C.dims[d].sharding - 1
  <2>1. \A d \in DOMAIN C.dims \ {dim} : F.dims[d].sharding = C.dims[d].sharding BY DEF Finer
  <2> QED BY <1>2, <1>5, <1>7, <2>1
<1>9. \A d \in DOMAIN C.dims : C.dims[d].permutation = d - 1 BY DEF Finer, RowMajor
<1>10. /\ ComputeTileShard(x, C) \in Shards(C)
       /\ \A d \in DOMAIN C.dims : ComputeTileIndex(ComputeTileShard(x, C), C)[d] = x[d]
  BY <1>7, <1>8, <1>9, ShardOfIndex DEF Finer
<1> QED BY <1>3, <1>4, <1>7, <1>10 DEF u

\* Slices: the fine shards of a coarse one are those that are part of it.
LEMMA SliceAt ==
  ASSUME NEW C, NEW F, NEW dim, NEW ratio, Finer(C, F, dim, ratio), NEW i \in Shards(C),
         NEW x \in Slices(i, C, F, dim)
  PROVE  /\ ComputeTileShard(x, F) \in Shards(F)
         /\ PartOf(ComputeTileShard(x, F), F, C, dim) = i
         /\ MakeTileBox(x, F) = ComputeTileBounds(ComputeTileShard(x, F), F)
<1> DEFINE u == ComputeTileIndex(i, C)
           c == C.dims[dim].sharding
           j == ComputeTileShard(x, F)
<1>1. i \in Nat BY ShardNumbers DEF Finer
<1>2. u \in [DOMAIN C.dims -> Nat] /\ \A d \in DOMAIN C.dims : u[d] \in 0 .. C.dims[d].sharding - 1
  BY <1>1, IndexType DEF Finer
<1>3. dim \in DOMAIN C.dims /\ ratio \in Nat \ {0} /\ c \in Nat \ {0} BY RatioIs DEF Finer
<1>4. PICK slice \in 0 .. ratio - 1 : x = [u EXCEPT ![dim] = u[dim] * ratio + slice]
  BY RatioIs DEF Slices
<1> HIDE DEF u
<1>5. u[dim] * ratio + slice \in 0 .. c * ratio - 1 /\ u[dim] = (u[dim] * ratio + slice) \div ratio
  <2>1. u[dim] \in 0 .. c - 1 BY <1>2, <1>3
  <2> DEFINE z == u[dim] * ratio + slice
  <2>2. ratio * u[dim] = u[dim] * ratio /\ u[dim] * ratio \in Nat BY <1>3, <2>1
  <2>3. z \in Int /\ z \in ratio * u[dim] .. ratio * u[dim] + ratio - 1 BY <1>3, <2>1, <2>2
  <2> HIDE DEF z, c
  <2>4. ratio \in Nat /\ ratio > 0 /\ c \in Nat BY <1>3
  <2>5. z \in 0 .. c * ratio - 1 /\ u[dim] = z \div ratio BY <2>1, <2>3, <2>4, InRange
  <2> QED BY <2>5 DEF z
<1>6. u[dim] * ratio + slice \in Nat BY <1>3, <1>5
<1>7. x \in [DOMAIN F.dims -> Nat] /\ x[dim] = u[dim] * ratio + slice /\ \A d \in DOMAIN C.dims \ {dim} : x[d] = u[d]
  <2>1. DOMAIN F.dims = DOMAIN C.dims BY DEF Finer
  <2> QED BY <1>2, <1>3, <1>4, <1>6, <2>1
<1>8. \A d \in DOMAIN F.dims : x[d] \in 0 .. F.dims[d].sharding - 1
  <2>1. \A d \in DOMAIN C.dims \ {dim} : F.dims[d].sharding = C.dims[d].sharding BY DEF Finer
  <2>2. F.dims[dim].sharding = c * ratio
    <3>1. F.dims[dim].sharding = ratio * c BY DEF Finer
    <3> HIDE DEF c
    <3> QED BY <1>3, <3>1
  <2>3. DOMAIN F.dims = DOMAIN C.dims BY DEF Finer
  <2> QED BY <1>2, <1>5, <1>7, <2>1, <2>2, <2>3
<1>9. \A d \in DOMAIN F.dims : F.dims[d].permutation = d - 1 BY DEF Finer, RowMajor
<1>10. j \in Shards(F) /\ \A d \in DOMAIN F.dims : ComputeTileIndex(j, F)[d] = x[d]
  BY <1>7, <1>8, <1>9, ShardOfIndex DEF Finer
<1> HIDE DEF j
<1>11. PartOf(j, F, C, dim) = i
  <2> DEFINE k == PartOf(j, F, C, dim)
  <2>1. /\ k \in Shards(C) /\ ComputeTileIndex(k, C)[dim] = ComputeTileIndex(j, F)[dim] \div ratio
        /\ \A d \in DOMAIN C.dims \ {dim} : ComputeTileIndex(k, C)[d] = ComputeTileIndex(j, F)[d]
    BY <1>10, PartAt
  <2> HIDE DEF k
  <2>2. DOMAIN F.dims = DOMAIN C.dims /\ ValidSharding(C) BY DEF Finer
  <2>3. \A d \in DOMAIN C.dims : ComputeTileIndex(k, C)[d] = u[d] BY <1>3, <1>5, <1>7, <1>10, <2>1, <2>2
  <2>4. k = i BY <2>1, <2>2, <2>3, IndexInjective DEF u
  <2> QED BY <2>4 DEF k
<1>12. MakeTileBox(x, F) = ComputeTileBounds(j, F)
  <2>1. j \in Nat BY <1>10, ShardNumbers DEF Finer
  <2>2. RealSet(F) # {} /\ ValidSharding(F) /\ Tileable(F) /\ RowMajor(F) BY DEF Finer
  <2> QED BY <1>10, <2>1, <2>2, TileBox
<1> QED BY <1>10, <1>11, <1>12 DEF j

\* A fine shard is one of the slices of the coarse shard it is part of.
LEMMA PartHasSlice ==
  ASSUME NEW C, NEW F, NEW dim, NEW ratio, Finer(C, F, dim, ratio), NEW j \in Shards(F)
  PROVE  /\ ComputeTileIndex(j, F) \in Slices(PartOf(j, F, C, dim), C, F, dim)
         /\ ComputeTileShard(ComputeTileIndex(j, F), F) = j
         /\ MakeTileBox(ComputeTileIndex(j, F), F) = ComputeTileBounds(j, F)
<1> DEFINE u == ComputeTileIndex(j, F)
           i == PartOf(j, F, C, dim)
           v == ComputeTileIndex(i, C)
<1>1. j \in Nat /\ ValidSharding(F) /\ ValidSharding(C) /\ DOMAIN F.dims = DOMAIN C.dims BY ShardNumbers DEF Finer
<1>2. u \in [DOMAIN C.dims -> Nat] BY <1>1, IndexType
<1>3. i \in Shards(C) /\ v[dim] = u[dim] \div ratio /\ \A d \in DOMAIN C.dims \ {dim} : v[d] = u[d] BY PartAt
<1>4. i \in Nat BY <1>1, <1>3, ShardNumbers
<1>5. v \in [DOMAIN C.dims -> Nat] BY <1>1, <1>4, IndexType
<1>6. dim \in DOMAIN C.dims /\ ratio \in Nat \ {0} BY DEF Finer
<1>7. Slices(i, C, F, dim) = {[v EXCEPT ![dim] = v[dim] * ratio + slice] : slice \in 0 .. ratio - 1} BY RatioIs DEF Slices
<1> HIDE DEF u, v, i
<1>8. u[dim] % ratio \in 0 .. ratio - 1 /\ u[dim] = v[dim] * ratio + (u[dim] % ratio)
  <2>1. u[dim] \in Nat /\ v[dim] \in Nat BY <1>2, <1>5, <1>6
  <2>2. u[dim] % ratio \in 0 .. ratio - 1 /\ u[dim] = ratio * (u[dim] \div ratio) + (u[dim] % ratio) BY <1>6, <2>1, DivNat
  <2>3. ratio * v[dim] = v[dim] * ratio BY <1>6, <2>1
  <2> QED BY <1>3, <2>2, <2>3
<1>9. u = [v EXCEPT ![dim] = v[dim] * ratio + (u[dim] % ratio)] BY <1>2, <1>3, <1>5, <1>6, <1>8
<1>10. u \in Slices(i, C, F, dim) BY <1>7, <1>8, <1>9
<1>11. ComputeTileShard(u, F) = j
  <2>1. \A d \in DOMAIN F.dims : F.dims[d].permutation = d - 1 BY DEF Finer, RowMajor
  <2>2. Len(F.dims) > 0 /\ u \in [DOMAIN F.dims -> Nat] /\ \A d \in DOMAIN F.dims : u[d] = ComputeTileIndex(j, F)[d]
    BY <1>1, <1>2 DEF Finer, u
  <2> QED BY <1>1, <2>1, <2>2, IndexOfShard
<1>12. MakeTileBox(u, F) = ComputeTileBounds(j, F)
  <2>1. RealSet(F) # {} /\ Tileable(F) /\ RowMajor(F) BY DEF Finer
  <2> QED BY <1>1, <2>1, TileBox DEF u
<1> QED BY <1>10, <1>11, <1>12 DEF u, i

\* The extents of the tiles in the dimension that is cut finer.
LEMMA FinerExtents ==
  ASSUME NEW C, NEW F, NEW dim, NEW ratio, Finer(C, F, dim, ratio), NEW d \in RealSet(C)
  PROVE  /\ Extent(F.dims[d]) \in Nat /\ Extent(F.dims[d]) > 0 /\ d \in DOMAIN C.dims
         /\ F.dims[d].size = C.dims[d].size
         /\ F.dims[d].sharding \in Nat /\ F.dims[d].size = F.dims[d].sharding * Extent(F.dims[d])
         /\ d # dim => Extent(C.dims[d]) = Extent(F.dims[d])
         /\ d = dim => Extent(C.dims[d]) = ratio * Extent(F.dims[d])
<1> DEFINE c == C.dims[d].sharding
           f == F.dims[d].sharding
           ec == Extent(C.dims[d])
           ef == Extent(F.dims[d])
           z == C.dims[d].size
<1>1. d \in DOMAIN C.dims /\ c \in Nat /\ c > 0 /\ ec \in Nat /\ z = c * ec BY ExtentAt DEF Finer
<1>2. f \in Nat /\ f > 0 /\ ef \in Nat /\ ef > 0 /\ F.dims[d].size = f * ef BY ExtentAt DEF Finer
<1>3. F.dims[d].size = z BY <1>1 DEF Finer
<1>4. ratio \in Nat \ {0} /\ (d = dim => f = ratio * c) /\ (d # dim => f = c) BY <1>1 DEF Finer
<1> HIDE DEF c, f, ec, ef, z
<1>5. d # dim => ec = ef
  <2> SUFFICES ASSUME d # dim PROVE ec = ef OBVIOUS
  <2>1. c * ec = c * ef BY <1>1, <1>2, <1>3, <1>4
  <2> QED BY <1>1, <1>2, <2>1, Cancel
<1>6. d = dim => ec = ratio * ef
  <2> SUFFICES ASSUME d = dim PROVE ec = ratio * ef OBVIOUS
  <2>1. ratio * ef \in Nat BY <1>2, <1>4, Times
  <2>2. c * ec = (ratio * c) * ef BY <1>1, <1>2, <1>3, <1>4
  <2>3. (ratio * c) * ef = c * (ratio * ef) BY <1>1, <1>2, <1>4
  <2> QED BY <1>1, <2>1, <2>2, <2>3, Cancel
<1> QED BY <1>1, <1>2, <1>3, <1>5, <1>6 DEF c, f, ec, ef, z

\* The tile of a fine shard lies in that of the coarse one it is part of.
LEMMA FineInCoarse ==
  ASSUME NEW C, NEW F, NEW dim, NEW ratio, Finer(C, F, dim, ratio), NEW j \in Shards(F)
  PROVE  Points(ComputeTileBounds(j, F)) \subseteq Points(ComputeTileBounds(PartOf(j, F, C, dim), C))
<1> DEFINE i == PartOf(j, F, C, dim)
<1>1. /\ ValidSharding(F) /\ ValidSharding(C) /\ Tileable(F) /\ Tileable(C) /\ RealSet(C) = RealSet(F)
      /\ Whole(C) = Whole(F) /\ RowMajor(C) /\ RowMajor(F) /\ ratio \in Nat \ {0}
  BY DEF Finer
<1>2. /\ i \in Shards(C) /\ ComputeTileIndex(i, C)[dim] = ComputeTileIndex(j, F)[dim] \div ratio
      /\ \A d \in DOMAIN C.dims \ {dim} : ComputeTileIndex(i, C)[d] = ComputeTileIndex(j, F)[d]
  BY PartAt
<1> HIDE DEF i
<1>3. i \in Nat /\ j \in Nat BY <1>1, <1>2, ShardNumbers
<1> SUFFICES ASSUME NEW pt \in Points(ComputeTileBounds(j, F)) PROVE pt \in Points(ComputeTileBounds(i, C))
  BY DEF i
<1>4. pt \in Points(Whole(F)) /\ \A r \in DOMAIN RealDims(F) :
        ComputeTileIndex(j, F)[RealDims(F)[r]] = pt[r] \div Extent(F.dims[RealDims(F)[r]])
  BY <1>1, <1>3, TilePoint
<1>5. PICK k \in 0 .. Len(F.dims) : RealSet(F) = 1 .. k /\ DOMAIN RealDims(F) = 1 .. k /\ \A r \in 1 .. k : RealDims(F)[r] = r
  BY <1>1, FirstReal
<1>6. DOMAIN RealDims(C) = 1 .. k /\ \A r \in 1 .. k : RealDims(C)[r] = r
  <2>1. PICK l \in 0 .. Len(C.dims) : RealSet(C) = 1 .. l /\ DOMAIN RealDims(C) = 1 .. l /\ \A r \in 1 .. l : RealDims(C)[r] = r
    BY <1>1, FirstReal
  <2>2. 1 .. l = 1 .. k BY <1>1, <1>5, <2>1
  <2> QED BY <2>1, <2>2
<1>7. RealDims(F) # <<>> BY <1>1, RealAt DEF Finer
<1>8. ASSUME NEW r \in 1 .. k PROVE ComputeTileIndex(i, C)[r] = pt[r] \div Extent(C.dims[r])
  <2>1. r \in RealSet(C) BY <1>1, <1>5
  <2> DEFINE e == Extent(F.dims[r])
  <2>2. /\ e \in Nat /\ e > 0 /\ r \in DOMAIN C.dims
        /\ (r # dim => Extent(C.dims[r]) = e) /\ (r = dim => Extent(C.dims[r]) = ratio * e)
        /\ F.dims[r].size \in Nat
    <3>1. F.dims[r].size \in Nat BY <1>1, <2>1, ExtentAt
    <3> QED BY <2>1, <3>1, FinerExtents
  <2>3. ComputeTileIndex(j, F)[r] = pt[r] \div e BY <1>4, <1>5
  <2>4. pt[r] \in Nat
    <3>1. pt[r] \in 0 .. F.dims[r].size - 1 BY <1>1, <1>4, <1>5, <1>7, WholePoint
    <3> QED BY <2>2, <3>1
  <2> HIDE DEF e
  <2>5. CASE r # dim BY <1>2, <2>2, <2>3, <2>5
  <2>6. CASE r = dim
    <3>1. ratio \in Nat /\ ratio > 0 BY <1>1
    <3>2. (pt[r] \div e) \div ratio = pt[r] \div (ratio * e) BY <2>2, <2>4, <3>1, DivDiv
    <3> QED BY <1>2, <2>2, <2>3, <2>6, <3>2
  <2> QED BY <2>5, <2>6
<1>9. \A r \in DOMAIN RealDims(C) :
        ComputeTileIndex(i, C)[RealDims(C)[r]] = pt[r] \div Extent(C.dims[RealDims(C)[r]])
  BY <1>6, <1>8
<1> QED BY <1>1, <1>3, <1>4, <1>9, TilePoint

\* The tiles of the fine shards that are part of a coarse one cover its tile.
LEMMA FineCoverCoarse ==
  ASSUME NEW C, NEW F, NEW dim, NEW ratio, Finer(C, F, dim, ratio), NEW i \in Shards(C),
         NEW pt \in Points(ComputeTileBounds(i, C))
  PROVE  \E j \in Shards(F) : PartOf(j, F, C, dim) = i /\ pt \in Points(ComputeTileBounds(j, F))
<1> DEFINE v == ComputeTileIndex(i, C)
           new == IF dim \in RealSet(C) THEN pt[dim] \div Extent(F.dims[dim]) ELSE ratio * v[dim]
           x == [d \in DOMAIN F.dims |-> IF d = dim THEN new ELSE v[d]]
<1>1. /\ ValidSharding(F) /\ ValidSharding(C) /\ Tileable(F) /\ Tileable(C) /\ RealSet(C) = RealSet(F)
      /\ Whole(C) = Whole(F) /\ RowMajor(C) /\ RowMajor(F) /\ ratio \in Nat \ {0}
      /\ dim \in DOMAIN C.dims /\ DOMAIN C.dims = DOMAIN F.dims
      /\ F.dims[dim].sharding = ratio * C.dims[dim].sharding
      /\ \A d \in DOMAIN C.dims \ {dim} : F.dims[d].sharding = C.dims[d].sharding
  BY DEF Finer
<1>2. i \in Nat BY <1>1, ShardNumbers
<1>3. v \in [DOMAIN C.dims -> Nat] /\ \A d \in DOMAIN C.dims : v[d] \in 0 .. C.dims[d].sharding - 1
  BY <1>1, <1>2, IndexType
<1>4. pt \in Points(Whole(C)) /\ \A r \in DOMAIN RealDims(C) :
        v[RealDims(C)[r]] = pt[r] \div Extent(C.dims[RealDims(C)[r]])
  BY <1>1, <1>2, TilePoint
<1>5. PICK k \in 0 .. Len(F.dims) : RealSet(F) = 1 .. k /\ DOMAIN RealDims(F) = 1 .. k /\ \A r \in 1 .. k : RealDims(F)[r] = r
  BY <1>1, FirstReal
<1>6. DOMAIN RealDims(C) = 1 .. k /\ \A r \in 1 .. k : RealDims(C)[r] = r
  <2>1. PICK l \in 0 .. Len(C.dims) : RealSet(C) = 1 .. l /\ DOMAIN RealDims(C) = 1 .. l /\ \A r \in 1 .. l : RealDims(C)[r] = r
    BY <1>1, FirstReal
  <2>2. 1 .. l = 1 .. k BY <1>1, <1>5, <2>1
  <2> QED BY <2>1, <2>2
<1>7. RealDims(C) # <<>> BY <1>1, RealAt DEF Finer
<1>8. \A r \in 1 .. k : pt[r] \in 0 .. F.dims[r].size - 1 /\ v[r] = pt[r] \div Extent(C.dims[r])
  <2>1. \A r \in 1 .. k : pt[r] \in 0 .. C.dims[r].size - 1 BY <1>1, <1>4, <1>6, <1>7, WholePoint
  <2>2. \A r \in 1 .. k : F.dims[r].size = C.dims[r].size
    <3>1. \A r \in 1 .. k : r \in DOMAIN C.dims BY <1>1, <1>5 DEF RealSet
    <3> QED BY <3>1 DEF Finer
  <2> QED BY <1>4, <1>6, <2>1, <2>2
<1> HIDE DEF v
<1>9. new \in 0 .. F.dims[dim].sharding - 1 /\ new \div ratio = v[dim] /\ new \in Nat
  <2>1. CASE dim \in RealSet(C)
    <3> DEFINE e == Extent(F.dims[dim])
    <3>1. e \in Nat /\ e > 0 /\ F.dims[dim].sharding \in Nat /\ F.dims[dim].size = F.dims[dim].sharding * e
          /\ Extent(C.dims[dim]) = ratio * e
      BY <2>1, FinerExtents
    <3>2. pt[dim] \in 0 .. F.dims[dim].size - 1 /\ v[dim] = pt[dim] \div Extent(C.dims[dim]) BY <1>1, <1>5, <1>8, <2>1
    <3>3. new = pt[dim] \div e BY <2>1
    <3> HIDE DEF e, new
    <3>4. new \in 0 .. F.dims[dim].sharding - 1 BY <3>1, <3>2, <3>3, TileOf
    <3>5. F.dims[dim].size \in Nat BY <3>1, Times
    <3>6. pt[dim] \in Nat BY <3>2, <3>5
    <3>7. ratio \in Nat /\ ratio > 0 BY <1>1
    <3>8. (pt[dim] \div e) \div ratio = pt[dim] \div (ratio * e) BY <3>1, <3>6, <3>7, DivDiv
    <3> QED BY <3>1, <3>2, <3>3, <3>4, <3>8
  <2>2. CASE dim \notin RealSet(C)
    <3>1. new = ratio * v[dim] BY <2>2
    <3> DEFINE c == C.dims[dim].sharding
    <3>2. v[dim] \in 0 .. c - 1 /\ c \in Nat \ {0} BY <1>1, <1>3, RatioIs
    <3>3. F.dims[dim].sharding = ratio * c BY <1>1
    <3> HIDE DEF c, new
    <3>4. ratio * v[dim] \in Nat /\ v[dim] \in Int BY <1>1, <3>2
    <3>5. ratio * v[dim] <= ratio * (c - 1)
      <4>1. ratio \in Nat /\ v[dim] \in Int /\ c - 1 \in Int /\ v[dim] <= c - 1 BY <1>1, <3>2
      <4> QED BY <4>1
    <3>6. ratio * (c - 1) = ratio * c - ratio /\ ratio * c \in Nat BY <1>1, <3>2
    <3>7. new \in 0 .. ratio * c - 1 BY <1>1, <3>1, <3>4, <3>5, <3>6
    <3>8. (ratio * v[dim] + 0) \div ratio = v[dim] BY <1>1, <3>4, DivUnique
    <3>9. ratio * v[dim] + 0 = ratio * v[dim] BY <3>4
    <3> QED BY <3>1, <3>3, <3>4, <3>7, <3>8, <3>9
  <2> QED BY <2>1, <2>2
<1>10. dim \in RealSet(C) => new = pt[dim] \div Extent(F.dims[dim]) OBVIOUS
<1> HIDE DEF new
<1>11. /\ x \in [DOMAIN F.dims -> Nat] /\ x[dim] = new /\ \A d \in DOMAIN F.dims \ {dim} : x[d] = v[d]
  BY <1>1, <1>3, <1>9
<1> HIDE DEF x
<1>12. \A d \in DOMAIN F.dims : x[d] \in 0 .. F.dims[d].sharding - 1 BY <1>1, <1>3, <1>9, <1>11
<1> DEFINE j == ComputeTileShard(x, F)
<1>13. j \in Shards(F) /\ \A d \in DOMAIN F.dims : ComputeTileIndex(j, F)[d] = x[d]
  <2>1. \A d \in DOMAIN F.dims : F.dims[d].permutation = d - 1 BY DEF Finer, RowMajor
  <2>2. Len(F.dims) > 0 BY DEF Finer
  <2> QED BY <1>1, <1>11, <1>12, <2>1, <2>2, ShardOfIndex
<1> HIDE DEF j
<1>14. PartOf(j, F, C, dim) = i
  <2> DEFINE h == PartOf(j, F, C, dim)
  <2>1. /\ h \in Shards(C) /\ ComputeTileIndex(h, C)[dim] = ComputeTileIndex(j, F)[dim] \div ratio
        /\ \A d \in DOMAIN C.dims \ {dim} : ComputeTileIndex(h, C)[d] = ComputeTileIndex(j, F)[d]
    BY <1>13, PartAt
  <2> HIDE DEF h
  <2>2. \A d \in DOMAIN C.dims : ComputeTileIndex(h, C)[d] = v[d] BY <1>1, <1>9, <1>11, <1>13, <2>1
  <2>3. h = i BY <1>1, <2>1, <2>2, IndexInjective DEF v
  <2> QED BY <2>3 DEF h
<1>15. ASSUME NEW r \in 1 .. k PROVE ComputeTileIndex(j, F)[r] = pt[r] \div Extent(F.dims[r])
  <2>1. r \in RealSet(C) /\ r \in DOMAIN F.dims BY <1>1, <1>5 DEF RealSet
  <2>2. CASE r = dim BY <1>10, <1>11, <1>13, <2>1, <2>2
  <2>3. CASE r # dim
    <3>1. Extent(C.dims[r]) = Extent(F.dims[r]) BY <2>1, <2>3, FinerExtents
    <3> QED BY <1>8, <1>11, <1>13, <2>1, <2>3, <3>1
  <2> QED BY <2>2, <2>3
<1>16. \A r \in DOMAIN RealDims(F) :
        ComputeTileIndex(j, F)[RealDims(F)[r]] = pt[r] \div Extent(F.dims[RealDims(F)[r]])
  BY <1>5, <1>15
<1>17. j \in Nat BY <1>1, <1>13, ShardNumbers
<1>18. pt \in Points(ComputeTileBounds(j, F)) BY <1>1, <1>4, <1>16, <1>17, TilePoint
<1> QED BY <1>13, <1>14, <1>18

\* An array all of whose dimensions have size 1 is replicated.
LEMMA SizeOneReplicated ==
  ASSUME NEW s, ValidSharding(s), \A d \in DOMAIN s.dims : s.dims[d].size = 1
  PROVE  IsReplicated(s)
<1>1. {d \in DOMAIN s.dims : s.dims[d].size > 1} = {} OBVIOUS
<1>2. IsFiniteSet(DOMAIN s.dims) /\ \A d \in DOMAIN s.dims : Cut(s)[d] \in Nat \ {0} BY ValidDims
<1>3. Product(Cut(s), {}) = 1 BY <1>2, ProductType
<1> QED BY <1>1, <1>3 DEF IsReplicated, TotalSharding, Cut

\* Two row-major shardings of one array with as many dimensions agree on the sizes, unless
\* both are replicated.
LEMMA SameSizes ==
  ASSUME NEW s, ValidSharding(s), Tileable(s), RowMajor(s),
         NEW t, ValidSharding(t), Tileable(t), RowMajor(t),
         Len(s.dims) = Len(t.dims), Whole(s) = Whole(t), ~(IsReplicated(s) /\ IsReplicated(t))
  PROVE  /\ RealSet(s) = RealSet(t) /\ RealSet(s) # {}
         /\ \A d \in DOMAIN s.dims : s.dims[d].size = t.dims[d].size
<1> DEFINE n == Len(s.dims)
<1>1. n \in Nat /\ DOMAIN s.dims = 1 .. n /\ DOMAIN t.dims = 1 .. n BY ValidDims
<1>2. PICK k \in 0 .. n : RealSet(s) = 1 .. k /\ DOMAIN RealDims(s) = 1 .. k /\ \A r \in 1 .. k : RealDims(s)[r] = r
  BY FirstReal
<1>3. PICK l \in 0 .. n : RealSet(t) = 1 .. l /\ DOMAIN RealDims(t) = 1 .. l /\ \A r \in 1 .. l : RealDims(t)[r] = r
  BY FirstReal
<1>4. \A d \in 1 .. n : /\ d \notin 1 .. k => s.dims[d].size = 1
                        /\ d \notin 1 .. l => t.dims[d].size = 1
  BY <1>1, <1>2, <1>3 DEF RealSet, Replicates
<1>5. ASSUME k = 0 PROVE DOMAIN Whole(s) = 1 .. 1 /\ Whole(s)[1].hi = 0 /\ n <= 1
  <2>1. RealDims(s) = <<>> BY <1>2, <1>5, RealAt
  <2>2. Whole(s) = <<Range1(0, 1)>> BY <2>1 DEF Whole
  <2>3. n <= 1
    <3> SUFFICES ASSUME n > 1 PROVE FALSE BY <1>1
    <3>1. 1 \in DOMAIN s.dims /\ 2 \in DOMAIN s.dims BY <1>1
    <3>2. 1 \notin RealSet(s) /\ 2 \notin RealSet(s) BY <1>2, <1>5
    <3> QED BY <3>1, <3>2 DEF RealSet, Tileable
  <2> QED BY <2>2, <2>3 DEF Range1
<1>6. ASSUME l = 0 PROVE DOMAIN Whole(t) = 1 .. 1 /\ Whole(t)[1].hi = 0 /\ n <= 1
  <2>1. RealDims(t) = <<>> BY <1>3, <1>6, RealAt
  <2>2. Whole(t) = <<Range1(0, 1)>> BY <2>1 DEF Whole
  <2>3. n <= 1
    <3> SUFFICES ASSUME n > 1 PROVE FALSE BY <1>1
    <3>1. 1 \in DOMAIN t.dims /\ 2 \in DOMAIN t.dims BY <1>1
    <3>2. 1 \notin RealSet(t) /\ 2 \notin RealSet(t) BY <1>3, <1>6
    <3> QED BY <3>1, <3>2 DEF RealSet, Tileable
  <2> QED BY <2>2, <2>3 DEF Range1
<1>7. ASSUME k # 0
      PROVE  DOMAIN Whole(s) = 1 .. k /\ \A r \in 1 .. k : Whole(s)[r].hi = s.dims[r].size - 1
  <2>1. 1 \in 1 .. k BY <1>7
  <2>2. RealDims(s) # <<>> BY <1>2, <2>1, RealAt
  <2>3. Whole(s) = [r \in 1 .. k |-> Range1(0, s.dims[RealDims(s)[r]].size)] BY <1>2, <2>2 DEF Whole
  <2>4. \A r \in 1 .. k : s.dims[r].size \in Nat BY <1>1, ValidDims
  <2> QED BY <1>2, <2>3, <2>4 DEF Range1
<1>8. ASSUME l # 0
      PROVE  DOMAIN Whole(t) = 1 .. l /\ \A r \in 1 .. l : Whole(t)[r].hi = t.dims[r].size - 1
  <2>1. 1 \in 1 .. l BY <1>8
  <2>2. RealDims(t) # <<>> BY <1>3, <2>1, RealAt
  <2>3. Whole(t) = [r \in 1 .. l |-> Range1(0, t.dims[RealDims(t)[r]].size)] BY <1>3, <2>2 DEF Whole
  <2>4. \A r \in 1 .. l : t.dims[r].size \in Nat BY <1>1, ValidDims
  <2> QED BY <1>3, <2>3, <2>4 DEF Range1
<1>9. \A d \in 1 .. n : s.dims[d].size \in Nat /\ t.dims[d].size \in Nat BY <1>1, ValidDims
<1>10. k # 0
  <2> SUFFICES ASSUME k = 0 PROVE FALSE OBVIOUS
  <2>1. IsReplicated(s)
    <3>1. \A d \in DOMAIN s.dims : s.dims[d].size = 1 BY <1>1, <1>4
    <3> QED BY <3>1, SizeOneReplicated
  <2>2. IsReplicated(t)
    <3>1. \A d \in DOMAIN t.dims : t.dims[d].size = 1
      <4>1. CASE l = 0 BY <1>1, <1>4, <4>1
      <4>2. CASE l # 0
        <5>1. 1 .. 1 = 1 .. l /\ n <= 1 /\ Whole(t)[1].hi = 0 BY <1>5, <1>8, <4>2
        <5>2. 1 \in 1 .. l /\ 1 \in 1 .. n BY <1>1, <1>3, <4>2
        <5>3. t.dims[1].size - 1 = 0 BY <1>8, <4>2, <5>1, <5>2
        <5>4. t.dims[1].size = 1 BY <1>9, <5>2, <5>3
        <5>5. \A d \in 1 .. n : d = 1 BY <1>1, <5>1
        <5> QED BY <1>1, <5>4, <5>5
      <4> QED BY <4>1, <4>2
    <3> QED BY <3>1, SizeOneReplicated
  <2> QED BY <2>1, <2>2
<1>11. l # 0
  <2> SUFFICES ASSUME l = 0 PROVE FALSE OBVIOUS
  <2>1. IsReplicated(t)
    <3>1. \A d \in DOMAIN t.dims : t.dims[d].size = 1 BY <1>1, <1>4
    <3> QED BY <3>1, SizeOneReplicated
  <2>2. IsReplicated(s)
    <3>1. 1 .. 1 = 1 .. k /\ n <= 1 /\ Whole(s)[1].hi = 0 BY <1>6, <1>7, <1>10
    <3>2. 1 \in 1 .. k /\ 1 \in 1 .. n BY <1>1, <1>2, <1>10
    <3>3. s.dims[1].size - 1 = 0 BY <1>7, <1>10, <3>1, <3>2
    <3>4. s.dims[1].size = 1 BY <1>9, <3>2, <3>3
    <3>5. \A d \in DOMAIN s.dims : s.dims[d].size = 1 BY <1>1, <3>1, <3>4
    <3> QED BY <3>5, SizeOneReplicated
  <2> QED BY <2>1, <2>2
<1>12. k = l
  <2>1. 1 .. k = 1 .. l BY <1>7, <1>8, <1>10, <1>11
  <2>2. k \in 1 .. k /\ l \in 1 .. l BY <1>2, <1>3, <1>10, <1>11
  <2> QED BY <2>1, <2>2
<1>13. ASSUME NEW d \in DOMAIN s.dims PROVE s.dims[d].size = t.dims[d].size
  <2>1. CASE d \in 1 .. k
    <3>1. s.dims[d].size - 1 = t.dims[d].size - 1 BY <1>7, <1>8, <1>10, <1>11, <1>12, <2>1
    <3> QED BY <1>1, <1>9, <3>1
  <2>2. CASE d \notin 1 .. k BY <1>1, <1>4, <1>12, <2>2
  <2> QED BY <2>1, <2>2
<1>14. 1 \in 1 .. k BY <1>2, <1>10
<1> QED BY <1>2, <1>3, <1>12, <1>13, <1>14

\* What is the same in both directions.
LEMMA ScatterGatherDims ==
  ASSUME Comparable, Strategy = "scatter_gather", RowMajor(src), RowMajor(dst)
  PROVE  LET dim == FirstOf(DifferentDims) IN
         /\ dim \in DifferentDims /\ dim \in DOMAIN src.dims /\ DOMAIN src.dims = DOMAIN dst.dims
         /\ Len(src.dims) = Len(dst.dims) /\ Len(src.dims) > 0
         /\ RealSet(src) = RealSet(dst) /\ RealSet(src) # {}
         /\ \A d \in DOMAIN src.dims : src.dims[d].size = dst.dims[d].size
         /\ \A d \in DOMAIN src.dims \ {dim} : src.dims[d].sharding = dst.dims[d].sharding
         /\ src.dims[dim].sharding \in Nat \ {0} /\ dst.dims[dim].sharding \in Nat \ {0}
<1> DEFINE dim == FirstOf(DifferentDims)
<1>1. Len(src.dims) = Len(dst.dims) /\ Cardinality(DifferentDims) = 1 /\ ~(IsReplicated(src) /\ IsReplicated(dst))
  BY StrategyMeans
<1>2. /\ DOMAIN src.dims = 1 .. Len(src.dims) /\ DOMAIN dst.dims = 1 .. Len(dst.dims) /\ Len(src.dims) \in Nat
      /\ IsFiniteSet(DOMAIN src.dims)
  BY ValidDims DEF Comparable
<1>3. DifferentDims \in SUBSET DOMAIN src.dims BY DEF DifferentDims
<1>4. IsFiniteSet(DifferentDims) BY <1>2, <1>3, FS_Subset
<1>5. PICK z : DifferentDims = {z} BY <1>1, <1>4, FS_Singleton
<1>6. dim = z
  <2>1. DifferentDims \subseteq Nat BY <1>2, <1>3
  <2>2. dim \in DifferentDims BY <1>5, <2>1, FirstIn
  <2> QED BY <1>5, <2>2
<1> HIDE DEF dim
<1>7. dim \in DifferentDims /\ dim \in DOMAIN src.dims BY <1>3, <1>5, <1>6
<1>8. \A d \in DOMAIN src.dims \ {dim} : src.dims[d].sharding = dst.dims[d].sharding BY <1>5, <1>6 DEF DifferentDims
<1>9. Len(src.dims) > 0 BY <1>2, <1>7
<1>10. /\ RealSet(src) = RealSet(dst) /\ RealSet(src) # {}
       /\ \A d \in DOMAIN src.dims : src.dims[d].size = dst.dims[d].size
  BY <1>1, SameSizes DEF Comparable
<1>11. src.dims[dim].sharding \in Nat \ {0} /\ dst.dims[dim].sharding \in Nat \ {0} BY <1>1, <1>2, <1>7, ValidDims DEF Comparable
<1> QED BY <1>1, <1>2, <1>7, <1>8, <1>9, <1>10, <1>11 DEF dim

\* The quotient of two numbers that divide.
LEMMA Divides ==
  ASSUME NEW a \in Nat \ {0}, NEW b \in Nat \ {0}, a % b = 0
  PROVE  a \div b \in Nat \ {0} /\ a = (a \div b) * b
<1> DEFINE q == a \div b
<1>1. q \in Nat /\ a = b * q + (a % b) BY DivNat
<1> HIDE DEF q
<1>2. a = b * q BY <1>1
<1>3. q # 0 BY <1>1, <1>2
<1>4. b * q = q * b BY <1>1
<1> QED BY <1>1, <1>2, <1>3, <1>4 DEF q

\* To finer tiles: one receive per target shard.
LEMMA ScatterDimFits ==
  ASSUME Comparable, Strategy = "scatter_gather", NEW ratio,
         Finer(src, dst, FirstOf(DifferentDims), ratio),
         ~(src.dims[FirstOf(DifferentDims)].sharding > dst.dims[FirstOf(DifferentDims)].sharding)
  PROVE  PlanFits
<1> DEFINE dim == FirstOf(DifferentDims)
           f == [j \in Shards(dst) |-> PartOf(j, dst, src, dim)]
           x == [i \in Shards(src) |-> {Op("src", i, ComputeTileShard(t, dst), MakeTileBox(t, dst)) : t \in Slices(i, src, dst, dim)}]
           y == [j \in Shards(dst) |-> {Op("src", PartOf(j, dst, src, dim), j, MakeTileBox(ComputeTileIndex(j, dst), dst))}]
<1>1. ASSUME NEW p \in Device
      PROVE  Reshard(p) = Plan(OfTile(src, p, x[SrcShard(p)]), OfTile(dst, p, y[DstShard(p)]))
  <2>1. HasTile(src, p) => SrcShard(p) \in Shards(src) BY DeviceOf DEF Comparable
  <2>2. HasTile(dst, p) => DstShard(p) \in Shards(dst) BY DeviceOf DEF Comparable
  <2>3. Reshard(p) = ScatterGather(p, dim) BY ReshardIs
  <2>4. ScatterGather(p, dim) =
          Plan(OfTile(src, p, {Op("src", SrcShard(p), ComputeTileShard(t, dst), MakeTileBox(t, dst)) :
                                 t \in Slices(SrcShard(p), src, dst, dim)}),
               OfTile(dst, p, {Op("src", PartOf(DstShard(p), dst, src, dim), DstShard(p),
                                  MakeTileBox(ComputeTileIndex(DstShard(p), dst), dst))}))
    BY DEF ScatterGather
  <2> HIDE DEF dim
  <2>5. OfTile(src, p, {Op("src", SrcShard(p), ComputeTileShard(t, dst), MakeTileBox(t, dst)) :
                                 t \in Slices(SrcShard(p), src, dst, dim)}) = OfTile(src, p, x[SrcShard(p)])
    BY <2>1 DEF OfTile
  <2>6. OfTile(dst, p, {Op("src", PartOf(DstShard(p), dst, src, dim), DstShard(p),
                                  MakeTileBox(ComputeTileIndex(DstShard(p), dst), dst))}) = OfTile(dst, p, y[DstShard(p)])
    BY <2>2 DEF OfTile
  <2> QED BY <2>3, <2>4, <2>5, <2>6
<1>2. Finer(src, dst, dim, ratio) OBVIOUS
<1> HIDE DEF dim
<1>3. /\ PlanSends = UNION {x[i] : i \in Shards(src)} /\ PlanReceives = UNION {y[j] : j \in Shards(dst)}
      /\ \A p \in Device : ~Reshard(p).undefined
  <2> HIDE DEF x, y
  <2> QED BY <1>1, PlanOf DEF Comparable
<1> DEFINE All == {Op("src", f[j], j, ComputeTileBounds(j, dst)) : j \in Shards(dst)}
<1>4. UNION {x[i] : i \in Shards(src)} = All
  <2>1. ASSUME NEW i \in Shards(src), NEW op \in x[i] PROVE op \in All
    <3>1. PICK t \in Slices(i, src, dst, dim) : op = Op("src", i, ComputeTileShard(t, dst), MakeTileBox(t, dst)) OBVIOUS
    <3> DEFINE j == ComputeTileShard(t, dst)
    <3>2. j \in Shards(dst) /\ PartOf(j, dst, src, dim) = i /\ MakeTileBox(t, dst) = ComputeTileBounds(j, dst)
      BY <1>2, SliceAt
    <3> HIDE DEF j
    <3>3. f[j] = i BY <3>2
    <3> QED BY <3>1, <3>2, <3>3 DEF j
  <2>2. ASSUME NEW j \in Shards(dst) PROVE \E i \in Shards(src) : Op("src", f[j], j, ComputeTileBounds(j, dst)) \in x[i]
    <3> DEFINE t == ComputeTileIndex(j, dst)
               i == PartOf(j, dst, src, dim)
    <3>1. t \in Slices(i, src, dst, dim) /\ ComputeTileShard(t, dst) = j /\ MakeTileBox(t, dst) = ComputeTileBounds(j, dst)
      BY <1>2, PartHasSlice
    <3>2. i \in Shards(src) BY <1>2, PartAt
    <3>3. f[j] = i OBVIOUS
    <3> HIDE DEF t, i
    <3>4. Op("src", i, j, ComputeTileBounds(j, dst)) \in x[i] BY <3>1, <3>2
    <3> QED BY <3>2, <3>3, <3>4
  <2> HIDE DEF x, f
  <2> QED BY <2>1, <2>2
<1>5. UNION {y[j] : j \in Shards(dst)} = All
  <2>1. \A j \in Shards(dst) : y[j] = {Op("src", f[j], j, ComputeTileBounds(j, dst))}
    <3>1. \A j \in Shards(dst) : MakeTileBox(ComputeTileIndex(j, dst), dst) = ComputeTileBounds(j, dst) BY <1>2, PartHasSlice
    <3> QED BY <3>1
  <2> HIDE DEF y, f
  <2> QED BY <2>1
<1>6. \A j \in Shards(dst) : f[j] \in Shards(src) /\ DstTile(j) \subseteq SrcTile(f[j])
  BY <1>2, PartAt, FineInCoarse DEF DstTile, SrcTile
<1> HIDE DEF f, x, y
<1> QED BY <1>3, <1>4, <1>5, <1>6, OnePerTarget

\* To coarser tiles: one send per source shard.
LEMMA GatherDimFits ==
  ASSUME Comparable, Strategy = "scatter_gather", NEW ratio,
         Finer(dst, src, FirstOf(DifferentDims), ratio),
         src.dims[FirstOf(DifferentDims)].sharding > dst.dims[FirstOf(DifferentDims)].sharding
  PROVE  PlanFits
<1> DEFINE dim == FirstOf(DifferentDims)
           f == [i \in Shards(src) |-> PartOf(i, src, dst, dim)]
           x == [i \in Shards(src) |-> {Op("src", i, PartOf(i, src, dst, dim), MakeTileBox(ComputeTileIndex(i, src), src))}]
           y == [j \in Shards(dst) |-> {Op("src", ComputeTileShard(t, src), j, MakeTileBox(t, src)) : t \in Slices(j, dst, src, dim)}]
<1>1. ASSUME NEW p \in Device
      PROVE  Reshard(p) = Plan(OfTile(src, p, x[SrcShard(p)]), OfTile(dst, p, y[DstShard(p)]))
  <2>1. HasTile(src, p) => SrcShard(p) \in Shards(src) BY DeviceOf DEF Comparable
  <2>2. HasTile(dst, p) => DstShard(p) \in Shards(dst) BY DeviceOf DEF Comparable
  <2>3. Reshard(p) = ScatterGather(p, dim) BY ReshardIs
  <2>4. ScatterGather(p, dim) =
          Plan(OfTile(src, p, {Op("src", SrcShard(p), PartOf(SrcShard(p), src, dst, dim),
                                  MakeTileBox(ComputeTileIndex(SrcShard(p), src), src))}),
               OfTile(dst, p, {Op("src", ComputeTileShard(t, src), DstShard(p), MakeTileBox(t, src)) :
                                 t \in Slices(DstShard(p), dst, src, dim)}))
    BY DEF ScatterGather
  <2> HIDE DEF dim
  <2>5. OfTile(dst, p, {Op("src", ComputeTileShard(t, src), DstShard(p), MakeTileBox(t, src)) :
                                 t \in Slices(DstShard(p), dst, src, dim)}) = OfTile(dst, p, y[DstShard(p)])
    BY <2>2 DEF OfTile
  <2>6. OfTile(src, p, {Op("src", SrcShard(p), PartOf(SrcShard(p), src, dst, dim),
                                  MakeTileBox(ComputeTileIndex(SrcShard(p), src), src))}) = OfTile(src, p, x[SrcShard(p)])
    BY <2>1 DEF OfTile
  <2> QED BY <2>3, <2>4, <2>5, <2>6
<1>2. Finer(dst, src, dim, ratio) OBVIOUS
<1> HIDE DEF dim
<1>3. /\ PlanSends = UNION {x[i] : i \in Shards(src)} /\ PlanReceives = UNION {y[j] : j \in Shards(dst)}
      /\ \A p \in Device : ~Reshard(p).undefined
  <2> HIDE DEF x, y
  <2> QED BY <1>1, PlanOf DEF Comparable
<1> DEFINE All == {Op("src", i, f[i], ComputeTileBounds(i, src)) : i \in Shards(src)}
<1>4. UNION {y[j] : j \in Shards(dst)} = All
  <2>1. ASSUME NEW j \in Shards(dst), NEW op \in y[j] PROVE op \in All
    <3>1. PICK t \in Slices(j, dst, src, dim) : op = Op("src", ComputeTileShard(t, src), j, MakeTileBox(t, src)) OBVIOUS
    <3> DEFINE i == ComputeTileShard(t, src)
    <3>2. i \in Shards(src) /\ PartOf(i, src, dst, dim) = j /\ MakeTileBox(t, src) = ComputeTileBounds(i, src)
      BY <1>2, SliceAt
    <3> HIDE DEF i
    <3>3. f[i] = j BY <3>2
    <3> QED BY <3>1, <3>2, <3>3 DEF i
  <2>2. ASSUME NEW i \in Shards(src) PROVE \E j \in Shards(dst) : Op("src", i, f[i], ComputeTileBounds(i, src)) \in y[j]
    <3> DEFINE t == ComputeTileIndex(i, src)
               j == PartOf(i, src, dst, dim)
    <3>1. t \in Slices(j, dst, src, dim) /\ ComputeTileShard(t, src) = i /\ MakeTileBox(t, src) = ComputeTileBounds(i, src)
      BY <1>2, PartHasSlice
    <3>2. j \in Shards(dst) BY <1>2, PartAt
    <3>3. f[i] = j OBVIOUS
    <3> HIDE DEF t, j
    <3>4. Op("src", i, j, ComputeTileBounds(i, src)) \in y[j] BY <3>1, <3>2
    <3> QED BY <3>2, <3>3, <3>4
  <2> HIDE DEF y, f
  <2> QED BY <2>1, <2>2
<1>5. UNION {x[i] : i \in Shards(src)} = All
  <2>1. \A i \in Shards(src) : x[i] = {Op("src", i, f[i], ComputeTileBounds(i, src))}
    <3>1. \A i \in Shards(src) : MakeTileBox(ComputeTileIndex(i, src), src) = ComputeTileBounds(i, src) BY <1>2, PartHasSlice
    <3> QED BY <3>1
  <2> HIDE DEF x, f
  <2> QED BY <2>1
<1>6. \A i \in Shards(src) : f[i] \in Shards(dst) /\ SrcTile(i) \subseteq DstTile(f[i])
  BY <1>2, PartAt, FineInCoarse DEF DstTile, SrcTile
<1>7. \A i \in Shards(src) : f[i] = PartOf(i, src, dst, dim) OBVIOUS
<1> HIDE DEF f, x, y
<1>8. \A a \in All : \E i \in Shards(src) :
                       a.key = Key("src", i, f[i]) /\ a.box = ComputeTileBounds(i, src)
                       /\ a.key.from = "src" /\ a.key.src = i /\ a.key.dst = f[i]
  BY OpFields
<1>9. \A i \in Shards(src) : Op("src", i, f[i], ComputeTileBounds(i, src)) \in All OBVIOUS
<1>10. PlanSends = All /\ PlanReceives = All BY <1>3, <1>4, <1>5
<1> HIDE DEF All
<1>11. \A a, b \in All : a.key = b.key => a.box = b.box BY <1>8
<1>12. \A a \in All : Within(a) BY <1>6, <1>8 DEF Within, SrcTile
<1>13. ASSUME NEW j \in Shards(dst), NEW pt \in DstTile(j)
       PROVE  \E a \in All : a.key.dst = j /\ pt \in Points(a.box)
  <2>1. PICK i \in Shards(src) : f[i] = j /\ pt \in Points(ComputeTileBounds(i, src))
    BY <1>2, <1>7, FineCoverCoarse DEF DstTile
  <2>2. /\ Op("src", i, f[i], ComputeTileBounds(i, src)).key.dst = f[i]
        /\ Op("src", i, f[i], ComputeTileBounds(i, src)).box = ComputeTileBounds(i, src)
    BY OpFields
  <2> QED BY <1>9, <2>1, <2>2
<1> QED BY <1>3, <1>10, <1>11, <1>12, <1>13 DEF PlanFits

\* GetScatterGatherConfig, when the shardings divide.
LEMMA ScatterGatherFits ==
  ASSUME Comparable, Strategy = "scatter_gather", RowMajor(src), RowMajor(dst),
         \A d \in DifferentDims : \/ src.dims[d].sharding % dst.dims[d].sharding = 0
                                  \/ dst.dims[d].sharding % src.dims[d].sharding = 0
  PROVE  PlanFits
<1> DEFINE dim == FirstOf(DifferentDims)
           a == src.dims[dim].sharding
           b == dst.dims[dim].sharding
<1>1. /\ dim \in DifferentDims /\ dim \in DOMAIN src.dims /\ DOMAIN src.dims = DOMAIN dst.dims
      /\ Len(src.dims) = Len(dst.dims) /\ Len(src.dims) > 0
      /\ RealSet(src) = RealSet(dst) /\ RealSet(src) # {}
      /\ \A d \in DOMAIN src.dims : src.dims[d].size = dst.dims[d].size
      /\ \A d \in DOMAIN src.dims \ {dim} : src.dims[d].sharding = dst.dims[d].sharding
      /\ a \in Nat \ {0} /\ b \in Nat \ {0}
  BY ScatterGatherDims
<1>2. a % b = 0 \/ b % a = 0 BY <1>1
<1>3. CASE a > b
  <2>1. a % b = 0
    <3> HIDE DEF a, b
    <3>1. b % a = b BY <1>1, <1>3, DivNat
    <3> QED BY <1>1, <1>2, <3>1
  <2>2. a \div b \in Nat \ {0} /\ a = (a \div b) * b
    <3> HIDE DEF a, b
    <3> QED BY <1>1, <2>1, Divides
  <2>3. Finer(dst, src, dim, a \div b) BY <1>1, <2>2 DEF Finer, Comparable
  <2> QED BY <1>3, <2>3, GatherDimFits
<1>4. CASE ~(a > b)
  <2>1. b % a = 0
    <3> HIDE DEF a, b
    <3>1. a % b = 0 => a = b
      <4>1. a < b => a % b = a BY <1>1, DivNat
      <4> QED BY <1>1, <1>4, <4>1
    <3>2. a % a = 0
      <4>1. (a * 1 + 0) % a = 0 BY <1>1, DivUnique
      <4> QED BY <1>1, <4>1
    <3> QED BY <1>1, <1>2, <3>1, <3>2
  <2>2. b \div a \in Nat \ {0} /\ b = (b \div a) * a
    <3> HIDE DEF a, b
    <3> QED BY <1>1, <2>1, Divides
  <2>3. Finer(src, dst, dim, b \div a) BY <1>1, <2>2 DEF Finer, Comparable
  <2> QED BY <1>4, <2>3, ScatterDimFits
<1> QED BY <1>3, <1>4

-----------------------------------------------------------------------------
(***************************************************************************)
(* ReshardBroadcast.  The powers of two are the numbers in every set that  *)
(* has 1 and the double of each of its members.                            *)
(***************************************************************************)
Powers == {x \in Nat : \A A \in SUBSET Nat : (1 \in A /\ \A a \in A : 2 * a \in A) => x \in A}

\* They are such a set themselves, and the least one.
LEMMA PowersClosed ==
  /\ Powers \subseteq Nat /\ 1 \in Powers /\ \A x \in Powers : 2 * x \in Powers
<1>1. 1 \in Powers BY DEF Powers
<1>2. ASSUME NEW x \in Powers PROVE 2 * x \in Powers
  <2>1. x \in Nat /\ 2 * x \in Nat BY DEF Powers
  <2>2. ASSUME NEW A \in SUBSET Nat, 1 \in A, \A a \in A : 2 * a \in A PROVE 2 * x \in A
    <3>1. x \in A BY <2>2 DEF Powers
    <3> QED BY <2>2, <3>1
  <2> QED BY <2>1, <2>2 DEF Powers
<1> QED BY <1>1, <1>2 DEF Powers

\* A set with 1 and the double of each power of two in it has all powers.
LEMMA PowersInd ==
  ASSUME NEW A, 1 \in A, \A x \in Powers : x \in A => 2 * x \in A
  PROVE  Powers \subseteq A
<1> DEFINE B == {x \in Powers : x \in A}
<1>1. B \in SUBSET Nat /\ 1 \in B /\ \A a \in B : 2 * a \in B BY PowersClosed
<1> HIDE DEF B
<1>2. \A x \in Powers : x \in B BY <1>1 DEF Powers
<1> QED BY <1>2 DEF B

\* A power of two is 1 or twice another.
LEMMA PowerHalf ==
  ASSUME NEW x \in Powers
  PROVE  /\ x \in Nat /\ x >= 1 /\ 1 \div 2 = 0
         /\ x # 1 => x \div 2 \in Powers /\ x = 2 * (x \div 2)
<1> DEFINE A == {z \in Nat : z >= 1 /\ (z # 1 => \E w \in Powers : z = 2 * w)}
<1>1. 1 \in A OBVIOUS
<1>2. \A z \in Powers : z \in A => 2 * z \in A BY PowersClosed
<1> HIDE DEF A
<1>3. x \in A BY <1>1, <1>2, PowersInd
<1>4. x \in Nat /\ x >= 1 /\ (x # 1 => \E w \in Powers : x = 2 * w) BY <1>3 DEF A
<1>5. ASSUME NEW w \in Powers, x = 2 * w PROVE x \div 2 = w
  <2>1. w \in Nat BY PowersClosed
  <2> QED BY <1>5, <2>1
<1>6. 1 \div 2 = 0 OBVIOUS
<1> QED BY <1>4, <1>5, <1>6

\* The smaller of two divides the larger, an even number of times.
LEMMA PowersDivide ==
  ASSUME NEW x \in Powers, NEW y \in Powers, x < y
  PROVE  \E k \in Nat \ {0} : y = 2 * (k * x) /\ 2 * x <= y
<1> DEFINE A == {z \in Powers : \A v \in Powers : v < z => \E k \in Nat \ {0} : z = 2 * (k * v)}
<1>1. 1 \in A
  <2>1. \A v \in Powers : ~(v < 1) BY PowerHalf
  <2> QED BY <2>1, PowersClosed
<1>2. ASSUME NEW z \in Powers, z \in A PROVE 2 * z \in A
  <2>1. z \in Nat /\ z >= 1 /\ 2 * z \in Powers BY PowerHalf, PowersClosed
  <2>2. ASSUME NEW v \in Powers, v < 2 * z PROVE \E k \in Nat \ {0} : 2 * z = 2 * (k * v)
    <3>1. CASE v = 1
      <4>1. 2 * z = 2 * (z * v) /\ z \in Nat \ {0} BY <2>1, <3>1
      <4> QED BY <4>1
    <3>2. CASE v # 1
      <4> DEFINE h == v \div 2
      <4>1. h \in Powers /\ v = 2 * h BY <3>2, PowerHalf
      <4>2. h \in Nat BY <4>1, PowersClosed
      <4> HIDE DEF h
      <4>3. h < z BY <2>1, <2>2, <4>1, <4>2
      <4>4. PICK k \in Nat \ {0} : z = 2 * (k * h) BY <1>2, <4>1, <4>3
      <4>5. k * v = 2 * (k * h) BY <4>1, <4>2
      <4>6. 2 * z = 2 * (k * v) BY <4>4, <4>5
      <4> QED BY <4>6
    <3> QED BY <3>1, <3>2
  <2> QED BY <2>1, <2>2
<1> HIDE DEF A
<1>3. y \in A BY <1>1, <1>2, PowersInd
<1>4. PICK k \in Nat \ {0} : y = 2 * (k * x) BY <1>3 DEF A
<1>5. x \in Nat BY PowersClosed
<1>6. k * x >= x
  <2>1. k \in Nat /\ k >= 1 BY <1>4
  <2> QED BY <1>5, <2>1
<1>7. k * x \in Nat BY <1>4, <1>5, Times
<1>8. 2 * x <= y BY <1>4, <1>5, <1>6, <1>7
<1> QED BY <1>4, <1>8

\* An odd multiple of a power of two is no multiple of a larger one.
LEMMA OddOfLess ==
  ASSUME NEW a \in Powers, NEW b \in Powers, a < b, NEW k \in Nat, NEW l \in Nat
  PROVE  (2 * k + 1) * a # l * b
<1> SUFFICES ASSUME (2 * k + 1) * a = l * b PROVE FALSE OBVIOUS
<1>1. PICK m \in Nat \ {0} : b = 2 * (m * a) BY PowersDivide
<1>0. a \in Nat /\ a >= 1 BY PowerHalf
<1>2. a \in Nat /\ a > 0 BY <1>0
<1>3. l * b = a * (2 * (l * m))
  <2>1. l * (2 * (m * a)) = a * (2 * (l * m)) BY <1>1, <1>2
  <2> QED BY <1>1, <2>1
<1>4. (2 * k + 1) * a = a * (2 * k + 1) BY <1>2
<1>5. a * (2 * k + 1) = a * (2 * (l * m)) BY <1>3, <1>4
<1>6. l * m \in Nat BY <1>1, Times
<1>7. 2 * k + 1 \in Int /\ 2 * (l * m) \in Int BY <1>6
<1>8. 2 * k + 1 = 2 * (l * m) BY <1>2, <1>5, <1>7, Cancel
<1> QED BY <1>6, <1>8

\* A number is an odd multiple of one power of two only.
LEMMA OddUnique ==
  ASSUME NEW a \in Powers, NEW b \in Powers, NEW k \in Nat, NEW l \in Nat,
         (2 * k + 1) * a = (2 * l + 1) * b
  PROVE  a = b
<1>1. a \in Nat /\ b \in Nat BY PowersClosed
<1>2. 2 * k + 1 \in Nat /\ 2 * l + 1 \in Nat OBVIOUS
<1>3. ~(a < b) BY <1>2, OddOfLess
<1>4. ~(b < a) BY <1>2, OddOfLess
<1> QED BY <1>1, <1>3, <1>4

-----------------------------------------------------------------------------
\* g is NextPowerOf2's loop from every power above m on.
Doubles(n, m, g) ==
  /\ DOMAIN g = m + 1 .. 2 * n
  /\ \A p \in m + 1 .. 2 * n : g[p] = IF p < n THEN g[p * 2] ELSE p

\* NextPowerOf2 returns a power of two that is large enough, the least.
LEMMA NextPower ==
  ASSUME NEW n \in Nat \ {0}
  PROVE  NextPowerOf2(n) \in Powers /\ NextPowerOf2(n) >= n /\ NextPowerOf2(n) < 2 * n
<1> DEFINE M == 2 * n
           A == {m \in 0 .. M : \E g : Doubles(n, m, g)}
<1>0. M \in Nat OBVIOUS
<1>1. M \in A
  <2> DEFINE w == [p \in M + 1 .. 2 * n |-> p]
  <2>1. M + 1 .. 2 * n = {} OBVIOUS
  <2>2. Doubles(n, M, w) BY <2>1 DEF Doubles
  <2> HIDE DEF w
  <2> QED BY <1>0, <2>2
<1>2. ASSUME NEW m \in 0 .. M - 1, m + 1 \in A PROVE m \in A
  <2>1. PICK g : Doubles(n, m + 1, g) BY <1>2
  <2> DEFINE new == IF m + 1 < n THEN g[(m + 1) * 2] ELSE m + 1
             w == [p \in m + 1 .. 2 * n |-> IF p = m + 1 THEN new ELSE g[p]]
  <2>2. ASSUME NEW p \in m + 1 .. 2 * n PROVE w[p] = IF p < n THEN w[p * 2] ELSE p
    <3>1. p < n => p * 2 \in m + 1 .. 2 * n /\ p * 2 # m + 1 OBVIOUS
    <3>2. p < n => w[p * 2] = g[p * 2]
      <4> HIDE DEF new
      <4> QED BY <3>1
    <3>3. CASE p = m + 1
      <4>1. w[p] = new BY <3>3
      <4> QED BY <3>2, <3>3, <4>1
    <3>4. CASE p # m + 1
      <4>1. w[p] = g[p] BY <3>4
      <4>2. p \in (m + 1) + 1 .. 2 * n BY <3>4
      <4>3. g[p] = IF p < n THEN g[p * 2] ELSE p BY <2>1, <4>2 DEF Doubles
      <4> HIDE DEF w
      <4> QED BY <3>2, <4>1, <4>3
    <3> QED BY <3>3, <3>4
  <2>3. DOMAIN w = m + 1 .. 2 * n OBVIOUS
  <2> HIDE DEF w
  <2>4. Doubles(n, m, w) BY <2>2, <2>3 DEF Doubles
  <2> QED BY <2>4
<1>3. 0 \in A
  <2> HIDE DEF A, M
  <2>1. 0 .. M \subseteq A BY <1>0, <1>1, <1>2, DownInd
  <2> QED BY <1>0, <2>1
<1> DEFINE double == CHOOSE g : g = [p \in 1 .. 2 * n |-> IF p < n THEN g[p * 2] ELSE p]
<1>4. double = [p \in 1 .. 2 * n |-> IF p < n THEN double[p * 2] ELSE p]
  <2>1. PICK g : Doubles(n, 0, g) BY <1>3
  <2> DEFINE h == [p \in 1 .. 2 * n |-> g[p]]
  <2>2. ASSUME NEW p \in 1 .. 2 * n PROVE h[p] = IF p < n THEN h[p * 2] ELSE p
    <3>1. p \in 0 + 1 .. 2 * n /\ (p < n => p * 2 \in 1 .. 2 * n) OBVIOUS
    <3>2. g[p] = IF p < n THEN g[p * 2] ELSE p BY <2>1, <3>1 DEF Doubles
    <3> QED BY <3>1, <3>2
  <2>3. h = [p \in 1 .. 2 * n |-> IF p < n THEN h[p * 2] ELSE p] BY <2>2
  <2> QED BY <2>3
<1>5. NextPowerOf2(n) = double[1] BY DEF NextPowerOf2
<1> HIDE DEF double
<1> DEFINE B == {m \in 0 .. M : \A p \in Powers :
                   p \in m + 1 .. 2 * n - 1 => double[p] \in Powers /\ double[p] >= n /\ double[p] < 2 * n}
<1>6. M \in B BY <1>0, PowersClosed
<1>7. ASSUME NEW m \in 0 .. M - 1, m + 1 \in B PROVE m \in B
  <2>1. ASSUME NEW p \in Powers, p \in m + 1 .. 2 * n - 1
        PROVE  double[p] \in Powers /\ double[p] >= n /\ double[p] < 2 * n
    <3>0. p \in Nat BY PowersClosed
    <3>1. double[p] = IF p < n THEN double[p * 2] ELSE p
      <4>1. p \in 1 .. 2 * n BY <2>1
      <4> QED BY <1>4, <4>1
    <3>2. CASE p < n
      <4>1. p * 2 = 2 * p /\ p * 2 \in (m + 1) + 1 .. 2 * n - 1 BY <2>1, <3>0, <3>2
      <4>2. p * 2 \in Powers BY <4>1, PowersClosed
      <4> QED BY <1>7, <3>1, <3>2, <4>1, <4>2
    <3>3. CASE ~(p < n) BY <2>1, <3>0, <3>1, <3>3
    <3> QED BY <3>2, <3>3
  <2>2. m \in 0 .. M OBVIOUS
  <2> QED BY <2>1, <2>2
<1>8. 0 \in B
  <2> HIDE DEF B, M
  <2>1. 0 .. M \subseteq B BY <1>0, <1>6, <1>7, DownInd
  <2> QED BY <1>0, <2>1
<1>9. 1 \in 0 + 1 .. 2 * n - 1 OBVIOUS
<1> QED BY <1>5, <1>8, <1>9, PowersClosed

-----------------------------------------------------------------------------
\* One level of the recursion of Descend and of LeafRanks, given the level below.
SplitLevel(rank, whole, size, lower) ==
  [start \in 0 .. whole |->
     IF start = rank \/ size = 0 THEN size
     ELSE lower[IF rank > start THEN start + size \div 2 ELSE start - size \div 2]]
LeafLevel(n, top, size, lower) ==
  [next \in 0 .. top |->
     IF next < n /\ size > 0 THEN {next} \cup lower[next - size \div 2] ELSE {}]
Level(kind, a, b, size, lower) ==
  IF kind = "split" THEN SplitLevel(a, b, size, lower) ELSE LeafLevel(a, b, size, lower)

\* g has the levels up to m.
Levels(kind, a, b, m, g) ==
  DOMAIN g = 0 .. m /\ \A s \in 0 .. m : g[s] = Level(kind, a, b, s, g[s \div 2])

AllLevels(kind, a, b, n, g) == g = [s \in 0 .. n |-> Level(kind, a, b, s, g[s \div 2])]

\* The lowest level rests on none, so that all levels exist.
LEMMA LevelsExist ==
  ASSUME NEW n \in Nat, NEW kind, NEW a, NEW b
  PROVE  \E g : AllLevels(kind, a, b, n, g)
<1>0. \A u, v : Level(kind, a, b, 0, u) = Level(kind, a, b, 0, v)
  <2>1. \A u, v : SplitLevel(a, b, 0, u) = SplitLevel(a, b, 0, v) BY DEF SplitLevel
  <2>2. \A u, v : LeafLevel(a, b, 0, u) = LeafLevel(a, b, 0, v) BY DEF LeafLevel
  <2> QED BY <2>1, <2>2 DEF Level
<1> DEFINE A == {m \in 0 .. n : \E g : Levels(kind, a, b, m, g)}
<1>1. 0 \in A
  <2> DEFINE w == [s \in 0 .. 0 |-> Level(kind, a, b, 0, 0)]
  <2>1. DOMAIN w = 0 .. 0 /\ w[0] = Level(kind, a, b, 0, 0) OBVIOUS
  <2> HIDE DEF w
  <2>2. w[0] = Level(kind, a, b, 0, w[0 \div 2]) BY <1>0, <2>1
  <2>3. \A s \in 0 .. 0 : s = 0 OBVIOUS
  <2>4. Levels(kind, a, b, 0, w) BY <2>1, <2>2, <2>3 DEF Levels
  <2> QED BY <2>4
<1>2. ASSUME NEW m \in 0 .. n - 1, m \in A PROVE m + 1 \in A
  <2>1. PICK g : Levels(kind, a, b, m, g) BY <1>2
  <2> DEFINE new == Level(kind, a, b, m + 1, g[(m + 1) \div 2])
             w == [s \in 0 .. m + 1 |-> IF s = m + 1 THEN new ELSE g[s]]
  <2> HIDE DEF new
  <2>2. ASSUME NEW s \in 0 .. m + 1 PROVE w[s] = Level(kind, a, b, s, w[s \div 2])
    <3>1. s \div 2 \in 0 .. m OBVIOUS
    <3>2. w[s \div 2] = g[s \div 2] BY <3>1
    <3>3. CASE s = m + 1
      <4>1. w[s] = new BY <3>3
      <4> HIDE DEF w
      <4> QED BY <3>2, <3>3, <4>1 DEF new
    <3>4. CASE s # m + 1
      <4>1. w[s] = g[s] /\ s \in 0 .. m BY <3>4
      <4> HIDE DEF w
      <4> QED BY <2>1, <3>2, <4>1 DEF Levels
    <3> QED BY <3>3, <3>4
  <2>3. DOMAIN w = 0 .. m + 1 OBVIOUS
  <2> HIDE DEF w
  <2>4. Levels(kind, a, b, m + 1, w) BY <2>2, <2>3 DEF Levels
  <2> QED BY <2>4
<1>3. n \in A
  <2> HIDE DEF A
  <2>1. 0 .. n \subseteq A BY <1>1, <1>2, UptoInd
  <2> QED BY <2>1
<1>4. PICK g : Levels(kind, a, b, n, g) BY <1>3
<1> DEFINE h == [s \in 0 .. n |-> g[s]]
<1>5. ASSUME NEW s \in 0 .. n PROVE h[s] = Level(kind, a, b, s, h[s \div 2])
  <2>1. s \div 2 \in 0 .. n OBVIOUS
  <2>2. h[s] = g[s] /\ h[s \div 2] = g[s \div 2] BY <2>1
  <2> HIDE DEF h
  <2> QED BY <1>4, <2>2 DEF Levels
<1>6. h = [s \in 0 .. n |-> Level(kind, a, b, s, h[s \div 2])] BY <1>5
<1> HIDE DEF h
<1> QED BY <1>6 DEF AllLevels

\* Descend halves the tree until it meets rank: at rank 0 at once, elsewhere at the
\* power of two of which rank is an odd multiple.
LEMMA DescendAt ==
  ASSUME NEW W \in Powers, NEW rank \in 0 .. W - 1
  PROVE  /\ rank = 0 => Descend(rank, W) = W
         /\ rank # 0 => /\ Descend(rank, W) \in Powers /\ Descend(rank, W) < W
                        /\ \E k \in Nat : rank = (2 * k + 1) * Descend(rank, W)
<1>0. W \in Nat /\ W >= 1 BY PowerHalf
<1> DEFINE split == CHOOSE g : g =
             [size \in 0 .. W |-> 
               [start \in 0 .. W |->
                  IF start = rank \/ size = 0 THEN size
                  ELSE g[size \div 2][IF rank > start THEN start + size \div 2 ELSE start - size \div 2]]]
<1>1. Descend(rank, W) = split[W][0] BY DEF Descend
<1>2. split = [size \in 0 .. W |-> 
               [start \in 0 .. W |->
                  IF start = rank \/ size = 0 THEN size
                  ELSE split[size \div 2][IF rank > start THEN start + size \div 2 ELSE start - size \div 2]]]
  <2>1. PICK f : AllLevels("split", rank, W, W, f) BY <1>0, LevelsExist
  <2>3. \A size, lower : Level("split", rank, W, size, lower) = 
               [start \in 0 .. W |->
                  IF start = rank \/ size = 0 THEN size
                  ELSE lower[IF rank > start THEN start + size \div 2 ELSE start - size \div 2]]
    BY DEF Level, SplitLevel
  <2>4. f = [size \in 0 .. W |-> Level("split", rank, W, size, f[size \div 2])] BY <2>1 DEF AllLevels
  <2>2. \E g : g = [size \in 0 .. W |-> 
               [start \in 0 .. W |->
                  IF start = rank \/ size = 0 THEN size
                  ELSE g[size \div 2][IF rank > start THEN start + size \div 2 ELSE start - size \div 2]]]
    <3> DEFINE row(size) == [start \in 0 .. W |->
                  IF start = rank \/ size = 0 THEN size
                  ELSE f[size \div 2][IF rank > start THEN start + size \div 2 ELSE start - size \div 2]]
    <3>1. \A size \in 0 .. W : Level("split", rank, W, size, f[size \div 2]) = row(size) BY <2>3
    <3> HIDE DEF row
    <3>2. f = [size \in 0 .. W |-> row(size)] BY <2>4, <3>1
    <3> QED BY <3>2 DEF row
  <2> QED BY <2>2
<1> HIDE DEF split
<1>3. \A size, start \in 0 .. W :
        split[size][start] =
          IF start = rank \/ size = 0 THEN size
          ELSE split[size \div 2][IF rank > start THEN start + size \div 2 ELSE start - size \div 2]
  <2> SUFFICES ASSUME NEW size \in 0 .. W, NEW start \in 0 .. W
               PROVE  split[size][start] =
                        IF start = rank \/ size = 0 THEN size
                        ELSE split[size \div 2][IF rank > start THEN start + size \div 2
                                                ELSE start - size \div 2]
    OBVIOUS
  <2>1. split[size] = 
               [st \in 0 .. W |->
                  IF st = rank \/ size = 0 THEN size
                  ELSE split[size \div 2][IF rank > st THEN st + size \div 2 ELSE st - size \div 2]]
    BY <1>2
  <2> QED BY <2>1
<1> DEFINE Met(size, v) ==
             /\ v \in Powers /\ v < size /\ \E k \in Nat : rank = (2 * k + 1) * v
           Good(size, start) ==
             IF rank = start THEN split[size][start] = size ELSE Met(size, split[size][start])
           A == {size \in Powers :
                   \A k \in Nat : LET start == k * size IN
                     start + size <= W /\ rank < start + size /\ start < rank + size => Good(size, start)}
<1>4. 1 \in A
  <2>1. ASSUME NEW k \in Nat, k * 1 + 1 <= W, rank < k * 1 + 1, k * 1 < rank + 1 PROVE Good(1, k * 1)
    <3>1. k * 1 = rank /\ rank \in 0 .. W /\ 1 \in 0 .. W BY <1>0, <2>1
    <3>2. split[1][rank] = 1 BY <1>3, <3>1
    <3> QED BY <3>1, <3>2
  <2> HIDE DEF Good
  <2> QED BY <2>1, PowersClosed
<1>5. ASSUME NEW h \in Powers, h \in A PROVE 2 * h \in A
  <2>0. h \in Nat /\ h >= 1 /\ 2 * h \in Powers BY PowerHalf, PowersClosed
  <2>1. ASSUME NEW k \in Nat, NEW start, start = k * (2 * h),
               start + 2 * h <= W, rank < start + 2 * h, start < rank + 2 * h
        PROVE  Good(2 * h, start)
    <3>0. start \in Nat /\ start = 2 * (k * h) /\ k * h \in Nat BY <2>0, <2>1
    <3>1. start \in 0 .. W /\ 2 * h \in 0 .. W /\ (2 * h) \div 2 = h /\ 2 * h # 0 BY <1>0, <2>0, <2>1, <3>0
    <3>2. split[2 * h][start] =
            IF start = rank THEN 2 * h
            ELSE split[h][IF rank > start THEN start + h ELSE start - h]
      BY <1>3, <3>1
    <3>3. ASSUME NEW c \in Nat, NEW next, next = (2 * c + 1) * h, start # rank,
                 next = (IF rank > start THEN start + h ELSE start - h),
                 next + h <= W, rank < next + h, next < rank + h
          PROVE  Met(2 * h, split[2 * h][start])
      <4>1. split[2 * h][start] = split[h][next] BY <3>2, <3>3
      <4>2. 2 * c + 1 \in Nat OBVIOUS
      <4>3. Good(h, next)
        <5> HIDE DEF Good
        <5> QED BY <1>5, <3>3, <4>2
      <4>4. CASE rank = next
        <5>1. split[h][next] = h BY <4>3, <4>4
        <5>2. h < 2 * h BY <2>0
        <5> QED BY <2>0, <3>3, <4>1, <4>4, <5>1, <5>2
      <4>5. CASE rank # next
        <5>1. Met(h, split[h][next])
          <6> HIDE DEF Met
          <6> QED BY <4>3, <4>5
        <5>2. split[h][next] \in Nat BY <5>1, PowersClosed
        <5>3. split[h][next] < 2 * h BY <2>0, <5>1, <5>2
        <5> QED BY <4>1, <5>1, <5>3
      <4> QED BY <4>4, <4>5
    <3>4. CASE rank = start BY <3>2, <3>4
    <3>5. CASE rank > start
      <4>1. (2 * k + 1) * h = start + h BY <2>0, <3>0
      <4>2. (start + h) + h <= W /\ rank < (start + h) + h /\ start + h < rank + h
        BY <1>0, <2>0, <2>1, <3>0, <3>5
      <4>3. start # rank BY <3>5, <3>0
      <4>4. Met(2 * h, split[2 * h][start])
        <5> HIDE DEF Met
        <5> QED BY <3>3, <3>5, <4>1, <4>2, <4>3
      <4> HIDE DEF Met
      <4> QED BY <4>3, <4>4
    <3>6. CASE rank < start
      <4>0. k # 0 /\ k - 1 \in Nat BY <2>0, <3>0, <3>6
      <4>1. (2 * (k - 1) + 1) * h = start - h BY <2>0, <3>0, <4>0
      <4>2. (start - h) + h <= W /\ rank < (start - h) + h /\ start - h < rank + h
        BY <1>0, <2>0, <2>1, <3>0, <3>6
      <4>3. start # rank /\ ~(rank > start) BY <3>6, <3>0
      <4>4. Met(2 * h, split[2 * h][start])
        <5> HIDE DEF Met
        <5> QED BY <3>3, <4>0, <4>1, <4>2, <4>3
      <4> HIDE DEF Met
      <4> QED BY <4>3, <4>4
    <3> HIDE DEF Good
    <3> QED BY <3>0, <3>4, <3>5, <3>6
  <2> HIDE DEF Good
  <2> QED BY <2>0, <2>1
<1>6. W \in A
  <2> HIDE DEF A
  <2> QED BY <1>4, <1>5, PowersInd
<1>7. Good(W, 0)
  <2>1. 0 * W = 0 /\ 0 + W <= W /\ rank < 0 + W /\ 0 < rank + W BY <1>0
  <2> HIDE DEF Good
  <2> QED BY <1>6, <2>1
<1> QED BY <1>1, <1>7

\* LeafRanks lists the ranks at the powers of two up to half, if the farthest is in the
\* tree, and none otherwise.
LEMMA LeavesAt ==
  ASSUME NEW rank \in Nat, NEW n \in Nat, NEW H \in Nat, H = 0 \/ H \in Powers
  PROVE  LeafRanks(rank, H, n) =
           IF H # 0 /\ rank + H < n THEN {rank + t : t \in {x \in Powers : x <= H}} ELSE {}
<1> DEFINE top == rank + H
           from == CHOOSE g : g =
             [size \in 0 .. H |->
               [next \in 0 .. top |->
                  IF next < n /\ size > 0 THEN {next} \cup g[size \div 2][next - size \div 2] ELSE {}]]
<1>1. LeafRanks(rank, H, n) = from[H][top] BY DEF LeafRanks
<1>0. top \in Nat /\ top = rank + H OBVIOUS
<1>2. from = [size \in 0 .. H |->
               [next \in 0 .. top |->
                  IF next < n /\ size > 0 THEN {next} \cup from[size \div 2][next - size \div 2] ELSE {}]]
  <2> HIDE DEF top
  <2>1. PICK f : AllLevels("leaf", n, top, H, f) BY LevelsExist
  <2>2. \A size, lower : Level("leaf", n, top, size, lower) =
               [next \in 0 .. top |->
                  IF next < n /\ size > 0 THEN {next} \cup lower[next - size \div 2] ELSE {}]
    BY DEF Level, LeafLevel
  <2>3. f = [size \in 0 .. H |-> Level("leaf", n, top, size, f[size \div 2])] BY <2>1 DEF AllLevels
  <2>4. \E g : g = [size \in 0 .. H |->
               [next \in 0 .. top |->
                  IF next < n /\ size > 0 THEN {next} \cup g[size \div 2][next - size \div 2] ELSE {}]]
    <3> DEFINE row(size) == [next \in 0 .. top |->
                  IF next < n /\ size > 0 THEN {next} \cup f[size \div 2][next - size \div 2] ELSE {}]
    <3>1. \A size \in 0 .. H : Level("leaf", n, top, size, f[size \div 2]) = row(size) BY <2>2
    <3> HIDE DEF row
    <3>2. f = [size \in 0 .. H |-> row(size)] BY <2>3, <3>1
    <3> QED BY <3>2 DEF row
  <2> QED BY <2>4
<1> HIDE DEF from, top
<1>3. ASSUME NEW size \in 0 .. H, NEW next \in 0 .. top
      PROVE  from[size][next] =
               IF next < n /\ size > 0 THEN {next} \cup from[size \div 2][next - size \div 2] ELSE {}
  <2>1. from[size] =
               [x \in 0 .. top |->
                  IF x < n /\ size > 0 THEN {x} \cup from[size \div 2][x - size \div 2] ELSE {}]
    BY <1>2
  <2> QED BY <2>1
<1> DEFINE Near(size) == {rank + t : t \in {x \in Powers : x <= size}}
           A == {size \in Powers : size <= H =>
                   from[size][rank + size] = IF rank + size < n THEN Near(size) ELSE {}}
<1>4. 1 \in A
  <2>1. SUFFICES ASSUME 1 <= H PROVE from[1][rank + 1] = IF rank + 1 < n THEN Near(1) ELSE {}
    BY PowersClosed
  <2>2. 1 \in 0 .. H /\ 0 \in 0 .. H /\ rank + 1 \in 0 .. top /\ 1 \div 2 = 0 /\ (rank + 1) - 0 = rank + 1
    BY <1>0, <2>1
  <2> DEFINE near == rank + 1
  <2> HIDE DEF near
  <2>7. near \in 0 .. top /\ near - 0 = near BY <2>2 DEF near
  <2>8. from[0][near] = {}
    <3>1. from[0][near] = IF near < n /\ 0 > 0 THEN {near} \cup from[0 \div 2][near - 0 \div 2] ELSE {}
      BY <1>3, <2>2, <2>7
    <3> QED BY <3>1
  <2>9. from[1][near] = IF near < n /\ 1 > 0 THEN {near} \cup from[1 \div 2][near - 1 \div 2] ELSE {}
    BY <1>3, <2>2, <2>7
  <2>10. from[1 \div 2][near - 1 \div 2] = {} BY <2>2, <2>7, <2>8
  <2>4. from[1][rank + 1] = IF rank + 1 < n THEN {rank + 1} \cup {} ELSE {} BY <2>9, <2>10 DEF near
  <2>5. \A x \in Powers : x <= 1 <=> x = 1 BY PowerHalf
  <2>6. Near(1) = {rank + 1} BY <2>5, PowersClosed
  <2> HIDE DEF Near
  <2> QED BY <2>4, <2>6
<1>5. ASSUME NEW h \in Powers, h \in A PROVE 2 * h \in A
  <2>0. h \in Nat /\ h >= 1 /\ 2 * h \in Powers BY PowerHalf, PowersClosed
  <2>1. SUFFICES ASSUME 2 * h <= H
                 PROVE  from[2 * h][rank + 2 * h] = IF rank + 2 * h < n THEN Near(2 * h) ELSE {}
    <3> HIDE DEF Near
    <3> QED BY <2>0, <2>1
  <2>2. /\ 2 * h \in 0 .. H /\ rank + 2 * h \in 0 .. top /\ (2 * h) \div 2 = h /\ 2 * h > 0
        /\ (rank + 2 * h) - h = rank + h /\ h <= H
    BY <1>0, <2>0, <2>1
  <2>3. from[2 * h][rank + 2 * h] = IF rank + 2 * h < n THEN {rank + 2 * h} \cup from[h][rank + h] ELSE {}
    BY <1>3, <2>2
  <2>4. from[h][rank + h] = IF rank + h < n THEN Near(h) ELSE {} BY <1>5, <2>2
  <2>5. rank + 2 * h < n => rank + h < n BY <2>0
  <2>6. ASSUME NEW x \in Powers PROVE x <= 2 * h <=> x = 2 * h \/ x <= h
    <3>1. x \in Nat BY PowersClosed
    <3>2. h < x => 2 * h <= x BY PowersDivide
    <3> QED BY <2>0, <3>1, <3>2
  <2>7. Near(2 * h) = {rank + 2 * h} \cup Near(h)
    <3>1. \A y : y \in Near(2 * h) <=> \E t \in Powers : t <= 2 * h /\ y = rank + t OBVIOUS
    <3>2. \A y : y \in Near(h) <=> \E t \in Powers : t <= h /\ y = rank + t OBVIOUS
    <3> HIDE DEF Near
    <3> QED BY <2>0, <2>6, <3>1, <3>2
  <2> HIDE DEF Near
  <2> QED BY <2>3, <2>4, <2>5, <2>7
<1>6. CASE H = 0
  <2>1. 0 \in 0 .. H /\ top \in 0 .. top BY <1>0, <1>6
  <2> QED BY <1>1, <1>3, <1>6, <2>1
<1>7. CASE H # 0
  <2>1. H \in A
    <3> HIDE DEF A
    <3> QED BY <1>4, <1>5, <1>7, PowersInd
  <2> HIDE DEF Near
  <2>2. from[H][rank + H] = IF rank + H < n THEN Near(H) ELSE {} BY <2>1
  <2> QED BY <1>0, <1>1, <1>7, <2>2 DEF Near
<1> QED BY <1>6, <1>7

-----------------------------------------------------------------------------
\* The distance between a rank of a tree of m and its parent.
Distance(r, m) == Descend(r, NextPowerOf2(m))

\* It is a power of two and divides the rank, an odd number of times unless the rank is 0.
LEMMA DistanceIs ==
  ASSUME NEW m \in Nat \ {0}, NEW r \in 0 .. m - 1
  PROVE  /\ Distance(r, m) \in Powers /\ \E c \in Nat : r = c * Distance(r, m)
         /\ r = 0 => Distance(r, m) = NextPowerOf2(m)
         /\ r # 0 => Distance(r, m) < NextPowerOf2(m) /\ \E k \in Nat : r = (2 * k + 1) * Distance(r, m)
<1> DEFINE W == NextPowerOf2(m)
           s == Distance(r, m)
<1>1. W \in Powers /\ W >= m BY NextPower
<1>2. W \in Nat BY <1>1, PowersClosed
<1> HIDE DEF W
<1>3. r \in 0 .. W - 1 BY <1>1, <1>2
<1>4. s = Descend(r, W) BY DEF Distance, W
<1>5. /\ r = 0 => s = W
      /\ r # 0 => s \in Powers /\ s < W /\ \E k \in Nat : r = (2 * k + 1) * s
  BY <1>1, <1>3, <1>4, DescendAt
<1> HIDE DEF s
<1>6. s \in Powers BY <1>1, <1>5
<1>7. s \in Nat BY <1>6, PowersClosed
<1>8. r = 0 => r = 0 * s BY <1>7
<1>9. \A k \in Nat : 2 * k + 1 \in Nat OBVIOUS
<1>10. \E c \in Nat : r = c * s BY <1>5, <1>8, <1>9
<1> QED BY <1>5, <1>6, <1>10 DEF s, W

\* The tree of a power of two is complete: GetTargetConfig leaves no rank out.
THEOREM PowersComplete ==
  ASSUME NEW n \in Powers
  PROVE  TreeComplete(n)
<1>0. n \in Nat \ {0}
  <2>1. n \in Nat /\ n >= 1 BY PowerHalf
  <2> QED BY <2>1
<1> SUFFICES ASSUME NEW r \in 0 .. n - 2
             PROVE  r + Descend(r, NextPowerOf2(n)) \div 2 < n
  BY DEF TreeComplete
<1> DEFINE s == Distance(r, n)
<1>1. r \in 0 .. n - 1 BY <1>0
<1>2. s \in Powers /\ \E c \in Nat : r = c * s BY <1>0, <1>1, DistanceIs
<1>3. s <= n
  <2> DEFINE W == NextPowerOf2(n)
  <2>1. W \in Powers /\ W >= n /\ W < 2 * n BY <1>0, NextPower
  <2>2. W \in Nat BY <2>1, PowersClosed
  <2>3. s = W \/ s < W BY <1>0, <1>1, DistanceIs
  <2> HIDE DEF W, s
  <2>4. ~(n < W)
    <3>1. n < W => 2 * n <= W BY <2>1, PowersDivide
    <3> QED BY <1>0, <2>1, <2>2, <3>1
  <2>5. s \in Nat BY <1>2, PowersClosed
  <2> QED BY <1>0, <2>2, <2>3, <2>4, <2>5
<1>4. Descend(r, NextPowerOf2(n)) = s BY DEF Distance
<1> HIDE DEF s
<1>5. s \in Nat /\ s >= 1 BY <1>2, PowerHalf
<1>6. PICK c \in Nat : r = c * s BY <1>2
<1>7. PICK k \in Nat : n = k * s
  <2>1. CASE s = n
    <3>1. n = 1 * s BY <1>5, <2>1
    <3> QED BY <3>1
  <2>2. CASE s < n
    <3>1. PICK k \in Nat \ {0} : n = 2 * (k * s) BY <1>2, <2>2, PowersDivide
    <3>2. 2 * (k * s) = (2 * k) * s BY <1>5, <3>1
    <3>3. 2 * k \in Nat /\ n = (2 * k) * s BY <3>1, <3>2
    <3> QED BY <3>3
  <2> QED BY <1>0, <1>3, <1>5, <2>1, <2>2
<1>8. c < k
  <2>1. c * s < k * s BY <1>0, <1>1, <1>6, <1>7
  <2> QED BY <1>5, <2>1
<1>9. c * s + s <= k * s
  <2>1. c + 1 <= k BY <1>8
  <2>2. (c + 1) * s <= k * s BY <1>5, <2>1
  <2>3. (c + 1) * s = c * s + s BY <1>5
  <2> QED BY <2>2, <2>3
<1>10. r + s <= n BY <1>6, <1>7, <1>9
<1>11. s \div 2 < s BY <1>5
<1> QED BY <1>0, <1>1, <1>4, <1>5, <1>10, <1>11

\* What GetTargetConfig returns: the parent is that far below, the leaves are at the
\* smaller powers of two above.
LEMMA ConfigIs ==
  ASSUME NEW m \in Nat \ {0}, TreeComplete(m), NEW r \in 0 .. m - 1
  PROVE  /\ r # 0 => GetTargetConfig(r, m).parent = r - Distance(r, m)
         /\ \A l : l \in GetTargetConfig(r, m).leaves <=>
                     r # m - 1 /\ \E t \in Powers : t < Distance(r, m) /\ l = r + t
         /\ \A l \in GetTargetConfig(r, m).leaves : l \in 1 .. m - 1
<1> DEFINE s == Distance(r, m)
           cfg == GetTargetConfig(r, m)
           H == s \div 2
<1>0. s \in Powers /\ s \in Nat /\ s >= 1 BY DistanceIs, PowerHalf
<1>1. r % 2 = 1 => cfg.parent = r - 1 /\ cfg.leaves = {} BY DEF GetTargetConfig
<1>2. r % 2 # 1 => cfg.parent = r - s /\ cfg.leaves = LeafRanks(r, H, m) BY DEF GetTargetConfig, Distance
<1>3. H \in Nat /\ (H = 0 \/ H \in Powers) /\ (s # 1 => s = 2 * H /\ H \in Powers) /\ (s = 1 => H = 0)
  BY <1>0, PowerHalf, PowersClosed
<1> HIDE DEF s, H
<1>4. ASSUME r % 2 = 1 PROVE s = 1
  <2>0. r # 0 /\ r \in Nat BY <1>4
  <2>1. PICK k \in Nat : r = (2 * k + 1) * s BY <2>0, DistanceIs DEF s
  <2>2. ASSUME s = 2 * H PROVE FALSE
    <3> DEFINE q == (2 * k + 1) * H
    <3>1. (2 * k + 1) * (2 * H) = 2 * ((2 * k + 1) * H) BY <1>3
    <3>2. q \in Nat BY <1>3, Times
    <3>3. r = 2 * q BY <2>1, <2>2, <3>1
    <3> HIDE DEF q
    <3> QED BY <1>4, <3>2, <3>3
  <2> QED BY <1>3, <2>2
<1>5. ASSUME NEW t \in Powers PROVE t \in Nat /\ t >= 1 /\ (t < s <=> s # 1 /\ t <= H)
  <2>1. t \in Nat /\ t >= 1 BY PowerHalf
  <2>2. CASE s = 1 BY <2>1, <2>2
  <2>3. CASE s # 1
    <3>1. H < t => 2 * H <= t BY <1>3, <2>3, PowersDivide
    <3>2. H >= 1 BY <1>3, <2>3, PowerHalf
    <3> QED BY <1>3, <2>1, <2>3, <3>1, <3>2
  <2> QED BY <2>2, <2>3
<1>6. ASSUME NEW l
      PROVE  l \in cfg.leaves <=> r # m - 1 /\ \E t \in Powers : t < s /\ l = r + t
  <2>1. CASE r % 2 = 1
    <3>1. \A t \in Powers : ~(t < s) BY <1>4, <1>5, <2>1
    <3> QED BY <1>1, <2>1, <3>1
  <2>2. CASE r % 2 # 1
    <3>0. r \in Nat /\ m \in Nat /\ r % 2 = 0 BY <2>2
    <3>1. cfg.leaves = IF H # 0 /\ r + H < m THEN {r + t : t \in {x \in Powers : x <= H}} ELSE {}
      BY <1>2, <1>3, <2>2, <3>0, LeavesAt
    <3>2. CASE r = m - 1
      <4>1. ~(H # 0 /\ r + H < m) BY <1>3, <3>2
      <4> QED BY <3>1, <3>2, <4>1
    <3>3. CASE r # m - 1
      <4>1. r \in 0 .. m - 2 BY <3>3
      <4>2. r + H < m BY <3>0, <4>1 DEF TreeComplete, Distance, s, H
      <4>3. H # 0 <=> s # 1
        <5>1. H \in Powers => H # 0 BY PowerHalf
        <5> QED BY <1>3, <5>1
      <4>4. CASE s = 1
        <5>1. \A t \in Powers : ~(t < s) BY <1>5, <4>4
        <5> QED BY <3>1, <4>3, <4>4, <5>1
      <4>5. CASE s # 1
        <5>1. cfg.leaves = {r + t : t \in {x \in Powers : x <= H}} BY <3>1, <4>2, <4>3, <4>5
        <5>2. \A t \in Powers : t < s <=> t <= H BY <1>5, <4>5
        <5> HIDE DEF cfg
        <5> QED BY <3>3, <5>1, <5>2
      <4> QED BY <4>4, <4>5
    <3> QED BY <3>2, <3>3
  <2>3. r % 2 \in {0, 1} OBVIOUS
  <2> QED BY <2>1, <2>2
<1>7. ASSUME NEW l \in cfg.leaves PROVE l \in 1 .. m - 1
  <2>1. PICK t \in Powers : t < s /\ l = r + t
    <3> HIDE DEF cfg
    <3> QED BY <1>6, <1>7
  <2>2. r # m - 1
    <3> HIDE DEF cfg
    <3> QED BY <1>6, <1>7
  <2>3. t \in Nat /\ t >= 1 /\ s # 1 /\ t <= H BY <1>5, <2>1
  <2>4. r % 2 = 0
    <3>1. r % 2 \in {0, 1} OBVIOUS
    <3> QED BY <1>4, <2>3, <3>1
  <2>5. r \in 0 .. m - 2 BY <2>2
  <2>6. r + H < m BY <2>4, <2>5 DEF TreeComplete, Distance, s, H
  <2> QED BY <1>3, <2>1, <2>3, <2>6
<1>8. r # 0 => cfg.parent = r - s BY <1>1, <1>2, <1>4
<1> HIDE DEF cfg
<1> QED BY <1>6, <1>7, <1>8 DEF cfg, s

\* Parent and leaf agree, so that the ranks form a tree.
LEMMA TreeAgrees ==
  ASSUME NEW m \in Nat \ {0}, TreeComplete(m)
  PROVE  /\ \A r \in 0 .. m - 1 : \A l \in GetTargetConfig(r, m).leaves :
              l \in 1 .. m - 1 /\ GetTargetConfig(l, m).parent = r
         /\ \A l \in 1 .. m - 1 : /\ GetTargetConfig(l, m).parent \in 0 .. m - 1
                                  /\ l \in GetTargetConfig(GetTargetConfig(l, m).parent, m).leaves
<1> DEFINE s(r) == Distance(r, m)
           cfg(r) == GetTargetConfig(r, m)
<1> HIDE DEF cfg, s
<1>0. ASSUME NEW r \in 0 .. m - 1
      PROVE  /\ s(r) \in Powers /\ s(r) \in Nat /\ s(r) >= 1 /\ \E c \in Nat : r = c * s(r)
             /\ r # 0 => \E k \in Nat : r = (2 * k + 1) * s(r)
  BY DistanceIs, PowerHalf DEF s
<1>1. ASSUME NEW r \in 0 .. m - 1
      PROVE  /\ r # 0 => cfg(r).parent = r - s(r)
             /\ \A l : l \in cfg(r).leaves <=> r # m - 1 /\ \E t \in Powers : t < s(r) /\ l = r + t
             /\ \A l \in cfg(r).leaves : l \in 1 .. m - 1
  BY ConfigIs DEF s, cfg
<1>2. ASSUME NEW r \in 0 .. m - 1, NEW l \in cfg(r).leaves
      PROVE  l \in 1 .. m - 1 /\ cfg(l).parent = r
  <2>1. PICK t \in Powers : t < s(r) /\ l = r + t BY <1>1, <1>2
  <2>2. l \in 1 .. m - 1 /\ l \in 0 .. m - 1 /\ l # 0 BY <1>1, <1>2
  <2>3. PICK c \in Nat : r = c * s(r) BY <1>0
  <2>4. PICK j \in Nat \ {0} : s(r) = 2 * (j * t) BY <1>0, <2>1, PowersDivide
  <2>5. t \in Nat BY PowersClosed
  <2>6. c * (2 * (j * t)) = (2 * (c * j)) * t BY <2>3, <2>4, <2>5
  <2>7. l = (2 * (c * j)) * t + t BY <2>1, <2>3, <2>4, <2>6
  <2> DEFINE q == c * j
  <2>8. q \in Nat BY <2>4, Times
  <2> HIDE DEF q
  <2>9. l = (2 * q) * t + t BY <2>7 DEF q
  <2>10. l = (2 * q + 1) * t BY <2>5, <2>8, <2>9
  <2>11. PICK k \in Nat : l = (2 * k + 1) * s(l) BY <1>0, <2>2
  <2>12. s(l) \in Powers BY <1>0, <2>2
  <2>13. (2 * k + 1) * s(l) = (2 * q + 1) * t BY <2>10, <2>11
  <2>14. s(l) = t BY <2>8, <2>12, <2>13, OddUnique
  <2>15. cfg(l).parent = l - t BY <1>1, <2>2, <2>14
  <2> QED BY <2>1, <2>2, <2>5, <2>15
<1>3. ASSUME NEW l \in 1 .. m - 1
      PROVE  cfg(l).parent \in 0 .. m - 1 /\ l \in cfg(cfg(l).parent).leaves
  <2> DEFINE t == s(l)
             r == l - t
  <2>0. l \in 0 .. m - 1 /\ l # 0 OBVIOUS
  <2>1. t \in Powers /\ t \in Nat /\ t >= 1 BY <1>0, <2>0
  <2>2. PICK k \in Nat : l = (2 * k + 1) * t BY <1>0, <2>0
  <2>3. cfg(l).parent = r BY <1>1, <2>0
  <2>4. r = (2 * k) * t
    <3>1. (2 * k + 1) * t = (2 * k) * t + t BY <2>1
    <3>2. (2 * k) * t \in Nat BY <2>1, Times
    <3> HIDE DEF t
    <3> QED BY <2>1, <2>2, <3>1, <3>2
  <2>5. r \in Nat /\ r < m - 1
    <3>1. (2 * k) * t \in Nat BY <2>1, Times
    <3> HIDE DEF t
    <3> QED BY <2>1, <2>4, <3>1
  <2>6. r \in 0 .. m - 1 /\ r # m - 1 BY <2>5
  <2>7. l = r + t BY <2>1
  <2> HIDE DEF t, r
  <2>8. s(r) \in Powers /\ s(r) \in Nat BY <1>0, <2>6
  <2>9. t < s(r)
    <3>1. CASE r = 0
      <4>1. s(r) = NextPowerOf2(m) BY <2>6, <3>1, DistanceIs DEF s
      <4>2. t < NextPowerOf2(m) BY <2>0, DistanceIs DEF s, t
      <4> QED BY <4>1, <4>2
    <3>2. CASE r # 0
      <4>1. PICK c \in Nat : r = (2 * c + 1) * s(r) BY <1>0, <2>6, <3>2
      <4>2. (2 * c + 1) * s(r) = (2 * k) * t BY <2>4, <4>1
      <4>3. 2 * k \in Nat OBVIOUS
      <4>4. ~(s(r) < t) BY <2>1, <2>8, <4>2, <4>3, OddOfLess
      <4>5. ASSUME s(r) = t PROVE FALSE
        <5>1. t * (2 * c + 1) = t * (2 * k) BY <2>1, <4>2, <4>5
        <5>2. t > 0 /\ 2 * c + 1 \in Int /\ 2 * k \in Int BY <2>1
        <5>3. 2 * c + 1 = 2 * k BY <2>1, <5>1, <5>2, Cancel
        <5> QED BY <5>3
      <4> QED BY <2>1, <2>8, <4>4, <4>5
    <3> QED BY <3>1, <3>2
  <2>10. l \in cfg(r).leaves BY <1>1, <2>1, <2>6, <2>7, <2>9
  <2> QED BY <2>3, <2>6, <2>10
<1> QED BY <1>2, <1>3 DEF cfg

-----------------------------------------------------------------------------
\* What the Broadcast of a supported pair takes for granted.
BroadcastHolds ==
  /\ Comparable /\ Strategy = "fully_replicated" /\ src.devices.num < dst.devices.num
  /\ \A i \in Shards(src) : i * LeavesPerRoot < dst.devices.num /\ TreeComplete(TreeSize(i))

\* The tree of a target shard and its rank there.
RootOf(j) == j \div LeavesPerRoot
RankOf(j) == j % LeavesPerRoot

\* Every target shard is a rank of one tree, and every rank a target shard.
LEMMA BroadcastRanks ==
  ASSUME BroadcastHolds
  PROVE  /\ \A i \in Shards(src) : TreeSize(i) \in Nat \ {0} /\ TreeComplete(TreeSize(i))
         /\ \A j \in Shards(dst) : /\ RootOf(j) \in Shards(src) /\ RankOf(j) \in 0 .. TreeSize(RootOf(j)) - 1
                                   /\ j = RootOf(j) * LeavesPerRoot + RankOf(j)
         /\ \A i \in Shards(src) : \A r \in 0 .. TreeSize(i) - 1 :
              LET j == i * LeavesPerRoot + r IN j \in Shards(dst) /\ RootOf(j) = i /\ RankOf(j) = r
<1> DEFINE m == src.devices.num
           N == dst.devices.num
           n == LeavesPerRoot
<1>1. m \in Nat \ {0} /\ N \in Nat \ {0} /\ m < N BY ShardNumbers DEF BroadcastHolds, Comparable
<1>2. Shards(src) = 0 .. m - 1 /\ Shards(dst) = 0 .. N - 1 BY DEF Shards
<1>3. n = (N + m - 1) \div m BY DEF LeavesPerRoot
<1>4. \A i : TreeSize(i) = IF n < N - i * n THEN n ELSE N - i * n BY DEF TreeSize
<1>5. \A j : RootOf(j) = j \div n /\ RankOf(j) = j % n BY DEF RootOf, RankOf
<1>6. \A i \in Shards(src) : i * n < N /\ TreeComplete(TreeSize(i)) BY DEF BroadcastHolds
<1> HIDE DEF m, N, n
<1>7. n \in Nat /\ n > 0 /\ N <= m * n
  <2> DEFINE a == N + m - 1
             q == a \div m
             e == a % m
  <2>1. a \in Nat /\ a >= m BY <1>1
  <2>2. q \in Nat /\ e \in 0 .. m - 1 /\ a = m * q + e /\ (q = 0 => a < m)
    <3> HIDE DEF a
    <3> QED BY <1>1, <2>1, DivNat
  <2>3. n = q BY <1>3
  <2>4. a = N + m - 1 OBVIOUS
  <2> HIDE DEF a, q, e
  <2>5. q > 0 BY <1>1, <2>1, <2>2
  <2>6. m * q \in Nat BY <1>1, <2>2, Times
  <2>7. N <= m * q BY <1>1, <2>2, <2>4, <2>6
  <2> QED BY <2>2, <2>3, <2>5, <2>7
<1>8. ASSUME NEW i \in Shards(src)
      PROVE  /\ i * n \in Nat /\ i * n < N /\ TreeSize(i) \in Nat \ {0} /\ TreeSize(i) <= n
             /\ i * n + TreeSize(i) <= N
             /\ TreeSize(i) = n \/ TreeSize(i) = N - i * n
  <2>1. i \in Nat BY <1>1, <1>2
  <2>2. i * n \in Nat BY <1>7, <2>1, Times
  <2>3. i * n < N BY <1>6
  <2> QED BY <1>1, <1>4, <1>7, <2>2, <2>3
<1>9. ASSUME NEW j \in Shards(dst)
      PROVE  RootOf(j) \in Shards(src) /\ RankOf(j) \in 0 .. TreeSize(RootOf(j)) - 1 /\ j = RootOf(j) * n + RankOf(j)
  <2> DEFINE q == j \div n
             r == j % n
  <2>1. j \in Nat /\ j < N BY <1>1, <1>2
  <2>2. q \in Nat /\ r \in 0 .. n - 1 /\ j = n * q + r BY <1>7, <2>1, DivNat
  <2>3. RootOf(j) = q /\ RankOf(j) = r BY <1>5
  <2> HIDE DEF q, r
  <2>4. q < m
    <3>1. n * q <= j BY <1>7, <2>2
    <3>2. n * q < m * n BY <1>1, <1>7, <2>1, <2>2, <3>1
    <3> QED BY <1>1, <1>7, <2>2, <3>2
  <2>5. q \in Shards(src) BY <1>1, <1>2, <2>2, <2>4
  <2>6. n * q = q * n BY <1>7, <2>2
  <2>7. r < N - q * n BY <1>1, <1>7, <1>8, <2>1, <2>2, <2>5, <2>6
  <2>8. r \in 0 .. TreeSize(q) - 1 BY <1>1, <1>7, <1>8, <2>2, <2>5, <2>7
  <2> QED BY <2>2, <2>3, <2>5, <2>6, <2>8
<1>10. ASSUME NEW i \in Shards(src), NEW r \in 0 .. TreeSize(i) - 1
       PROVE  i * n + r \in Shards(dst) /\ RootOf(i * n + r) = i /\ RankOf(i * n + r) = r
  <2>1. i \in Nat BY <1>1, <1>2
  <2>2. r \in Nat /\ r < n /\ i * n + r < N /\ i * n + r \in Nat BY <1>1, <1>7, <1>8
  <2>3. i * n + r \in Shards(dst) BY <1>1, <1>2, <2>2
  <2>4. i * n + r = n * i + r BY <1>7, <2>1, <2>2
  <2>5. (n * i + r) \div n = i /\ (n * i + r) % n = r
    <3>1. r \in Int /\ 0 <= r /\ i \in Int BY <2>1, <2>2
    <3> QED BY <1>7, <2>2, <3>1, DivUnique
  <2> QED BY <1>5, <2>3, <2>4, <2>5
<1>11. \A i \in Shards(src) : \A r \in 0 .. TreeSize(i) - 1 :
         LET j == i * n + r IN j \in Shards(dst) /\ RootOf(j) = i /\ RankOf(j) = r
  BY <1>10
<1>12. \A i \in Shards(src) : TreeSize(i) \in Nat \ {0} /\ TreeComplete(TreeSize(i)) BY <1>6, <1>8
<1> QED BY <1>9, <1>11, <1>12 DEF n

\* The parent and the leaves of a target shard in its tree, and its ops.
ConfigOf(j) == GetTargetConfig(RankOf(j), TreeSize(RootOf(j)))
Receive(j) ==
  IF RankOf(j) = 0 THEN Op("src", RootOf(j), j, Whole(dst))
  ELSE Op("dst", RootOf(j) * LeavesPerRoot + ConfigOf(j).parent, j, Whole(dst))
Forward(j) == {Op("dst", j, RootOf(j) * LeavesPerRoot + l, Whole(dst)) : l \in ConfigOf(j).leaves}
Feed(i) == Op("src", i, i * LeavesPerRoot, Whole(dst))

\* What the devices issue in a broadcast.
LEMMA BroadcastIssues ==
  ASSUME BroadcastHolds
  PROVE  /\ \A op : op \in PlanSends <=> \/ \E i \in Shards(src) : op = Feed(i)
                                         \/ \E j \in Shards(dst) : op \in Forward(j)
         /\ \A op : op \in PlanReceives <=> \E j \in Shards(dst) : op = Receive(j)
         /\ \A p \in Device : ~Reshard(p).undefined
<1>1. Comparable /\ ValidSharding(src) /\ ValidSharding(dst) /\ IsReplicated(src) /\ IsReplicated(dst)
  BY StrategyMeans DEF BroadcastHolds, Comparable
<1>2. /\ \A i \in Shards(src) : ComputeTileBounds(i, src) = Whole(dst)
      /\ \A j \in Shards(dst) : ComputeTileBounds(j, dst) = Whole(dst)
  BY <1>1, TileInWhole DEF Comparable
<1>3. ASSUME NEW p \in Device
      PROVE  /\ Reshard(p).sends = (IF HasTile(src, p) THEN {Feed(SrcShard(p))} ELSE {})
                                     \cup (IF HasTile(dst, p) THEN Forward(DstShard(p)) ELSE {})
             /\ Reshard(p).receives = IF HasTile(dst, p) THEN {Receive(DstShard(p))} ELSE {}
             /\ ~Reshard(p).undefined
  <2>1. Reshard(p) = Broadcast(p) BY ReshardIs DEF BroadcastHolds, FullyReplicated
  <2>2. HasTile(src, p) => SrcShard(p) \in Shards(src) BY <1>1, DeviceOf
  <2>3. HasTile(dst, p) => DstShard(p) \in Shards(dst) BY <1>1, DeviceOf
  <2>4. ~(HasTile(src, p) /\ SrcShard(p) * LeavesPerRoot >= dst.devices.num)
    <3>1. dst.devices.num \in Nat /\ LeavesPerRoot \in Int
      <4>1. dst.devices.num \in Nat /\ src.devices.num \in Nat \ {0} BY <1>1, ShardNumbers
      <4> QED BY <4>1 DEF LeavesPerRoot
    <3>2. Shards(src) \subseteq Nat BY <1>1, ShardNumbers
    <3>3. \A i \in Shards(src) : i * LeavesPerRoot < dst.devices.num BY DEF BroadcastHolds
    <3> QED BY <2>2, <3>1, <3>2, <3>3
  <2> DEFINE n == LeavesPerRoot
             root == DstShard(p) \div n
             rank == DstShard(p) % n
             config == GetTargetConfig(rank, TreeSize(root))
             box == ComputeTileBounds(DstShard(p), dst)
             receive == IF rank = 0 THEN Op("src", root, DstShard(p), box)
                        ELSE Op("dst", root * n + config.parent, DstShard(p), box)
             forward == {Op("dst", DstShard(p), root * n + l, box) : l \in config.leaves}
             feed == {Op("src", SrcShard(p), SrcShard(p) * n, ComputeTileBounds(SrcShard(p), src))}
  <2>5. Broadcast(p) = Plan(OfTile(src, p, feed) \cup OfTile(dst, p, forward), OfTile(dst, p, {receive}))
    BY <2>4 DEF Broadcast
  <2>6. HasTile(src, p) => feed = {Feed(SrcShard(p))} BY <1>2, <2>2 DEF Feed
  <2>7. HasTile(dst, p) => receive = Receive(DstShard(p)) BY <1>2, <2>3 DEF Receive, RankOf, RootOf, ConfigOf
  <2>8. HasTile(dst, p) => forward = Forward(DstShard(p)) BY <1>2, <2>3 DEF Forward, RankOf, RootOf, ConfigOf
  <2> HIDE DEF feed, forward, receive
  <2> QED BY <2>1, <2>5, <2>6, <2>7, <2>8 DEF Plan, OfTile
<1>4. ASSUME NEW op
      PROVE  op \in PlanSends <=> \/ \E i \in Shards(src) : op = Feed(i)
                                  \/ \E j \in Shards(dst) : op \in Forward(j)
  <2>1. op \in PlanSends <=> \E p \in Device : \/ HasTile(src, p) /\ op = Feed(SrcShard(p))
                                               \/ HasTile(dst, p) /\ op \in Forward(DstShard(p))
    <3>1. op \in PlanSends <=> \E p \in Device : op \in Reshard(p).sends BY DEF PlanSends
    <3>2. \A p \in Device : op \in Reshard(p).sends <=> \/ HasTile(src, p) /\ op = Feed(SrcShard(p))
                                                        \/ HasTile(dst, p) /\ op \in Forward(DstShard(p))
      BY <1>3
    <3> QED BY <3>1, <3>2
  <2> QED BY <1>1, <2>1, DeviceOf
<1>5. ASSUME NEW op PROVE op \in PlanReceives <=> \E j \in Shards(dst) : op = Receive(j)
  <2>1. op \in PlanReceives <=> \E p \in Device : HasTile(dst, p) /\ op = Receive(DstShard(p))
    BY <1>3 DEF PlanReceives
  <2> QED BY <1>1, <2>1, DeviceOf
<1> QED BY <1>3, <1>4, <1>5

\* ReshardBroadcast, when every source shard has a complete tree.
LEMMA BroadcastFits ==
  ASSUME BroadcastHolds
  PROVE  PlanFits
<1> DEFINE n == LeavesPerRoot
           T(i) == TreeSize(i)
           cfg(r, m) == GetTargetConfig(r, m)
           box == Whole(dst)
<1>1. /\ \A i \in Shards(src) : T(i) \in Nat \ {0} /\ TreeComplete(T(i))
      /\ \A j \in Shards(dst) : RootOf(j) \in Shards(src) /\ RankOf(j) \in 0 .. T(RootOf(j)) - 1 /\ j = RootOf(j) * n + RankOf(j)
      /\ \A i \in Shards(src) : \A r \in 0 .. T(i) - 1 :
           i * n + r \in Shards(dst) /\ RootOf(i * n + r) = i /\ RankOf(i * n + r) = r
  BY BroadcastRanks
<1>2. \A i \in Shards(src) :
         /\ \A r \in 0 .. T(i) - 1 : \A l \in cfg(r, T(i)).leaves :
              l \in 1 .. T(i) - 1 /\ cfg(l, T(i)).parent = r
         /\ \A l \in 1 .. T(i) - 1 : /\ cfg(l, T(i)).parent \in 0 .. T(i) - 1
                                     /\ l \in cfg(cfg(l, T(i)).parent, T(i)).leaves
  BY <1>1, TreeAgrees
<1>3. /\ \A j : ConfigOf(j) = cfg(RankOf(j), T(RootOf(j)))
      /\ \A j : Receive(j) = IF RankOf(j) = 0 THEN Op("src", RootOf(j), j, box)
                             ELSE Op("dst", RootOf(j) * n + ConfigOf(j).parent, j, box)
      /\ \A j, op : op \in Forward(j) <=> \E l \in ConfigOf(j).leaves : op = Op("dst", j, RootOf(j) * n + l, box)
      /\ \A i : Feed(i) = Op("src", i, i * n, box)
  BY DEF ConfigOf, Receive, Forward, Feed
<1>4. n \in Int /\ Shards(src) \subseteq Nat /\ Shards(dst) \subseteq Nat
  <2>1. dst.devices.num \in Nat /\ src.devices.num \in Nat \ {0} BY ShardNumbers DEF BroadcastHolds, Comparable
  <2>2. n \in Int BY <2>1 DEF LeavesPerRoot
  <2> QED BY <2>2, ShardNumbers DEF BroadcastHolds, Comparable
<1>5. \A j \in Shards(dst) : DstTile(j) = Points(box)
  BY TileInWhole, StrategyMeans DEF BroadcastHolds, DstTile
<1>6. \A i \in Shards(src) : SrcTile(i) = Points(box)
  BY TileInWhole, StrategyMeans DEF BroadcastHolds, SrcTile, Comparable
<1> HIDE DEF n, T, cfg, box
<1>7. ASSUME NEW i \in Shards(src) PROVE i * n \in Shards(dst) /\ Feed(i) = Receive(i * n)
  <2>1. 0 \in 0 .. T(i) - 1 BY <1>1
  <2>2. i * n + 0 = i * n BY <1>4
  <2>3. i * n \in Shards(dst) /\ RootOf(i * n) = i /\ RankOf(i * n) = 0 BY <1>1, <2>1, <2>2
  <2> QED BY <1>3, <2>3
<1>8. ASSUME NEW j \in Shards(dst), NEW op \in Forward(j) PROVE \E k \in Shards(dst) : op = Receive(k)
  <2> DEFINE i == RootOf(j)
             r == RankOf(j)
  <2>1. i \in Shards(src) /\ r \in 0 .. T(i) - 1 /\ j = i * n + r BY <1>1
  <2>2. PICK l \in cfg(r, T(i)).leaves : op = Op("dst", j, i * n + l, box) BY <1>3
  <2>3. l \in 1 .. T(i) - 1 /\ cfg(l, T(i)).parent = r BY <1>2, <2>1
  <2> HIDE DEF i, r
  <2>4. l \in 0 .. T(i) - 1 /\ l # 0 BY <2>3
  <2>5. i * n + l \in Shards(dst) /\ RootOf(i * n + l) = i /\ RankOf(i * n + l) = l BY <1>1, <2>1, <2>4
  <2>6. Receive(i * n + l) = Op("dst", i * n + r, i * n + l, box) BY <1>3, <2>3, <2>4, <2>5
  <2> QED BY <2>1, <2>2, <2>5, <2>6
<1>9. ASSUME NEW j \in Shards(dst)
      PROVE  \/ \E i \in Shards(src) : Receive(j) = Feed(i)
             \/ \E k \in Shards(dst) : Receive(j) \in Forward(k)
  <2> DEFINE i == RootOf(j)
             r == RankOf(j)
  <2>1. i \in Shards(src) /\ r \in 0 .. T(i) - 1 /\ j = i * n + r BY <1>1
  <2>2. Receive(j) = IF r = 0 THEN Op("src", i, j, box) ELSE Op("dst", i * n + cfg(r, T(i)).parent, j, box) BY <1>3
  <2>3. CASE r = 0
    <3> HIDE DEF i, r
    <3>1. j = i * n BY <1>4, <2>1, <2>3
    <3>2. Receive(j) = Feed(i) BY <1>3, <2>2, <2>3, <3>1
    <3> QED BY <2>1, <3>2
  <2>4. CASE r # 0
    <3> DEFINE q == cfg(r, T(i)).parent
    <3> HIDE DEF i, r
    <3>1. r \in 1 .. T(i) - 1 BY <2>1, <2>4
    <3>2. q \in 0 .. T(i) - 1 /\ r \in cfg(q, T(i)).leaves BY <1>2, <2>1, <3>1
    <3>3. Receive(j) = Op("dst", i * n + q, j, box) BY <2>2, <2>4
    <3> HIDE DEF q
    <3>4. i * n + q \in Shards(dst) /\ RootOf(i * n + q) = i /\ RankOf(i * n + q) = q BY <1>1, <2>1, <3>2
    <3>5. r \in ConfigOf(i * n + q).leaves BY <1>3, <3>2, <3>4
    <3>6. Receive(j) = Op("dst", i * n + q, RootOf(i * n + q) * n + r, box) BY <2>1, <3>3, <3>4
    <3>7. Receive(j) \in Forward(i * n + q) BY <1>3, <3>5, <3>6
    <3> QED BY <3>4, <3>7
  <2> QED BY <2>3, <2>4
<1>10. \A op : op \in PlanSends <=> \E j \in Shards(dst) : op = Receive(j)
  BY <1>7, <1>8, <1>9, BroadcastIssues
<1>11. PlanSends = PlanReceives BY <1>10, BroadcastIssues
<1>12. ASSUME NEW j \in Shards(dst)
       PROVE  /\ Receive(j).box = box /\ Receive(j).key.dst = j
              /\ \/ Receive(j).key.from = "src" /\ Receive(j).key.src \in Shards(src)
                 \/ Receive(j).key.from = "dst" /\ Receive(j).key.src \in Shards(dst)
  <2>1. CASE \E i \in Shards(src) : Receive(j) = Feed(i)
    <3>1. PICK i \in Shards(src) : Receive(j) = Op("src", i, i * n, box) BY <1>3, <2>1
    <3>2. Receive(j).key.dst = j BY <1>3, OpFields
    <3>3. Receive(j).key.from = "src" /\ Receive(j).key.src = i /\ Receive(j).box = box BY <3>1, OpFields
    <3> QED BY <3>2, <3>3
  <2>2. CASE \E k \in Shards(dst) : Receive(j) \in Forward(k)
    <3>1. PICK k \in Shards(dst) : Receive(j) \in Forward(k) BY <2>2
    <3>2. PICK l : Receive(j) = Op("dst", k, l, box) BY <1>3, <3>1
    <3>3. Receive(j).key.dst = j BY <1>3, OpFields
    <3>4. Receive(j).key.from = "dst" /\ Receive(j).key.src = k /\ Receive(j).box = box BY <3>2, OpFields
    <3> QED BY <3>3, <3>4
  <2> QED BY <1>9, <2>1, <2>2
<1>13. \A a, b \in PlanSends : a.key = b.key => a.box = b.box BY <1>10, <1>12
<1>14. \A a \in PlanSends : Within(a)
  <2> SUFFICES ASSUME NEW j \in Shards(dst) PROVE Within(Receive(j)) BY <1>10
  <2>1. "src" # "dst" OBVIOUS
  <2> QED BY <1>5, <1>6, <1>12, <2>1 DEF Within
<1>15. ASSUME NEW j \in Shards(dst), NEW pt \in DstTile(j)
       PROVE  \E a \in PlanSends : a.key.dst = j /\ pt \in Points(a.box)
  BY <1>5, <1>10, <1>12
<1> QED BY <1>11, <1>13, <1>14, <1>15, BroadcastIssues DEF PlanFits

-----------------------------------------------------------------------------
\* Whatever the strategy of a supported pair, the plans of the devices fit.
LEMMA SupportedFits ==
  ASSUME ValidSharding(src), ValidSharding(dst), Supported
  PROVE  PlanFits
<1>1. Comparable BY DEF Comparable, Supported
<1>2. CASE Strategy = "gather_shards" BY <1>1, <1>2, GatherShardsFits
<1>3. CASE Strategy = "scatter_shards" BY <1>1, <1>3, ScatterShardsFits DEF Supported
<1>4. CASE Strategy = "fully_replicated"
  <2>1. src.devices.num \in Nat /\ dst.devices.num \in Nat BY ShardNumbers
  <2>2. CASE src.devices.num >= dst.devices.num BY <1>1, <1>4, <2>2, ReplicasFit DEF Supported
  <2>3. CASE src.devices.num < dst.devices.num BY <1>1, <1>4, <2>3, BroadcastFits DEF Supported, BroadcastHolds
  <2> QED BY <2>1, <2>2, <2>3
<1>5. CASE Strategy = "partial_to_replicated" BY <1>1, <1>5, PartialFits
<1>6. CASE Strategy = "point_to_point" BY <1>1, <1>6, EqualShardingsFit
<1>7. CASE Strategy = "scatter_gather" BY <1>1, <1>7, ScatterGatherFits DEF Supported
<1>8. CASE Strategy = "unsupported"
  <2>1. \A p \in Device : Reshard(p) = Nothing BY <1>8, ReshardIs
  <2>2. PlanSends = {} /\ PlanReceives = {} /\ \A p \in Device : ~Reshard(p).undefined
    BY <2>1 DEF PlanSends, PlanReceives, Nothing
  <2> QED BY <1>8, <2>2 DEF PlanFits, Throws
<1> QED BY <1>2, <1>3, <1>4, <1>5, <1>6, <1>7, <1>8, StrategyMeans

-----------------------------------------------------------------------------
(***************************************************************************)
(* The copies.  The shardings never change, and so no plan does.           *)
(***************************************************************************)

\* What depends on the shardings alone.
LEMMA PlanRigid ==
  ASSUME src' = src, dst' = dst
  PROVE  /\ Device' = Device /\ Shards(dst)' = Shards(dst)
         /\ \A j : DstTile(j)' = DstTile(j) /\ SrcTile(j)' = SrcTile(j)
         /\ Strategy' = Strategy
         /\ \A p : Reshard(p)' = Reshard(p)
         /\ PlanSends' = PlanSends /\ PlanReceives' = PlanReceives
         /\ Supported' = Supported
<1>1. Device' = Device BY DEF Device
<1>2. \A j : DstTile(j)' = DstTile(j) /\ SrcTile(j)' = SrcTile(j) BY DEF DstTile, SrcTile
<1>3. \A p : SrcShard(p)' = SrcShard(p) /\ DstShard(p)' = DstShard(p) BY DEF SrcShard, DstShard
<1>4. ReplicatedDim' = ReplicatedDim BY DEF ReplicatedDim
<1>5. Replication' = Replication BY <1>4 DEF Replication
<1>6. SliceDims' = SliceDims BY <1>5 DEF SliceDims
<1>7. \A i : PartialBox(i)' = PartialBox(i) BY <1>4, <1>5, <1>6 DEF PartialBox
<1>8. DifferentDims' = DifferentDims BY DEF DifferentDims
<1>9. Strategy' = Strategy BY <1>6, <1>8 DEF Strategy
<1>10. LeavesPerRoot' = LeavesPerRoot BY DEF LeavesPerRoot
<1>11. \A i : TreeSize(i)' = TreeSize(i) BY <1>10 DEF TreeSize
<1>12. \A p : PointToPoint(p)' = PointToPoint(p) BY <1>3 DEF PointToPoint
<1>13. \A p, box : GatherShards(p, box)' = GatherShards(p, box) BY <1>3 DEF GatherShards
<1>14. \A p : ScatterShards(p)' = ScatterShards(p) BY <1>3 DEF ScatterShards
<1>15. \A p : Broadcast(p)' = Broadcast(p) BY <1>3, <1>10, <1>11 DEF Broadcast
<1>16. \A p, dim : ScatterGather(p, dim)' = ScatterGather(p, dim) BY <1>3 DEF ScatterGather
<1>17. \A p : FullyReplicated(p)' = FullyReplicated(p) BY <1>3, <1>12, <1>15 DEF FullyReplicated
<1>18. \A p : Reshard(p)' = Reshard(p)
  BY <1>7, <1>8, <1>9, <1>12, <1>13, <1>14, <1>16, <1>17 DEF Reshard
<1>19. PlanSends' = PlanSends /\ PlanReceives' = PlanReceives BY <1>1, <1>18 DEF PlanSends, PlanReceives
<1>20. Supported' = Supported BY <1>1, <1>3, <1>8, <1>9, <1>10, <1>11 DEF Supported
<1> QED BY <1>1, <1>2, <1>9, <1>18, <1>19, <1>20

\* What was issued is the plan, and a target shard of a supported pair holds exactly
\* what has been copied into it.
ShardingsValid == ValidSharding(src) /\ ValidSharding(dst)
NotIssued == ~issued => sends = {} /\ receives = {} /\ undefined = {} /\ copied = {}
Issued ==
  issued => /\ sends = PlanSends /\ receives = PlanReceives
            /\ undefined = {p \in Device : Reshard(p).undefined}
CopiedInto(j) == {op \in sends : op.key.dst = j /\ op.key \in copied}
HeldIsCopied ==
  Supported => \A j \in Shards(dst) : held[j] = UNION {Points(op.box) : op \in CopiedInto(j)}
CopiesInv == ShardingsValid /\ NotIssued /\ Issued /\ HeldIsCopied

\* A ready target shard has been filled (Store::ReadyAfter of its receives).
LEMMA Filled ==
  ASSUME CopiesInv, Supported, ~Throws, issued, NEW j \in Shards(dst), DstReady(j)
  PROVE  held[j] = DstTile(j)
<1>1. PlanFits /\ sends = PlanSends /\ receives = sends
  BY SupportedFits DEF CopiesInv, ShardingsValid, Issued, PlanFits
<1>2. held[j] = UNION {Points(op.box) : op \in CopiedInto(j)} BY DEF CopiesInv, HeldIsCopied
<1>3. ASSUME NEW op \in CopiedInto(j) PROVE Points(op.box) \subseteq DstTile(j)
  BY <1>1 DEF CopiedInto, PlanFits, Within
<1>4. ASSUME NEW pt \in DstTile(j) PROVE \E op \in CopiedInto(j) : pt \in Points(op.box)
  <2>1. PICK a \in sends : a.key.dst = j /\ pt \in Points(a.box) BY <1>1 DEF PlanFits
  <2>2. a.key \in copied BY <1>1, <2>1 DEF DstReady
  <2> QED BY <2>1, <2>2 DEF CopiedInto
<1> QED BY <1>2, <1>3, <1>4

\* The sender of a copy that can run has all of its box.
LEMMA SenderHas ==
  ASSUME CopiesInv, Supported, NEW op \in Ready
  PROVE  /\ op.key.dst \in Shards(dst)
         /\ Points(op.box) \subseteq IF op.key.from = "src" THEN SrcTile(op.key.src) ELSE held[op.key.src]
<1>1. op \in sends BY DEF Ready
<1>2. issued BY <1>1 DEF CopiesInv, NotIssued
<1>3. PlanFits /\ op \in PlanSends
  BY <1>1, <1>2, SupportedFits DEF CopiesInv, ShardingsValid, Issued
<1>4. Within(op) BY <1>3 DEF PlanFits
<1>5. CASE op.key.from = "src" BY <1>4, <1>5 DEF Within
<1>6. CASE op.key.from # "src"
  <2>1. op.key.src \in Shards(dst) /\ Points(op.box) \subseteq DstTile(op.key.src) BY <1>4, <1>6 DEF Within
  <2>2. ~Throws
    <3>1. ASSUME Throws PROVE \A p \in Device : Reshard(p).sends = {}
      BY <3>1, ReshardIs DEF Throws, Nothing
    <3> QED BY <1>3, <3>1 DEF PlanSends
  <2>3. DstReady(op.key.src)
    <3>1. op.key.from = "dst" BY <1>4, <1>6 DEF Within
    <3> QED BY <3>1 DEF Ready
  <2>4. held[op.key.src] = DstTile(op.key.src) BY <1>2, <2>1, <2>2, <2>3, Filled
  <2> QED BY <1>4, <1>6, <2>1, <2>4 DEF Within
<1> QED BY <1>5, <1>6

\* The shardings come from Cases, and nobody holds anything yet.
LEMMA CopiesInit == Init => CopiesInv
<1> SUFFICES ASSUME Init PROVE CopiesInv OBVIOUS
<1>1. PICK c \in Cases : src = c.src /\ dst = c.dst /\ held = [j \in Shards(c.dst) |-> {}] BY DEF Init
<1>2. ShardingsValid BY <1>1, CasesAssumption DEF ShardingsValid
<1>3. NotIssued /\ Issued BY DEF Init, NotIssued, Issued
<1>4. HeldIsCopied
  <2>1. \A j : CopiedInto(j) = {} BY DEF Init, CopiedInto
  <2>2. \A j \in Shards(dst) : held[j] = {} BY <1>1
  <2> QED BY <2>1, <2>2 DEF HeldIsCopied
<1> QED BY <1>2, <1>3, <1>4 DEF CopiesInv

\* Deliver adds to a target shard the boxes that are copied into it, and spoils none.
LEMMA DeliverHolds ==
  ASSUME CopiesInv, Deliver
  PROVE  HeldIsCopied'
<1>1. src' = src /\ dst' = dst /\ sends' = sends BY DEF Deliver
<1>2. Supported' = Supported /\ Shards(dst)' = Shards(dst) BY <1>1, PlanRigid
<1> SUFFICES ASSUME Supported, NEW j \in Shards(dst)
             PROVE  held'[j] = UNION {Points(op.box) : op \in CopiedInto(j)'}
  BY <1>2 DEF HeldIsCopied
<1> DEFINE has(key) == IF key.from = "src" THEN SrcTile(key.src) ELSE held[key.src]
           into == {op \in Ready : op.key.dst = j}
<1>3. copied' = copied \cup {op.key : op \in Ready} BY DEF Deliver
<1>4. held'[j] = (held[j] \cup UNION {Points(op.box) : op \in into})
                   \ UNION {Points(op.box) \ has(op.key) : op \in into}
  BY DEF Deliver
<1>5. \A op \in into : Points(op.box) \ has(op.key) = {} BY SenderHas
<1> HIDE DEF has
<1>6. UNION {Points(op.box) \ has(op.key) : op \in into} = {} BY <1>5
<1>7. held'[j] = held[j] \cup UNION {Points(op.box) : op \in into} BY <1>4, <1>6
<1>8. held[j] = UNION {Points(op.box) : op \in CopiedInto(j)} BY DEF CopiesInv, HeldIsCopied
<1>9. CopiedInto(j)' = {op \in sends : op.key.dst = j /\ (op.key \in copied \/ \E a \in Ready : op.key = a.key)}
  BY <1>1, <1>3 DEF CopiedInto
<1>10. \A a, b \in sends : a.key = b.key => a.box = b.box
  <2>1. CASE issued BY <2>1, SupportedFits DEF CopiesInv, ShardingsValid, Issued, PlanFits
  <2>2. CASE ~issued BY <2>2 DEF CopiesInv, NotIssued
  <2> QED BY <2>1, <2>2
<1>11. ASSUME NEW pt, NEW op \in CopiedInto(j)', pt \in Points(op.box) PROVE pt \in held'[j]
  <2>1. op \in sends /\ op.key.dst = j BY <1>9
  <2>2. CASE op.key \in copied
    <3>1. op \in CopiedInto(j) BY <2>1, <2>2 DEF CopiedInto
    <3> QED BY <1>7, <1>8, <1>11, <3>1
  <2>3. CASE \E a \in Ready : op.key = a.key
    <3>1. PICK a \in Ready : op.key = a.key BY <2>3
    <3>2. a \in sends BY DEF Ready
    <3>3. a.box = op.box /\ a \in into BY <1>10, <2>1, <3>1, <3>2
    <3> HIDE DEF into
    <3> QED BY <1>7, <1>11, <3>3
  <2> QED BY <1>9, <2>2, <2>3
<1>12. ASSUME NEW pt \in held'[j] PROVE \E op \in CopiedInto(j)' : pt \in Points(op.box)
  <2>1. CASE pt \in held[j]
    <3>1. PICK op \in CopiedInto(j) : pt \in Points(op.box) BY <1>8, <2>1
    <3>2. op \in CopiedInto(j)' BY <1>9 DEF CopiedInto
    <3> QED BY <3>1, <3>2
  <2>2. CASE \E op \in into : pt \in Points(op.box)
    <3>1. PICK op \in into : pt \in Points(op.box) BY <2>2
    <3>2. op \in sends BY DEF Ready
    <3>3. op \in CopiedInto(j)' BY <1>9, <3>2
    <3> QED BY <3>1, <3>3
  <2> HIDE DEF into
  <2> QED BY <1>7, <2>1, <2>2
<1> QED BY <1>11, <1>12

\* Every step keeps the invariant.
LEMMA CopiesNext == CopiesInv /\ [Next]_vars => CopiesInv'
<1> SUFFICES ASSUME CopiesInv, [Next]_vars PROVE CopiesInv' OBVIOUS
<1>1. src' = src /\ dst' = dst BY DEF Next, Issue, Deliver, Settled, vars
<1>2. /\ Device' = Device /\ Shards(dst)' = Shards(dst)
      /\ \A p : Reshard(p)' = Reshard(p)
      /\ PlanSends' = PlanSends /\ PlanReceives' = PlanReceives /\ Supported' = Supported
  BY <1>1, PlanRigid
<1>3. ShardingsValid' BY <1>1 DEF CopiesInv, ShardingsValid
<1>4. CASE Issue
  <2>1. /\ ~issued /\ issued' = TRUE /\ held' = held /\ copied' = copied
        /\ sends' = PlanSends /\ receives' = PlanReceives
        /\ undefined' = {p \in Device : Reshard(p).undefined}
    BY <1>4 DEF Issue, PlanSends, PlanReceives
  <2>2. NotIssued' BY <2>1 DEF NotIssued
  <2>3. Issued' BY <1>2, <2>1 DEF Issued
  <2>4. HeldIsCopied'
    <3>1. sends = {} /\ copied = {} BY <2>1 DEF CopiesInv, NotIssued
    <3>2. \A j : CopiedInto(j) = {} /\ CopiedInto(j)' = {} BY <2>1, <3>1 DEF CopiedInto
    <3> QED BY <1>2, <2>1, <3>2 DEF CopiesInv, HeldIsCopied
  <2> QED BY <1>3, <2>2, <2>3, <2>4 DEF CopiesInv
<1>5. CASE Deliver
  <2>1. issued' = issued /\ sends' = sends /\ receives' = receives /\ undefined' = undefined
    BY <1>5 DEF Deliver
  <2>2. NotIssued'
    <3>1. sends # {} BY <1>5 DEF Deliver, Ready
    <3> QED BY <2>1, <3>1 DEF CopiesInv, NotIssued
  <2>3. Issued' BY <1>2, <2>1 DEF CopiesInv, Issued
  <2>4. HeldIsCopied' BY <1>5, DeliverHolds
  <2> QED BY <1>3, <2>2, <2>3, <2>4 DEF CopiesInv
<1>6. CASE UNCHANGED vars
  <2>1. /\ issued' = issued /\ sends' = sends /\ receives' = receives /\ undefined' = undefined
        /\ copied' = copied /\ held' = held
    BY <1>6 DEF vars
  <2>2. NotIssued' BY <2>1 DEF CopiesInv, NotIssued
  <2>3. Issued' BY <1>2, <2>1 DEF CopiesInv, Issued
  <2>4. HeldIsCopied'
    <3>1. \A j : CopiedInto(j)' = CopiedInto(j) BY <2>1 DEF CopiedInto
    <3> QED BY <1>2, <2>1, <3>1 DEF CopiesInv, HeldIsCopied
  <2> QED BY <1>3, <2>2, <2>3, <2>4 DEF CopiesInv
<1> QED BY <1>4, <1>5, <1>6 DEF Next, Settled

\* The invariant of the copies.
THEOREM CopiesInvariant == Spec => []CopiesInv
BY CopiesInit, CopiesNext, PTL DEF Spec

-----------------------------------------------------------------------------
\* Tiles of equal extents cover each element of the array as often as the array is
\* replicated, for every mesh, every permutation and every number of dimensions
\* (ComputeTileBounds, ComputeTileIndex).
THEOREM TilesArePartition == Spec => [](Tileable(src) /\ Tileable(dst) => TilesPartition)
<1>1. CopiesInv => (Tileable(src) /\ Tileable(dst) => TilesPartition)
  BY TilesCover DEF CopiesInv, ShardingsValid, TilesPartition
<1> QED BY <1>1, CopiesInvariant, PTL

\* The sends and the receives that the devices issue without speaking to each other
\* match one to one, for the same box, within both tiles, for every supported pair.
THEOREM SendsMatch == Spec => [](Supported => SendsMatchReceives)
<1>1. ASSUME CopiesInv, Supported PROVE SendsMatchReceives
  <2>1. CASE issued
    <3>1. PlanFits /\ sends = PlanSends /\ receives = sends
      BY <1>1, <2>1, SupportedFits DEF CopiesInv, ShardingsValid, Issued, PlanFits
    <3>2. ASSUME NEW op \in sends, NEW r \in receives, r.key = op.key
          PROVE  r.box = op.box /\ Within(r)
      BY <3>1, <3>2 DEF PlanFits
    <3> QED BY <3>1, <3>2 DEF SendsMatchReceives, Within
  <2>2. CASE ~issued BY <1>1, <2>2 DEF CopiesInv, NotIssued, SendsMatchReceives
  <2> QED BY <2>1, <2>2
<1> QED BY <1>1, CopiesInvariant, PTL

\* A target shard of a supported pair whose receives are done holds all of its tile.
THEOREM ReadyIsFilled == Spec => [](Supported => ReadyMeansFilled)
<1>1. ASSUME CopiesInv, Supported PROVE ReadyMeansFilled
  BY <1>1, Filled DEF ReadyMeansFilled
<1> QED BY <1>1, CopiesInvariant, PTL

-----------------------------------------------------------------------------
\* A target shard forwards only to higher ones, so no two wait for each other.
LEMMA ForwardsGoUp ==
  ASSUME ValidSharding(src), ValidSharding(dst), Supported, NEW a \in PlanSends, a.key.from = "dst"
  PROVE  a.key.src < a.key.dst
<1>1. Comparable BY DEF Comparable, Supported
<1>2. PICK p \in Device : a \in Reshard(p).sends BY DEF PlanSends
<1>3. \A i, j, box : Op("src", i, j, box).key.from = "src" BY OpFields
<1>4. CASE Strategy = "fully_replicated" /\ src.devices.num < dst.devices.num
  <2>1. BroadcastHolds BY <1>1, <1>4 DEF BroadcastHolds, Supported
  <2>2. ~\E i \in Shards(src) : a = Feed(i) BY <1>3 DEF Feed
  <2>3. PICK j \in Shards(dst) : a \in Forward(j) BY <2>1, <2>2, BroadcastIssues
  <2> DEFINE i == RootOf(j)
             r == RankOf(j)
             n == LeavesPerRoot
  <2>4. PICK l \in GetTargetConfig(r, TreeSize(i)).leaves : a = Op("dst", j, i * n + l, Whole(dst))
    BY <2>3 DEF Forward, ConfigOf
  <2>5. /\ i \in Shards(src) /\ r \in 0 .. TreeSize(i) - 1 /\ j = i * n + r
        /\ TreeSize(i) \in Nat \ {0} /\ TreeComplete(TreeSize(i))
    BY <2>1, BroadcastRanks
  <2>6. PICK t \in Powers : l = r + t BY <2>4, <2>5, ConfigIs
  <2>7. t \in Nat /\ t >= 1 BY <2>6, PowerHalf
  <2>8. a.key.src = j /\ a.key.dst = i * n + l BY <2>4, OpFields
  <2>9. i \in Nat /\ n \in Int
    <3>1. dst.devices.num \in Nat /\ src.devices.num \in Nat \ {0} /\ Shards(src) \subseteq Nat BY ShardNumbers
    <3>2. n \in Int BY <3>1 DEF LeavesPerRoot
    <3> QED BY <2>5, <3>1, <3>2
  <2> HIDE DEF i, r, n
  <2>10. i * n \in Int /\ r \in Int BY <2>5, <2>9
  <2> QED BY <2>5, <2>6, <2>7, <2>8, <2>10
<1>5. CASE ~(Strategy = "fully_replicated" /\ src.devices.num < dst.devices.num)
  <2>1. \E i, j, box : a = Op("src", i, j, box)
    <3>1. CASE Strategy \in {"gather_shards", "partial_to_replicated"}
      <4>1. ASSUME NEW boxes, Reshard(p) = GatherShards(p, boxes) PROVE \E i, j, box : a = Op("src", i, j, box)
        BY <1>2, <4>1 DEF GatherShards, Plan, OfTile
      <4>2. \E boxes : Reshard(p) = GatherShards(p, boxes) BY <3>1, ReshardIs
      <4> QED BY <4>1, <4>2
    <3>2. CASE Strategy = "scatter_shards"
      BY <1>2, <3>2, ReshardIs DEF ScatterShards, Plan, OfTile, Undefined, Nothing
    <3>3. CASE Strategy = "fully_replicated"
      BY <1>2, <1>5, <3>3, ReshardIs DEF FullyReplicated, PointToPoint, Plan, OfTile, Nothing
    <3>4. CASE Strategy = "point_to_point"
      BY <1>2, <3>4, ReshardIs DEF PointToPoint, Plan, OfTile
    <3>5. CASE Strategy = "scatter_gather"
      BY <1>2, <3>5, ReshardIs DEF ScatterGather, Plan, OfTile
    <3>6. CASE Strategy = "unsupported"
      BY <1>2, <3>6, ReshardIs DEF Nothing
    <3> QED BY <3>1, <3>2, <3>3, <3>4, <3>5, <3>6, StrategyMeans
  <2> QED BY <1>3, <2>1
<1> QED BY <1>4, <1>5

\* When nothing can move any more, nobody waits: every send and every receive has been
\* completed, and every target tile is filled.
SettledMeansDone ==
  issued /\ Ready = {} =>
    \/ Throws
    \/ /\ \A op \in sends \cup receives : op.key \in copied
       /\ \A j \in Shards(dst) : held[j] = DstTile(j)

\* Reshard of a supported pair never gets stuck: no device waits for a copy that nobody
\* issues, and no two forwarders of a broadcast for each other.  With the fairness of Realm
\* this is what Completes says.
THEOREM NeverStuck == Spec => [](Supported => SettledMeansDone)
<1>1. ASSUME CopiesInv, Supported PROVE SettledMeansDone
  <2>1. SUFFICES ASSUME issued, Ready = {}, ~Throws
                 PROVE  /\ \A op \in sends \cup receives : op.key \in copied
                        /\ \A j \in Shards(dst) : held[j] = DstTile(j)
    BY DEF SettledMeansDone
  <2>2. PlanFits /\ sends = PlanSends /\ receives = sends /\ ValidSharding(src) /\ ValidSharding(dst)
    BY <1>1, <2>1, SupportedFits DEF CopiesInv, ShardingsValid, Issued, PlanFits
  <2> DEFINE Blocked == {j \in Shards(dst) : \E op \in sends : op.key.dst = j /\ op.key \notin copied}
  <2>3. Blocked = {}
    <3>1. SUFFICES ASSUME Blocked # {} PROVE FALSE OBVIOUS
    <3>2. Blocked \subseteq Nat BY <2>2, ShardNumbers
    <3>3. PICK j \in Blocked : \A k \in Blocked : j <= k BY <3>1, <3>2, LeastNat
    <3>4. PICK op \in sends : op.key.dst = j /\ op.key \notin copied BY <3>3
    <3>5. Within(op) BY <2>2, <3>4 DEF PlanFits
    <3>6. ASSUME op.key.from = "dst" PROVE DstReady(op.key.src)
      <4>1. op.key.src < j BY <1>1, <2>2, <3>4, <3>6, ForwardsGoUp
      <4>2. op.key.src \in Shards(dst) BY <3>5, <3>6 DEF Within
      <4>3. op.key.src \in Nat /\ j \in Nat BY <2>2, <3>2, <3>3, <4>2, ShardNumbers
      <4>4. op.key.src \notin Blocked BY <3>3, <4>1, <4>3
      <4> QED BY <2>2, <4>2, <4>4 DEF DstReady
    <3>7. op \in Ready BY <2>2, <3>4, <3>6 DEF Ready
    <3> QED BY <2>1, <3>7
  <2>4. \A op \in sends : op.key.dst \in Shards(dst) BY <2>2 DEF PlanFits, Within
  <2>5. \A op \in sends \cup receives : op.key \in copied BY <2>2, <2>3, <2>4
  <2>6. \A j \in Shards(dst) : DstReady(j) BY <2>5 DEF DstReady
  <2> QED BY <1>1, <2>1, <2>5, <2>6, Filled
<1> QED BY <1>1, CopiesInvariant, PTL
=============================================================================
