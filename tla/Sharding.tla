------------------------------ MODULE Sharding ------------------------------
(***************************************************************************)
(* How an array is cut into tiles: zuku::DeviceList (mesh.h), Sharding     *)
(* (shape.h) and the index arithmetic of tiled_array.cc.                   *)
(*                                                                         *)
(* A sharding is [dims, devices].  A dimension is [size, sharding,         *)
(* permutation]; one of size 1 with a sharding above 1 is no dimension of  *)
(* the array but replicates it.  Devices are consecutive global ids, shard *)
(* i of an array living on device start + i.  Sequences start at 1, the    *)
(* source's permutations, shards and coordinates at 0.                     *)
(***************************************************************************)
EXTENDS Integers, Sequences, FiniteSets, Functions

Product(f, S) == FoldFunctionOnSet(LAMBDA x, y : x * y, 1, f, S)

\* DeviceList.
Devices(start, num) == [start |-> start, num |-> num]
Contains(devices, p) == p >= devices.start /\ p < devices.start + devices.num
ShardId(devices, p) == p - devices.start          \* if Contains(devices, p)
Shards(s) == 0 .. s.devices.num - 1

Dim(size, sharding, permutation) ==
  [size |-> size, sharding |-> sharding, permutation |-> permutation]
Replicates(dim) == dim.size = 1 /\ dim.sharding > 1

\* Sharding::TotalSharding and the three questions asked of it.
TotalSharding(s) ==
  Product([d \in DOMAIN s.dims |-> s.dims[d].sharding],
          {d \in DOMAIN s.dims : s.dims[d].size > 1})
IsPartiallyReplicated(s) == TotalSharding(s) > 1 /\ TotalSharding(s) < s.devices.num
FullySharded(s) == TotalSharding(s) = s.devices.num
IsReplicated(s) == TotalSharding(s) = 1

\* What ShardedArray::Create demands, and that the permutation is one.
DimType == [size : Nat \ {0}, sharding : Nat \ {0}, permutation : Nat]
ValidSharding(s) ==
  /\ s.dims \in Seq(DimType)
  /\ s.devices.start \in Nat
  /\ Product([d \in DOMAIN s.dims |-> s.dims[d].sharding], DOMAIN s.dims) = s.devices.num
  /\ {s.dims[d].permutation : d \in DOMAIN s.dims} = 0 .. Len(s.dims) - 1

\* Mutant: the index of the q-th permuted dimension is stored as the q-th.
ComputeTileIndexInPlace(shard, s) ==
  [d \in DOMAIN s.dims |->
     LET e == CHOOSE x \in DOMAIN s.dims : s.dims[x].permutation = d - 1
         inner == {x \in DOMAIN s.dims : s.dims[x].permutation > d - 1}
     IN (shard \div Product([x \in DOMAIN s.dims |-> s.dims[x].sharding], inner)) % s.dims[e].sharding]

\* ComputeTileIndex: the shards are numbered with the dimension of permutation 0
\* outermost.
ComputeTileIndex(shard, s) ==
  [d \in DOMAIN s.dims |->
     LET inner == {e \in DOMAIN s.dims : s.dims[e].permutation > s.dims[d].permutation}
         stride == Product([e \in DOMAIN s.dims |-> s.dims[e].sharding], inner)
     IN (shard \div stride) % s.dims[d].sharding]

\* ComputeTileShard: row-major, whatever the permutation.
ComputeTileShard(index, s) ==
  LET upto[d \in DOMAIN index] ==
        IF d = 1 THEN index[1] ELSE upto[d - 1] * s.dims[d].sharding + index[d]
  IN IF index = <<>> THEN 0 ELSE upto[Len(index)]

\* The dimensions in S, in their order.
InOrder(S, s) ==
  LET upto[d \in 0 .. Len(s.dims)] ==
        IF d = 0 THEN <<>> ELSE IF d \in S THEN Append(upto[d - 1], d) ELSE upto[d - 1]
  IN upto[Len(s.dims)]

\* The bounds of a tile: lo and hi of every dimension of the array.
Range1(start, extent) == [lo |-> start, hi |-> start + extent - 1]
Extent(dim) == dim.size \div dim.sharding
RealDims(s) == InOrder({d \in DOMAIN s.dims : ~Replicates(s.dims[d])}, s)
ComputeTileBounds(shard, s) ==
  IF s.dims = <<>> \/ (Len(s.dims) = 1 /\ s.dims[1].size = 1)
  THEN <<Range1(0, 1)>>
  ELSE LET real == RealDims(s)
           index == ComputeTileIndex(shard, s)
       IN [r \in DOMAIN real |->
             Range1(Extent(s.dims[real[r]]) * index[real[r]], Extent(s.dims[real[r]]))]

\* The elements in a box, and all those of the array.
Points(box) ==
  {pt \in [DOMAIN box -> UNION {box[r].lo .. box[r].hi : r \in DOMAIN box}] :
     \A r \in DOMAIN box : pt[r] \in box[r].lo .. box[r].hi}
Whole(s) ==
  LET real == RealDims(s) IN
  IF real = <<>> THEN <<Range1(0, 1)>>
  ELSE [r \in DOMAIN real |-> Range1(0, s.dims[real[r]].size)]

\* A sharding whose tiles have equal extents, with at most one replicating dimension
\* (NumRealDims counts one), and one whose shards are numbered row-major, the replicas
\* of a tile next to each other (ComputeTileShard, MakeTileBox).
Tileable(s) ==
  /\ \A d \in DOMAIN s.dims : Replicates(s.dims[d]) \/ s.dims[d].size % s.dims[d].sharding = 0
  /\ \A d, e \in DOMAIN s.dims : Replicates(s.dims[d]) /\ Replicates(s.dims[e]) => d = e
RowMajor(s) ==
  \A d \in DOMAIN s.dims :
    /\ s.dims[d].permutation = d - 1
    /\ Replicates(s.dims[d]) => d = Len(s.dims)
=============================================================================
