--------------------------- MODULE MCReshardPlan ----------------------------
(***************************************************************************)
(* Pairs of shardings for ReshardPlan.  An array is given by the sizes of  *)
(* its dimensions; a sharding of it by how often each is cut, in which     *)
(* order the shards are numbered, and how often the whole is replicated.   *)
(***************************************************************************)
EXTENDS ReshardPlan

Cuts == {1, 2, 4}

\* The dimensions, and a replicating one after them unless repl is 1.
MakeSharding(sizes, cuts, repl, start) ==
  LET n == Len(sizes)
      dims == [d \in 1 .. n |-> Dim(sizes[d], cuts[d], d - 1)]
      num == repl * Product(cuts, DOMAIN cuts)
  IN [dims |-> IF repl = 1 THEN dims ELSE Append(dims, Dim(1, repl, n)),
      devices |-> Devices(start, num)]

ShardingsOf(sizes, repls, start) ==
  {s \in {MakeSharding(sizes, cuts, repl, start) : cuts \in [DOMAIN sizes -> Cuts], repl \in repls} :
     s.devices.num <= 8}

\* The second mesh starts with the first or after it.
PairsOf(sizes, repls) ==
  UNION {UNION {{[src |-> s, dst |-> t] : t \in ShardingsOf(sizes, repls, at)} :
                  at \in {0, s.devices.num}} : s \in ShardingsOf(sizes, repls, 0)}

\* Replicas are scattered to at least as many targets.
ShardedCases ==
  {c \in PairsOf(<<4>>, {1, 2, 4}) \cup PairsOf(<<4, 4>>, {1, 2}) :
     IsReplicated(c.src) /\ FullySharded(c.dst) /\ ~(FullySharded(c.src) /\ IsReplicated(c.dst))
       => c.dst.devices.num >= c.src.devices.num}

\* Replicated to replicated, for mesh sizes that leave no source shard over.
Replicated(n, start) ==
  [dims |-> <<Dim(2, 1, 0), Dim(1, n, 1)>>, devices |-> Devices(start, n)]
ReplicatedCases ==
  {c \in {[src |-> Replicated(m, 0), dst |-> Replicated(n, at)] : m \in 2 .. 8, n \in 2 .. 8, at \in {0, 8}} :
     LET m == c.src.devices.num
         n == c.dst.devices.num
     IN n > m => (m - 1) * ((n + m - 1) \div m) < n}

\* A matrix whose shards are numbered along its columns, to and from replicas of it and
\* to another mesh.
Columns(a, b, start) ==
  [dims |-> <<Dim(4, a, 1), Dim(4, b, 0)>>, devices |-> Devices(start, a * b)]
PermutedCases ==
  UNION {{[src |-> Columns(a, b, 0), dst |-> MakeSharding(<<4, 4>>, <<1, 1>>, 2, 2)],
          [src |-> MakeSharding(<<4, 4>>, <<1, 1>>, 2, 2), dst |-> Columns(a, b, 0)],
          [src |-> Columns(a, b, 0), dst |-> Columns(a, b, 4)]} :
           <<a, b>> \in {<<2, 1>>, <<1, 2>>, <<2, 2>>, <<4, 2>>, <<2, 4>>}}

MCCases == ShardedCases \cup ReplicatedCases \cup PermutedCases

\* Single cases on which the code and what is said of it differ.
TwoToTwelve == {[src |-> Replicated(2, 0), dst |-> Replicated(12, 0)]}
ColumnsCutFiner == {[src |-> Columns(2, 2, 0), dst |-> Columns(4, 2, 0)]}
=============================================================================
