------------------------------- MODULE Memory -------------------------------
(***************************************************************************)
(* The memory of sharded arrays on one processor: ShardedArray and         *)
(* ArrayTile (tiled_array.cc), the tile cache, the ArrayCache of every     *)
(* memory (instance_cache.h) and MoveToMemory.                             *)
(*                                                                         *)
(* An array is a root Store whose tile is a Realm instance.  Tasks access  *)
(* it as in Store (only leaves are modelled here); what is new is that     *)
(* instances outlive arrays: they are destroyed by an event, or kept in a  *)
(* cache and given to another array while tasks of the old one still run.  *)
(* Only events keep the two apart.  An event is the set of the tasks and   *)
(* copies it still waits for.                                              *)
(*                                                                         *)
(* One thread creates, moves and drops arrays.  Realm's allocator is       *)
(* external: a request is answered with success when there is room, waits  *)
(* as long as a pending destruction may make room, and fails otherwise.    *)
(***************************************************************************)
EXTENDS Integers, Sequences, FiniteSets, SequencesExt

CONSTANTS
  Mem,        \* the memories the processor has affinity to
  Shape,      \* the shapes of the tiles; all have the size of one unit
  KeyOf,      \* what a TileShape is compared by: a shape without its bounds
  Capacity,   \* how many tiles a memory holds
  NInst,      \* bound: how many instances are created
  NArrays,    \* bound: how many arrays are created
  NOps,       \* bound: how many tasks and copies are launched
  MinSizes    \* the min_cache_size the program passes to InstanceCache::Get

ASSUME CapacityAssumption == Capacity \in [Mem -> Nat]
ASSUME KeyAssumption == DOMAIN KeyOf = Shape
ASSUME BoundsAssumption == NInst \in Nat /\ NArrays \in Nat /\ NOps \in Nat

\* With 0 an empty queue would be popped.
ASSUME MinAssumption == MinSizes \subseteq Nat \ {0}

Inst == 1 .. NInst
Array == 1 .. NArrays
Op == 1 .. NOps
None == 0

VARIABLES
  tileCache,  \* was it built with ZUKU_USE_TILE_CACHE?
  \* instances
  ist,        \* none, live, lost (nothing will ever destroy it), doomed (destroy(ev)
              \* was called), gone
  imem,       \* the memory of an instance
  ishape,     \* the shape it was created for
  doom,       \* the event its destruction waits for
  data,       \* the task that wrote it last
  \* arrays
  ast,        \* none, held (by the program), cached (in an ArrayCache), dead
  acache,     \* the memory of the ArrayCache it is in
  ashape,     \* the shape it was created for
  tile,       \* its instance
  id,         \* mesh_unique_id_
  given,      \* history: was its id given to another array?
  nextId,     \* next_ids of AllocateNextGlobalId
  rw, hasRw,  \* Store::child_rw_event_ and whether it has a value
  war, hasWar,  \* Store::war_precondition_ and whether it has a value
  val,        \* history: the task whose result the program expects in it
  \* caches and the call in progress
  tiles,      \* the tile cache: a queue of tiles and the events that free them
  arrays,     \* the ArrayCache of every memory: a queue of arrays per shape
  call,       \* what Create or MoveToMemory is doing
  \* tasks and copies
  launched, from, to, opre, ost,
  want        \* history: what a task that reads should find

instVars == <<ist, imem, ishape, doom>>
arrayVars == <<ast, acache, ashape, tile, id, given, nextId>>
storeVars == <<rw, hasRw, war, hasWar, val>>
opVars == <<launched, from, to, opre, ost, want>>
vars == <<tileCache, instVars, data, arrayVars, storeVars, tiles, arrays, call, opVars>>

Idle == [phase |-> "idle", mem |-> None, shape |-> None, src |-> None, dst |-> None,
         save |-> None]

Init ==
  /\ tileCache \in BOOLEAN
  /\ ist = [i \in Inst |-> "none"]
  /\ imem = [i \in Inst |-> None] /\ ishape = [i \in Inst |-> None]
  /\ doom = [i \in Inst |-> {}] /\ data = [i \in Inst |-> None]
  /\ ast = [a \in Array |-> "none"]
  /\ acache = [a \in Array |-> None] /\ ashape = [a \in Array |-> None]
  /\ tile = [a \in Array |-> None] /\ id = [a \in Array |-> None] /\ nextId = 1
  /\ given = [a \in Array |-> FALSE]
  /\ rw = [a \in Array |-> {}] /\ hasRw = [a \in Array |-> FALSE]
  /\ war = [a \in Array |-> {}] /\ hasWar = [a \in Array |-> FALSE] /\ val = [a \in Array |-> None]
  /\ tiles = <<>> /\ arrays = [m \in Mem |-> [s \in Shape |-> <<>>]]
  /\ call = Idle
  /\ launched = 0
  /\ from = [o \in Op |-> None] /\ to = [o \in Op |-> None]
  /\ opre = [o \in Op |-> {}] /\ ost = [o \in Op |-> "none"]
  /\ want = [o \in Op |-> None]

Ready == call.phase = "idle"       \* the program may make its next call
Precondition(a) == rw[a] \cup war[a]
HasPrecondition(a) == hasRw[a] \/ hasWar[a]

-----------------------------------------------------------------------------
(***************************************************************************)
(* Creating an array: ShardedArray::Create and ArrayTile::Create.          *)
(***************************************************************************)

\* Mutants: an id is skipped; an id is handed out again.
NextIdSkip == nextId + 2
NextIdSame == nextId

\* AllocateNextGlobalId.
NextId == nextId + 1

\* The call returns its new array to the program; MoveToMemory goes on with the copy
\* into it.
Proceed(c, a) ==
  call' = IF c.src = None THEN Idle ELSE [c EXCEPT !.phase = "copy", !.dst = a]

\* The constructor of the array, with its tile and the event that frees the tile.
Construct(c, i, ev) ==
  LET a == Cardinality({b \in Array : ast[b] # "none"}) + 1
  IN /\ a \in Array
     /\ ast' = [ast EXCEPT ![a] = "held"]
     /\ ashape' = [ashape EXCEPT ![a] = c.shape]
     /\ tile' = [tile EXCEPT ![a] = i]
     /\ id' = [id EXCEPT ![a] = nextId]
     /\ nextId' = NextId
     /\ rw' = [rw EXCEPT ![a] = ev]
     /\ hasRw' = [hasRw EXCEPT ![a] = TRUE]
     /\ Proceed(c, a)
     /\ UNCHANGED <<acache, given, war, hasWar, val, arrays, opVars>>

\* GetTile: the oldest cached tile whose shape compares equal.
Cached(s) == {k \in DOMAIN tiles : KeyOf[ishape[tiles[k].inst]] = KeyOf[s]}
Oldest(s) == CHOOSE k \in Cached(s) : \A j \in Cached(s) : k <= j

\* Mutants: the tile stays in the cache; it is used as if it were free.
TilesLeftAll(k) == tiles
TileReadyAtOnce(k) == {}

\* What GetTile leaves in the cache, and the event it returns with the tile.
TilesLeft(k) == RemoveAt(tiles, k)
TileReady(k) == tiles[k].after

\* ArrayTile::Create: a cached tile, or else an instance is asked for.
Request(c) ==
  IF Cached(c.shape) # {}
  THEN LET k == Oldest(c.shape)
       IN /\ Construct(c, tiles[k].inst, TileReady(k))
          /\ tiles' = TilesLeft(k)
          /\ UNCHANGED <<tileCache, instVars, data>>
  ELSE /\ call' = c
       /\ UNCHANGED <<tileCache, instVars, data, tiles, arrayVars, storeVars, arrays, opVars>>

\* ShardedArray::Create, also by InstanceCache::Make.
Create(m, s) ==
  /\ Ready
  /\ \E a \in Array : ast[a] = "none"
  /\ Request([Idle EXCEPT !.phase = "try", !.mem = m, !.shape = s])

\* Realm's allocator: the instances that take up memory m.
There(i) == ist[i] \in {"live", "lost", "doomed"}
Placed(m) == {i \in Inst : imem[i] = m /\ There(i)}
HasRoom(m) == Cardinality(Placed(m)) < Capacity[m]
MayGetRoom(m) == \E i \in Placed(m) : ist[i] = "doomed"

\* TryAllocation succeeds.
Allocate ==
  LET i == Cardinality({j \in Inst : ist[j] # "none"}) + 1
  IN /\ call.phase \in {"try", "retry"}
     /\ HasRoom(call.mem)
     /\ i \in Inst
     /\ ist' = [ist EXCEPT ![i] = "live"]
     /\ imem' = [imem EXCEPT ![i] = call.mem]
     /\ ishape' = [ishape EXCEPT ![i] = call.shape]
     /\ Construct(call, i, {})
     /\ UNCHANGED <<tileCache, doom, data, tiles>>

Refused(p) == call.phase = p /\ ~HasRoom(call.mem) /\ ~MayGetRoom(call.mem)

\* Mutants: the cache is not emptied; the attempts are not counted.
ClearTilesNot ==
  /\ Refused("try")
  /\ call' = [call EXCEPT !.phase = "retry"]
  /\ UNCHANGED <<tileCache, instVars, data, arrayVars, storeVars, tiles, arrays, opVars>>
NextAttemptFirst == "try"

\* The first attempt fails: ClearTiles, and a second attempt.
Cleared == {tiles[k].inst : k \in DOMAIN tiles}
NextAttempt == "retry"
ClearTiles ==
  LET AfterOf(i) == tiles[CHOOSE k \in DOMAIN tiles : tiles[k].inst = i].after
  IN /\ Refused("try")
     /\ ist' = [i \in Inst |-> IF i \in Cleared THEN "doomed" ELSE ist[i]]
     /\ doom' = [i \in Inst |-> IF i \in Cleared THEN AfterOf(i) ELSE doom[i]]
     /\ tiles' = <<>>
     /\ call' = [call EXCEPT !.phase = NextAttempt]
     /\ UNCHANGED <<tileCache, imem, ishape, data, arrayVars, storeVars, arrays, opVars>>

-----------------------------------------------------------------------------
(***************************************************************************)
(* Giving tiles back.                                                      *)
(***************************************************************************)

Alive(a) == ast[a] \in {"held", "cached"}
Owns(a, i) == Alive(a) /\ tile[a] = i

\* Mutant: a tile is free after the last write.
FreeAfterWrites(a) == rw[a]

\* The event that ~Store passes to DeferredDeleteInstances.
FreeAfter(a) == Precondition(a)

\* The arrays are no more.
Forget(A) ==
  LET Reset(f, x) == [a \in Array |-> IF a \in A THEN x ELSE f[a]]
  IN /\ ast' = Reset(ast, "dead")
     /\ acache' = Reset(acache, None) /\ ashape' = Reset(ashape, None)
     /\ tile' = Reset(tile, None) /\ id' = Reset(id, None) /\ given' = Reset(given, FALSE)
     /\ rw' = Reset(rw, {}) /\ hasRw' = Reset(hasRw, FALSE) /\ war' = Reset(war, {})
     /\ hasWar' = Reset(hasWar, FALSE) /\ val' = Reset(val, None)
     /\ UNCHANGED nextId

\* ~Store of the arrays in A.  One with a precondition gives back its tile, by
\* ShardedArray::DeferredDeleteInstances and FreeTile, to the tile cache or to Realm;
\* the tile of any other is lost.
Destroy(A) ==
  LET q == SetToSeq({a \in A : HasPrecondition(a)})
      Mine(i) == \E k \in DOMAIN q : tile[q[k]] = i
      Lost(i) == \E a \in A : tile[a] = i /\ ~HasPrecondition(a)
      Of(i) == CHOOSE a \in Array : Owns(a, i)
  IN /\ IF tileCache
        THEN /\ tiles' = tiles \o [k \in DOMAIN q |-> [inst |-> tile[q[k]], after |-> FreeAfter(q[k])]]
             /\ ist' = [i \in Inst |-> IF Lost(i) THEN "lost" ELSE ist[i]]
             /\ UNCHANGED doom
        ELSE /\ ist' = [i \in Inst |-> IF Lost(i) THEN "lost" ELSE IF Mine(i) THEN "doomed" ELSE ist[i]]
             /\ doom' = [i \in Inst |-> IF Mine(i) THEN FreeAfter(Of(i)) ELSE doom[i]]
             /\ UNCHANGED tiles
     /\ Forget(A)
     /\ UNCHANGED <<imem, ishape>>

\* The second attempt fails: AllocationFailure is thrown, which also destroys the
\* array that was to be moved, if it was taken over.
Throw ==
  /\ Refused("retry")
  /\ call' = Idle
  /\ IF call.src = None \/ call.save = None
     THEN UNCHANGED <<instVars, tiles, arrayVars, storeVars>> ELSE Destroy({call.src})
  /\ UNCHANGED <<tileCache, data, arrays, opVars>>

\* The program destroys an array.
Drop(a) ==
  /\ Ready /\ ast[a] = "held"
  /\ Destroy({a})
  /\ UNCHANGED <<tileCache, data, arrays, call, opVars>>

\* InstanceCache::Clear.
CachedArrays(m) == {a \in Array : ast[a] = "cached" /\ acache[a] = m}
Clear(m) ==
  /\ Ready
  /\ CachedArrays(m) # {}
  /\ Destroy(CachedArrays(m))
  /\ arrays' = [arrays EXCEPT ![m] = [s \in Shape |-> <<>>]]
  /\ UNCHANGED <<tileCache, data, call, opVars>>

\* instance_.destroy(ev) takes effect.
Reclaim(i) ==
  /\ ist[i] = "doomed"
  /\ doom[i] = {}
  /\ ist' = [ist EXCEPT ![i] = "gone"]
  /\ imem' = [imem EXCEPT ![i] = None] /\ ishape' = [ishape EXCEPT ![i] = None]
  /\ data' = [data EXCEPT ![i] = None]
  /\ UNCHANGED <<tileCache, doom, arrayVars, storeVars, tiles, arrays, call,
                 opVars>>

-----------------------------------------------------------------------------
(***************************************************************************)
(* The ArrayCaches, and MoveToMemory.                                      *)
(***************************************************************************)

\* InstanceCache::Get: a new array unless min are cached, or else the oldest one.
Get(c, min) ==
  LET q == arrays[c.mem][c.shape]
  IN IF Len(q) < min
     THEN (\E a \in Array : ast[a] = "none") /\ Request(c)
     ELSE /\ arrays' = [arrays EXCEPT ![c.mem][c.shape] = Tail(q)]
          /\ ast' = [ast EXCEPT ![Head(q)] = "held"]
          /\ acache' = [acache EXCEPT ![Head(q)] = None]
          /\ Proceed(c, Head(q))
          /\ UNCHANGED <<tileCache, instVars, data, ashape, tile, id, given, nextId, storeVars,
                         tiles, opVars>>

CacheGet(m, s, min) ==
  /\ Ready
  /\ Get([Idle EXCEPT !.phase = "try", !.mem = m, !.shape = s], min)

\* InstanceCache::Free of the cache of memory m, under the shape of the array.
Free(a, m) ==
  /\ ast' = [ast EXCEPT ![a] = "cached"]
  /\ acache' = [acache EXCEPT ![a] = m]
  /\ arrays' = [arrays EXCEPT ![m][ashape[a]] = Append(@, a)]

CacheFree(a, m) ==
  /\ Ready /\ ast[a] = "held"
  /\ Free(a, m)
  /\ UNCHANGED <<tileCache, instVars, data, ashape, tile, id, given, nextId, storeVars, tiles,
                 call, opVars>>

\* MoveToMemory into an array of the cache of memory m, from one that the program keeps,
\* or that goes to the cache of memory save afterwards.
MoveBegin(a, m, save) ==
  /\ Ready /\ ast[a] = "held"
  /\ launched < NOps
  /\ Get([Idle EXCEPT !.phase = "try", !.mem = m, !.shape = ashape[a], !.src = a,
                !.save = save], 1)

\* MoveToMemory into another array of the program, of the same shape.
MoveInto(a, b) ==
  /\ Ready /\ ast[a] = "held" /\ ast[b] = "held" /\ a # b /\ ashape[a] = ashape[b]
  /\ launched < NOps
  /\ call' = [Idle EXCEPT !.phase = "copy", !.src = a, !.dst = b]
  /\ UNCHANGED <<tileCache, instVars, data, arrayVars, storeVars, tiles, arrays, opVars>>

\* The task or copy that is launched next.
Issue(i, j, p, w) ==
  /\ launched < NOps
  /\ launched' = launched + 1
  /\ from' = [from EXCEPT ![launched + 1] = i]
  /\ to' = [to EXCEPT ![launched + 1] = j]
  /\ opre' = [opre EXCEPT ![launched + 1] = p]
  /\ ost' = [ost EXCEPT ![launched + 1] = "waiting"]
  /\ want' = [want EXCEPT ![launched + 1] = w]

\* The copy, ReadyAfter on both arrays, ReassignId, Free.
MoveFinish ==
  LET a == call.src
      b == call.dst
  IN /\ call.phase = "copy"
     /\ Issue(tile[a], tile[b], Precondition(a) \cup Precondition(b), val[a])
     /\ rw' = [x \in Array |-> IF x \in {a, b} THEN rw[x] \cup {launched + 1} ELSE rw[x]]
     /\ hasRw' = [hasRw EXCEPT ![a] = TRUE, ![b] = TRUE]
     /\ war' = [war EXCEPT ![a] = {}, ![b] = {}]
     /\ hasWar' = [hasWar EXCEPT ![a] = FALSE, ![b] = FALSE]
     /\ val' = [val EXCEPT ![b] = val[a]]
     /\ id' = [id EXCEPT ![b] = id[a]]
     /\ given' = [given EXCEPT ![b] = given[a], ![a] = TRUE]
     /\ IF call.save = None THEN UNCHANGED <<ast, acache, arrays>> ELSE Free(a, call.save)
     /\ call' = Idle
     /\ UNCHANGED <<tileCache, instVars, data, ashape, tile, nextId, tiles>>

-----------------------------------------------------------------------------
(***************************************************************************)
(* Tasks on arrays: Store::child and Store::view with the task's           *)
(* completion, and Store::Wait.                                            *)
(***************************************************************************)
LaunchWrite(a) ==
  /\ Ready /\ ast[a] = "held"
  /\ Issue(None, tile[a], Precondition(a), None)
  /\ rw' = [rw EXCEPT ![a] = @ \cup {launched + 1}]
  /\ hasRw' = [hasRw EXCEPT ![a] = TRUE]
  /\ war' = [war EXCEPT ![a] = {}] /\ hasWar' = [hasWar EXCEPT ![a] = FALSE]
  /\ val' = [val EXCEPT ![a] = launched + 1]
  /\ UNCHANGED <<tileCache, instVars, data, arrayVars, tiles, arrays, call>>

LaunchRead(a) ==
  /\ Ready /\ ast[a] = "held" /\ val[a] # None
  /\ Issue(tile[a], None, rw[a], val[a])
  /\ war' = [war EXCEPT ![a] = @ \cup {launched + 1}]
  /\ hasWar' = [hasWar EXCEPT ![a] = TRUE]
  /\ UNCHANGED <<tileCache, instVars, data, arrayVars, rw, hasRw, val, tiles, arrays, call>>

Wait(a) ==
  /\ Ready /\ ast[a] = "held" /\ HasPrecondition(a)
  /\ Precondition(a) = {}
  /\ hasRw' = [hasRw EXCEPT ![a] = FALSE]
  /\ hasWar' = [hasWar EXCEPT ![a] = FALSE]
  /\ UNCHANGED <<tileCache, instVars, data, arrayVars, rw, war, val, tiles, arrays, call, opVars>>

Start(o) ==
  /\ ost[o] = "waiting" /\ opre[o] = {}
  /\ ost' = [ost EXCEPT ![o] = "running"]
  /\ UNCHANGED <<tileCache, instVars, data, arrayVars, storeVars, tiles, arrays, call,
                 launched, from, to, opre, want>>

\* A task leaves its own number in the tile it writes, a copy what it read; the
\* events that wait for it wait no more.
Complete(o) ==
  LET Without(f) == [x \in DOMAIN f |-> f[x] \ {o}]
  IN /\ ost[o] = "running"
     /\ ost' = [ost EXCEPT ![o] = "done"]
     /\ data' = [i \in Inst |-> IF i # to[o] THEN data[i]
                                ELSE IF from[o] = None THEN o ELSE data[from[o]]]
     /\ rw' = Without(rw) /\ war' = Without(war) /\ doom' = Without(doom)
     /\ opre' = Without(opre)
     /\ tiles' = [k \in DOMAIN tiles |-> [tiles[k] EXCEPT !.after = @ \ {o}]]
     /\ from' = [from EXCEPT ![o] = None] /\ to' = [to EXCEPT ![o] = None]
     /\ want' = [want EXCEPT ![o] = None]
     /\ UNCHANGED <<tileCache, ist, imem, ishape, arrayVars, hasRw, hasWar, val, arrays, call,
                    launched>>

-----------------------------------------------------------------------------
\* The program may stop calling at any time.
Quiet ==
  /\ Ready
  /\ \A o \in Op : ost[o] \in {"none", "done"}
  /\ UNCHANGED vars

Next ==
  \/ \E m \in Mem, s \in Shape : Create(m, s) \/ \E min \in MinSizes : CacheGet(m, s, min)
  \/ Allocate \/ ClearTiles \/ Throw
  \/ \E a \in Array : Drop(a) \/ LaunchWrite(a) \/ LaunchRead(a) \/ Wait(a)
  \/ \E a \in Array, m \in Mem : CacheFree(a, m) \/ \E save \in Mem \cup {None} : MoveBegin(a, m, save)
  \/ \E a, b \in Array : MoveInto(a, b)
  \/ MoveFinish
  \/ \E m \in Mem : Clear(m)
  \/ \E i \in Inst : Reclaim(i)
  \/ \E o \in Op : Start(o) \/ Complete(o)
  \/ Quiet

Spec == Init /\ [][Next]_vars

\* Realm runs some task or copy that can go on, destroys some instance that waits for
\* nothing, and answers requests; a call goes on.
Fairness ==
  /\ WF_vars(\E o \in Op : Start(o) \/ Complete(o))
  /\ WF_vars(\E i \in Inst : Reclaim(i))
  /\ WF_vars(Allocate \/ ClearTiles \/ Throw \/ MoveFinish)

FairSpec == Spec /\ Fairness

-----------------------------------------------------------------------------
(***************************************************************************)
(* Properties.                                                             *)
(***************************************************************************)

\* Every variable stays in its domain.
TypeOK ==
  /\ tileCache \in BOOLEAN
  /\ ist \in [Inst -> {"none", "live", "lost", "doomed", "gone"}]
  /\ imem \in [Inst -> Mem \cup {None}]
  /\ ishape \in [Inst -> Shape \cup {None}]
  /\ doom \in [Inst -> SUBSET Op]
  /\ data \in [Inst -> Op \cup {None}]
  /\ ast \in [Array -> {"none", "held", "cached", "dead"}]
  /\ acache \in [Array -> Mem \cup {None}]
  /\ ashape \in [Array -> Shape \cup {None}]
  /\ tile \in [Array -> Inst \cup {None}]
  /\ id \in [Array -> 0 .. NArrays] /\ given \in [Array -> BOOLEAN] /\ nextId \in 1 .. NArrays + 1
  /\ rw \in [Array -> SUBSET Op] /\ hasRw \in [Array -> BOOLEAN]
  /\ war \in [Array -> SUBSET Op] /\ hasWar \in [Array -> BOOLEAN]
  /\ val \in [Array -> Op \cup {None}]
  /\ tiles \in Seq([inst : Inst, after : SUBSET Op])
  /\ arrays \in [Mem -> [Shape -> Seq(Array)]]
  /\ call \in [phase : {"idle", "try", "retry", "copy"}, mem : Mem \cup {None},
               shape : Shape \cup {None}, src : Array \cup {None},
               dst : Array \cup {None}, save : Mem \cup {None}]
  /\ launched \in 0 .. NOps
  /\ from \in [Op -> Inst \cup {None}] /\ to \in [Op -> Inst \cup {None}]
  /\ opre \in [Op -> SUBSET Op]
  /\ ost \in [Op -> {"none", "waiting", "running", "done"}]
  /\ want \in [Op -> Op \cup {None}]

\* A tile in use belongs to one array or one entry of the tile cache, and one that was
\* given back to Realm, or that its array did not give back at all, to none: no tile is
\* handed out twice, freed twice, or used after that.
Owners(i) ==
  {a \in Array : Owns(a, i)}
    \cup {-k : k \in {j \in DOMAIN tiles : tiles[j].inst = i}}
OneOwner ==
  \A i \in Inst : Cardinality(Owners(i)) = IF ist[i] = "live" THEN 1 ELSE 0

\* While a task or a copy runs, the tiles it uses exist, nobody else writes them and
\* nobody reads what it writes, whichever arrays they belonged to meanwhile.
Touches(o) == {from[o], to[o]} \ {None}
Running == {o \in Op : ost[o] = "running"}
SafeAccess ==
  \A o \in Running :
    /\ \A i \in Touches(o) : There(i)
    /\ \A p \in Running \ {o} : to[o] \notin Touches(p)

\* A task or copy that reads an array finds what the program wrote into it last,
\* through every move between memories and reuse of tiles and arrays.
ReadsCurrent ==
  \A o \in Running : want[o] # None => data[from[o]] = want[o]

\* Of the arrays with one mesh_unique_id_, in use or in a cache, at most one has not given
\* it away: arrays come to share an id, by which the reshard protocol tells them apart,
\* only because MoveToMemory leaves it with the source, never in any other way.
UniqueIds ==
  \A a, b \in Array :
    Alive(a) /\ Alive(b) /\ a # b /\ id[a] = id[b] => given[a] \/ given[b]

\* AllocationFailure is thrown only when tiles of arrays, and tiles lost by ~Store, fill
\* the memory: never because of cached tiles or of destructions still to come.
Stuck(m) == {i \in Inst : imem[i] = m /\ (ist[i] = "lost" \/ \E a \in Array : Owns(a, i))}
CachesGiveWay == [][Throw => Cardinality(Stuck(call.mem)) >= Capacity[call.mem]]_vars

\* tiled_array.cc:427 and 505: an allocation fails only when there is no room, because
\* the arrays there are, which the message lists, fill the memory.
FailsOnlyWhenFull ==
  [][Throw => Cardinality({a \in Array : Alive(a) /\ imem[tile[a]] = call.mem})
                >= Capacity[call.mem]]_vars

\* Every Create, Get and MoveToMemory returns or throws: the wait for room, which other
\* tasks' destructions are to make, never lasts for ever.
Progress == ~Ready ~> Ready
=============================================================================
