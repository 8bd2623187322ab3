# zuku in TLA+

zuku is a C++ task runtime on top of Realm. A program defers functions, the runtime
orders them by the data they are given, and arrays that are cut into tiles over many
devices are moved from one cut to another. Nothing in it is ordered by locks held over
a computation: everything is ordered by events that are passed from object to object.
These modules model that passing of events, for stores, futures, tasks and kernels; the
memory the arrays live in; the protocol by which two address spaces agree on a copy; and
the arithmetic by which every device decides alone which copies it takes part in.

## Inventory

| Component | State | Operations | Modelled in |
|---|---|---|---|
| Store, View (`store.h`, `future.h`) | `child_rw_event_`, `war_precondition_`, `parent_notification_event_`; `precondition_`, `views_`, `war_dependency_` | create, `child`, `view`, move, `Wait`, destruction, deletion of the instances | `Store`, `SharedDatum` |
| Deferred tasks (`defer.h`, `task.h`, `task_base.h`, `task.cc`) | stored arguments, merged precondition, completion and control event | `defer`, `Invoke`, deletion | `Defer`; nested launches in `Store` |
| Futures and promises (`future.h`, `promise.h`) | value cell or inner future, precondition, readers | fulfil, view, `wait_and_get`, move into a task, hand back | `Futures` |
| Tokens, barriers (`token.h`, `barrier.h`) | events of launches | after a token, sync to a barrier, wait | `Defer` |
| CUDA streams (`stream.*`) | order of enqueued kernels | `Record` | `Defer` |
| ReshardManager (`reshard_manager.*`, `reshard_point_to_point.cc`) | per key: two queues of pending operations, two barriers; name messages in flight | send, receive, name handler | `ReshardManager`, `Rendezvous` |
| Reshard strategies (`reshard*.cc`) | none: computed from two shardings and the own id | choose a strategy, issue sends and receives | `ReshardPlan` |
| Shardings and tiles (`shape.h`, `mesh.h`, `tiled_array.cc`) | none | tile index, shard, bounds | `Sharding` |
| Tile allocation, caches (`tiled_array.cc`, `instance_cache.h`) | instances, tile cache, array caches, ids | create, retry, free, clear, move to memory | `Memory` |
| Start and stop (`init.cc`) | count of pending releases | `Stop`; `Init` only configures | `Defer` |
| Processors, profiling, templates | tables filled once, external handles | | not modelled: no protocol of their own |

How they interact. `defer` turns each argument into what the task stores
(`ToTaskArgument`), which changes the caller's Store and yields the events the task
waits for. The task's completion, or the destruction of the open-ended handle it was
given, triggers the events its parent keeps. `Reshard` runs inside a task: it asks the
shardings which copies it takes part in and gives each to the manager of its address
space; the manager returns an event, which is put into the Store (`ReadyAfter`) or the
View (`DoneAfter`) of the array. Dropping the last Store of an array frees its tile
after the events that Store holds.

What is hard:

* Order by events. A handle's events are read when a task is launched and are then part
  of that task for ever. Everything depends on which events a handle holds at that
  moment, after any sequence of launches, moves, waits and drops at any depth of the
  tree. The correct result is that of the sequential program.
* Release. A parent waits for its children's notifications, a child's notification for
  whatever it was triggered with. One event too few and a writer runs beside a reader,
  one too many and the program never ends.
* Rendezvous. Two calls, two kinds of message and two barriers of one key meet in any
  order, several operations deep, and whoever comes last issues the copy.
* Agreement without communication. Two devices compute a send and its receive
  separately; a disagreement is a device that waits for ever or reads a stale tile.
* Two kinds of completion. On a GPU a function returns before its kernels run. Some tasks
  may start then, others only when the kernels are over; so may deletions.
* Reuse. Tiles and arrays go through caches while tasks of their former owners run.
* Boundaries. Trees that are no power of two, meshes that overlap or do not divide,
  permuted dimensions, replicating dimensions.

`PROJECT.json` lists the hazards one by one, each at its line.

## Modules

`Store` models the tree of handles of one datum. An event is a set of primitive events,
so `merge_events` is union and `NO_EVENT` the empty set; it has triggered when all its
members are in `fired`. Primitive events are the completion of a task, the UserEvent of an
open handle and the create event of the root. `childRw` and `war` are the two event
fields of a Store (for a View: its precondition and its subviews), `pre` is the merged
precondition of a task, `armed` what the UserEvent of a destroyed handle was triggered
with. `anc` and `using` are history: the handles above a task, and whether a handle's
holder touches the datum itself. Tasks are numbered in the order of their launch.

| Action | Code |
|---|---|
| `LaunchRW`, `LaunchRO` | `Store::child(stream, effects)`, `Store::view(stream, effects)`: a parameter `T&`, or `T` and `const T&` |
| `LaunchStore`, `LaunchView` | the open-ended `Store::child()`, `Store::view()`, `View::view()`: a parameter `Store<T>` or `View<T>` |
| `MoveStore`, `MoveView` | `std::move` of a handle into a task |
| `Start`, `Complete` | `Task::Invoke` after the precondition; the completion event |
| `Wait` | `Store::Wait` |
| `DropStore`, `DropView`, `DropRoot` | the destructors |
| `Fire`, `Create` | Realm triggers a UserEvent; the instances exist |

Each launch is one step: `_defer` spawns the task behind `wait_on_init` and triggers it
after the constructor has stored the arguments and merged the preconditions. The two
halves of an `EventPrecondition` are equal for tasks that are not stream-ordered, so one
set stands for both. `View::view(effects)` exists but the two `ToTaskArgument`
specialisations for a `View<T>&` with a value parameter call an overload that does not,
so a leaf reader of a View is one that registered itself with `DoneAfter`.

The constants `DropReaders` and `MoveBusyViews` say which programs are considered:
those that may drop a child Store while tasks still read through it, and those that may
move a View that has given out subviews. The findings below are why they matter.

`SharedDatum` is what the tree promises, without handles and events: a datum that is
absent, present or freed, with a set of readers or one writer while it is present. `Store`
refines it. Readers are the leaf tasks that run with a value or `const T&` and the holders
of a View; writers are the leaf tasks that run with a `T&` and the holder of a Store between
its entry or `Wait` and its next launch. The datum is absent while the create event of
`Store::DeferredCreate` is pending and freed when the deletion of the instances has
triggered.

`ReshardManager` models one key of the manager's map (entries do not interact), with the
shards in one address space or in two. `mgr` is the `PointToPointReshard` of each manager;
a handler runs under `mutex_` from start to end and is one step. `FromLocalSource` and
`ToLocalTarget` are the two halves of the rendezvous, `ReceiveInstance` and
`ReceiveBarrier` the two branches of `ReceivePointToPointNames`. Generation g of a barrier
triggers when its one arrival and generation g - 1 have. Between two sends the source
array may or may not be rewritten, chosen in `FromLocalSource`. The eager protocol throws
in the source and is left out; the destruction of the barriers with the singleton too.

`Rendezvous` is what the manager promises, without manager, message or barrier: the k-th
send and the k-th receive are one copy, in order, after both arrays are ready, and neither
side is told that it is done before. `ReshardManager` refines it, with the sets of ready
and of finished operations read off `fired`.

`Sharding` is the index arithmetic and `ReshardPlan` the strategies. `ReshardPlan` takes a
pair of shardings, lets every device issue its sends and receives, and lets every copy run
that both sides have issued and whose sender has its data. `held` is the set of elements
of its tile that a target shard has, with the right value; a copy of a box the sender does
not have takes elements away. An empty optional that is read, or a division by zero, puts
the device into `undefined`. Element values, byte sizes and layout are left out. `Supported`
collects what the code takes for granted of a pair of shardings: both are of the same array
and cut it into equal tiles, with at most one replicating dimension (`Tileable`); a scatter
divides its targets evenly among the replicas; replicas copied one to one have a counterpart
on every device of both meshes; every source shard of a broadcast has a target, and its tree
leaves out no rank (`TreeComplete`); in a scatter/gather the shards are numbered row-major
(`RowMajor`) and one cut is a multiple of the other. The other strategies need no more than
`Tileable`, and permuted dimensions are no obstacle to them.

`Futures` models the values that tasks return. Futures and views are named after the task
whose launch made them; `own` and `vown` say who holds them, `cell` is the optional that a
Promise and a Future share, `inner` the future inside a deferred promise. `Launch` moves
futures and views into a task or lets it read (`ToTaskArgument`), `Start` resolves the
arguments (`ResolveDependency`), which empties a cell that is taken, `ReturnValue` and
`ReturnFuture` are the two `FulfillPromise` specialisations followed by the deletion of the
task, `MakeView` and `DropView` the life of an open view. `Future<void>` and a returned
token are the case without a cell. Vectors of futures are left out, their specialisations
do not compile; so is `link_promise.h`, which nobody calls. `missed` is history: who asked
for a value and found none.

`Memory` models the arrays of one processor: an array is a root Store (here with leaf tasks
only) whose tile is a Realm instance. The program may create, use, wait for, cache, move and
drop arrays in any order, an array it has moved and one that shares its id included; no use
is left out. `call` is the `Create`, `Get` or `MoveToMemory` in progress, because an
allocation waits for Realm while tasks go on.

| Action | Code |
|---|---|
| `Create`, `CacheGet`, `CacheFree`, `Clear` | `ShardedArray::Create` and `InstanceCache::Make`; `InstanceCache::Get` with its `min_cache_size`, `Free`, `Clear` |
| `MoveBegin`, `MoveInto`, `MoveFinish` | the three `MoveToMemory`: into an array of a cache, with the source kept or put into another cache, or into an array of the program; the copy, `ReadyAfter`, `ReassignId` |
| `Allocate`, `ClearTiles`, `Throw` | the outcomes of the two attempts of `ArrayTile::Create`; `Request` looks into the tile cache first |
| `Drop`, `Reclaim` | `~Store` with `DeferredDeleteInstances` and `FreeTile` (`Destroy`), with or without `ZUKU_USE_TILE_CACHE` (`tileCache`, chosen in `Init`); the destruction takes effect |
| `LaunchWrite`, `LaunchRead`, `Wait`, `Start`, `Complete` | as in `Store` |

A tile whose array was dropped without a precondition, that is after `Wait`, is `lost`: nobody
will ever destroy it (finding 5). Realm's allocator is external: a request waits while a
pending destruction may make room, and fails otherwise. `data`, `val`, `want` and `given` are
history: who wrote an instance last, what the program wrote into an array last, what a
reader should find, and whether an array's id was given to another. An event is the set of
tasks and copies it still waits for.

`Defer` models a program that launches tasks with `T&` and `const T&` arguments on a CPU and
a GPU while the main thread is in `Stop`. An `EventPrecondition` has its two halves here:
`StreamEvent` decides what a task adds to the stream half, `ArgPrecondition` which half it
waits for. A task on a GPU is `running` until its function returns and `queued` until its
kernels are over; kernels of stream-ordered tasks run in the order of one stream per GPU,
which is what programs use `Record` for. `TriggerAndDelete` fires events and destroys tasks,
whose Store arguments start counted releases. A bulk launch is always plain and without
`after` or `sync_to`: `Context::drop` does not compile for a context with other fields.
`Reach` bounds how far back `after` refers. `team` and `aft` are history. Stream-ordered
functions always call `Record`; one that does not makes `dispatch_void` throw (`task.h:305`),
which ends the process and is not modelled.

The constant `Uses` of `Futures` and `Defer` says which delicate uses the programs may make.
The runs allow none; each of the uses makes TLC violate the property named, which is why
they are listed here and under the hazards:

| Use | What the program does | What breaks |
|---|---|---|
| `release` (`Futures`) | drops a view before the value exists; the guard `MayRelease` of `DropView` is the program's, `~View` has none | `WarIsStronger`: a taker waits for the readers alone and comes before the value (`future.h:104`), against the comment at `future.h:105` |
| `nest` | returns a future that is itself deferred, so that a future is handed back twice | `ReadyMeansValue`: the outer future's event triggers and it stays empty (`promise.h:42`), against the comment at `promise.h:231` |
| `peek` | views a deferred future | `NobodyMisses`: `View::value` throws for ever (`future.h:245`) |
| `late` | gives a view to a task launched after the future was given away | deadlock: a task waits for the release of a view in its own arguments, or in those of a task that waits for it |
| `alias` (`Defer`) | gives one Store twice to a task | deadlock (`task.h:180`) |
| `streams` | orders tasks of two GPUs or of a CPU and a GPU by streams | `ConflictsInOrder` |
| `nosync` | returns with tasks running | `QuietAtShutdown` (`init.cc:225`) |

`MCStore`, `MCReshard`, `MCReshardPlan` and `MCMemory` instantiate the modules for TLC, with
the pairs of shardings and the memories; `Futures` and `Defer` need no definitions and are
run as they are. `StoreProofs`, `DeferProofs`, `ReshardProofs` (about `ReshardManager`),
`FuturesProofs`, `MemoryProofs`, `ShardingProofs` and `ReshardPlanProofs` hold the theorems
about the modules they are named after, `SeqLemmas` facts about sequences. Operators named as mutants stand beside the definitions
they distort; TLC finds a property violated with each, which shows that the property
depends on the code it is about.

## Runs

| Run | Bounds | What it shows |
|---|---|---|
| `store_order` | 3 tasks, disciplined programs, fair | `WritersFirst`, `ReadersFirst`: every access waits for the ones it conflicts with, at any depth; `ExclusiveUse`: after `Wait` or on entry the holder is alone; `NoUseAfterFree`; `ImplementsDatum`: the tree of handles implements `SharedDatum`; `WindsDown`: all tasks end, all handles release their parents, the instances are given back |
| `store_drop` | 3 tasks | finding 1 |
| `store_move` | 3 tasks | finding 2 |
| `reshard_fifo` | 3 operations, both placements, fair | `CopiesInOrder`, `DoneMeansCopied`, `ManagerConsistent`, `ImplementsRendezvous`, `Delivered` |
| `reshard_reorder` | 3 operations, messages in any order | `DoneMeansCopied` does not rest on the order of the messages; the protocol may stop, so deadlock is not checked |
| `plan_cases` | 607 pairs of shardings, up to 16 devices | `TilesPartition`, `SendsMatchReceives`, `ReadyMeansFilled`, `Completes` |
| `plan_tree`, `plan_permuted` | one pair each | findings 3 and 4 |
| `future_order` | 3 tasks, 2 arguments each, fair | `NobodyMisses`, `ReadyMeansValue`: an event of a future means its value is there, also if it was handed back by a task; `WarIsStronger`; `ReadersKeepValue`: no value is taken from under a reader; `AllResolved` |
| `memory_cache` | 2 instances, 2 arrays, 3 tasks or copies; memories for 2 tiles and 1; `min_cache_size` 1 and 2; both builds; fair | `OneOwner`: no tile has two owners or is used after it was given back; `SafeAccess`, `ReadsCurrent`: no use of a tile meets another or a deletion, and reads find the last write, through moves and reuse; `UniqueIds`: arrays share an id only through moves; `CachesGiveWay`: cached tiles and pending destructions make room before an allocation fails; `Progress` |
| `memory_leak` | as above, 2 tasks | finding 5 |
| `defer_stop` | 3 tasks, 1 Store, a CPU and a GPU, all modes, fair | `ConflictsInOrder`: accesses never overlap whatever the modes; `AfterToken`, `SyncedMeansOver`: tokens and barriers cover the kernels; `ArgumentsAlive`; `QuietAtShutdown`; `Stops` |

Bounds. In `Store` three tasks are the least that contain the conflicts the code has to get
right: a handle passed on, an access below it and a later access above or beside it; they
also cover a move between two launches. That the bounds hide nothing from the safety
properties is what the theorems show. Three operations
of a key let one side be two ahead of the other, which is where queues, generations and
names can get out of step: the first operation is special (barriers are created), the
second is the first ordinary one, the third follows an ordinary one. The pairs of shardings
are vectors and matrices, sharded, partially and fully replicated and permuted, on equal,
disjoint and overlapping meshes; `plan_cases` leaves out the pairs the findings are about,
and three kinds the code does not handle: fewer targets than replicas in a scatter, where
it divides by zero; a broadcast whose meshes do not divide (3 to 4 replicas), where a
surplus source shard gets an empty configuration that its caller dereferences
(`reshard_broadcast.cc:87`); and overlapping meshes where a device of the target mesh holds
a source shard without a counterpart (4 replicas to the last 2), which sends what nobody
receives (`reshard.cc:53`). All 607 pairs satisfy `Supported`, and those of the two findings
do not.

In `Futures` three tasks are a producer, a reader and a taker of a future, or a future
handed back through one task to a third. In `Memory` three operations are a writer, a copy
and a use of the result; two arrays and two instances, in a memory for two tiles and one for
one, let a tile or array be reused while its former task runs and let an allocation find
memory full, free or about to be freed; a dead array or instance is not used again, so
longer histories are left to the theorems, which have no bounds. In
`Defer` three tasks are a pair in conflict and one between them in another mode. Two tile
shapes of `Memory` compare unequal, so that the cache can be full of tiles that do not fit; the
code compares shapes without their bounds (`tiled_array.h:31`), and the theorems hold for
shapes that compare equal too.

Fairness. In `Store`: Realm runs a task whose precondition has triggered and triggers an
event whose precondition has, and C++ scopes end, so every handle is destroyed; nothing
is assumed of launches and waits. In `ReshardManager`: messages are handled and events
trigger; nothing is assumed of the programs on either side, and `Delivered` speaks of
operations that both have issued. In `ReshardPlan`: every device calls `Reshard`, and a
copy that can run does. In `Futures`: functions return (one that owes a future launches a
task for it), scopes end, Realm runs and triggers what it can. In `Memory`: as long as
some task or copy can go on, some does; some destruction that waits for nothing takes
effect; a call in progress gets its answer; the program itself may stop at any time. In
`Defer`: Realm and the GPU go on with some task, deletions and releases are run, and the
program leaves a wait that is over and returns in the end.

## Proofs

Every invariant and action property that a passing run checks is a theorem, for every value of the
constants, and so are both refinements; `SeqLemmas` has what the proofs need to know about
queues. `StoreProofs`, `DeferProofs`, `ReshardProofs`, `FuturesProofs` and `MemoryProofs` all go
the same way. A property speaks of tasks that run or copies that have
happened, while what protects it is decided at a launch, a rendezvous or an allocation; so
an inductive invariant `IInv` states what the recorded events promise, a lemma per action
shows that it is kept, and the properties follow from it. The constants need only the
assumptions stated with them: the bounds are natural numbers, memories have natural
capacities, the sets of CPUs and GPUs are disjoint, finite and not both empty. A theorem
that needs more about the program says so, in terms of `Uses`, `DropReaders`,
`MoveBusyViews` or `Fifo`; the table of uses and the findings show what happens without.
`ShardingProofs` and `ReshardPlanProofs` are about arithmetic and go another way, described
with them.

### StoreProofs

| Theorem | For which programs |
|---|---|
| `TypeCorrect`, `WritersAlwaysFirst`, `NeverCircular` | all |
| `SubviewsAlwaysHoldBack` | `~MoveBusyViews` |
| `ReadersAlwaysFirst`, `UseAlwaysExclusive`, `NeverUsedAfterFree`, `StoreImplementsDatum` | disciplined: `~DropReaders /\ ~MoveBusyViews` |

* `Shape`: the tree. `anc` is the path to the root, only Stores are above a writer, and
  whatever is above a task has started.
* `Life`: an open argument or a moved handle is in transit while its task waits, and
  nothing is launched on it meanwhile.
* `Fired`: what a fired event tells: a task is done; a handle is dead, and what its
  UserEvent was triggered with has fired; a started task's precondition has fired.
* `Registered`: the event of an access is still among the events of the handle it was
  launched on, or a later writer of that handle waits for it, or it has fired.
* `SiblingOrder`: of two conflicting tasks launched on one handle, the later one's
  precondition covers the earlier one, directly or through a writer between them.
* `DeadCovers`: what a dead handle was armed with covers everything launched on it.
* `SubtreeFired`: so, if a handle's event has fired, everything below it has finished.
  This is the step from one level to any depth.
* `UseCovers`: while the holder of a Store uses the datum, everything below has finished.

They are stated for the accesses the code keeps track of (`Tracked`): every write and, in a
disciplined program, every read. The findings show that reads get lost otherwise.

The refinement of `SharedDatum` needs three facts more (`DInv`). `Related`: of any two tasks
one is above the other or one comes before the other in program order. With the order
between siblings, `UseCovers`, and only Stores above a writer, this gives `OneWriter`: whoever
writes is alone, among all the accesses of a tree and not only among those that `Before`
orders. `Pending`: while the instances are being created every handle and every task has the
create event, so nothing starts and no `Wait` returns. `RootArmed`: the deletion of the
instances waits for the create event too. Then each step of the tree is one step of the
datum or none: a launch or a drop ends the holder's use, a start or a `Wait` begins one, the
UserEvent of the root frees.

`NeverCircular` is the safety half of `WindsDown`. `Settled` says that none of the steps that
fairness promises is possible: Realm can start or end no task and trigger no event, and the
program can destroy no handle it holds. Then all tasks are done and all handles released. The
invariant `CInv` says that waiting goes one way: a task waits only for accesses before it in
program order (`TasksWaitBack`), a handle keeps only the events of accesses below it or before
it (`HandlesWaitBack`), and a handle in transit belongs to a task that has yet to start
(`InTransit`). If anything waited in a settled state, one could descend from the root: among
the tasks launched on a handle, the first that waits or has something waiting below it cannot
be the one that waits, for nothing that waits ends before it (`FirstBelow`), so something
waits further down; and the tree is finite. The mutant of `WindsDown`, in which a child copies
its parent's events after its own was added, is a counterexample to `HandlesWaitBack`.

`SubviewsAlwaysHoldBack` is what finding 2 refutes, for the programs that do not meet it: its
invariant `ViewKeeps` says that a View keeps the events of all its children and is released
with them.

### DeferProofs

| Theorem | For which programs |
|---|---|
| `TypeCorrect`, `AfterTokenAlways`, `ArgumentsAlwaysAlive`, `SyncedAlwaysOver` | all |
| `ConflictsAlwaysInOrder` | those that order by streams on one processor only (no `streams`) |
| `AlwaysQuietAtShutdown` | those that wait for their tasks (no `nosync`) |

`Tokens`, `Awaited` and `EndOrder` say that a token has the completion of every task it
stands for, that the barriers have that of every unfinished task, and that tasks, program
and runtime end in this order. The order of conflicts has the difficulty of two kinds of
completion. A Store keeps, for every unfinished writer and every unfinished reader since
the last writer, the completion in the effects half and, for a stream-ordered task, its
return of control in the stream half (`Registered`). So a task that conflicts with an
earlier one is held back by it or by a writer between the two (`Ordered`), in one of four
ways (`HeldBack`): it waits for the completion; or both are stream-ordered and it waits for
control, or control has returned and the kernels are enqueued before its own can be, or
they are ahead in the same stream (`Streams`). The induction has to move each pair through
these four stages.

### ReshardProofs

| Theorem | Messages |
|---|---|
| `TypeCorrect`, `ManagerAlwaysConsistent`, `DoneAlwaysMeansCopied` | in any order |
| `CopiesAlwaysInOrder`, `ReshardImplementsRendezvous` | in order (`Fifo`) |

These hold for every number of operations of a key, in one address space or two. The state
of the source's manager is determined by how many sends are paired, that of the target's by
how many receives are issued (`SourceLists`, `TargetLists`, `Messages`). The name of a
receive is in one place: on its way, in a list, or used by one copy (`Pairing`,
`NamesInOrder`). `Posts`, `Armed` and `Waits` give the events and what each is triggered
with. `Order` is the core: if names overtake each other a copy may be paired with a wrong
receive, but no such copy is ever acknowledged. A copy for a later receive does not happen,
because that receive becomes ready only after this operation is acknowledged, and what is
acknowledged is acknowledged in order. The refinement maps the sets of ready, copied and
finished operations to `Rendezvous`; it needs that the copies done are the first ones
(`Prefix`), and every event that fires is one abstract step or none.

### FuturesProofs

| Theorem | For which programs |
|---|---|
| `TypeCorrect` | all |
| `WarAlwaysStronger` | no `release` |
| `ReadyAlwaysMeansValue` | no `release`, no `nest` |
| `ReadersAlwaysKeepValue` | no `release`, no `peek` |
| `NobodyEverMisses` | none of the three |

`late`, which may deadlock, is always allowed. `Fired`, `Handed` and `Released` say what a
triggered event means: a task that is done, or a UserEvent whose cause has triggered.
`Readers` and `Waits` relate the readers of a future to the events a taker waits for.
`Stored` and `Single`: a future or view in transit is in one task's arguments. `Cells`: at
most one future leads to a cell, also through futures handed back, and none once its value
was taken, which is after everyone who reads it. Without the last, taking a value twice
could not be excluded.

### MemoryProofs

`TypeCorrect`, `AccessAlwaysSafe`, `ReadsAlwaysCurrent`, `IdsAlwaysUnique`, `AlwaysOneOwner` and
`CachesAlwaysGiveWay` hold for all programs, for every number of memories, shapes, instances,
arrays, tasks and copies, with the tile cache and without. Whatever has an instance (an
array, an entry of the tile cache, a destruction that waits) has an event that covers every
unfinished use of it: the event waits for the use, or for a writer that does (`Guarded`); a
lost tile needs none, as nobody will use or destroy it. The next user waits for that event,
so of two conflicting uses the later is held back (`Ordered`). `Valued` follows the data: the last unfinished writer of an instance, or the
instance itself when there is none, has the value that the program expects. `Apart` and `Kept`
say that an instance has one owner until it is given back or lost; `Queues`, `Calls`, `Exist`
and `Counts` describe the caches, the call in progress and the numbering of instances and
arrays, `Ops` the tasks and copies. `Ids`: ids are given out in increasing order, and of the
arrays that share one all but at most one have given it away. `CachesAlwaysGiveWay` is an action
property: the step that throws finds the tile cache empty and no destruction pending, so
whatever fills the memory belongs to an array or is lost. `FailsOnlyWhenFull`, which leaves the
lost tiles out, is what finding 5 refutes.

### ShardingProofs

`TilesCover`: for every valid and tileable sharding, of any rank, permutation and mesh, each
element of the array is in exactly `devices / TotalSharding` tiles. The module proves what
the index arithmetic computes. Induction is over sets of numbers: the numbers that have a
property contain 0 and the successor of each, so they are all (`NatInd`, `UptoInd`,
`DownInd`). A recursive function, and the fold behind `Product`, is first shown to exist level
by level (`FoldExists`, `HornerExists`, `ListExists`), since its equations hold only then. On
this rest `ProductStep`, that the shards from one dimension inwards are a block of
consecutive numbers, and with `DivDiv` the two central facts: `ComputeTileIndex` is a
bijection between shards and indices in any permutation (`IndexInjective`,
`IndexSurjective`), and `ComputeTileShard` is its inverse when the shards are numbered
row-major (`ShardOfIndex`, `IndexOfShard`), which is what finding 4 is about.

### ReshardPlanProofs

| Theorem | For which pairs of shardings |
|---|---|
| `TilesArePartition` | both `Tileable` |
| `SendsMatch`, `ReadyIsFilled`, `NeverStuck` | `Supported` |
| `PowersComplete` | trees whose size is a power of two |

`SupportedFits` says, one lemma per strategy, that what all devices issue together fits
(`PlanFits`): the sends are the receives, with one box per key inside the tiles of both ends,
the boxes of a target shard cover its tile, and nobody meets undefined behaviour. For
scatter/gather this is that fine tiles lie in the coarse tile `PartOf` names and cover it
(`FineInCoarse`, `FineCoverCoarse`). For a broadcast it is that the two ends of an edge of the
tree agree, which they compute from opposite directions: the search of `GetTargetConfig`
reaches a rank that is an odd multiple of a power of two after as many halvings as make that
power (`DescendAt`), and the leaves of a rank are what lies a smaller power ahead (`LeavesAt`).
So in a complete tree the parent of every rank has it as a leaf (`TreeAgrees`).
`PowersComplete` shows that every power of two is the size of such a tree; 3, 5, 7, 9, 13
and 15 are too, while 6 (finding 3), 10, 11, 12 and 14 are not. `CopiesInv` then states that a
target shard holds exactly the boxes copied into it: a forwarder sends only when it has all
it waits for, which is then all of its tile, so no copy takes an element away. `NeverStuck` is the safety half of
`Completes`: when no copy can be made, none is missing. A forwarder sends only to higher shards
(`ForwardsGoUp`), so of the target shards that still wait, the lowest has a sender that is
ready.

`Supported` is a hypothesis of the theorems and not an assumption on `Cases`: a specification
with pairs outside of it is covered as far as it goes.

### Only model-checked

Liveness, which the provers cannot do: `WindsDown`, `Delivered`, `Completes`, `AllResolved`,
`Progress`, `Stops`. For `WindsDown` and `Completes` the safety half is proved
(`NeverCircular`, `NeverStuck`): nothing stops before it is over, and what is left to TLC is
that the fair steps that remain possible are taken and come to an end. TLC checks `WindsDown`
for disciplined programs; `NeverCircular` holds for all.

## Findings

1. `~Store` of a child triggers its parent's notification after `child_rw_event_` only
   (`store.h:69`). A task that reads through the dropped child does not hold back the
   parent's next writer.
2. The move constructor of View leaves `views_` behind (`future.h:196`): a view moved
   after it gave out subviews is released before them.
3. The loop over a rank's leaves stops at the first leaf beyond the tree
   (`reshard_broadcast.cc:55`): with six ranks nobody sends to rank 5.
4. `ComputeTileShard` ignores the permutation that `ComputeTileIndex` honours
   (`tiled_array.cc:170`): scatter/gather of a permuted sharding fills tiles from the wrong
   shards.
5. `~Store` of a root gives its instances back only if it has a precondition
   (`store.h:77`), and `Wait` takes that away. An array that is dropped right after `Wait`, as
   the repository's array tests do (`sharded-array.cc:116`, `reshard_test.cc:81`,
   `broadcast-scalar.cc:122`), loses its tile; a later allocation fails with no array there,
   while the report at `tiled_array.cc:505` lists the arrays as what is allocated.

Besides these, the table of uses under Modules and the pairs left out under Runs list what
the code does not support; they have no run of their own. For four of them a comment
claims otherwise: `future.h:105` (a reader cannot exist before the value), `promise.h:231` (the
event means that the future is ready; not if it was handed back twice), `reshard.cc:58`
(every device pairs up a source and a target shard) and `reshard_broadcast.cc:87` (a
surplus shard does not participate). One more of this kind, against `defer.h:409`: the
event of a token is merged from the completion and the preconditions of the stored
arguments (`defer.h:401`), so it does not cover subtasks that the task launched on an open
Store argument.

## Plan

Done: all modules listed above, and the proofs of every safety property that a run checks
and of both refinements. What is left, in this order:

1. `ReshardManager` composed with the Stores and Views it puts its events into
   (`ReadyAfter`, `DoneAfter`), so that `Rendezvous` and `SharedDatum` meet in one
   specification.
2. `Store`, extended: `operator=`, `DoneAfter` by user code, `unsafe_view`.

At most a dozen runs are kept: one passing run per module and mode and one per finding.

## Not modelled

Realm and CUDA themselves (modelled from how zuku uses them); profiling; the table of
processors, filled once and then only read; `Init`, which parses options and registers
tasks; priorities, which only say which of several ready tasks runs first; `AllocationCounts`,
which only feeds an error message; vectors of stores, views and futures; `Store::operator=`
and `unsafe_view`; logging and names; the size and type of elements; exceptions other than
the unsupported reshard and the failed allocation; the compile-time code of `type_traits.h`,
`vector.h` and `hash.h`.
