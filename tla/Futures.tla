------------------------------ MODULE Futures -------------------------------
(***************************************************************************)
(* zuku::Future<T> and zuku::Promise<T>: the values that tasks return.     *)
(*                                                                         *)
(* A deferred task writes what it returns into a cell (an optional behind  *)
(* a shared pointer) that its Promise and the caller's Future share.  A    *)
(* task that returns a Future writes no cell: its Promise has a UserEvent  *)
(* and an empty inner Future, which the returned future fills when the     *)
(* task ends.  Futures are moved into tasks, which take the value out of   *)
(* the cell, or viewed, by tasks that only read it; nothing but the events *)
(* in a Future orders those accesses.                                      *)
(*                                                                         *)
(* One Future and at most one View per task are named after the task: the  *)
(* Future its launch returned, and an open-ended view of that Future.      *)
(* Events are sets of primitive events, as in Store.  Future<void> and a   *)
(* returned ReturnToken are the same without a cell.                       *)
(***************************************************************************)
EXTENDS Integers, FiniteSets

CONSTANTS
  NTasks,   \* bound: how many tasks the program launches
  MaxArgs,  \* bound: how many futures and views one task is given
  Uses      \* which delicate uses of futures the program makes

ASSUME NTasksAssumption == NTasks \in Nat
ASSUME MaxArgsAssumption == MaxArgs \in Nat

\* release: drops a view before the value exists; nest: returns from a task a
\* future that a task returning a future gave it; peek: views such a future; late:
\* hands a view on after the future itself.
ASSUME UsesAssumption == Uses \subseteq {"release", "nest", "peek", "late"}

Main == 0
Task == 1 .. NTasks
Actor == 0 .. NTasks         \* Main, and the running tasks
Nowhere == -1                \* not created yet, or consumed
InArgs == -2                 \* stored in the arguments of a task
NoCell == 0

Done(t) == <<"done", t>>         \* completion of task t
Deferred(t) == <<"deferred", t>> \* Promise::deferred_event_ of task t
Reader(f) == <<"reader", f>>     \* war_dependency_ of the view of future f
UserEvent == {Deferred(t) : t \in Task} \cup {Reader(f) : f \in Task}
Event == {Done(t) : t \in Task} \cup UserEvent

\* What a parameter is and what it is given: T from Future<T>&, from Future<T>&&
\* and from View<T>&&, Future<T> from Future<T>&&, View<T> from View<T>&&.
ArgKind == {"copy", "take", "peek", "future", "view"}
Arg == ArgKind \X Task
OfFuture == {"copy", "take", "future"}   \* given a Future, not a View

VARIABLES
  launched,  \* number of tasks launched so far
  ret,       \* what the task's function returns: "value" or "future"
  args,      \* the arguments the task was launched with
  st,        \* progress of the task
  pre,       \* TaskBase::merged_precondition_
  cell,      \* the optional<T> the task's Promise<T> shares: unset, set, moved
  inner,     \* the cell in the inner Future of the task's deferred Promise
  own,       \* who holds the task's Future
  war,       \* Future::war_precondition_ (empty: nullopt)
  vown,      \* who holds the View of the task's Future
  armed,     \* the triggered UserEvents and their preconditions
  fired,     \* the primitive events that have triggered
  missed     \* history: the actors that asked for a value and found none

taskVars == <<launched, ret, args, st, pre>>
vars == <<taskVars, cell, inner, own, war, vown, armed, fired, missed>>

Init ==
  /\ launched = 0
  /\ ret = [t \in Task |-> "value"]
  /\ args = [t \in Task |-> {}]
  /\ st = [t \in Task |-> "idle"]
  /\ pre = [t \in Task |-> {}]
  /\ cell = [t \in Task |-> "unset"]
  /\ inner = [t \in Task |-> NoCell]
  /\ own = [t \in Task |-> Nowhere]
  /\ war = [t \in Task |-> {}]
  /\ vown = [t \in Task |-> Nowhere]
  /\ armed = {}
  /\ fired = {}
  /\ missed = {}

-----------------------------------------------------------------------------
(***************************************************************************)
(* The members of Future and View.                                         *)
(***************************************************************************)

\* Mutants: the future of a task that returns a future is ready with the task; the
\* event is that of the task launched before.
RawPreconditionOfTask(f) == {Done(f)}
RawPreconditionOfPrevious(f) == IF ret[f] = "value" THEN {Done(f - 1)} ELSE {Deferred(f)}

\* Future::precondition_: create_concrete_future, create_deferred_future.
RawPrecondition(f) == IF ret[f] = "value" THEN {Done(f)} ELSE {Deferred(f)}

\* Mutant: whoever takes the value does not wait for the readers.
PreconditionRaw(f) == RawPrecondition(f)

\* Future::Precondition: the readers alone, if there are any.
Precondition(f) == IF war[f] # {} THEN war[f] ELSE RawPrecondition(f)

\* Future::get_value follows the inner future, which may hold nothing.
ValueCell(f) == IF ret[f] = "value" THEN f ELSE inner[f]
HasValue(f) == ValueCell(f) # NoCell /\ cell[ValueCell(f)] = "set"

\* View::value throws when the view was taken of a deferred future.
ViewHasValue(f) == ret[f] = "value" /\ cell[f] = "set"

\* Mutant: a task does not wait for the futures it only reads.
ArgPreconditionMoved(x) ==
  IF x[1] \in {"take", "future"} THEN Precondition(x[2]) ELSE {}

\* AddDeferredPrecondition: a moved Future waits for Precondition, a View for the
\* precondition_ it copied from the Future.
ArgPrecondition(x) ==
  IF x[1] \in {"take", "future"} THEN Precondition(x[2]) ELSE RawPrecondition(x[2])

\* ResolveDependency of an argument, when its task starts.
Resolves(x) ==
  CASE x[1] = "take" -> HasValue(x[2])
    [] x[1] \in {"copy", "peek"} -> ViewHasValue(x[2])
    [] OTHER -> TRUE

Active(a) == IF a = Main THEN TRUE ELSE st[a] = "running"

\* A function that returns a Future<T> must have one in the end; it can launch a
\* task to get one.  The bound on launches leaves room for that.
MayReturn(f) == ret[f] = "value" \/ "nest" \in Uses
Owes(t) ==
  /\ ret[t] = "future" /\ st[t] \in {"waiting", "running"}
  /\ \A f \in Task : MayReturn(f) =>
       own[f] # t /\ (st[t] = "waiting" => <<"future", f>> \notin args[t])
Room == Cardinality({t \in Task : Owes(t)}) <= NTasks - launched

\* The view of f was handed to task a.
Received(a, f) == IF a = Main THEN FALSE ELSE <<"view", f>> \in args[a]

-----------------------------------------------------------------------------
\* _defer: the arguments are moved or viewed, the caller gets the Future.
Held(a) ==
  {x \in Arg : IF x[1] \in OfFuture THEN own[x[2]] = a ELSE vown[x[2]] = a}
Launch(a, t, r, A) ==
  LET given == {x[2] : x \in {y \in A : y[1] \in OfFuture}}
      moved == {x[2] : x \in {y \in A : y[1] \in {"take", "future"}}}
      copied == {x[2] : x \in {y \in A : y[1] = "copy"}}
      viewed == {x[2] : x \in {y \in A : y[1] \in {"peek", "view"}}}
  IN /\ Active(a)
     /\ launched < NTasks
     /\ t = launched + 1
     /\ Cardinality(A) <= MaxArgs
     /\ Cardinality(given) + Cardinality(viewed) = Cardinality(A)
     /\ \A f \in copied : ret[f] = "future" => "peek" \in Uses
     /\ \A f \in viewed : "late" \in Uses \/ Received(a, f) \/ (own[f] = a /\ f \notin moved)
     /\ launched' = t
     /\ ret' = [ret EXCEPT ![t] = r]
     /\ args' = [args EXCEPT ![t] = A]
     /\ st' = [st EXCEPT ![t] = "waiting"]
     /\ pre' = [pre EXCEPT ![t] = UNION {ArgPrecondition(x) : x \in A}]
     /\ own' = [f \in Task |-> IF f = t THEN a ELSE IF f \in moved THEN InArgs ELSE own[f]]
     /\ vown' = [f \in Task |-> IF f \in viewed THEN InArgs ELSE vown[f]]
     /\ war' = [f \in Task |-> IF f \in copied THEN war[f] \cup {Done(t)} ELSE war[f]]
     /\ UNCHANGED <<cell, inner, armed, fired, missed>>
     /\ Room'

LaunchSome(a) ==
  /\ Active(a) /\ launched < NTasks
  /\ \E A \in SUBSET Held(a), r \in {"value", "future"} : Launch(a, launched + 1, r, A)

\* Future::view(), once per future.
MakeView(a, f) ==
  /\ Active(a) /\ own[f] = a
  /\ Reader(f) \notin war[f]
  /\ ret[f] = "future" => "peek" \in Uses
  /\ war' = [war EXCEPT ![f] = @ \cup {Reader(f)}]
  /\ vown' = [vown EXCEPT ![f] = a]
  /\ UNCHANGED <<taskVars, cell, inner, own, armed, fired, missed>>

\* ~View of a view without subviews.
MayRelease(f) == "release" \in Uses \/ RawPrecondition(f) \subseteq fired
DropView(a, f) ==
  /\ Active(a) /\ vown[f] = a
  /\ MayRelease(f)
  /\ vown' = [vown EXCEPT ![f] = Nowhere]
  /\ armed' = armed \cup {[event |-> Reader(f), after |-> {}]}
  /\ UNCHANGED <<taskVars, cell, inner, own, war, fired, missed>>

\* Future::wait_and_get.
WaitAndGet(a, f) ==
  /\ Active(a) /\ own[f] = a
  /\ RawPrecondition(f) \subseteq fired
  /\ missed' = IF HasValue(f) THEN missed ELSE missed \cup {a}
  /\ UNCHANGED <<taskVars, cell, inner, own, war, vown, armed, fired>>

\* Invoke: the arguments are resolved.  A value that is taken leaves its cell
\* empty; a moved Future or View becomes the task's.
Start(t) ==
  /\ st[t] = "waiting"
  /\ pre[t] \subseteq fired
  /\ st' = [st EXCEPT ![t] = "running"]
  /\ missed' = IF \A x \in args[t] : Resolves(x) THEN missed ELSE missed \cup {t}
  /\ cell' = [c \in Task |->
       IF \E f \in Task : <<"take", f>> \in args[t] /\ ValueCell(f) = c THEN "moved" ELSE cell[c]]
  /\ own' = [f \in Task |->
       IF <<"future", f>> \in args[t] THEN t
       ELSE IF <<"take", f>> \in args[t] THEN Nowhere ELSE own[f]]
  /\ vown' = [f \in Task |-> IF <<"view", f>> \in args[t] THEN t ELSE vown[f]]
  /\ UNCHANGED <<launched, ret, args, pre, inner, war, armed, fired>>

\* The function returns and its task is deleted: what it still holds is destroyed,
\* which releases the views among it, those in the stored arguments too.
LastViews(t) == {f \in Task : vown[f] = t \/ <<"peek", f>> \in args[t]}
Releases(t) == {[event |-> Reader(f), after |-> {}] : f \in LastViews(t)}
Leave(t) ==
  /\ st[t] = "running"
  /\ \A f \in LastViews(t) : MayRelease(f)
  /\ st' = [st EXCEPT ![t] = "done"]
  /\ fired' = fired \cup {Done(t)}
  /\ own' = [f \in Task |-> IF own[f] = t THEN Nowhere ELSE own[f]]
  /\ vown' = [f \in Task |-> IF f \in LastViews(t) THEN Nowhere ELSE vown[f]]
  /\ UNCHANGED <<launched, ret, args, pre, war, missed>>

\* Mutant: the value is never stored.
ReturnNothing(t) ==
  /\ ret[t] = "value"
  /\ Leave(t)
  /\ armed' = armed \cup Releases(t)
  /\ UNCHANGED <<cell, inner>>

\* FulfillPromise<T, Promise<T>>.
ReturnValue(t) ==
  /\ ret[t] = "value"
  /\ Leave(t)
  /\ cell' = [cell EXCEPT ![t] = "set"]
  /\ armed' = armed \cup Releases(t)
  /\ UNCHANGED inner

\* Mutant: the deferred event is not triggered.
ReturnFutureSilent(t, f) ==
  /\ ret[t] = "future" /\ own[f] = t /\ MayReturn(f)
  /\ Leave(t)
  /\ inner' = [inner EXCEPT ![t] = IF ret[f] = "value" THEN f ELSE @]
  /\ armed' = armed \cup Releases(t)
  /\ UNCHANGED cell

\* FulfillPromise<Future<T>, Promise<T>>: a concrete value is put into the inner
\* future that the caller's future shares.  A deferred one only replaces the
\* promise's own pointer, which nobody reads again.
ReturnFuture(t, f) ==
  /\ ret[t] = "future" /\ own[f] = t /\ MayReturn(f)
  /\ Leave(t)
  /\ inner' = [inner EXCEPT ![t] = IF ret[f] = "value" THEN f ELSE @]
  /\ armed' = armed \cup Releases(t) \cup {[event |-> Deferred(t), after |-> Precondition(f)]}
  /\ UNCHANGED cell

\* A UserEvent fires when the event it was triggered with has.
Fire(u) ==
  /\ u.event \notin fired
  /\ u.after \subseteq fired
  /\ fired' = fired \cup {u.event}
  /\ UNCHANGED <<taskVars, cell, inner, own, war, vown, armed, missed>>

Return(t) == ReturnValue(t) \/ \E f \in Task : ReturnFuture(t, f)

\* Everything that was launched has run.
Terminated ==
  /\ \A t \in Task : t <= launched => st[t] = "done"
  /\ \A u \in armed : u.event \in fired
  /\ \A f \in Task : vown[f] = Nowhere
  /\ UNCHANGED vars

Next ==
  \/ \E a \in Actor : LaunchSome(a)
  \/ \E a \in Actor, f \in Task : MakeView(a, f) \/ DropView(a, f) \/ WaitAndGet(a, f)
  \/ \E t \in Task : Start(t) \/ ReturnValue(t)
  \/ \E t, f \in Task : ReturnFuture(t, f)
  \/ \E u \in armed : Fire(u)
  \/ Terminated

Spec == Init /\ [][Next]_vars

\* A function returns in the end: one that has no future to return launches a task
\* for it.
Oblige(t) ==
  IF Owes(t) THEN Launch(t, launched + 1, "value", {}) ELSE Return(t)

\* Realm runs what can run and triggers what can trigger; functions return; scopes
\* end and destroy the views in them.
FireSome == \E u \in armed : Fire(u)
Fairness ==
  /\ \A t \in Task : WF_vars(Start(t)) /\ WF_vars(Oblige(t))
  /\ \A a \in Actor, f \in Task : WF_vars(DropView(a, f))
  /\ WF_vars(FireSome)

FairSpec == Spec /\ Fairness

-----------------------------------------------------------------------------
(***************************************************************************)
(* Properties.                                                             *)
(***************************************************************************)

\* Every variable stays in its domain.
TypeOK ==
  /\ launched \in 0 .. NTasks
  /\ ret \in [Task -> {"value", "future"}]
  /\ args \in [Task -> SUBSET Arg]
  /\ st \in [Task -> {"idle", "waiting", "running", "done"}]
  /\ pre \in [Task -> SUBSET Event]
  /\ cell \in [Task -> {"unset", "set", "moved"}]
  /\ inner \in [Task -> Task \cup {NoCell}]
  /\ own \in [Task -> Actor \cup {Nowhere, InArgs}]
  /\ war \in [Task -> SUBSET Event]
  /\ vown \in [Task -> Actor \cup {Nowhere, InArgs}]
  /\ armed \subseteq [event : UserEvent, after : SUBSET Event]
  /\ fired \subseteq Event
  /\ missed \subseteq Actor

\* Whoever resolves a future (a task that was given it, by value or moved, or a
\* caller of wait_and_get) finds the value its maker returned: no event of a Future
\* triggers before the cell behind it is filled.
NobodyMisses == missed = {}

\* promise.h:231: when the event of a future somebody holds has triggered, the value
\* is there, or on its way to be taken.  This includes the future of a task that hands
\* back another task's future, if that one is of a value; if it is of a future again
\* (nest) the code does not keep it.
ReadyMeansValue ==
  \A f \in Task :
    own[f] \in Actor \cup {InArgs} /\ RawPrecondition(f) \subseteq fired => HasValue(f)

\* future.h:105: when the event a writer of a future's value would wait for (the
\* readers, if there are any) has triggered, the value's own event has too.
WarIsStronger ==
  \A f \in Task :
    own[f] \in Actor \cup {InArgs} /\ Precondition(f) \subseteq fired
      => RawPrecondition(f) \subseteq fired

\* A task that takes the value out of the cell does so only when every task that was
\* given a view of it, directly or through a future handed back, has finished.
Reads(t) == {x[2] : x \in {y \in args[t] : y[1] \in {"copy", "peek"}}}
ReadersKeepValue ==
  \A t \in Task : st[t] = "running" => \A f \in Reads(t) : HasValue(f)

\* Every task the program launched runs, every deferred future is resolved and every
\* view released, however futures are passed on and handed back.
AllResolved ==
  <>[](\A t \in Task : t <= launched =>
         /\ st[t] = "done"
         /\ RawPrecondition(t) \subseteq fired
         /\ war[t] \subseteq fired)
=============================================================================
