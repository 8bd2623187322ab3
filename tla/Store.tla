------------------------------- MODULE Store -------------------------------
(***************************************************************************)
(* zuku::Store<T> and zuku::View<T>: how one datum is shared by a tree of  *)
(* tasks.                                                                  *)
(*                                                                         *)
(* A program owns a root Store and passes it to deferred tasks.  A task    *)
(* either gets the datum itself (T& or const T&: a leaf of the tree) or an *)
(* open-ended handle (Store<T> or View<T>), through which it launches      *)
(* further tasks.  No lock orders the accesses: every handle keeps the     *)
(* Realm events of the accesses it handed out, and every task waits for    *)
(* the events its handle held when it was launched.  The module follows    *)
(* those events: store.h, the View of future.h, and the launch and run of  *)
(* a task (defer.h, task.h, task.cc).                                      *)
(*                                                                         *)
(* An event is a set of primitive events (merge_events is union, NO_EVENT  *)
(* is empty) and has triggered when all of them have fired.  The stream    *)
(* half of an EventPrecondition equals its effects half for the tasks      *)
(* modelled here (no stream_ordered()), so one set stands for both.        *)
(***************************************************************************)
EXTENDS Integers

CONSTANTS
  NTasks,         \* bound: how many tasks the program launches
  DropReaders,    \* may the program drop a child Store whose readers run?
  MoveBusyViews   \* may the program std::move a View that has subviews?

ASSUME NTasksAssumption == NTasks \in Nat
ASSUME ProgramAssumption == DropReaders \in BOOLEAN /\ MoveBusyViews \in BOOLEAN

Root == 0                  \* the program's own Store
Task == 1 .. NTasks        \* in the order of the defer() calls
Handle == 0 .. NTasks      \* Root, and the handle created for an open task
Kinds == {"none", "rw", "ro", "store", "view", "move"}

\* The primitive events: the completion of a task; the UserEvent of an open
\* handle (parent_notification_event_ of a Store, war_dependency_ of a View; for
\* Root, which has neither, the deletion of the instances); and the create_event
\* of Store::DeferredCreate.
Done(t) == <<"done", t>>
Rel(h)  == <<"rel", h>>
Created == <<"created", 0>>

VARIABLES
  launched,   \* number of tasks launched so far
  kind,       \* what the task's parameter is (Root: a Store)
  par,        \* the handle the task was launched on
  anc,        \* history: the handles above a task or a handle
  st,         \* progress of a task
  pre,        \* the event the task waits for (TaskBase::merged_precondition_)
  hst,        \* life of a handle: in a task's arguments, in use, destroyed
  childRw,    \* Store::child_rw_event_, View::precondition_
  war,        \* Store::war_precondition_, View::views_
  armed,      \* what the UserEvent of a destroyed handle was triggered with
  using,      \* is the handle's holder accessing the datum itself?
  fired       \* the primitive events that have triggered

taskVars == <<launched, kind, par, anc, st, pre>>
vars == <<taskVars, hst, childRw, war, armed, using, fired>>

Event == {Done(t) : t \in Task} \cup {Rel(h) : h \in Handle} \cup {Created}

IsStore(h) == kind[h] = "store"
IsView(h)  == kind[h] = "view"

\* Mutants: a reader that does not wait for the writers, a writer that forgets the
\* readers.
ViewPreconditionNone(h) == {}
PreconditionNoReaders(h) == childRw[h]

\* Store::Precondition and View::Precondition: a reader needs the last writers,
\* a writer the readers as well.
ViewPrecondition(h) == childRw[h]
Precondition(h) == IF IsStore(h) THEN childRw[h] \cup war[h] ELSE childRw[h]

Init ==
  /\ launched = 0
  /\ kind = [h \in Handle |-> IF h = Root THEN "store" ELSE "none"]
  /\ par = [t \in Task |-> Root]
  /\ anc = [h \in Handle |-> {}]
  /\ st = [t \in Task |-> "idle"]
  /\ pre = [t \in Task |-> {}]
  /\ hst = [h \in Handle |-> IF h = Root THEN "held" ELSE "none"]
  /\ \E ev \in {{}, {Created}} :        \* Store::Create, Store::DeferredCreate
       /\ childRw = [h \in Handle |-> IF h = Root THEN ev ELSE {}]
       /\ using = [h \in Handle |-> h = Root /\ ev = {}]
  /\ war = [h \in Handle |-> {}]
  /\ armed = [h \in Handle |-> {}]
  /\ fired = {}

-----------------------------------------------------------------------------
(***************************************************************************)
(* Launching a task: _defer and the Task constructor.  The spawn waits on  *)
(* wait_on_init until the arguments are stored and the preconditions are   *)
(* merged, so a launch is one step.                                        *)
(***************************************************************************)
Spawn(t, h, k, p) ==
  /\ hst[h] = "held"
  /\ launched < NTasks
  /\ t = launched + 1
  /\ launched' = t
  /\ kind' = [kind EXCEPT ![t] = k]
  /\ par' = [par EXCEPT ![t] = h]
  /\ anc' = [anc EXCEPT ![t] = anc[h] \cup {h}]
  /\ st' = [st EXCEPT ![t] = "waiting"]
  /\ pre' = [pre EXCEPT ![t] = p]
  /\ using' = [using EXCEPT ![h] = FALSE]
  /\ UNCHANGED <<armed, fired>>

\* Store<T>& passed as T&: Store::child(stream, effects).
LaunchRW(t, h) ==
  /\ IsStore(h)
  /\ Spawn(t, h, "rw", Precondition(h))
  /\ childRw' = [childRw EXCEPT ![h] = @ \cup {Done(t)}]
  /\ war' = [war EXCEPT ![h] = {}]
  /\ UNCHANGED hst

\* Store<T>& passed as T or const T&: Store::view(stream, effects); or a copy
\* out of a View that was registered with View::DoneAfter.
LaunchRO(t, h) ==
  /\ Spawn(t, h, "ro", ViewPrecondition(h))
  /\ war' = [war EXCEPT ![h] = @ \cup {Done(t)}]
  /\ UNCHANGED <<childRw, hst>>

\* Mutant: the child copies child_rw_event_ after its own notification was added.
LaunchStoreSwapped(t, h) ==
  /\ IsStore(h)
  /\ Spawn(t, h, "store", Precondition(h))
  /\ childRw' = [childRw EXCEPT ![h] = @ \cup {Rel(t)}, ![t] = childRw[h] \cup {Rel(t)}]
  /\ war' = [war EXCEPT ![h] = {}, ![t] = war[h]]
  /\ hst' = [hst EXCEPT ![t] = "transit"]

\* Store<T>& passed as Store<T>: the open-ended Store::child().
LaunchStore(t, h) ==
  /\ IsStore(h)
  /\ Spawn(t, h, "store", Precondition(h))
  /\ childRw' = [childRw EXCEPT ![h] = @ \cup {Rel(t)}, ![t] = childRw[h]]
  /\ war' = [war EXCEPT ![h] = {}, ![t] = war[h]]
  /\ hst' = [hst EXCEPT ![t] = "transit"]

\* Store<T>& or View<T>& passed as View<T>: the open-ended view().
LaunchView(t, h) ==
  /\ Spawn(t, h, "view", ViewPrecondition(h))
  /\ childRw' = [childRw EXCEPT ![t] = childRw[h]]
  /\ war' = [war EXCEPT ![h] = @ \cup {Rel(t)}]
  /\ hst' = [hst EXCEPT ![t] = "transit"]

\* std::move(store) passed to a task: the handle itself travels.
MoveStore(t, h) ==
  /\ IsStore(h)
  /\ Spawn(t, h, "move", Precondition(h))
  /\ hst' = [hst EXCEPT ![h] = "transit"]
  /\ UNCHANGED <<childRw, war>>

\* std::move(view): the move constructor of View does not take views_ along.
MoveView(t, h) ==
  /\ IsView(h)
  /\ MoveBusyViews \/ war[h] \subseteq fired
  /\ Spawn(t, h, "move", ViewPrecondition(h))
  /\ hst' = [hst EXCEPT ![h] = "transit"]
  /\ war' = [war EXCEPT ![h] = {}]
  /\ UNCHANGED childRw

-----------------------------------------------------------------------------
(***************************************************************************)
(* Running a task.                                                         *)
(***************************************************************************)

\* resolve_dependency_tuple: the handle that an open parameter is moved from.
Resolve(t) == IF kind[t] = "move" THEN par[t] ELSE t

\* deferred_task_launcher calls Invoke once the precondition has triggered; an
\* open argument is moved out of the task into the function's parameter.
Start(t) ==
  /\ st[t] = "waiting"
  /\ pre[t] \subseteq fired
  /\ st' = [st EXCEPT ![t] = "running"]
  /\ IF kind[t] \in {"store", "view", "move"}
     THEN /\ hst' = [hst EXCEPT ![Resolve(t)] = "held"]
          /\ using' = [using EXCEPT ![Resolve(t)] = TRUE]
     ELSE UNCHANGED <<hst, using>>
  /\ UNCHANGED <<launched, kind, par, anc, pre, childRw, war, armed, fired>>

\* The function has returned (on a GPU: and its kernels have finished).
Complete(t) ==
  /\ st[t] = "running"
  /\ st' = [st EXCEPT ![t] = "done"]
  /\ fired' = fired \cup {Done(t)}
  /\ UNCHANGED <<launched, kind, par, anc, pre, hst, childRw, war, armed, using>>

\* The creation of the instances finishes.
Create ==
  /\ Created \notin fired
  /\ fired' = fired \cup {Created}
  /\ UNCHANGED <<taskVars, hst, childRw, war, armed, using>>

-----------------------------------------------------------------------------
(***************************************************************************)
(* What the holder of a handle does with it, other than launching.         *)
(***************************************************************************)

\* Mutant: Wait forgets that its readers may still run.
WaitForWriters(h) ==
  /\ hst[h] = "held" /\ IsStore(h)
  /\ ViewPrecondition(h) \subseteq fired
  /\ childRw' = [childRw EXCEPT ![h] = {}]
  /\ war' = [war EXCEPT ![h] = {}]
  /\ using' = [using EXCEPT ![h] = TRUE]
  /\ UNCHANGED <<taskVars, hst, armed, fired>>

\* Store::Wait; the holder may touch the datum again once it returns.
Wait(h) ==
  /\ hst[h] = "held" /\ IsStore(h)
  /\ Precondition(h) \subseteq fired
  /\ childRw' = [childRw EXCEPT ![h] = {}]
  /\ war' = [war EXCEPT ![h] = {}]
  /\ using' = [using EXCEPT ![h] = TRUE]
  /\ UNCHANGED <<taskVars, hst, armed, fired>>

\* Destruction of a handle, and the event its UserEvent is triggered with.
Destroy(h, ev) ==
  /\ hst[h] = "held"
  /\ hst' = [hst EXCEPT ![h] = "dead"]
  /\ armed' = [armed EXCEPT ![h] = ev]
  /\ using' = [using EXCEPT ![h] = FALSE]
  /\ UNCHANGED <<taskVars, childRw, war, fired>>

\* Mutant: the notification is triggered without a precondition.
DropStoreAtOnce(h) ==
  /\ h # Root /\ IsStore(h)
  /\ DropReaders \/ war[h] \subseteq fired
  /\ Destroy(h, {})

\* ~Store of a child: child_rw_event_ only.
DropStore(h) ==
  /\ h # Root /\ IsStore(h)
  /\ DropReaders \/ war[h] \subseteq fired
  /\ Destroy(h, childRw[h])

\* ~View: all the subviews.
DropView(h) ==
  /\ IsView(h)
  /\ Destroy(h, war[h])

\* Mutants: the root waits for a notification that only a child has; the instances
\* are deleted after the last write.
DropRootNotified == Destroy(Root, Precondition(Root) \cup {Rel(Root - 1)})
DropRootAfterWriters == Destroy(Root, ViewPrecondition(Root))

\* ~Store of the root: DeferredDeleteInstances(Precondition()).
DropRoot == Destroy(Root, Precondition(Root))

\* A triggered UserEvent fires when its precondition has; the instances of a
\* root without any precondition are not deleted (HasPrecondition()).
Fire(h) ==
  /\ hst[h] = "dead"
  /\ Rel(h) \notin fired
  /\ armed[h] \subseteq fired
  /\ h = Root => armed[h] # {}
  /\ fired' = fired \cup {Rel(h)}
  /\ UNCHANGED <<taskVars, hst, childRw, war, armed, using>>

-----------------------------------------------------------------------------
Launch(t, h) ==
  \/ LaunchRW(t, h)    \/ LaunchRO(t, h)
  \/ LaunchStore(t, h) \/ LaunchView(t, h)
  \/ MoveStore(t, h)   \/ MoveView(t, h)

Drop(h) == DropStore(h) \/ DropView(h) \/ (h = Root /\ DropRoot)

\* Nothing is left to do: the program has ended.
Terminated ==
  /\ hst[Root] = "dead"
  /\ \A t \in Task : t <= launched => st[t] = "done"
  /\ \A h \in Handle : hst[h] \in {"none", "dead"}
  /\ UNCHANGED vars

Next ==
  \/ \E t \in Task, h \in Handle : Launch(t, h)
  \/ \E t \in Task : Start(t) \/ Complete(t)
  \/ \E h \in Handle : Wait(h) \/ Drop(h) \/ Fire(h)
  \/ Create
  \/ Terminated

Spec == Init /\ [][Next]_vars

\* Realm runs every task that can run and triggers every event that can
\* trigger; the C++ scope rules destroy every handle the program holds.
Fairness ==
  /\ \A t \in Task : WF_vars(Start(t)) /\ WF_vars(Complete(t))
  /\ \A h \in Handle : WF_vars(Fire(h)) /\ WF_vars(Drop(h))
  /\ WF_vars(Create)

FairSpec == Spec /\ Fairness

-----------------------------------------------------------------------------
(***************************************************************************)
(* Properties.                                                             *)
(***************************************************************************)

\* Every variable stays in its domain.
TypeOK ==
  /\ launched \in 0 .. NTasks
  /\ kind \in [Handle -> Kinds]
  /\ par \in [Task -> Handle]
  /\ anc \in [Handle -> SUBSET Handle]
  /\ st \in [Task -> {"idle", "waiting", "running", "done"}]
  /\ pre \in [Task -> SUBSET Event]
  /\ hst \in [Handle -> {"none", "transit", "held", "dead"}]
  /\ childRw \in [Handle -> SUBSET Event]
  /\ war \in [Handle -> SUBSET Event]
  /\ armed \in [Handle -> SUBSET Event]
  /\ using \in [Handle -> BOOLEAN]
  /\ fired \in SUBSET Event

\* An access is a leaf task that runs or a handle whose holder touches the datum.
\* A task that was given a moved handle has no access of its own: it is the
\* handle's.
HasAccess(t) == kind[t] \in {"rw", "ro", "store", "view"}
Writer(t) == kind[t] \in {"rw", "store"} \/ (kind[t] = "move" /\ IsStore(par[t]))
Started(t) == st[t] \in {"running", "done"}
Finished(t) == IF kind[t] \in {"rw", "ro"} THEN st[t] = "done" ELSE hst[t] = "dead"

\* x comes before y when the program runs sequentially: some task launched
\* earlier on the same handle is x or holds x in its subtree, the later one y.
Before(x, y) ==
  \E a \in (anc[x] \cup {x}) \ {Root}, b \in (anc[y] \cup {y}) \ {Root} :
    par[a] = par[b] /\ a < b

\* Read-after-write and write-after-write: a task starts only when every write
\* that precedes it in program order, at whatever depth of the tree of stores,
\* has been finished (Store::child_rw_event_, parent_notification_event_).
WritersFirst ==
  \A x, y \in Task :
    HasAccess(x) /\ Writer(x) /\ Started(y) /\ Before(x, y) => Finished(x)

\* Write-after-read: a writing task starts only when every read that precedes it
\* in program order has been finished (war_precondition_, war_dependency_).
ReadersFirst ==
  \A x, y \in Task :
    HasAccess(x) /\ Writer(y) /\ Started(y) /\ Before(x, y) => Finished(x)

\* The holder of a Store that uses the datum itself (on entry to its task, or
\* after Store::Wait) is alone: nothing launched below the handle is unfinished.
ExclusiveUse ==
  \A h \in Handle : using[h] /\ IsStore(h) =>
    \A x \in Task : h \in anc[x] /\ HasAccess(x) => Finished(x)

\* The instances of a dropped root (DeferredDeleteInstances) are deleted only when
\* no task anywhere in the tree can touch them any more.
NoUseAfterFree ==
  Rel(Root) \in fired =>
    /\ \A t \in Task : HasAccess(t) => Finished(t)
    /\ \A h \in Handle : ~using[h]

\* Who touches the datum: a leaf task that runs, the holder of a View, the holder of a
\* Store on entry to its task and after Wait.
Reading(x) == (kind[x] = "ro" /\ st[x] = "running") \/ (IsView(x) /\ hst[x] = "held")
Writing(x) == (kind[x] = "rw" /\ st[x] = "running") \/ (IsStore(x) /\ using[x])

Phase ==
  IF Rel(Root) \in fired THEN "freed"
  ELSE IF Created \in childRw[Root] \ fired THEN "absent" ELSE "present"

Datum == INSTANCE SharedDatum
           WITH User <- Handle, phase <- Phase,
                readers <- {x \in Handle : Reading(x)}, writers <- {x \in Handle : Writing(x)}

\* The events of the tree make of the datum one that many read or one writes, from its
\* creation to its deletion: nobody touches it before Store::DeferredCreate has finished,
\* a writer is alone, and the instances outlive every access.
ImplementsDatum == Datum!Spec

\* future.h:257: the war_dependency_ of a View is not triggered before all of its
\* subviews have been released.
SubviewsHoldBack ==
  \A v \in Handle, x \in Task :
    IsView(v) /\ Rel(v) \in fired /\ HasAccess(x) /\ par[x] = v => Finished(x)

\* Every program winds down: each task it launched runs to completion, each
\* destroyed handle releases its parent, and a root with operations pending gives
\* its instances back.  The events of the tree never wait for each other in a
\* circle, and none is forgotten.
WindsDown ==
  <>[](/\ \A t \in Task : t <= launched => st[t] = "done"
       /\ \A h \in Handle :
            hst[h] # "none" /\ (h = Root => armed[h] # {}) => Rel(h) \in fired)

=============================================================================
