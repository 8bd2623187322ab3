---------------------------- MODULE StoreProofs ----------------------------
(***************************************************************************)
(* Proofs about Store, for any number of tasks.                            *)
(*                                                                         *)
(* The argument.  Every access x is represented by one event, Ev(x): its   *)
(* completion if it is a leaf, the UserEvent of its handle if it is open.  *)
(* The parent handle keeps Ev(x), directly or through a later writer that  *)
(* waits for it (Covered), so a later sibling, a Wait() or the destruction *)
(* of the parent inherits it.  An event that has fired speaks for the      *)
(* whole subtree below it (SubtreeFired), which is what lifts an order     *)
(* between siblings to an order between any two tasks of the tree.         *)
(***************************************************************************)
EXTENDS Store, NaturalsInduction, WellFoundedInduction, TLAPS

\* The program neither drops a child Store with readers running nor moves a View
\* that has subviews.
Disciplined == ~DropReaders /\ ~MoveBusyViews

Ev(x) == IF kind[x] \in {"rw", "ro"} THEN Done(x) ELSE Rel(x)

WriterAccess(x) == kind[x] \in {"rw", "store"}

\* The accesses whose events are never lost: the writers, and with a disciplined
\* program the readers too.
Tracked(x) == WriterAccess(x) \/ (Disciplined /\ HasAccess(x))

\* When S triggers, so has Ev(x): it is in S, or a later writer of the same handle
\* that is in S waits for it.
Covered(x, S) ==
  \/ Ev(x) \in fired \cup S
  \/ \E c \in Task : /\ par[c] = par[x] /\ WriterAccess(c)
                     /\ Ev(x) \in pre[c] /\ Ev(c) \in fired \cup S

-----------------------------------------------------------------------------
(***************************************************************************)
(* The inductive invariant.                                                *)
(***************************************************************************)

\* The tree of tasks and handles.
Shape ==
  /\ kind[Root] = "store" /\ anc[Root] = {} /\ hst[Root] # "none"
  /\ \A x \in Task :
       /\ (x <= launched) <=> (kind[x] # "none")
       /\ (x <= launched) <=> (st[x] # "idle")
       /\ kind[x] = "none" => anc[x] = {}
       /\ kind[x] # "none" => /\ anc[x] = anc[par[x]] \cup {par[x]}
                              /\ Root \in anc[x]
       /\ (hst[x] # "none") <=> (kind[x] \in {"store", "view"})
       /\ \A h \in anc[x] :
            /\ kind[h] \in {"store", "view"}
            /\ Writer(x) => kind[h] = "store"
            /\ h # Root => Started(h)
            /\ h = par[x] \/ \E a \in anc[x] \cap Task : par[a] = h

\* Where a handle is, and which task will take it over.
Life ==
  /\ \A x \in Task : st[x] = "waiting" =>
       /\ kind[x] \in {"store", "view"} =>
            hst[x] = "transit" /\ \A y \in Task : x \notin anc[y]
       /\ kind[x] = "move" =>
            hst[par[x]] = "transit" /\ \A y \in Task : kind[y] # "none" /\ par[y] = par[x] => y <= x
  /\ \A h \in Handle :
       /\ using[h] => hst[h] = "held"
       /\ h # Root /\ hst[h] \in {"held", "dead"} => Started(h)

\* What a fired event tells.
Fired ==
  /\ \A t \in Task : /\ (Done(t) \in fired) <=> (st[t] = "done")
                     /\ Started(t) => pre[t] \subseteq fired
  /\ \A h \in Handle : Rel(h) \in fired => hst[h] = "dead" /\ armed[h] \subseteq fired

\* The handle keeps the events of its children.
Registered ==
  \A x \in Task : Tracked(x) =>
    /\ WriterAccess(x) => Ev(x) \in fired \cup childRw[par[x]]
    /\ \/ Ev(x) \in fired \cup childRw[par[x]] \cup war[par[x]]
       \/ \E c \in Task : par[c] = par[x] /\ WriterAccess(c) /\ Ev(x) \in pre[c]
    /\ kind[par[x]] = "view" => Ev(x) \in fired \cup war[par[x]]

\* A later sibling waits for the earlier ones it conflicts with.
SiblingOrder ==
  \A x, b \in Task :
    /\ Tracked(x) /\ kind[b] # "none" /\ par[x] = par[b] /\ x < b
    /\ Writer(x) \/ Writer(b)
    => Covered(x, pre[b])

\* A destroyed handle passes on the events of all its children.
DeadCovers ==
  \A x \in Task : Tracked(x) /\ hst[par[x]] = "dead" => Covered(x, armed[par[x]])

\* A released handle has nothing running below it.
SubtreeFired ==
  \A x \in Task : \A h \in anc[x] : Tracked(x) /\ Rel(h) \in fired => Ev(x) \in fired

\* A Store in direct use has nothing running below it.
UseCovers ==
  \A x \in Task : \A h \in anc[x] :
    Tracked(x) /\ using[h] /\ kind[h] = "store" => Ev(x) \in fired

IInv == /\ TypeOK /\ Shape /\ Life /\ Fired /\ Registered /\ SiblingOrder
        /\ DeadCovers /\ SubtreeFired /\ UseCovers

-----------------------------------------------------------------------------
(***************************************************************************)
(* The primitive events are all different.                                 *)
(***************************************************************************)
LEMMA EventsDistinct ==
  /\ \A s, t : Done(s) = Done(t) => s = t
  /\ \A s, t : Rel(s) = Rel(t) => s = t
  /\ \A s, t : Done(s) # Rel(t) /\ Done(s) # Created /\ Rel(s) # Created
BY DEF Done, Rel, Created

\* Every completion, UserEvent and create event is in the domain of the event fields.
LEMMA EventType ==
  /\ \A t \in Task : Done(t) \in Event
  /\ \A h \in Handle : Rel(h) \in Event
  /\ Created \in Event
BY DEF Event

\* An open task shares its number with its handle, and none is the root.
LEMMA TaskHandle ==
  /\ Root \in Handle /\ Root \notin Task
  /\ \A t : t \in Handle <=> (t = Root \/ t \in Task)
  /\ Task \subseteq Int
BY NTasksAssumption DEF Task, Handle, Root

-----------------------------------------------------------------------------
(***************************************************************************)
(* Type correctness.                                                       *)
(***************************************************************************)
\* Store::Create and Store::DeferredCreate start in a well-formed state.
LEMMA TypeInit == Init => TypeOK
BY NTasksAssumption, EventType, TaskHandle DEF Init, TypeOK, Kinds

\* _defer keeps the task table well-formed.
LEMMA TypeSpawn ==
  ASSUME TypeOK, NEW t \in Task, NEW h \in Handle, NEW k \in Kinds,
         NEW p \in SUBSET Event, Spawn(t, h, k, p)
  PROVE  /\ launched' \in 0 .. NTasks
         /\ kind' \in [Handle -> Kinds]
         /\ par' \in [Task -> Handle]
         /\ anc' \in [Handle -> SUBSET Handle]
         /\ st' \in [Task -> {"idle", "waiting", "running", "done"}]
         /\ pre' \in [Task -> SUBSET Event]
         /\ armed' \in [Handle -> SUBSET Event]
         /\ using' \in [Handle -> BOOLEAN]
         /\ fired' \in SUBSET Event
BY NTasksAssumption, TaskHandle DEF TypeOK, Spawn, Task, Handle

\* What Store::Precondition and View::Precondition return is an event.
LEMMA PreconditionType ==
  ASSUME TypeOK, NEW h \in Handle
  PROVE  Precondition(h) \in SUBSET Event /\ ViewPrecondition(h) \in SUBSET Event
BY DEF TypeOK, Precondition, ViewPrecondition

\* No step of a program leaves the domains.
LEMMA TypeStep == TypeOK /\ [Next]_vars => TypeOK'
<1> SUFFICES ASSUME TypeOK, [Next]_vars PROVE TypeOK'
  OBVIOUS
<1> USE EventType, TaskHandle, PreconditionType
<1>1. ASSUME NEW t \in Task, NEW h \in Handle, Launch(t, h) PROVE TypeOK'
  <2>1. CASE LaunchRW(t, h)
    BY <2>1, TypeSpawn DEF LaunchRW, TypeOK, Kinds
  <2>2. CASE LaunchRO(t, h)
    BY <2>2, TypeSpawn DEF LaunchRO, TypeOK, Kinds
  <2>3. CASE LaunchStore(t, h)
    <3>1. /\ childRw' \in [Handle -> SUBSET Event]
          /\ war' \in [Handle -> SUBSET Event]
          /\ hst' \in [Handle -> {"none", "transit", "held", "dead"}]
      BY <2>3 DEF LaunchStore, TypeOK
    <3> QED BY <2>3, <3>1, TypeSpawn DEF LaunchStore, TypeOK, Kinds
  <2>4. CASE LaunchView(t, h)
    BY <2>4, TypeSpawn DEF LaunchView, TypeOK, Kinds
  <2>5. CASE MoveStore(t, h)
    BY <2>5, TypeSpawn DEF MoveStore, TypeOK, Kinds
  <2>6. CASE MoveView(t, h)
    BY <2>6, TypeSpawn DEF MoveView, TypeOK, Kinds
  <2> QED BY <1>1, <2>1, <2>2, <2>3, <2>4, <2>5, <2>6 DEF Launch
<1>2. ASSUME NEW t \in Task, Start(t) PROVE TypeOK'
  BY <1>2 DEF Start, Resolve, TypeOK
<1>3. ASSUME NEW t \in Task, Complete(t) PROVE TypeOK'
  BY <1>3 DEF Complete, TypeOK
<1>4. ASSUME NEW h \in Handle, Wait(h) PROVE TypeOK'
  BY <1>4 DEF Wait, TypeOK, taskVars
<1>5. ASSUME NEW h \in Handle, Drop(h) PROVE TypeOK'
  <2>1. ASSUME NEW ev \in SUBSET Event, Destroy(h, ev) PROVE TypeOK'
    BY <2>1 DEF Destroy, TypeOK, taskVars
  <2>2. childRw[h] \in SUBSET Event /\ war[h] \in SUBSET Event
    BY DEF TypeOK
  <2> QED
    BY <1>5, <2>1, <2>2 DEF Drop, DropStore, DropView, DropRoot
<1>6. ASSUME NEW h \in Handle, Fire(h) PROVE TypeOK'
  BY <1>6 DEF Fire, TypeOK, taskVars
<1>7. ASSUME Create PROVE TypeOK'
  BY <1>7 DEF Create, TypeOK, taskVars
<1>8. ASSUME UNCHANGED vars PROVE TypeOK'
  BY <1>8 DEF vars, TypeOK, taskVars
<1> QED
  BY <1>1, <1>2, <1>3, <1>4, <1>5, <1>6, <1>7, <1>8 DEF Next, Terminated

-----------------------------------------------------------------------------
(***************************************************************************)
(* What the launches have in common.                                       *)
(***************************************************************************)
LaunchesTask(t, h) ==
  /\ t = launched + 1 /\ launched' = t /\ kind[t] = "none" /\ h # t
  /\ hst[h] = "held" /\ hst[t] = "none" /\ kind[h] \in {"store", "view"}
  /\ \A x \in Handle : x # t => kind'[x] = kind[x] /\ anc'[x] = anc[x]
  /\ \A x \in Task : x # t => par'[x] = par[x] /\ st'[x] = st[x] /\ pre'[x] = pre[x]
  /\ par'[t] = h /\ anc'[t] = anc[h] \cup {h} /\ st'[t] = "waiting"
  /\ kind'[t] \in {"rw", "ro", "store", "view", "move"}
  /\ kind'[t] \in {"rw", "store"} => kind[h] = "store"
  /\ fired' = fired /\ armed' = armed /\ using'[h] = FALSE
  /\ \A x \in Handle : x # h => using'[x] = using[x]

LaunchesEvents(t, h) ==
  /\ childRw[h] \subseteq pre'[t]
  /\ Writer(t)' => war[h] \subseteq pre'[t]
  /\ childRw[h] \subseteq childRw'[h]
  /\ WriterAccess(t)' => Ev(t)' \in childRw'[h] /\ war'[h] = {}
  /\ kind'[t] \in {"ro", "view"} => Ev(t)' \in war'[h]
  /\ \/ war[h] \subseteq war'[h]
     \/ WriterAccess(t)'
     \/ ~MoveBusyViews => war[h] \subseteq fired
  /\ \A x \in Handle : x # h /\ x # t => childRw'[x] = childRw[x] /\ war'[x] = war[x]
  /\ hst'[t] = IF kind'[t] \in {"store", "view"} THEN "transit" ELSE "none"
  /\ hst'[h] = IF kind'[t] = "move" THEN "transit" ELSE "held"
  /\ \A x \in Handle : x # h /\ x # t => hst'[x] = hst[x]

\* What all six ways of passing a handle to defer have in common.
LEMMA LaunchTask ==
  ASSUME IInv, NEW t \in Task, NEW h \in Handle, Launch(t, h)
  PROVE  LaunchesTask(t, h)
<1>1. \E k \in {"rw", "ro", "store", "view", "move"}, p \in SUBSET Event :
        Spawn(t, h, k, p) /\ (k \in {"rw", "store"} => kind[h] = "store")
  <2>1. TypeOK BY DEF IInv
  <2> QED
    BY <2>1, PreconditionType
    DEF Launch, LaunchRW, LaunchRO, LaunchStore, LaunchView, MoveStore, MoveView, IsStore
<1>2. PICK k \in {"rw", "ro", "store", "view", "move"}, p \in SUBSET Event :
        Spawn(t, h, k, p) /\ (k \in {"rw", "store"} => kind[h] = "store")
  BY <1>1
<1>3. t = launched + 1 /\ launched' = t /\ hst[h] = "held" /\ launched \in Int
  BY <1>2 DEF Spawn, IInv, TypeOK
<1>4. kind[t] = "none" /\ hst[t] = "none" /\ h # t /\ kind[h] \in {"store", "view"}
  <2>1. kind[t] = "none"
    BY <1>3, TaskHandle DEF IInv, Shape
  <2>2. hst[t] = "none"
    BY <2>1 DEF IInv, Shape
  <2>3. h # t
    BY <1>3, <2>2
  <2>4. kind[h] \in {"store", "view"}
    BY <1>3, TaskHandle DEF IInv, Shape
  <2> QED BY <2>1, <2>2, <2>3, <2>4
<1> QED
  BY <1>2, <1>3, <1>4, TaskHandle DEF LaunchesTask, Spawn, IInv, TypeOK

\* What a launch does to the events of the handle it is made on.
LEMMA LaunchEvents ==
  ASSUME IInv, NEW t \in Task, NEW h \in Handle, Launch(t, h)
  PROVE  LaunchesEvents(t, h)
<1>1. h # t /\ hst[t] = "none" /\ hst[h] = "held" /\ par'[t] = h /\ kind'[h] = kind[h]
  <2>1. LaunchesTask(t, h) BY LaunchTask
  <2> QED BY <2>1 DEF LaunchesTask
<1>2. TypeOK BY DEF IInv
<1> USE <1>1, <1>2, TaskHandle
       DEF TypeOK, Spawn, Precondition, ViewPrecondition, IsStore, IsView, Writer, WriterAccess, Ev,
           LaunchesEvents
<1>3. CASE LaunchRW(t, h) BY <1>3 DEF LaunchRW
<1>4. CASE LaunchRO(t, h) BY <1>4 DEF LaunchRO
<1>5. CASE LaunchStore(t, h) BY <1>5 DEF LaunchStore
<1>6. CASE LaunchView(t, h) BY <1>6 DEF LaunchView
<1>7. CASE MoveStore(t, h) BY <1>7 DEF MoveStore
<1>8. CASE MoveView(t, h) BY <1>8 DEF MoveView
<1> QED BY <1>3, <1>4, <1>5, <1>6, <1>7, <1>8 DEF Launch

\* The tasks launched earlier are as they were.
LaunchKeeps(t) ==
  \A x \in Task : x # t =>
    /\ kind'[x] = kind[x] /\ par'[x] = par[x] /\ anc'[x] = anc[x]
    /\ st'[x] = st[x] /\ pre'[x] = pre[x]
    /\ Ev(x)' = Ev(x)
    /\ WriterAccess(x)' <=> WriterAccess(x)
    /\ HasAccess(x)' <=> HasAccess(x)
    /\ Tracked(x)' <=> Tracked(x)
    /\ kind[x] # "none" =>
         /\ par[x] # t /\ t \notin anc[x] /\ par[x] \in anc[x] /\ x < t
         /\ kind'[par[x]] = kind[par[x]]
         /\ Writer(x)' <=> Writer(x)

\* A launch changes nothing about the tasks launched before it.
LEMMA LaunchOld ==
  ASSUME IInv, NEW t \in Task, NEW h \in Handle, Launch(t, h)
  PROVE  LaunchKeeps(t)
<1>1. LaunchesTask(t, h) BY LaunchTask
<1>2. SUFFICES ASSUME NEW x \in Task, x # t
               PROVE  /\ kind'[x] = kind[x] /\ par'[x] = par[x] /\ anc'[x] = anc[x]
                      /\ st'[x] = st[x] /\ pre'[x] = pre[x]
                      /\ Ev(x)' = Ev(x)
                      /\ WriterAccess(x)' <=> WriterAccess(x)
                      /\ HasAccess(x)' <=> HasAccess(x)
                      /\ Tracked(x)' <=> Tracked(x)
                      /\ kind[x] # "none" =>
                           /\ par[x] # t /\ t \notin anc[x] /\ par[x] \in anc[x] /\ x < t
                           /\ kind'[par[x]] = kind[par[x]]
                           /\ Writer(x)' <=> Writer(x)
  BY DEF LaunchKeeps
<1>3. /\ kind'[x] = kind[x] /\ par'[x] = par[x] /\ anc'[x] = anc[x]
      /\ st'[x] = st[x] /\ pre'[x] = pre[x]
  BY <1>1, <1>2, TaskHandle DEF LaunchesTask
<1>4. ASSUME kind[x] # "none"
      PROVE  /\ par[x] # t /\ t \notin anc[x] /\ par[x] \in anc[x] /\ x < t
             /\ kind'[par[x]] = kind[par[x]]
  <2>1. kind[t] = "none" /\ t = launched + 1 /\ launched \in Int
    BY <1>1 DEF LaunchesTask, IInv, TypeOK
  <2>2. /\ x <= launched /\ par[x] \in anc[x]
        /\ \A a \in anc[x] : kind[a] \in {"store", "view"}
    BY <1>4 DEF IInv, Shape
  <2>3. par[x] \in Handle BY DEF IInv, TypeOK
  <2> QED BY <1>1, <2>1, <2>2, <2>3, TaskHandle DEF LaunchesTask
<1> QED
  BY <1>3, <1>4 DEF Ev, WriterAccess, HasAccess, Tracked, Writer, IsStore

\* A launch does not uncover an access: the writers that wait for it stay.
LEMMA LaunchCovered ==
  ASSUME IInv, NEW t \in Task, NEW h \in Handle, Launch(t, h),
         NEW x \in Task, x # t, kind[x] # "none", NEW S, Covered(x, S)
  PROVE  Covered(x, S)'
<1>1. LaunchKeeps(t) /\ LaunchesTask(t, h) BY LaunchOld, LaunchTask
<1>2. fired' = fired /\ Ev(x)' = Ev(x) /\ par'[x] = par[x] /\ kind[t] = "none"
  BY <1>1 DEF LaunchKeeps, LaunchesTask
<1>3. CASE Ev(x) \in fired \cup S
  BY <1>2, <1>3 DEF Covered
<1>4. CASE \E c \in Task : /\ par[c] = par[x] /\ WriterAccess(c)
                           /\ Ev(x) \in pre[c] /\ Ev(c) \in fired \cup S
  <2>1. PICK c \in Task : /\ par[c] = par[x] /\ WriterAccess(c)
                          /\ Ev(x) \in pre[c] /\ Ev(c) \in fired \cup S
    BY <1>4
  <2>2. c # t BY <1>2, <2>1 DEF WriterAccess
  <2>3. par'[c] = par[c] /\ WriterAccess(c)' /\ pre'[c] = pre[c] /\ Ev(c)' = Ev(c)
    BY <1>1, <2>1, <2>2 DEF LaunchKeeps
  <2> QED BY <1>2, <2>1, <2>3 DEF Covered
<1> QED BY <1>3, <1>4 DEF Covered

(***************************************************************************)
(* The other steps: the tree stays, and events only fire.                  *)
(***************************************************************************)
Quiet ==
  \/ \E t \in Task : Start(t) \/ Complete(t)
  \/ \E h \in Handle : Wait(h) \/ Drop(h) \/ Fire(h)
  \/ Create
  \/ UNCHANGED vars

\* A step launches a task or leaves the tree of tasks alone.
LEMMA NextSplit ==
  [Next]_vars => Quiet \/ \E t \in Task, h \in Handle : Launch(t, h)
BY DEF Next, Quiet, Terminated

\* A step that launches nothing keeps the tree and the preconditions.
LEMMA QuietTree ==
  ASSUME Quiet
  PROVE  /\ launched' = launched /\ kind' = kind /\ par' = par /\ anc' = anc /\ pre' = pre
         /\ fired \subseteq fired'
BY DEF Quiet, Start, Resolve, Complete, Wait, Drop, DropStore, DropView, DropRoot, Destroy,
       Fire, Create, vars, taskVars

\* A step that launches nothing keeps what each access is, and its event.
LEMMA QuietKeeps ==
  ASSUME Quiet
  PROVE  /\ \A x : /\ Ev(x)' = Ev(x)
                   /\ WriterAccess(x)' <=> WriterAccess(x)
                   /\ HasAccess(x)' <=> HasAccess(x)
                   /\ Tracked(x)' <=> Tracked(x)
                   /\ Writer(x)' <=> Writer(x)
         /\ \A x, S : Covered(x, S) => Covered(x, S)'
<1>1. /\ kind' = kind /\ par' = par /\ pre' = pre /\ fired \subseteq fired'
  BY QuietTree
<1>2. \A x : Ev(x)' = Ev(x) /\ (WriterAccess(x)' <=> WriterAccess(x))
  BY <1>1 DEF Ev, WriterAccess
<1> QED
  BY <1>1, <1>2 DEF HasAccess, Tracked, WriterAccess, Writer, IsStore, Covered

\* When the covering event has triggered, the access is over.
LEMMA CoveredFired ==
  ASSUME IInv, NEW x \in Task, NEW S, S \subseteq fired, Covered(x, S)
  PROVE  Ev(x) \in fired
<1>1. CASE Ev(x) \in fired \cup S BY <1>1
<1>2. ASSUME NEW c \in Task, WriterAccess(c), Ev(x) \in pre[c], Ev(c) \in fired \cup S
      PROVE  Ev(x) \in fired
  <2>1. Ev(c) \in fired BY <1>2
  <2>2. Started(c)
    <3>1. CASE kind[c] = "rw"
      BY <2>1, <3>1 DEF Ev, IInv, Fired, Started
    <3>2. CASE kind[c] = "store"
      <4>1. hst[c] = "dead"
        BY <2>1, <3>2, TaskHandle DEF Ev, IInv, Fired
      <4> QED BY <4>1, TaskHandle DEF IInv, Life
    <3> QED BY <1>2, <3>1, <3>2 DEF WriterAccess
  <2> QED BY <1>2, <2>2 DEF IInv, Fired
<1> QED BY <1>1, <1>2 DEF Covered

-----------------------------------------------------------------------------
(***************************************************************************)
(* Each part of the invariant is preserved by each step.                   *)
(***************************************************************************)

\* A quiet step neither creates nor forgets a handle or a task.
LEMMA QuietLife ==
  ASSUME IInv, Quiet
  PROVE  /\ \A x \in Task : /\ (st'[x] # "idle") <=> (st[x] # "idle")
                            /\ Started(x) => Started(x)'
                            /\ st'[x] = "waiting" => st[x] = "waiting"
         /\ \A h \in Handle : /\ (hst'[h] # "none") <=> (hst[h] # "none")
                              /\ hst[h] = "dead" => hst'[h] = "dead" /\ armed'[h] = armed[h]
<1> USE DEF IInv, TypeOK, Started
<1>1. ASSUME NEW t \in Task, Start(t)
      PROVE  /\ \A x \in Task : /\ (st'[x] # "idle") <=> (st[x] # "idle")
                                /\ Started(x) => Started(x)'
                                /\ st'[x] = "waiting" => st[x] = "waiting"
             /\ \A h \in Handle : /\ (hst'[h] # "none") <=> (hst[h] # "none")
                                  /\ hst[h] = "dead" => hst'[h] = "dead" /\ armed'[h] = armed[h]
  <2>1. /\ \A x \in Task : /\ (st'[x] # "idle") <=> (st[x] # "idle")
                           /\ Started(x) => Started(x)'
                           /\ st'[x] = "waiting" => st[x] = "waiting"
    BY <1>1 DEF Start, Resolve
  <2>2. /\ kind[t] \in {"store", "view"} => hst[t] = "transit"
        /\ kind[t] = "move" => hst[par[t]] = "transit"
    BY <1>1 DEF Start, Resolve, Life
  <2>3. armed' = armed /\ par[t] \in Handle /\ t \in Handle
    BY <1>1, TaskHandle DEF Start, Resolve
  <2>4. \A h \in Handle : hst'[h] # hst[h] => hst[h] = "transit" /\ hst'[h] = "held"
    BY <1>1, <2>2, <2>3 DEF Start, Resolve
  <2> QED BY <2>1, <2>3, <2>4
<1>2. ASSUME NEW t \in Task, Complete(t)
      PROVE  /\ \A x \in Task : /\ (st'[x] # "idle") <=> (st[x] # "idle")
                                /\ Started(x) => Started(x)'
                                /\ st'[x] = "waiting" => st[x] = "waiting"
             /\ \A h \in Handle : /\ (hst'[h] # "none") <=> (hst[h] # "none")
                                  /\ hst[h] = "dead" => hst'[h] = "dead" /\ armed'[h] = armed[h]
  BY <1>2 DEF Complete
<1>3. ASSUME NEW h \in Handle, Drop(h)
      PROVE  /\ st' = st
             /\ \A g \in Handle : /\ (hst'[g] # "none") <=> (hst[g] # "none")
                                  /\ hst[g] = "dead" => hst'[g] = "dead" /\ armed'[g] = armed[g]
  BY <1>3 DEF Drop, DropStore, DropView, DropRoot, Destroy, taskVars
<1>4. ASSUME \/ \E h \in Handle : Wait(h) \/ Fire(h)
             \/ Create \/ UNCHANGED vars
      PROVE  st' = st /\ hst' = hst /\ armed' = armed
  BY <1>4 DEF Wait, Fire, Create, vars, taskVars
<1> QED BY <1>1, <1>2, <1>3, <1>4 DEF Quiet

\* The tree keeps its shape, whichever way a handle is passed on or moved.
LEMMA ShapeStep == IInv /\ [Next]_vars => Shape'
<1> SUFFICES ASSUME IInv, [Next]_vars PROVE Shape'
  OBVIOUS
<1>1. CASE Quiet
  <2>1. /\ launched' = launched /\ kind' = kind /\ par' = par /\ anc' = anc
        /\ \A x : Writer(x)' <=> Writer(x)
    BY <1>1, QuietTree, QuietKeeps
  <2>2. /\ \A x \in Task : /\ (st'[x] # "idle") <=> (st[x] # "idle")
                           /\ Started(x) => Started(x)'
        /\ \A h \in Handle : (hst'[h] # "none") <=> (hst[h] # "none")
    BY <1>1, QuietLife
  <2>3. \A x \in Task : anc[x] \subseteq Handle
    BY TaskHandle DEF IInv, TypeOK
  <2>4. kind'[Root] = "store" /\ anc'[Root] = {} /\ hst'[Root] # "none"
    BY <2>1, <2>2, TaskHandle DEF IInv, Shape
  <2>5. ASSUME NEW x \in Task
        PROVE  /\ (x <= launched') <=> (kind'[x] # "none")
               /\ (x <= launched') <=> (st'[x] # "idle")
               /\ kind'[x] = "none" => anc'[x] = {}
               /\ kind'[x] # "none" => /\ anc'[x] = anc'[par'[x]] \cup {par'[x]}
                                       /\ Root \in anc'[x]
               /\ (hst'[x] # "none") <=> (kind'[x] \in {"store", "view"})
    BY <2>1, <2>2, TaskHandle DEF IInv, Shape
  <2>6. ASSUME NEW x \in Task, NEW g \in anc'[x]
        PROVE  /\ kind'[g] \in {"store", "view"}
               /\ Writer(x)' => kind'[g] = "store"
               /\ g # Root => Started(g)'
               /\ g = par'[x] \/ \E a \in anc'[x] \cap Task : par'[a] = g
    BY <2>1, <2>2, <2>3, <2>6, TaskHandle DEF IInv, Shape
  <2> QED BY <2>4, <2>5, <2>6 DEF Shape
<1>2. ASSUME NEW t \in Task, NEW h \in Handle, Launch(t, h) PROVE Shape'
  <2>1. LaunchesTask(t, h) /\ LaunchesEvents(t, h) /\ LaunchKeeps(t)
    BY <1>2, LaunchTask, LaunchEvents, LaunchOld
  <2>2. kind'[Root] = "store" /\ anc'[Root] = {} /\ hst'[Root] # "none"
    BY <2>1, TaskHandle DEF IInv, Shape, LaunchesTask, LaunchesEvents
  <2>3. ASSUME NEW x \in Task, x # t
        PROVE  /\ (x <= launched') <=> (kind'[x] # "none")
               /\ (x <= launched') <=> (st'[x] # "idle")
               /\ kind'[x] = "none" => anc'[x] = {}
               /\ kind'[x] # "none" => /\ anc'[x] = anc'[par'[x]] \cup {par'[x]}
                                       /\ Root \in anc'[x]
               /\ (hst'[x] # "none") <=> (kind'[x] \in {"store", "view"})
               /\ \A g \in anc'[x] :
                    /\ kind'[g] \in {"store", "view"}
                    /\ Writer(x)' => kind'[g] = "store"
                    /\ g # Root => Started(g)'
                    /\ g = par'[x] \/ \E a \in anc'[x] \cap Task : par'[a] = g
    <3>1. /\ kind'[x] = kind[x] /\ par'[x] = par[x] /\ anc'[x] = anc[x] /\ st'[x] = st[x]
      BY <2>1, <2>3 DEF LaunchKeeps
    <3>2. (x <= launched') <=> (x <= launched)
      BY <2>1, <2>3, TaskHandle DEF LaunchesTask, IInv, TypeOK
    <3>3. (hst'[x] # "none") <=> (hst[x] # "none")
      BY <2>1, <2>3, TaskHandle DEF LaunchesTask, LaunchesEvents
    <3>4. CASE kind[x] = "none"
      BY <3>1, <3>2, <3>3, <3>4 DEF IInv, Shape
    <3>5. CASE kind[x] # "none"
      <4>1. /\ par[x] # t /\ t \notin anc[x] /\ (Writer(x)' <=> Writer(x))
        BY <2>1, <2>3, <3>5 DEF LaunchKeeps
      <4>2. par[x] \in Handle /\ anc[x] \subseteq Handle
        BY TaskHandle DEF IInv, TypeOK
      <4>3. anc'[par[x]] = anc[par[x]]
        BY <2>1, <4>1, <4>2 DEF LaunchesTask
      <4>4. \A g \in anc[x] : kind'[g] = kind[g] /\ (g # Root => par'[g] = par[g] /\ (Started(g)' <=> Started(g)))
        BY <2>1, <4>1, <4>2, TaskHandle DEF LaunchesTask, Started
      <4>5. /\ x <= launched /\ st[x] # "idle" /\ anc[x] = anc[par[x]] \cup {par[x]} /\ Root \in anc[x]
            /\ (hst[x] # "none") <=> (kind[x] \in {"store", "view"})
        BY <3>5 DEF IInv, Shape
      <4>6. \A g \in anc[x] :
              /\ kind[g] \in {"store", "view"}
              /\ Writer(x) => kind[g] = "store"
              /\ g # Root => Started(g)
              /\ g = par[x] \/ \E a \in anc[x] \cap Task : par[a] = g
        BY DEF IInv, Shape
      <4>7. \A g \in anc[x] : g = par[x] \/ \E a \in anc[x] \cap Task : par'[a] = g
        BY <4>4, <4>6, TaskHandle
      <4> QED BY <3>1, <3>2, <3>3, <3>5, <4>1, <4>3, <4>4, <4>5, <4>6, <4>7
    <3> QED BY <3>4, <3>5
  <2>4. /\ t <= launched' /\ kind'[t] # "none" /\ st'[t] # "idle"
        /\ (hst'[t] # "none") <=> (kind'[t] \in {"store", "view"})
    BY <2>1, TaskHandle DEF LaunchesTask, LaunchesEvents
  <2>5. anc'[t] = anc'[h] \cup {h} /\ par'[t] = h /\ kind'[h] = kind[h]
    BY <2>1 DEF LaunchesTask
  <2>6. anc[h] \subseteq Handle /\ anc'[h] = anc[h]
    BY <2>1 DEF IInv, TypeOK, LaunchesTask
  <2>7. Root \in anc'[t]
    BY <2>1, <2>5, <2>6, TaskHandle DEF IInv, Shape, LaunchesTask
  <2>8. ASSUME NEW g \in anc'[t]
        PROVE  /\ kind'[g] \in {"store", "view"}
               /\ Writer(t)' => kind'[g] = "store"
               /\ g # Root => Started(g)'
               /\ g = par'[t] \/ \E a \in anc'[t] \cap Task : par'[a] = g
    <3>1. Writer(t)' => kind[h] = "store"
      BY <2>1, <2>5 DEF LaunchesTask, Writer, IsStore
    <3>2. CASE g = h
      <4>1. kind[h] \in {"store", "view"} /\ hst[h] = "held" /\ h # t
        BY <2>1 DEF LaunchesTask
      <4>2. h # Root => Started(h)
        BY <4>1 DEF IInv, Life
      <4>3. h # Root => Started(h)'
        BY <2>1, <4>1, <4>2, TaskHandle DEF LaunchKeeps, Started
      <4> QED BY <2>5, <3>1, <3>2, <4>1, <4>3
    <3>3. CASE g # h
      <4>1. g \in anc[h] /\ h \in Task
        BY <2>5, <2>6, <3>3, TaskHandle DEF IInv, Shape
      <4>2. /\ kind[g] \in {"store", "view"}
            /\ Writer(h) => kind[g] = "store"
            /\ g # Root => Started(g)
            /\ g = par[h] \/ \E a \in anc[h] \cap Task : par[a] = g
        BY <4>1 DEF IInv, Shape
      <4>3. g # t /\ h # t /\ g \in Handle /\ t \notin anc[h]
        BY <2>1, <2>6, <4>1, <4>2 DEF LaunchesTask, LaunchKeeps
      <4>4. kind'[g] = kind[g] /\ par'[h] = par[h]
        BY <2>1, <4>1, <4>3 DEF LaunchesTask
      <4>5. g # Root => Started(g)'
        BY <2>1, <4>2, <4>3, TaskHandle DEF LaunchKeeps, Started
      <4>6. Writer(t)' => Writer(h)
        BY <3>1 DEF Writer
      <4>7. \E a \in anc'[t] \cap Task : par'[a] = g
        <5>1. CASE g = par[h]
          BY <2>5, <4>1, <4>4, <5>1
        <5>2. ASSUME NEW a \in anc[h] \cap Task, par[a] = g
              PROVE \E b \in anc'[t] \cap Task : par'[b] = g
          BY <2>1, <2>5, <2>6, <4>3, <5>2 DEF LaunchesTask
        <5> QED BY <4>2, <5>1, <5>2
      <4> QED BY <4>2, <4>4, <4>5, <4>6, <4>7
    <3> QED BY <3>2, <3>3
  <2> QED BY <2>2, <2>3, <2>4, <2>5, <2>7, <2>8 DEF Shape
<1> QED BY <1>1, <1>2, NextSplit

\* A handle that travels in a waiting task stays there until the task starts.
LEMMA LifeStep == IInv /\ [Next]_vars => Life'
<1> SUFFICES ASSUME IInv, [Next]_vars PROVE Life'
  OBVIOUS
<1>1. CASE Quiet
  <2>1. kind' = kind /\ par' = par /\ anc' = anc
    BY <1>1, QuietTree
  <2>2. /\ \A x \in Task : /\ Started(x) => Started(x)'
                           /\ st'[x] = "waiting" => st[x] = "waiting"
    BY <1>1, QuietLife
  <2>3. ASSUME NEW x \in Task, st'[x] = "waiting", NEW g \in Handle, hst[g] = "transit",
               \/ kind[x] \in {"store", "view"} /\ g = x
               \/ kind[x] = "move" /\ g = par[x]
        PROVE  hst'[g] = "transit"
    <3>1. ASSUME NEW t \in Task, Start(t) PROVE hst'[g] = "transit"
      <4>1. t # x /\ st[t] = "waiting" /\ st[x] = "waiting"
        BY <2>3, <3>1 DEF Start, Resolve, IInv, TypeOK
      <4> DEFINE mine == IF kind[t] = "move" THEN par[t] ELSE t
      <4>2. CASE kind[t] \in {"store", "view", "move"} /\ mine = g
        <5>1. CASE kind[t] = "move" /\ kind[x] = "move"
          BY <2>3, <4>1, <4>2, <5>1, TaskHandle DEF IInv, Life
        <5>2. CASE kind[t] = "move" /\ kind[x] \in {"store", "view"}
          <6>1. x = par[t] /\ \A y \in Task : x \notin anc[y]
            BY <2>3, <4>1, <4>2, <5>2 DEF IInv, Life
          <6> QED BY <5>2, <6>1 DEF IInv, Shape
        <5>3. CASE kind[t] \in {"store", "view"} /\ kind[x] = "move"
          <6>1. t = par[x] /\ \A y \in Task : t \notin anc[y]
            BY <2>3, <4>1, <4>2, <5>3 DEF IInv, Life
          <6> QED BY <5>3, <6>1 DEF IInv, Shape
        <5>4. CASE kind[t] \in {"store", "view"} /\ kind[x] \in {"store", "view"}
          BY <2>3, <4>1, <4>2, <5>4
        <5> QED BY <2>3, <4>2, <5>1, <5>2, <5>3, <5>4
      <4>3. CASE ~(kind[t] \in {"store", "view", "move"} /\ mine = g)
        BY <2>3, <3>1, <4>3 DEF Start, Resolve, IInv, TypeOK
      <4> QED BY <4>2, <4>3
    <3>2. ASSUME NEW h \in Handle, Drop(h) PROVE hst'[g] = "transit"
      BY <2>3, <3>2 DEF Drop, DropStore, DropView, DropRoot, Destroy, IInv, TypeOK
    <3>3. ASSUME \/ \E t \in Task : Complete(t)
                 \/ \E h \in Handle : Wait(h) \/ Fire(h)
                 \/ Create \/ UNCHANGED vars
          PROVE  hst' = hst
      BY <3>3 DEF Complete, Wait, Fire, Create, vars
    <3> QED BY <1>1, <2>3, <3>1, <3>2, <3>3 DEF Quiet
  <2>4. ASSUME NEW x \in Task, st'[x] = "waiting"
        PROVE  /\ kind'[x] \in {"store", "view"} =>
                    hst'[x] = "transit" /\ \A y \in Task : x \notin anc'[y]
               /\ kind'[x] = "move" =>
                    hst'[par'[x]] = "transit" /\ \A y \in Task : kind'[y] # "none" /\ par'[y] = par'[x] => y <= x
    <3>1. st[x] = "waiting" BY <2>2, <2>4
    <3>2. /\ kind[x] \in {"store", "view"} =>
                    hst[x] = "transit" /\ \A y \in Task : x \notin anc[y]
          /\ kind[x] = "move" =>
                    hst[par[x]] = "transit" /\ \A y \in Task : kind[y] # "none" /\ par[y] = par[x] => y <= x
      BY <3>1 DEF IInv, Life
    <3>3. x \in Handle /\ par[x] \in Handle BY TaskHandle DEF IInv, TypeOK
    <3> QED BY <2>1, <2>3, <2>4, <3>2, <3>3
  <2>5. ASSUME NEW h \in Handle
        PROVE  /\ using'[h] => hst'[h] = "held"
               /\ h # Root /\ hst'[h] \in {"held", "dead"} => Started(h)'
    <3>1. /\ using[h] => hst[h] = "held"
          /\ h # Root /\ hst[h] \in {"held", "dead"} => Started(h)
      BY DEF IInv, Life
    <3>2. ASSUME NEW t \in Task, Start(t)
          PROVE  /\ using'[h] => hst'[h] = "held"
                 /\ h # Root /\ hst'[h] \in {"held", "dead"} => Started(h)'
      <4>1. CASE kind[t] = "move"
        <5>1. par[t] \in anc[t] /\ (par[t] # Root => Started(par[t]))
          BY <4>1 DEF IInv, Shape
        <5>2. h # Root /\ Started(h) => Started(h)'
          BY <2>2, TaskHandle
        <5> QED BY <3>1, <3>2, <4>1, <5>1, <5>2 DEF Start, Resolve, IInv, TypeOK
      <4>2. CASE kind[t] # "move"
        <5>1. Started(t)' BY <3>2 DEF Start, Resolve, Started, IInv, TypeOK
        <5>2. h # Root /\ Started(h) => Started(h)'
          BY <2>2, TaskHandle
        <5> QED BY <3>1, <3>2, <4>2, <5>1, <5>2 DEF Start, Resolve, IInv, TypeOK
      <4> QED BY <4>1, <4>2
    <3>3. ASSUME NEW g \in Handle, Drop(g)
          PROVE  /\ using'[h] => hst'[h] = "held"
                 /\ h # Root /\ hst'[h] \in {"held", "dead"} => Started(h)'
      <4>1. st' = st /\ hst[g] = "held"
        BY <3>3 DEF Drop, DropStore, DropView, DropRoot, Destroy, taskVars
      <4> QED
        BY <3>1, <3>3, <4>1
        DEF Drop, DropStore, DropView, DropRoot, Destroy, Started, IInv, TypeOK
    <3>4. ASSUME NEW g \in Handle, Wait(g)
          PROVE  /\ using'[h] => hst'[h] = "held"
                 /\ h # Root /\ hst'[h] \in {"held", "dead"} => Started(h)'
      BY <3>1, <3>4 DEF Wait, taskVars, Started, IInv, TypeOK
    <3>5. ASSUME \/ \E t \in Task : Complete(t)
                 \/ \E g \in Handle : Fire(g)
                 \/ Create \/ UNCHANGED vars
          PROVE  hst' = hst /\ using' = using
      BY <3>5 DEF Complete, Fire, Create, vars
    <3>6. h # Root /\ Started(h) => Started(h)' BY <2>2, TaskHandle
    <3> QED BY <1>1, <3>1, <3>2, <3>3, <3>4, <3>5, <3>6 DEF Quiet
  <2> QED BY <2>4, <2>5 DEF Life
<1>2. ASSUME NEW t \in Task, NEW h \in Handle, Launch(t, h) PROVE Life'
  <2>1. LaunchesTask(t, h) /\ LaunchesEvents(t, h) /\ LaunchKeeps(t)
    BY <1>2, LaunchTask, LaunchEvents, LaunchOld
  <2>2. ASSUME NEW x \in Task, st'[x] = "waiting", kind'[x] \in {"store", "view"}
        PROVE  hst'[x] = "transit" /\ \A y \in Task : x \notin anc'[y]
    <3>1. CASE x = t
      <4>1. \A y \in Task : t \notin anc[y]
        BY <2>1 DEF IInv, Shape, LaunchesTask
      <4>2. t \notin anc[h] \cup {h}
        BY <2>1, <4>1, TaskHandle DEF IInv, Shape, LaunchesTask
      <4>3. \A y \in Task : t \notin anc'[y]
        BY <2>1, <4>1, <4>2 DEF LaunchesTask, LaunchKeeps
      <4> QED BY <2>1, <2>2, <3>1, <4>3 DEF LaunchesEvents
    <3>2. CASE x # t
      <4>1. st[x] = "waiting" /\ kind[x] = kind'[x]
        BY <2>1, <2>2, <3>2 DEF LaunchKeeps
      <4>2. hst[x] = "transit" /\ \A y \in Task : x \notin anc[y]
        BY <2>2, <4>1 DEF IInv, Life
      <4>3. x # h BY <2>1, <4>2 DEF LaunchesTask
      <4>4. x \notin anc[h] \cup {h}
        BY <4>2, <4>3, TaskHandle DEF IInv, Shape
      <4>5. \A y \in Task : x \notin anc'[y]
        BY <2>1, <4>2, <4>4 DEF LaunchesTask, LaunchKeeps
      <4> QED BY <2>1, <3>2, <4>2, <4>3, <4>5, TaskHandle DEF LaunchesEvents
    <3> QED BY <3>1, <3>2
  <2>3. ASSUME NEW x \in Task, st'[x] = "waiting", kind'[x] = "move"
        PROVE  hst'[par'[x]] = "transit" /\ \A y \in Task : kind'[y] # "none" /\ par'[y] = par'[x] => y <= x
    <3>1. CASE x = t
      <4>1. \A y \in Task : kind'[y] # "none" => y <= t
        BY <2>1, TaskHandle DEF LaunchesTask, LaunchKeeps
      <4> QED BY <2>1, <2>3, <3>1, <4>1 DEF LaunchesTask, LaunchesEvents
    <3>2. CASE x # t
      <4>1. st[x] = "waiting" /\ kind[x] = "move" /\ par'[x] = par[x]
        BY <2>1, <2>3, <3>2 DEF LaunchKeeps
      <4>2. hst[par[x]] = "transit" /\ \A y \in Task : kind[y] # "none" /\ par[y] = par[x] => y <= x
        BY <4>1 DEF IInv, Life
      <4>3. par[x] # h /\ par[x] # t /\ par[x] \in Handle
        BY <2>1, <3>2, <4>1, <4>2 DEF LaunchesTask, LaunchKeeps, IInv, TypeOK
      <4>4. hst'[par[x]] = "transit"
        BY <2>1, <4>2, <4>3 DEF LaunchesEvents
      <4>5. \A y \in Task : kind'[y] # "none" /\ par'[y] = par[x] => y <= x
        BY <2>1, <4>2, <4>3 DEF LaunchesTask, LaunchKeeps
      <4> QED BY <4>1, <4>4, <4>5
    <3> QED BY <3>1, <3>2
  <2>4. ASSUME NEW g \in Handle
        PROVE  /\ using'[g] => hst'[g] = "held"
               /\ g # Root /\ hst'[g] \in {"held", "dead"} => Started(g)'
    <3>1. /\ using[g] => hst[g] = "held"
          /\ g # Root /\ hst[g] \in {"held", "dead"} => Started(g)
      BY DEF IInv, Life
    <3>2. CASE g = t
      BY <2>1, <3>1, <3>2 DEF LaunchesTask, LaunchesEvents
    <3>3. CASE g # t
      <4>1. g # Root => (Started(g)' <=> Started(g))
        BY <2>1, <3>3, TaskHandle DEF LaunchKeeps, Started
      <4> QED BY <2>1, <3>1, <3>3, <4>1 DEF LaunchesTask, LaunchesEvents
    <3> QED BY <3>2, <3>3
  <2> QED BY <2>2, <2>3, <2>4 DEF Life
<1> QED BY <1>1, <1>2, NextSplit

\* An event fires only after its cause: Complete, or a destructor and its event.
LEMMA FiredStep == IInv /\ [Next]_vars => Fired'
<1> SUFFICES ASSUME IInv, [Next]_vars PROVE Fired'
  OBVIOUS
<1>0. TypeOK /\ Fired BY DEF IInv
<1>1. ASSUME NEW t \in Task, Start(t) PROVE Fired'
  BY <1>0, <1>1, QuietLife DEF Start, Resolve, Fired, TypeOK, Started, Quiet
<1>2. ASSUME NEW t \in Task, Complete(t) PROVE Fired'
  BY <1>0, <1>2, EventsDistinct DEF Complete, Fired, TypeOK, Started
<1>3. ASSUME NEW h \in Handle, Drop(h) PROVE Fired'
  BY <1>0, <1>3 DEF Drop, DropStore, DropView, DropRoot, Destroy, Fired, TypeOK, Started, taskVars
<1>4. ASSUME NEW h \in Handle, Fire(h) PROVE Fired'
  BY <1>0, <1>4, EventsDistinct DEF Fire, Fired, TypeOK, Started, taskVars
<1>5. ASSUME Create PROVE Fired'
  BY <1>0, <1>5, EventsDistinct DEF Create, Fired, Started, taskVars
<1>6. ASSUME (\E h \in Handle : Wait(h)) \/ UNCHANGED vars PROVE Fired'
  BY <1>0, <1>6 DEF Wait, Fired, Started, taskVars, vars
<1>7. ASSUME NEW t \in Task, NEW h \in Handle, Launch(t, h) PROVE Fired'
  <2>1. LaunchesTask(t, h) /\ LaunchesEvents(t, h) /\ LaunchKeeps(t)
    BY <1>7, LaunchTask, LaunchEvents, LaunchOld
  <2>2. ASSUME NEW x \in Task
        PROVE  /\ (Done(x) \in fired') <=> (st'[x] = "done")
               /\ Started(x)' => pre'[x] \subseteq fired'
    <3>1. CASE x = t
      <4>1. st[t] = "idle" BY <2>1 DEF LaunchesTask, IInv, Shape
      <4> QED BY <1>0, <2>1, <3>1, <4>1 DEF LaunchesTask, Fired, Started
    <3>2. CASE x # t
      BY <1>0, <2>1, <3>2 DEF LaunchesTask, LaunchKeeps, Fired, Started
    <3> QED BY <3>1, <3>2
  <2>3. ASSUME NEW g \in Handle, Rel(g) \in fired'
        PROVE  hst'[g] = "dead" /\ armed'[g] \subseteq fired'
    <3>1. hst[g] = "dead" /\ armed[g] \subseteq fired
      BY <1>0, <2>1, <2>3 DEF LaunchesTask, Fired
    <3>2. g # h /\ g # t BY <2>1, <3>1 DEF LaunchesTask
    <3> QED BY <2>1, <3>1, <3>2 DEF LaunchesTask, LaunchesEvents
  <2> QED BY <2>2, <2>3 DEF Fired
<1> QED
  BY <1>1, <1>2, <1>3, <1>4, <1>5, <1>6, <1>7, NextSplit DEF Quiet

\* A handle never loses the event of an access it handed out, except to a writer that
\* waits for it or by Wait, when it has fired (store.h, child and view).
LEMMA RegisteredStep == IInv /\ [Next]_vars => Registered'
<1> SUFFICES ASSUME IInv, [Next]_vars, NEW x \in Task, Tracked(x)'
             PROVE  /\ WriterAccess(x)' => Ev(x)' \in fired' \cup childRw'[par'[x]]
                    /\ \/ Ev(x)' \in fired' \cup childRw'[par'[x]] \cup war'[par'[x]]
                       \/ \E c \in Task : par'[c] = par'[x] /\ WriterAccess(c)' /\ Ev(x)' \in pre'[c]
                    /\ kind'[par'[x]] = "view" => Ev(x)' \in fired' \cup war'[par'[x]]
  BY DEF Registered
<1>1. CASE Quiet
  <2>1. /\ kind' = kind /\ par' = par /\ pre' = pre /\ fired \subseteq fired'
        /\ Ev(x)' = Ev(x) /\ Tracked(x) /\ (WriterAccess(x)' <=> WriterAccess(x))
        /\ \A c : WriterAccess(c)' <=> WriterAccess(c)
    BY <1>1, QuietTree, QuietKeeps
  <2>2. /\ WriterAccess(x) => Ev(x) \in fired \cup childRw[par[x]]
        /\ \/ Ev(x) \in fired \cup childRw[par[x]] \cup war[par[x]]
           \/ \E c \in Task : par[c] = par[x] /\ WriterAccess(c) /\ Ev(x) \in pre[c]
        /\ kind[par[x]] = "view" => Ev(x) \in fired \cup war[par[x]]
    BY <2>1 DEF IInv, Registered
  <2>3. \/ childRw'[par[x]] = childRw[par[x]] /\ war'[par[x]] = war[par[x]]
        \/ childRw[par[x]] \cup war[par[x]] \subseteq fired
    <3>1. ASSUME NEW h \in Handle, Wait(h)
          PROVE  \/ childRw'[par[x]] = childRw[par[x]] /\ war'[par[x]] = war[par[x]]
                 \/ childRw[par[x]] \cup war[par[x]] \subseteq fired
      BY <3>1 DEF Wait, Precondition, IInv, TypeOK
    <3>2. ASSUME \/ \E t \in Task : Start(t) \/ Complete(t)
                 \/ \E h \in Handle : Drop(h) \/ Fire(h)
                 \/ Create \/ UNCHANGED vars
          PROVE  childRw' = childRw /\ war' = war
      BY <3>2 DEF Start, Resolve, Complete, Drop, DropStore, DropView, DropRoot, Destroy, Fire, Create, vars
    <3> QED BY <1>1, <3>1, <3>2 DEF Quiet
  <2> QED BY <2>1, <2>2, <2>3
<1>2. ASSUME NEW t \in Task, NEW h \in Handle, Launch(t, h)
      PROVE  /\ WriterAccess(x)' => Ev(x)' \in fired' \cup childRw'[par'[x]]
             /\ \/ Ev(x)' \in fired' \cup childRw'[par'[x]] \cup war'[par'[x]]
                \/ \E c \in Task : par'[c] = par'[x] /\ WriterAccess(c)' /\ Ev(x)' \in pre'[c]
             /\ kind'[par'[x]] = "view" => Ev(x)' \in fired' \cup war'[par'[x]]
  <2>1. LaunchesTask(t, h) /\ LaunchesEvents(t, h) /\ LaunchKeeps(t)
    BY <1>2, LaunchTask, LaunchEvents, LaunchOld
  <2>2. CASE x = t
    <3>1. par'[t] = h /\ kind'[h] = kind[h] /\ (kind'[t] \in {"rw", "store"} => kind[h] = "store")
      BY <2>1 DEF LaunchesTask
    <3>2. WriterAccess(t)' \/ kind'[t] \in {"ro", "view"}
      BY <2>2 DEF Tracked, WriterAccess, HasAccess
    <3>3. WriterAccess(t)' => Ev(t)' \in childRw'[h] /\ kind'[h] # "view"
      BY <2>1, <3>1 DEF LaunchesEvents, WriterAccess
    <3>4. kind'[t] \in {"ro", "view"} => Ev(t)' \in war'[h] /\ ~WriterAccess(t)'
      BY <2>1 DEF LaunchesEvents, WriterAccess
    <3> QED BY <2>2, <3>1, <3>2, <3>3, <3>4
  <2>3. CASE x # t
    <3>1. /\ Ev(x)' = Ev(x) /\ Tracked(x) /\ (WriterAccess(x)' <=> WriterAccess(x)) /\ par'[x] = par[x]
          /\ fired' = fired
      BY <2>1, <2>3 DEF LaunchesTask, LaunchKeeps
    <3>2. kind[x] # "none" BY <3>1 DEF Tracked, WriterAccess, HasAccess
    <3>3. par[x] # t /\ kind'[par[x]] = kind[par[x]] /\ par[x] \in anc[x] /\ par[x] \in Handle
      BY <2>1, <2>3, <3>2 DEF LaunchKeeps, IInv, TypeOK
    <3>4. /\ WriterAccess(x) => Ev(x) \in fired \cup childRw[par[x]]
          /\ \/ Ev(x) \in fired \cup childRw[par[x]] \cup war[par[x]]
             \/ \E c \in Task : par[c] = par[x] /\ WriterAccess(c) /\ Ev(x) \in pre[c]
          /\ kind[par[x]] = "view" => Ev(x) \in fired \cup war[par[x]]
      BY <3>1 DEF IInv, Registered
    <3>5. childRw[par[x]] \subseteq childRw'[par[x]]
      BY <2>1, <3>3 DEF LaunchesEvents
    <3>6. ASSUME NEW c \in Task, par[c] = par[x], WriterAccess(c), Ev(x) \in pre[c]
          PROVE  par'[c] = par'[x] /\ WriterAccess(c)' /\ Ev(x)' \in pre'[c]
      <4>1. c # t BY <2>1, <3>6 DEF LaunchesTask, WriterAccess
      <4> QED BY <2>1, <3>1, <3>6, <4>1 DEF LaunchKeeps
    <3>7. CASE par[x] # h
      <4>1. war'[par[x]] = war[par[x]] BY <2>1, <3>3, <3>7 DEF LaunchesEvents
      <4> QED BY <3>1, <3>3, <3>4, <3>5, <3>6, <4>1
    <3>8. CASE par[x] = h /\ WriterAccess(x)
      <4>1. kind[h] = "store"
        BY <3>3, <3>8 DEF IInv, Shape, Writer, WriterAccess
      <4> QED BY <3>1, <3>3, <3>4, <3>5, <3>8, <4>1
    <3>9. CASE par[x] = h /\ ~WriterAccess(x)
      <4>1. ~MoveBusyViews BY <3>1, <3>9 DEF Tracked, Disciplined
      <4>2. CASE war[h] \subseteq war'[h] \/ war[h] \subseteq fired
        BY <3>1, <3>3, <3>4, <3>5, <3>6, <3>9, <4>2
      <4>3. CASE WriterAccess(t)'
        <5>1. kind[h] = "store" /\ par'[t] = h
          BY <2>1, <4>3 DEF LaunchesTask, WriterAccess
        <5>2. war[h] \subseteq pre'[t]
          BY <2>1, <4>3 DEF LaunchesEvents, Writer, WriterAccess
        <5> QED BY <3>1, <3>3, <3>4, <3>5, <3>6, <3>9, <4>3, <5>1, <5>2
      <4> QED BY <2>1, <4>1, <4>2, <4>3 DEF LaunchesEvents
    <3> QED BY <3>7, <3>8, <3>9
  <2> QED BY <2>2, <2>3
<1> QED BY <1>1, <1>2, NextSplit

\* The precondition a task gets at its launch covers the conflicting siblings before it.
LEMMA SiblingOrderStep == IInv /\ [Next]_vars => SiblingOrder'
<1> SUFFICES ASSUME IInv, [Next]_vars, NEW x \in Task, NEW b \in Task,
                    Tracked(x)', kind'[b] # "none", par'[x] = par'[b], x < b,
                    Writer(x)' \/ Writer(b)'
             PROVE  Covered(x, pre[b])'
  BY DEF SiblingOrder
<1>1. CASE Quiet
  <2>1. Covered(x, pre[b])
    BY <1>1, QuietTree, QuietKeeps DEF IInv, SiblingOrder
  <2>2. PICK S : S = pre[b] OBVIOUS
  <2>3. Covered(x, S)' BY <1>1, <2>1, <2>2, QuietKeeps
  <2> QED BY <1>1, <2>2, <2>3, QuietTree DEF Covered
<1>2. ASSUME NEW t \in Task, NEW h \in Handle, Launch(t, h)
      PROVE  Covered(x, pre[b])'
  <2>1. LaunchesTask(t, h) /\ LaunchesEvents(t, h) /\ LaunchKeeps(t)
    BY <1>2, LaunchTask, LaunchEvents, LaunchOld
  <2>2. x # t
    BY <2>1, TaskHandle DEF LaunchesTask, LaunchKeeps
  <2>3. Tracked(x) /\ kind[x] # "none" /\ par'[x] = par[x] /\ Ev(x)' = Ev(x) /\ fired' = fired
    BY <2>1, <2>2 DEF LaunchesTask, LaunchKeeps, Tracked, WriterAccess, HasAccess
  <2>4. Writer(x)' <=> Writer(x) BY <2>1, <2>2, <2>3 DEF LaunchKeeps
  <2>5. CASE b = t
    <3>1. par[x] = h /\ childRw[h] \subseteq pre'[t]
      BY <2>1, <2>3, <2>5 DEF LaunchesTask, LaunchesEvents
    <3>2. CASE Writer(x)
      <4>1. WriterAccess(x)
        BY <2>3, <3>2 DEF Tracked, Writer, WriterAccess, HasAccess
      <4>2. Ev(x) \in fired \cup childRw[h]
        BY <2>3, <3>1, <4>1 DEF IInv, Registered
      <4> QED BY <2>3, <2>5, <3>1, <4>2 DEF Covered
    <3>3. CASE Writer(t)'
      <4>1. war[h] \subseteq pre'[t] BY <2>1, <3>3 DEF LaunchesEvents
      <4>2. CASE Ev(x) \in fired \cup childRw[h] \cup war[h]
        BY <2>3, <2>5, <3>1, <4>1, <4>2 DEF Covered
      <4>3. ASSUME NEW c \in Task, par[c] = h, WriterAccess(c), Ev(x) \in pre[c]
            PROVE  Covered(x, pre[b])'
        <5>1. Ev(c) \in fired \cup childRw[h]
          BY <4>3 DEF IInv, Registered, Tracked
        <5>2. c # t BY <2>1, <4>3 DEF LaunchesTask, WriterAccess
        <5>3. par'[c] = h /\ WriterAccess(c)' /\ Ev(c)' = Ev(c) /\ pre'[c] = pre[c]
          BY <2>1, <4>3, <5>2 DEF LaunchKeeps
        <5> QED BY <2>3, <2>5, <3>1, <4>3, <5>1, <5>3 DEF Covered
      <4> QED BY <2>3, <3>1, <4>2, <4>3 DEF IInv, Registered
    <3> QED BY <2>4, <2>5, <3>2, <3>3
  <2>6. CASE b # t
    <3>1. kind[b] # "none" /\ par'[b] = par[b] /\ pre'[b] = pre[b] /\ (Writer(b)' <=> Writer(b))
      BY <2>1, <2>6 DEF LaunchKeeps
    <3>2. Covered(x, pre[b])
      BY <2>3, <2>4, <3>1 DEF IInv, SiblingOrder
    <3>3. PICK S : S = pre[b] OBVIOUS
    <3>4. Covered(x, S)' BY <1>2, <2>2, <2>3, <3>2, <3>3, LaunchCovered
    <3> QED BY <3>1, <3>3, <3>4 DEF Covered
  <2> QED BY <2>5, <2>6
<1> QED BY <1>1, <1>2, NextSplit

\* The event a destructor triggers with covers all that was launched on the handle.
LEMMA DeadCoversStep == IInv /\ [Next]_vars => DeadCovers'
<1> SUFFICES ASSUME IInv, [Next]_vars, NEW x \in Task, Tracked(x)', hst'[par'[x]] = "dead"
             PROVE  Covered(x, armed[par[x]])'
  BY DEF DeadCovers
<1>0. par[x] \in Handle BY DEF IInv, TypeOK
<1>1. CASE Quiet
  <2>1. /\ Tracked(x) /\ par' = par /\ kind' = kind /\ fired \subseteq fired'
    BY <1>1, QuietTree, QuietKeeps
  <2>2. Covered(x, armed'[par[x]])
    <3>1. CASE hst[par[x]] = "dead"
      BY <1>0, <1>1, <2>1, <3>1, QuietLife DEF IInv, DeadCovers
    <3>2. CASE hst[par[x]] # "dead"
      <4>1. Drop(par[x])
        <5>1. ASSUME NEW h \in Handle, Drop(h), h # par[x] PROVE FALSE
          BY <1>0, <2>1, <3>2, <5>1
          DEF Drop, DropStore, DropView, DropRoot, Destroy, IInv, TypeOK
        <5>2. ASSUME NEW t \in Task, Start(t) PROVE FALSE
          BY <1>0, <2>1, <3>2, <5>2 DEF Start, Resolve, IInv, TypeOK
        <5>3. ASSUME \/ \E t \in Task : Complete(t)
                     \/ \E h \in Handle : Wait(h) \/ Fire(h)
                     \/ Create \/ UNCHANGED vars
              PROVE  FALSE
          BY <2>1, <3>2, <5>3 DEF Complete, Wait, Fire, Create, vars
        <5> QED BY <1>1, <5>1, <5>2, <5>3 DEF Quiet
      <4>2. /\ WriterAccess(x) => Ev(x) \in fired \cup childRw[par[x]]
            /\ \/ Ev(x) \in fired \cup childRw[par[x]] \cup war[par[x]]
               \/ \E c \in Task : par[c] = par[x] /\ WriterAccess(c) /\ Ev(x) \in pre[c]
            /\ kind[par[x]] = "view" => Ev(x) \in fired \cup war[par[x]]
            /\ \A c \in Task : WriterAccess(c) => Ev(c) \in fired \cup childRw[par[c]]
        BY <2>1 DEF IInv, Registered, Tracked
      <4>3. CASE DropStore(par[x])
        <5>1. armed'[par[x]] = childRw[par[x]] /\ (DropReaders \/ war[par[x]] \subseteq fired)
          BY <1>0, <4>3 DEF DropStore, Destroy, IInv, TypeOK
        <5>2. CASE WriterAccess(x)
          BY <4>2, <5>1, <5>2 DEF Covered
        <5>3. CASE ~WriterAccess(x)
          <6>1. war[par[x]] \subseteq fired
            BY <2>1, <5>1, <5>3 DEF Tracked, Disciplined
          <6> QED BY <4>2, <5>1, <6>1 DEF Covered
        <5> QED BY <5>2, <5>3
      <4>4. CASE DropView(par[x])
        BY <1>0, <4>2, <4>4 DEF DropView, IsView, Destroy, Covered, IInv, TypeOK
      <4>5. CASE par[x] = Root /\ DropRoot
        <5>1. kind[Root] = "store" BY DEF IInv, Shape
        <5>2. armed'[par[x]] = childRw[par[x]] \cup war[par[x]]
          BY <1>0, <4>5, <5>1 DEF DropRoot, Destroy, Precondition, IsStore, IInv, TypeOK
        <5> QED BY <4>2, <5>2 DEF Covered
      <4> QED BY <4>1, <4>3, <4>4, <4>5 DEF Drop
    <3> QED BY <3>1, <3>2
  <2>3. PICK S : S = armed'[par[x]] OBVIOUS
  <2>4. Covered(x, S)' BY <1>1, <2>2, <2>3, QuietKeeps
  <2> QED BY <2>1, <2>3, <2>4 DEF Covered
<1>2. ASSUME NEW t \in Task, NEW h \in Handle, Launch(t, h)
      PROVE  Covered(x, armed[par[x]])'
  <2>1. LaunchesTask(t, h) /\ LaunchesEvents(t, h) /\ LaunchKeeps(t)
    BY <1>2, LaunchTask, LaunchEvents, LaunchOld
  <2>2. x # t BY <2>1 DEF LaunchesTask, LaunchesEvents
  <2>3. Tracked(x) /\ kind[x] # "none" /\ par'[x] = par[x] /\ armed' = armed
    BY <2>1, <2>2 DEF LaunchesTask, LaunchKeeps, Tracked, WriterAccess, HasAccess
  <2>4. hst[par[x]] = "dead"
    BY <1>0, <2>1, <2>2, <2>3 DEF LaunchesTask, LaunchesEvents, LaunchKeeps
  <2>5. Covered(x, armed[par[x]]) BY <2>3, <2>4 DEF IInv, DeadCovers
  <2>6. PICK S : S = armed[par[x]] OBVIOUS
  <2>7. Covered(x, S)' BY <1>2, <2>2, <2>3, <2>5, <2>6, LaunchCovered
  <2> QED BY <2>3, <2>6, <2>7 DEF Covered
<1> QED BY <1>1, <1>2, NextSplit

\* When the events of all the children of a handle have fired, so have those of
\* everything below it.
LEMMA ChildrenFired ==
  ASSUME IInv, NEW h \in Handle,
         \A x \in Task : Tracked(x) /\ par[x] = h => Ev(x) \in fired,
         NEW x \in Task, Tracked(x), h \in anc[x]
  PROVE  Ev(x) \in fired
<1>1. CASE par[x] = h BY <1>1
<1>2. ASSUME NEW a \in anc[x] \cap Task, par[a] = h PROVE Ev(x) \in fired
  <2>1. kind[a] \in {"store", "view"} /\ (Writer(x) => kind[a] = "store")
    BY <1>2 DEF IInv, Shape
  <2>2. Tracked(a)
    BY <2>1 DEF Tracked, WriterAccess, HasAccess, Writer
  <2>3. Rel(a) \in fired BY <1>2, <2>1, <2>2 DEF Ev
  <2> QED BY <1>2, <2>3 DEF IInv, SubtreeFired
<1> QED BY <1>1, <1>2 DEF IInv, Shape

\* No released or exclusively used handle lies above a handle that is held.
LEMMA HeldAbove ==
  ASSUME IInv, NEW h \in Handle, hst[h] = "held", kind[h] = "view" => Disciplined,
         NEW g \in anc[h]
  PROVE  Rel(g) \notin fired /\ ~(using[g] /\ kind[g] = "store")
<1>1. h \in Task /\ kind[h] \in {"store", "view"}
  BY TaskHandle DEF IInv, Shape
<1>2. Tracked(h) BY <1>1 DEF Tracked, WriterAccess, HasAccess
<1>3. Rel(h) \notin fired BY DEF IInv, Fired
<1> QED BY <1>1, <1>2, <1>3 DEF IInv, SubtreeFired, UseCovers, Ev

\* A UserEvent that fires speaks for the whole subtree of its handle.
LEMMA SubtreeFiredStep == IInv /\ [Next]_vars => SubtreeFired'
<1> SUFFICES ASSUME IInv, [Next]_vars, NEW x \in Task, NEW g \in anc'[x],
                    Tracked(x)', Rel(g) \in fired'
             PROVE  Ev(x)' \in fired'
  BY DEF SubtreeFired
<1>1. CASE Quiet
  <2>1. /\ Tracked(x) /\ Ev(x)' = Ev(x) /\ anc' = anc /\ fired \subseteq fired'
    BY <1>1, QuietTree, QuietKeeps
  <2>2. g \in Handle BY <2>1, TaskHandle DEF IInv, TypeOK
  <2>3. CASE Rel(g) \in fired
    BY <2>1, <2>3 DEF IInv, SubtreeFired
  <2>4. CASE Rel(g) \notin fired
    <3>1. Fire(g)
      BY <1>1, <2>4, EventsDistinct
      DEF Quiet, Start, Resolve, Complete, Wait, Drop, DropStore, DropView, DropRoot, Destroy, Fire,
          Create, vars
    <3>2. hst[g] = "dead" /\ armed[g] \subseteq fired BY <3>1 DEF Fire
    <3>3. \A y \in Task : Tracked(y) /\ par[y] = g => Ev(y) \in fired
      BY <3>2, CoveredFired DEF IInv, DeadCovers
    <3> QED BY <2>1, <2>2, <3>3, ChildrenFired
  <2> QED BY <2>3, <2>4
<1>2. ASSUME NEW t \in Task, NEW h \in Handle, Launch(t, h)
      PROVE  Ev(x)' \in fired'
  <2>1. LaunchesTask(t, h) /\ LaunchKeeps(t)
    BY <1>2, LaunchTask, LaunchOld
  <2>2. CASE x = t
    <3>1. g \in anc[h] \cup {h} /\ fired' = fired /\ hst[h] = "held"
      BY <2>1, <2>2 DEF LaunchesTask
    <3>2. kind[h] = "view" => Disciplined
      BY <2>1, <2>2 DEF LaunchesTask, Tracked, WriterAccess
    <3>3. Rel(h) \notin fired BY <3>1 DEF IInv, Fired
    <3> QED BY <3>1, <3>2, <3>3, HeldAbove
  <2>3. CASE x # t
    BY <2>1, <2>3 DEF LaunchesTask, LaunchKeeps, IInv, SubtreeFired
  <2> QED BY <2>2, <2>3
<1> QED BY <1>1, <1>2, NextSplit

\* A holder that touches the datum, on entry or after Wait, has nothing running below.
LEMMA UseCoversStep == IInv /\ [Next]_vars => UseCovers'
<1> SUFFICES ASSUME IInv, [Next]_vars, NEW x \in Task, NEW g \in anc'[x],
                    Tracked(x)', using'[g], kind'[g] = "store"
             PROVE  Ev(x)' \in fired'
  BY DEF UseCovers
<1>1. CASE Quiet
  <2>1. /\ Tracked(x) /\ Ev(x)' = Ev(x) /\ anc' = anc /\ kind' = kind /\ fired \subseteq fired'
    BY <1>1, QuietTree, QuietKeeps
  <2>2. g \in Handle BY <2>1, TaskHandle DEF IInv, TypeOK
  <2>3. CASE using[g]
    BY <2>1, <2>3 DEF IInv, UseCovers
  <2>4. ASSUME Wait(g) PROVE Ev(x) \in fired
    <3>1. childRw[g] \cup war[g] \subseteq fired
      BY <2>4 DEF Wait, Precondition
    <3>2. ASSUME NEW y \in Task, Tracked(y), par[y] = g PROVE Ev(y) \in fired
      <4>1. Covered(y, childRw[g] \cup war[g])
        BY <3>2 DEF IInv, Registered, Tracked, Covered
      <4> QED BY <3>1, <4>1, CoveredFired
    <3> QED BY <2>1, <2>2, <3>2, ChildrenFired
  <2>5. ASSUME NEW t \in Task, Start(t), ~using[g] PROVE Ev(x) \in fired
    <3>1. st[t] = "waiting" /\ pre[t] \subseteq fired BY <2>5 DEF Start, Resolve
    <3>2. \/ kind[t] \in {"store", "view"} /\ g = t
          \/ kind[t] = "move" /\ g = par[t]
      BY <2>2, <2>5 DEF Start, Resolve, IInv, TypeOK
    <3>3. CASE kind[t] \in {"store", "view"} /\ g = t
      BY <2>1, <3>1, <3>3 DEF IInv, Life
    <3>4. CASE kind[t] = "move" /\ g = par[t]
      <4>1. ASSUME NEW y \in Task, Tracked(y), par[y] = g PROVE Ev(y) \in fired
        <5>1. kind[y] # "none" /\ kind[y] # "move"
          BY <4>1 DEF Tracked, WriterAccess, HasAccess
        <5>2. y < t
          BY <3>1, <3>4, <4>1, <5>1, TaskHandle DEF IInv, Life
        <5>3. Writer(t) BY <2>1, <3>4 DEF Writer, IsStore
        <5>4. Covered(y, pre[t])
          BY <3>4, <4>1, <5>2, <5>3 DEF IInv, SiblingOrder
        <5> QED BY <3>1, <5>4, CoveredFired
      <4> QED BY <2>1, <2>2, <4>1, ChildrenFired
    <3> QED BY <3>2, <3>3, <3>4
  <2>6. ASSUME \/ \E t \in Task : Complete(t)
               \/ \E h \in Handle : Drop(h) \/ Fire(h)
               \/ \E h \in Handle : Wait(h) /\ h # g
               \/ Create \/ UNCHANGED vars
        PROVE  using[g]
    BY <2>2, <2>6
    DEF Complete, Wait, Drop, DropStore, DropView, DropRoot, Destroy, Fire, Create, vars, IInv, TypeOK
  <2> QED BY <1>1, <2>1, <2>3, <2>4, <2>5, <2>6 DEF Quiet
<1>2. ASSUME NEW t \in Task, NEW h \in Handle, Launch(t, h)
      PROVE  Ev(x)' \in fired'
  <2>1. LaunchesTask(t, h) /\ LaunchKeeps(t)
    BY <1>2, LaunchTask, LaunchOld
  <2>2. g \in Handle BY TypeStep, TaskHandle DEF IInv, TypeOK
  <2>3. g # h /\ using[g] BY <2>1, <2>2 DEF LaunchesTask
  <2>4. CASE x = t
    <3>1. g \in anc[h] /\ hst[h] = "held" /\ fired' = fired
      BY <2>1, <2>3, <2>4 DEF LaunchesTask
    <3>2. kind[h] = "view" => Disciplined
      BY <2>1, <2>4 DEF LaunchesTask, Tracked, WriterAccess
    <3>3. g # t /\ kind[g] = "store"
      <4>1. kind[g] \in {"store", "view"} BY <3>1, TaskHandle DEF IInv, Shape
      <4> QED BY <2>1, <2>2, <4>1 DEF LaunchesTask
    <3> QED BY <2>3, <3>1, <3>2, <3>3, HeldAbove
  <2>5. CASE x # t
    <3>1. /\ Tracked(x) /\ anc'[x] = anc[x] /\ Ev(x)' = Ev(x) /\ kind[x] # "none" /\ fired' = fired
      BY <2>1, <2>5 DEF LaunchesTask, LaunchKeeps, Tracked, WriterAccess, HasAccess
    <3>2. t \notin anc[x] BY <2>1, <2>5, <3>1 DEF LaunchKeeps
    <3>3. kind'[g] = kind[g] BY <2>1, <2>2, <3>1, <3>2 DEF LaunchesTask
    <3> QED BY <2>3, <3>1, <3>3 DEF IInv, UseCovers
  <2> QED BY <2>4, <2>5
<1> QED BY <1>1, <1>2, NextSplit

-----------------------------------------------------------------------------
(***************************************************************************)
(* The theorems.                                                           *)
(***************************************************************************)
\* The inductive invariant holds when the root has been created.
LEMMA IInvInit == Init => IInv
<1> SUFFICES ASSUME Init PROVE IInv
  OBVIOUS
<1>1. TypeOK BY TypeInit
<1>0. \A x \in Task : ~(x <= launched) BY NTasksAssumption DEF Init, Task
<1>2. /\ \A x \in Task : kind[x] = "none" /\ anc[x] = {} /\ st[x] = "idle" /\ hst[x] = "none"
      /\ kind[Root] = "store" /\ anc[Root] = {} /\ hst[Root] = "held" /\ fired = {}
      /\ \A h \in Handle : using[h] => h = Root
      /\ \A h \in Handle : hst[h] = "held" => h = Root
      /\ \A h \in Handle : hst[h] # "dead"
  BY TaskHandle DEF Init
<1>3. \A x \in Task : ~Tracked(x) BY <1>2 DEF Tracked, WriterAccess, HasAccess
<1>4. Shape BY <1>0, <1>2, TaskHandle DEF Shape
<1>5. Life BY <1>2, TaskHandle DEF Life
<1>6. Fired BY <1>2, TaskHandle DEF Fired, Started
<1> QED
  BY <1>1, <1>3, <1>4, <1>5, <1>6
  DEF IInv, Registered, SiblingOrder, DeadCovers, SubtreeFired, UseCovers

\* Every step of a program preserves the inductive invariant.
LEMMA IInvStep == IInv /\ [Next]_vars => IInv'
<1> SUFFICES ASSUME IInv, [Next]_vars PROVE IInv'
  OBVIOUS
<1>1. TypeOK' BY TypeStep DEF IInv
<1>2. Shape' /\ Life' /\ Fired' BY ShapeStep, LifeStep, FiredStep
<1>3. Registered' /\ SiblingOrder' BY RegisteredStep, SiblingOrderStep
<1>4. DeadCovers' /\ SubtreeFired' /\ UseCovers'
  BY DeadCoversStep, SubtreeFiredStep, UseCoversStep
<1> QED BY <1>1, <1>2, <1>3, <1>4 DEF IInv

\* The inductive invariant holds throughout, whatever the program does.
THEOREM IInvAlways == Spec => []IInv
BY IInvInit, IInvStep, PTL DEF Spec

\* The state of the handles and tasks of store.h, future.h and task.h stays
\* well-formed, for any number of tasks and any program.
THEOREM TypeCorrect == Spec => []TypeOK
<1>1. IInv => TypeOK BY DEF IInv
<1> QED BY <1>1, IInvAlways, PTL

\* The event of an access has fired only if the access is finished.
LEMMA EvFinished ==
  ASSUME IInv, NEW x \in Task, Ev(x) \in fired
  PROVE  Finished(x)
BY TaskHandle DEF IInv, Fired, Ev, Finished

\* An order between siblings is an order between everything below them.
LEMMA BeforeFinished ==
  ASSUME IInv, NEW x \in Task, NEW y \in Task, Tracked(x), Writer(x) \/ Writer(y),
         Started(y), Before(x, y)
  PROVE  Finished(x)
<1>1. PICK a \in (anc[x] \cup {x}) \ {Root}, b \in (anc[y] \cup {y}) \ {Root} :
        par[a] = par[b] /\ a < b
  BY DEF Before
<1>2. a \in Task /\ b \in Task /\ anc[x] \subseteq Handle
  BY <1>1, TaskHandle DEF IInv, TypeOK
<1>3. Started(b) /\ kind[b] # "none"
  <2>1. CASE b = y BY <2>1 DEF IInv, Shape, Started
  <2>2. CASE b \in anc[y] BY <1>1, <2>2 DEF IInv, Shape
  <2> QED BY <1>1, <2>1, <2>2
<1>4. Tracked(a)
  <2>1. CASE a = x BY <2>1
  <2>2. CASE a \in anc[x]
    BY <2>2 DEF IInv, Shape, Tracked, WriterAccess, HasAccess, Writer
  <2> QED BY <1>1, <2>1, <2>2
<1>5. Writer(a) \/ Writer(b)
  <2>1. CASE Writer(x)
    <3>1. a \in anc[x] => kind[a] = "store" BY <2>1 DEF IInv, Shape
    <3> QED BY <1>1, <2>1, <3>1 DEF Writer
  <2>2. CASE Writer(y)
    <3>1. b \in anc[y] => kind[b] = "store" BY <2>2 DEF IInv, Shape
    <3> QED BY <1>1, <2>2, <3>1 DEF Writer
  <2> QED BY <2>1, <2>2
<1>6. Covered(a, pre[b])
  BY <1>1, <1>2, <1>3, <1>4, <1>5 DEF IInv, SiblingOrder
<1>7. pre[b] \subseteq fired BY <1>2, <1>3 DEF IInv, Fired
<1>8. Ev(a) \in fired BY <1>2, <1>6, <1>7, CoveredFired
<1>9. Ev(x) \in fired
  <2>1. CASE a = x BY <1>8, <2>1
  <2>2. CASE a \in anc[x]
    <3>1. Ev(a) = Rel(a) BY <2>2 DEF IInv, Shape, Ev
    <3> QED BY <1>8, <2>2, <3>1 DEF IInv, SubtreeFired
  <2> QED BY <1>1, <2>1, <2>2
<1> QED BY <1>9, EvFinished

\* Read-after-write and write-after-write order of Store::child and View, through
\* every depth of nested stores, for any number of tasks and for every program:
\* child_rw_event_ never loses a writer.
THEOREM WritersAlwaysFirst == Spec => []WritersFirst
<1>1. IInv => WritersFirst
  BY BeforeFinished DEF WritersFirst, Tracked, WriterAccess, HasAccess, Writer
<1> QED BY <1>1, IInvAlways, PTL

\* Write-after-read order, for any number of tasks, when no child Store is dropped
\* with readers running and no View with subviews is moved.
THEOREM ReadersAlwaysFirst ==
  ASSUME Disciplined
  PROVE  Spec => []ReadersFirst
<1>1. IInv => ReadersFirst
  BY BeforeFinished DEF ReadersFirst, Tracked
<1> QED BY <1>1, IInvAlways, PTL

\* Under the same discipline Store::Wait and the entry of a task that owns a Store
\* give exclusive use of the datum.
THEOREM UseAlwaysExclusive ==
  ASSUME Disciplined
  PROVE  Spec => []ExclusiveUse
<1>1. IInv => ExclusiveUse
  BY EvFinished DEF ExclusiveUse, IInv, UseCovers, Tracked, IsStore
<1> QED BY <1>1, IInvAlways, PTL

\* Under the same discipline ~Store of a root deletes the instances only after the
\* last access anywhere in the tree.
THEOREM NeverUsedAfterFree ==
  ASSUME Disciplined
  PROVE  Spec => []NoUseAfterFree
<1>1. ASSUME IInv, Rel(Root) \in fired
      PROVE  /\ \A t \in Task : HasAccess(t) => Finished(t)
             /\ \A h \in Handle : ~using[h]
  <2>1. ASSUME NEW t \in Task, HasAccess(t) PROVE Ev(t) \in fired
    <3>1. Root \in anc[t] BY <1>1, <2>1 DEF IInv, Shape, HasAccess
    <3> QED BY <1>1, <2>1, <3>1 DEF IInv, SubtreeFired, Tracked
  <2>2. ASSUME NEW h \in Handle, using[h] PROVE FALSE
    <3>1. hst[h] = "held" BY <1>1, <2>2 DEF IInv, Life
    <3>2. h # Root BY <1>1, <3>1, TaskHandle DEF IInv, Fired
    <3>3. h \in Task /\ kind[h] \in {"store", "view"}
      BY <1>1, <3>1, <3>2, TaskHandle DEF IInv, Shape
    <3>4. Rel(h) \in fired BY <2>1, <3>3 DEF HasAccess, Ev
    <3> QED BY <1>1, <2>2, <3>1, <3>4 DEF IInv, Fired
  <2> QED BY <1>1, <2>1, <2>2, EvFinished
<1>2. IInv => NoUseAfterFree BY <1>1 DEF NoUseAfterFree
<1> QED BY <1>2, IInvAlways, PTL

\* A View that is not moved while it has subviews keeps the events of all its children, and
\* its destruction passes them on.
ViewKeeps ==
  \A x \in Task : HasAccess(x) /\ kind[par[x]] = "view" =>
    /\ Ev(x) \in fired \cup war[par[x]]
    /\ hst[par[x]] = "dead" => Ev(x) \in fired \cup armed[par[x]]

\* DoneAfter and view() add to views_, and only the move constructor forgets it.
LEMMA ViewKeepsStep ==
  ASSUME ~MoveBusyViews
  PROVE  IInv /\ ViewKeeps /\ [Next]_vars => ViewKeeps'
<1> SUFFICES ASSUME IInv, ViewKeeps, [Next]_vars,
                    NEW x \in Task, HasAccess(x)', kind'[par'[x]] = "view"
             PROVE  /\ Ev(x)' \in fired' \cup war'[par'[x]]
                    /\ hst'[par'[x]] = "dead" => Ev(x)' \in fired' \cup armed'[par'[x]]
  BY DEF ViewKeeps
<1>0. TypeOK BY DEF IInv
<1>1. CASE Quiet
  <2>1. /\ Ev(x)' = Ev(x) /\ HasAccess(x) /\ kind' = kind /\ par' = par /\ fired \subseteq fired'
        /\ par[x] \in Handle
    BY <1>0, <1>1, QuietTree, QuietKeeps DEF TypeOK
  <2>2. ASSUME NEW v \in Handle, kind[v] = "view"
        PROVE  /\ war'[v] = war[v]
               /\ hst'[v] = "dead" => \/ hst[v] = "dead" /\ armed'[v] = armed[v]
                                      \/ armed'[v] = war[v]
    <3>1. ASSUME NEW h \in Handle, Drop(h)
          PROVE  /\ war' = war
                 /\ hst'[v] = "dead" => \/ hst[v] = "dead" /\ armed'[v] = armed[v]
                                        \/ armed'[v] = war[v]
      <4>1. CASE v = h
        BY <1>0, <2>2, <3>1, <4>1
        DEF Drop, DropStore, DropView, DropRoot, Destroy, IsStore, IsView, TypeOK, IInv, Shape
      <4>2. CASE v # h
        BY <1>0, <2>2, <3>1, <4>2
        DEF Drop, DropStore, DropView, DropRoot, Destroy, IsStore, IsView, TypeOK
      <4> QED BY <3>1, <4>1, <4>2 DEF Drop, DropStore, DropView, DropRoot, Destroy
    <3>2. ASSUME NEW h \in Handle, Wait(h)
          PROVE  war'[v] = war[v] /\ hst' = hst /\ armed' = armed
      BY <1>0, <2>2, <3>2 DEF Wait, IsStore, TypeOK
    <3>3. ASSUME NEW t \in Task, Start(t)
          PROVE  war' = war /\ armed' = armed /\ (hst'[v] = "dead" => hst[v] = "dead")
      BY <1>0, <2>2, <3>3 DEF Start, TypeOK
    <3>4. ASSUME \/ \E t \in Task : Complete(t)
                 \/ \E h \in Handle : Fire(h)
                 \/ Create \/ UNCHANGED vars
          PROVE  war' = war /\ armed' = armed /\ hst' = hst
      BY <3>4 DEF Complete, Fire, Create, vars
    <3> QED BY <1>1, <3>1, <3>2, <3>3, <3>4 DEF Quiet
  <2>3. PICK v \in Handle : v = par[x] BY <2>1
  <2>4. Ev(x) \in fired \cup war[v] /\ (hst[v] = "dead" => Ev(x) \in fired \cup armed[v])
    BY <2>1, <2>3 DEF ViewKeeps
  <2>5. kind[v] = "view" BY <2>1, <2>3
  <2>6. /\ war'[v] = war[v]
        /\ hst'[v] = "dead" => \/ hst[v] = "dead" /\ armed'[v] = armed[v]
                               \/ armed'[v] = war[v]
    BY <2>2, <2>5
  <2> QED BY <2>1, <2>3, <2>4, <2>6
<1>2. ASSUME NEW t \in Task, NEW h \in Handle, Launch(t, h)
      PROVE  /\ Ev(x)' \in fired' \cup war'[par'[x]]
             /\ hst'[par'[x]] = "dead" => Ev(x)' \in fired' \cup armed'[par'[x]]
  <2>1. LaunchesTask(t, h) /\ LaunchKeeps(t) /\ LaunchesEvents(t, h)
    BY <1>2, LaunchTask, LaunchOld, LaunchEvents
  <2>2. hst'[h] # "dead" BY <2>1 DEF LaunchesEvents
  <2>3. CASE x = t
    <3>1. par'[t] = h /\ kind'[h] = kind[h] BY <2>1 DEF LaunchesTask
    <3>2. kind'[t] \in {"ro", "view"}
      BY <2>1, <2>3, <3>1 DEF LaunchesTask, HasAccess
    <3> QED BY <2>1, <2>2, <2>3, <3>1, <3>2 DEF LaunchesEvents
  <2>4. CASE x # t
    <3>1. HasAccess(x) /\ kind[x] # "none" BY <2>1, <2>4 DEF LaunchKeeps, HasAccess
    <3>2. /\ Ev(x)' = Ev(x) /\ par'[x] = par[x] /\ kind[par[x]] = "view" /\ par[x] # t
          /\ fired' = fired /\ armed' = armed /\ par[x] \in Handle
      BY <1>0, <2>1, <2>4, <3>1 DEF LaunchKeeps, LaunchesTask, TypeOK
    <3>3. /\ Ev(x) \in fired \cup war[par[x]]
          /\ hst[par[x]] = "dead" => Ev(x) \in fired \cup armed[par[x]]
      BY <3>1, <3>2 DEF ViewKeeps
    <3>4. CASE par[x] = h
      <4>1. ~WriterAccess(t)' BY <2>1, <3>2, <3>4 DEF LaunchesTask, WriterAccess
      <4>2. war[h] \subseteq fired \cup war'[h] BY <2>1, <4>1 DEF LaunchesEvents
      <4> QED BY <2>2, <3>2, <3>3, <3>4, <4>2
    <3>5. CASE par[x] # h
      BY <2>1, <3>2, <3>3, <3>5 DEF LaunchesEvents
    <3> QED BY <3>4, <3>5
  <2> QED BY <2>3, <2>4
<1> QED BY <1>1, <1>2, NextSplit

\* The comment at future.h:257, for any number of tasks, when no View with subviews is
\* moved: the war_dependency_ of a View triggers only after all of its subviews have been
\* released, however the child Stores are dropped.
THEOREM SubviewsAlwaysHoldBack ==
  ASSUME ~MoveBusyViews
  PROVE  Spec => []SubviewsHoldBack
<1>1. Init => ViewKeeps
  <2>1. Init => \A x \in Task : kind[x] = "none" BY TaskHandle DEF Init
  <2> QED BY <2>1 DEF ViewKeeps, HasAccess
<1>2. ASSUME IInv, ViewKeeps, NEW v \in Handle, NEW x \in Task,
             IsView(v), Rel(v) \in fired, HasAccess(x), par[x] = v
      PROVE  Finished(x)
  <2>1. hst[v] = "dead" /\ armed[v] \subseteq fired BY <1>2 DEF IInv, Fired
  <2>2. Ev(x) \in fired BY <1>2, <2>1 DEF ViewKeeps, IsView
  <2> QED BY <1>2, <2>2, EvFinished
<1>3. IInv /\ ViewKeeps => SubviewsHoldBack BY <1>2 DEF SubviewsHoldBack
<1>4. IInv /\ ViewKeeps /\ [Next]_vars => (IInv /\ ViewKeeps)' BY IInvStep, ViewKeepsStep
<1> QED BY <1>1, <1>3, <1>4, IInvInit, PTL DEF Spec

-----------------------------------------------------------------------------
(***************************************************************************)
(* Refinement of SharedDatum.                                              *)
(***************************************************************************)

\* Two tasks of one tree are related: one is above the other, or one comes before the
\* other in program order.
Related ==
  \A x, y \in Task : kind[x] # "none" /\ kind[y] # "none" =>
    x = y \/ x \in anc[y] \/ y \in anc[x] \/ Before(x, y) \/ Before(y, x)

\* While Store::DeferredCreate is at work every handle and every task waits for it.
Absent == Created \in childRw[Root] \ fired
Pending == Absent =>
  /\ \A h \in Handle : ~using[h] /\ (hst[h] # "none" => Created \in childRw[h])
  /\ \A t \in Task : kind[t] # "none" => st[t] = "waiting" /\ Created \in pre[t]

\* The deletion of the instances waits for the last writers, and so for the creation.
RootArmed == hst[Root] = "dead" => childRw[Root] \subseteq armed[Root]

DInv == IInv /\ Related /\ Pending /\ RootArmed

\* Readers and writers exclude each other, and so do two writers.
OneWriter ==
  \A x, y \in Handle : Writing(x) /\ (Reading(y) \/ Writing(y)) => x = y

-----------------------------------------------------------------------------
\* The order of the tasks launched so far stays when another one is launched.
LEMMA LaunchBefore ==
  ASSUME IInv, NEW t \in Task, NEW h \in Handle, Launch(t, h),
         NEW x \in Task, kind[x] # "none", NEW y \in Handle, kind[y] # "none", Before(x, y)
  PROVE  Before(x, y)'
<1>1. LaunchesTask(t, h) /\ LaunchKeeps(t) BY LaunchTask, LaunchOld
<1>2. PICK a \in (anc[x] \cup {x}) \ {Root}, b \in (anc[y] \cup {y}) \ {Root} :
        par[a] = par[b] /\ a < b
  BY DEF Before
<1>3. y \in Task /\ anc[x] \subseteq Handle /\ anc[y] \subseteq Handle
  BY <1>2, TaskHandle DEF IInv, Shape, TypeOK
<1>4. x # t /\ y # t /\ t \notin anc[x] /\ t \notin anc[y]
  BY <1>1, <1>3 DEF LaunchKeeps, LaunchesTask
<1>5. a \in Task /\ b \in Task /\ a # t /\ b # t BY <1>2, <1>3, <1>4, TaskHandle
<1>6. par'[a] = par[a] /\ par'[b] = par[b] /\ anc'[x] = anc[x] /\ anc'[y] = anc[y]
  BY <1>1, <1>3, <1>4, <1>5 DEF LaunchKeeps
<1> QED BY <1>2, <1>6 DEF Before

\* A new task comes after what was launched on the same handle or on one above it, and
\* is below its own ancestors.
LEMMA RelatedStep == IInv /\ Related /\ [Next]_vars => Related'
<1> SUFFICES ASSUME IInv, Related, [Next]_vars PROVE Related'
  OBVIOUS
<1>1. CASE Quiet
  BY <1>1, QuietTree DEF Related, Before
<1>2. ASSUME NEW t \in Task, NEW h \in Handle, Launch(t, h) PROVE Related'
  <2>1. LaunchesTask(t, h) /\ LaunchKeeps(t) BY <1>2, LaunchTask, LaunchOld
  <2>2. \A x \in Task : kind[x] # "none" => anc[x] \subseteq Handle /\ t \notin anc[x] /\ x # t
    BY <2>1, TaskHandle DEF LaunchKeeps, LaunchesTask, IInv, TypeOK
  <2>3. ASSUME NEW x \in Task, NEW y \in Task, kind[x] # "none", kind[y] # "none", Before(x, y)
        PROVE  Before(x, y)'
    BY <1>2, <2>3, LaunchBefore, TaskHandle
  <2>4. ASSUME NEW x \in Task, kind[x] # "none" PROVE x \in anc'[t] \/ Before(x, t)' \/ Before(t, x)'
    <3>1. anc'[t] = anc[h] \cup {h} /\ anc'[x] = anc[x] /\ par'[t] = h /\ t # Root
      BY <2>1, <2>2, <2>4, TaskHandle DEF LaunchKeeps, LaunchesTask
    <3>2. ASSUME NEW a \in (anc[x] \cup {x}) \ {Root}, par[a] = h PROVE Before(x, t)'
      <4>1. a \in Task /\ a # t /\ kind[a] # "none"
        BY <2>2, <2>4, TaskHandle DEF IInv, Shape
      <4>2. par'[a] = h /\ a < t BY <2>1, <3>2, <4>1 DEF LaunchKeeps
      <4> QED BY <3>1, <4>2 DEF Before
    <3>3. CASE h \in anc[x]
      <4>1. h = par[x] \/ \E a \in anc[x] \cap Task : par[a] = h
        BY <2>4, <3>3 DEF IInv, Shape
      <4> QED BY <3>2, <4>1, TaskHandle
    <3>4. CASE h \notin anc[x] /\ x # h /\ x \notin anc[h]
      <4>1. h \in Task /\ kind[h] # "none" /\ h # Root
        BY <2>1, <2>4, <3>4, TaskHandle DEF IInv, Shape, LaunchesTask
      <4>2. Before(x, h) \/ Before(h, x) BY <2>4, <3>4, <4>1 DEF Related
      <4>3. anc'[h] \cup {h} \subseteq anc'[t]
        BY <2>1, <2>2, <3>1, <4>1 DEF LaunchKeeps
      <4>4. Before(x, h)' \/ Before(h, x)' BY <2>3, <2>4, <4>1, <4>2
      <4> QED BY <4>3, <4>4 DEF Before
    <3> QED BY <3>1, <3>3, <3>4
  <2>5. ASSUME NEW x \in Task, NEW y \in Task, kind'[x] # "none", kind'[y] # "none"
        PROVE  (x = y \/ x \in anc[y] \/ y \in anc[x] \/ Before(x, y) \/ Before(y, x))'
    <3>1. CASE x = t BY <2>1, <2>4, <2>5, <3>1 DEF LaunchKeeps
    <3>2. CASE y = t BY <2>1, <2>4, <2>5, <3>2 DEF LaunchKeeps
    <3>3. CASE x # t /\ y # t
      <4>1. kind[x] # "none" /\ kind[y] # "none" /\ anc'[x] = anc[x] /\ anc'[y] = anc[y]
        BY <2>1, <2>5, <3>3 DEF LaunchKeeps
      <4> QED BY <2>3, <4>1 DEF Related
    <3> QED BY <3>1, <3>2, <3>3
  <2> QED BY <2>5 DEF Related
<1> QED BY <1>1, <1>2, NextSplit

\* Until the instances exist no task starts and no handle forgets to wait for them.
LEMMA PendingStep == IInv /\ Pending /\ [Next]_vars => Pending' /\ (Absent' => Absent)
<1> SUFFICES ASSUME IInv, Pending, [Next]_vars PROVE Pending' /\ (Absent' => Absent)
  OBVIOUS
<1>0. TypeOK BY DEF IInv
<1> USE <1>0, EventsDistinct, TaskHandle
<1>1. ASSUME NEW t \in Task, NEW h \in Handle, Launch(t, h)
      PROVE  Pending' /\ (Absent' => Absent)
  <2>1. LaunchesTask(t, h) /\ LaunchesEvents(t, h) BY <1>1, LaunchTask, LaunchEvents
  <2>2. /\ childRw'[Root] \subseteq childRw[Root] \cup {Done(t), Rel(t)}
        /\ kind'[t] \in {"store", "view"} => childRw'[t] = childRw[h]
    BY <1>1, <2>1
    DEF Launch, LaunchRW, LaunchRO, LaunchStore, LaunchView, MoveStore, MoveView, Spawn, TypeOK,
        LaunchesTask
  <2>3. Absent' => Absent BY <2>1, <2>2 DEF Absent, LaunchesTask
  <2>4. ASSUME Absent PROVE Pending'
    <3>1. Created \in childRw[h] BY <2>1, <2>4 DEF Pending, LaunchesTask
    <3>2. ASSUME NEW x \in Handle
          PROVE  ~using'[x] /\ (hst'[x] # "none" => Created \in childRw'[x])
      <4>1. ~using'[x] BY <2>1, <2>4 DEF Pending, LaunchesTask
      <4>2. CASE x = t BY <4>1, <2>1, <2>2, <3>1, <4>2 DEF LaunchesEvents
      <4>3. CASE x = h BY <4>1, <2>1, <3>1, <4>3 DEF LaunchesEvents
      <4>4. CASE x # t /\ x # h BY <4>1, <2>1, <2>4, <4>4 DEF LaunchesEvents, Pending
      <4> QED BY <4>1, <4>2, <4>3, <4>4
    <3>3. ASSUME NEW x \in Task, kind'[x] # "none"
          PROVE  st'[x] = "waiting" /\ Created \in pre'[x]
      BY <2>1, <2>4, <3>1, <3>3 DEF LaunchesTask, LaunchesEvents, Pending
    <3> QED BY <3>2, <3>3 DEF Pending
  <2> QED BY <2>3, <2>4 DEF Pending
<1>2. ASSUME NEW t \in Task, Start(t) PROVE Pending' /\ (Absent' => Absent)
  <2>1. childRw' = childRw /\ fired' = fired BY <1>2 DEF Start
  <2>2. ~Absent
    <3>1. kind[t] # "none" /\ pre[t] \subseteq fired BY <1>2 DEF Start, IInv, Shape
    <3> QED BY <3>1 DEF Absent, Pending
  <2> QED BY <2>1, <2>2 DEF Pending, Absent
<1>3. ASSUME NEW t \in Task, Complete(t) PROVE Pending' /\ (Absent' => Absent)
  <2>1. childRw' = childRw /\ fired \subseteq fired' BY <1>3 DEF Complete
  <2>2. ~Absent
    <3>1. kind[t] # "none" /\ st[t] = "running" BY <1>3 DEF Complete, IInv, Shape
    <3> QED BY <3>1 DEF Pending
  <2> QED BY <2>1, <2>2 DEF Pending, Absent
<1>4. ASSUME NEW h \in Handle, Wait(h) PROVE Pending' /\ (Absent' => Absent)
  <2>1. /\ childRw'[Root] \subseteq childRw[Root] /\ fired' = fired
        /\ childRw[h] \subseteq fired /\ hst[h] = "held"
    BY <1>4 DEF Wait, Precondition, TypeOK
  <2>2. ~Absent BY <2>1 DEF Absent, Pending
  <2> QED BY <2>1, <2>2 DEF Pending, Absent
<1>5. ASSUME NEW h \in Handle, Drop(h) \/ Fire(h) PROVE Pending' /\ (Absent' => Absent)
  <2>1. /\ childRw' = childRw /\ fired \subseteq fired' /\ kind' = kind /\ st' = st /\ pre' = pre
        /\ \A x \in Handle : (hst'[x] # "none" => hst[x] # "none") /\ (using'[x] => using[x])
    BY <1>5 DEF Drop, DropStore, DropView, DropRoot, Destroy, Fire, taskVars, TypeOK
  <2> QED BY <2>1 DEF Pending, Absent
<1>6. CASE Create
  BY <1>6 DEF Create, Absent, Pending
<1>7. CASE UNCHANGED vars
  BY <1>7 DEF vars, taskVars, Absent, Pending
<1> QED BY <1>1, <1>2, <1>3, <1>4, <1>5, <1>6, <1>7 DEF Next, Terminated

\* ~Store of the root arms the deletion with child_rw_event_, and nothing is launched on a
\* dead handle.
LEMMA RootArmedStep == IInv /\ RootArmed /\ [Next]_vars => RootArmed'
<1> SUFFICES ASSUME IInv, RootArmed, [Next]_vars, hst'[Root] = "dead"
             PROVE  childRw'[Root] \subseteq armed'[Root]
  BY DEF RootArmed
<1>0. TypeOK BY DEF IInv
<1> USE <1>0, TaskHandle
<1>1. ASSUME NEW t \in Task, NEW h \in Handle, Launch(t, h)
      PROVE  childRw'[Root] \subseteq armed'[Root]
  <2>1. LaunchesTask(t, h) /\ LaunchesEvents(t, h) BY <1>1, LaunchTask, LaunchEvents
  <2> QED BY <2>1 DEF LaunchesTask, LaunchesEvents, RootArmed
<1>2. ASSUME NEW t \in Task, Start(t) \/ Complete(t)
      PROVE  childRw'[Root] \subseteq armed'[Root]
  BY <1>2 DEF Start, Complete, RootArmed, TypeOK
<1>3. ASSUME NEW h \in Handle, Wait(h) PROVE childRw'[Root] \subseteq armed'[Root]
  BY <1>3 DEF Wait, RootArmed, TypeOK
<1>4. ASSUME NEW h \in Handle, Drop(h) PROVE childRw'[Root] \subseteq armed'[Root]
  <2>1. CASE h = Root
    <3>1. armed'[Root] = childRw[Root] \cup war[Root] /\ childRw' = childRw
      BY <1>4, <2>1
      DEF Drop, DropStore, DropView, DropRoot, Destroy, Precondition, IsStore, IsView, TypeOK,
          IInv, Shape
    <3> QED BY <3>1
  <2>2. CASE h # Root
    BY <1>4, <2>2 DEF Drop, DropStore, DropView, Destroy, RootArmed, TypeOK
  <2> QED BY <2>1, <2>2
<1>5. ASSUME NEW h \in Handle, Fire(h) PROVE childRw'[Root] \subseteq armed'[Root]
  BY <1>5 DEF Fire, RootArmed
<1>6. CASE Create \/ UNCHANGED vars
  BY <1>6 DEF Create, vars, RootArmed
<1> QED BY <1>1, <1>2, <1>3, <1>4, <1>5, <1>6 DEF Next, Terminated

\* The invariant of the refinement holds when the root has been created.
LEMMA DInvInit == Init => DInv
<1> SUFFICES ASSUME Init PROVE DInv
  OBVIOUS
<1>1. /\ \A x \in Task : kind[x] = "none"
      /\ hst[Root] = "held"
      /\ \A h \in Handle : hst[h] # "none" => h = Root
      /\ \A h \in Handle : using[h] => Created \notin childRw[Root]
  BY TaskHandle DEF Init
<1>2. Related /\ Pending /\ RootArmed
  BY <1>1 DEF Related, Pending, Absent, RootArmed
<1> QED BY <1>2, IInvInit DEF DInv

\* Every step of a program preserves it.
LEMMA DInvStep == DInv /\ [Next]_vars => DInv'
BY IInvStep, RelatedStep, PendingStep, RootArmedStep DEF DInv

\* What is finished or covered by a Store in use touches the datum no longer.
LEMMA FinishedIdle ==
  ASSUME IInv, NEW x \in Task, Finished(x)
  PROVE  ~Reading(x) /\ ~Writing(x)
<1>1. using[x] => hst[x] = "held" BY TaskHandle DEF IInv, Life
<1> QED BY <1>1 DEF Finished, Reading, Writing, IsStore, IsView

\* Who touches the datum is an access that has started.
LEMMA TouchingStarted ==
  ASSUME IInv, NEW x \in Task, Reading(x) \/ Writing(x)
  PROVE  /\ HasAccess(x) /\ kind[x] # "none" /\ Started(x) /\ ~Finished(x)
         /\ Writing(x) => Writer(x)
<1>1. HasAccess(x) /\ kind[x] # "none" /\ (Writing(x) => Writer(x))
  BY DEF Reading, Writing, IsStore, IsView, HasAccess, Writer
<1>2. (kind[x] \in {"ro", "rw"} /\ st[x] = "running") \/ hst[x] = "held"
  BY TaskHandle DEF IInv, Life, Reading, Writing
<1>3. Started(x) BY <1>2, TaskHandle DEF IInv, Life, Started
<1> QED BY <1>1, <1>3, FinishedIdle

\* The order of the tree leaves the datum to many readers or to one writer.
LEMMA Exclusion ==
  ASSUME Disciplined, IInv, Related
  PROVE  OneWriter
<1> SUFFICES ASSUME NEW x \in Handle, NEW y \in Handle, Writing(x), Reading(y) \/ Writing(y), x # y
             PROVE  FALSE
  BY DEF OneWriter
<1>1. ~Reading(Root) BY DEF IInv, Shape, Reading, IsView
<1>2. ASSUME NEW g \in Handle, NEW z \in Task, g \in anc[z], Writing(g) PROVE ~Reading(z) /\ ~Writing(z)
  <2>1. using[g] /\ kind[g] = "store"
    BY <1>2 DEF IInv, Shape, Writing, IsStore
  <2>2. SUFFICES ASSUME Reading(z) \/ Writing(z) PROVE FALSE
    OBVIOUS
  <2>3. Tracked(z) BY <1>2, <2>2, TouchingStarted DEF Tracked
  <2>4. Ev(z) \in fired BY <1>2, <2>1, <2>3 DEF IInv, UseCovers
  <2> QED BY <1>2, <2>2, <2>4, EvFinished, FinishedIdle
<1>3. CASE x = Root
  <2>1. y \in Task /\ kind[y] # "none" BY <1>3, TaskHandle, TouchingStarted
  <2>2. Root \in anc[y] BY <2>1 DEF IInv, Shape
  <2> QED BY <1>2, <1>3, <2>1, <2>2
<1>4. CASE y = Root
  <2>1. x \in Task /\ kind[x] # "none" BY <1>4, TaskHandle, TouchingStarted
  <2>2. Root \in anc[x] BY <2>1 DEF IInv, Shape
  <2>3. Writing(y) BY <1>1, <1>4
  <2> QED BY <1>2, <1>4, <2>1, <2>2, <2>3
<1>5. CASE x # Root /\ y # Root
  <2>1. x \in Task /\ y \in Task BY <1>5, TaskHandle
  <2>2. /\ HasAccess(x) /\ HasAccess(y) /\ kind[x] # "none" /\ kind[y] # "none"
        /\ Started(x) /\ Started(y) /\ ~Finished(x) /\ ~Finished(y) /\ Writer(x)
    BY <2>1, TouchingStarted
  <2>3. CASE x \in anc[y] BY <1>2, <2>1, <2>3
  <2>4. CASE y \in anc[x]
    <3>1. kind[y] = "store" BY <2>1, <2>2, <2>4 DEF IInv, Shape
    <3>2. Writing(y) BY <3>1 DEF Reading, IsView
    <3> QED BY <1>2, <2>1, <2>4, <3>2
  <2>5. CASE Before(x, y) \/ Before(y, x)
    BY <2>1, <2>2, <2>5, BeforeFinished DEF Tracked
  <2> QED BY <2>1, <2>2, <2>3, <2>4, <2>5 DEF Related
<1> QED BY <1>3, <1>4, <1>5

-----------------------------------------------------------------------------
\* The state a program sees of the datum.
Readers == {x \in Handle : Reading(x)}
Writers == {x \in Handle : Writing(x)}

\* The definitions of SharedDatum, with the refinement mapping applied.
LEMMA DatumSteps ==
  /\ Datum!Init <=> /\ Readers = {}
                    /\ \/ Phase = "absent" /\ Writers = {}
                       \/ Phase = "present" /\ \E u \in Handle : Writers = {u}
  /\ Datum!vars = <<Phase, Readers, Writers>>
  /\ Datum!vars' = <<Phase', Readers', Writers'>>
  /\ Datum!Appear <=> /\ Phase = "absent" /\ Phase' = "present"
                      /\ Readers' = Readers /\ Writers' = Writers
  /\ Datum!Free <=> /\ Phase = "present" /\ Readers = {} /\ Writers = {} /\ Phase' = "freed"
                    /\ Readers' = Readers /\ Writers' = Writers
  /\ \A u : /\ Datum!BeginRead(u) <=> /\ Phase = "present" /\ Writers = {}
                                      /\ Readers' = Readers \cup {u}
                                      /\ Phase' = Phase /\ Writers' = Writers
            /\ Datum!BeginWrite(u) <=> /\ Phase = "present" /\ Readers = {} /\ Writers = {}
                                       /\ Writers' = {u} /\ Phase' = Phase /\ Readers' = Readers
            /\ Datum!EndRead(u) <=> /\ u \in Readers /\ Readers' = Readers \ {u}
                                    /\ Phase' = Phase /\ Writers' = Writers
            /\ Datum!EndWrite(u) <=> /\ u \in Writers /\ Writers' = Writers \ {u}
                                     /\ Phase' = Phase /\ Readers' = Readers
  /\ Datum!Next <=> \/ Datum!Appear \/ Datum!Free
                    \/ \E u \in Handle : \/ Datum!BeginRead(u) \/ Datum!BeginWrite(u)
                                         \/ Datum!EndRead(u) \/ Datum!EndWrite(u)
<1> USE DEF Readers, Writers
<1>1. Datum!vars = <<Phase, Readers, Writers>> BY DEF Datum!vars
<1>2. Datum!vars' = <<Phase', Readers', Writers'>> BY DEF Datum!vars
<1>3. Datum!Init <=> /\ Readers = {}
                     /\ \/ Phase = "absent" /\ Writers = {}
                        \/ Phase = "present" /\ \E u \in Handle : Writers = {u}
  BY DEF Datum!Init
<1>4. Datum!Next <=> \/ Datum!Appear \/ Datum!Free
                     \/ \E u \in Handle : \/ Datum!BeginRead(u) \/ Datum!BeginWrite(u)
                                          \/ Datum!EndRead(u) \/ Datum!EndWrite(u)
  BY DEF Datum!Next
<1> QED
  BY <1>1, <1>2, <1>3, <1>4
  DEF Datum!Appear, Datum!Free, Datum!BeginRead, Datum!BeginWrite, Datum!EndRead, Datum!EndWrite

\* A freed datum is touched by nobody, and neither is an absent one.
LEMMA TouchedIsPresent ==
  ASSUME Disciplined, DInv, NEW x \in Handle, Reading(x) \/ Writing(x)
  PROVE  Phase = "present"
<1>1. IInv BY DEF DInv
<1>2. x # Root => x \in Task BY TaskHandle
<1>3. ~Absent
  <2>1. SUFFICES ASSUME Absent PROVE FALSE
    OBVIOUS
  <2>2. ~using[x] BY <2>1 DEF DInv, Pending
  <2>3. CASE x = Root BY <1>1, <2>2, <2>3 DEF Reading, Writing, IInv, Shape, IsView, IsStore
  <2>4. CASE x # Root
    <3>1. Started(x) /\ kind[x] # "none" BY <1>1, <1>2, <2>4, TouchingStarted
    <3>2. st[x] = "waiting" BY <1>2, <2>1, <2>4, <3>1 DEF DInv, Pending
    <3> QED BY <3>1, <3>2 DEF Started
  <2> QED BY <2>3, <2>4
<1>4. Rel(Root) \notin fired
  <2>1. SUFFICES ASSUME Rel(Root) \in fired PROVE FALSE
    OBVIOUS
  <2>2. hst[Root] = "dead" BY <1>1, <2>1, TaskHandle DEF IInv, Fired
  <2>3. CASE x = Root
    BY <1>1, <2>2, <2>3, TaskHandle DEF Reading, Writing, IInv, Shape, Life, IsView, IsStore
  <2>4. CASE x # Root
    <3>1. HasAccess(x) /\ ~Finished(x) /\ kind[x] # "none" BY <1>1, <1>2, <2>4, TouchingStarted
    <3>2. Root \in anc[x] BY <1>1, <1>2, <2>4, <3>1 DEF IInv, Shape
    <3>3. Ev(x) \in fired
      BY <1>1, <1>2, <2>1, <2>4, <3>1, <3>2 DEF IInv, SubtreeFired, Tracked
    <3> QED BY <1>1, <1>2, <2>4, <3>1, <3>3, EvFinished
  <2> QED BY <2>3, <2>4
<1> QED BY <1>3, <1>4 DEF Phase, Absent

\* Whoever touches the datum finds it created and not deleted.
Touchable == \A x \in Handle : Reading(x) \/ Writing(x) => Phase = "present"

\* A step after which u alone is new among the readers begins a read.
LEMMA BeginsRead ==
  ASSUME OneWriter', Touchable', Phase' = Phase, NEW u \in Handle, Reading(u)',
         Readers' = Readers \cup {u}, Writers' = Writers
  PROVE  Datum!Next
<1>1. Phase' = "present" BY DEF Touchable
<1>2. Writers' = {}
  <2>1. ASSUME NEW x \in Handle, Writing(x)' PROVE x = u BY <2>1 DEF OneWriter
  <2>2. ~Writing(u)' BY DEF Writing, Reading, IsStore, IsView
  <2> QED BY <2>1, <2>2 DEF Writers
<1> QED BY <1>1, <1>2, DatumSteps

\* A step after which u is new among the writers begins a write.
LEMMA BeginsWrite ==
  ASSUME OneWriter', Touchable', Phase' = Phase, NEW u \in Handle, Writing(u)', ~Writing(u),
         Writers' = Writers \cup {u}, Readers' = Readers
  PROVE  Datum!Next
<1>1. Phase' = "present" BY DEF Touchable
<1>2. \A x \in Handle : Writing(x)' \/ Reading(x)' => x = u BY DEF OneWriter
<1>3. ~Reading(u)' BY DEF Writing, Reading, IsStore, IsView
<1>4. Readers' = {} BY <1>2, <1>3 DEF Readers
<1>5. Writers' = {u} /\ u \notin Writers BY <1>2 DEF Writers
<1>6. Writers = {} BY <1>5
<1> QED BY <1>1, <1>4, <1>5, <1>6, DatumSteps

\* A step after which u reads no more ends a read, or shows nothing.
LEMMA EndsRead ==
  ASSUME Phase' = Phase, NEW u \in Handle, Readers' = Readers \ {u}, Writers' = Writers
  PROVE  [Datum!Next]_Datum!vars
<1>1. CASE u \in Readers BY <1>1, DatumSteps
<1>2. CASE u \notin Readers
  <2>1. Readers' = Readers BY <1>2
  <2> QED BY <2>1, DatumSteps
<1> QED BY <1>1, <1>2

\* A step after which u writes no more ends a write, or shows nothing.
LEMMA EndsWrite ==
  ASSUME Phase' = Phase, NEW u \in Handle, Writers' = Writers \ {u}, Readers' = Readers
  PROVE  [Datum!Next]_Datum!vars
<1>1. CASE u \in Writers BY <1>1, DatumSteps
<1>2. CASE u \notin Writers
  <2>1. Writers' = Writers BY <1>2
  <2> QED BY <2>1, DatumSteps
<1> QED BY <1>1, <1>2

\* Launching a task on a handle ends the use that its holder made of the datum.
LEMMA LaunchSeen ==
  ASSUME DInv, NEW t \in Task, NEW h \in Handle, Launch(t, h)
  PROVE  [Datum!Next]_Datum!vars
<1>0. IInv /\ TypeOK BY DEF DInv, IInv
<1>1. LaunchesTask(t, h) /\ LaunchesEvents(t, h) BY <1>0, LaunchTask, LaunchEvents
<1>2. Phase' = Phase
  <2>1. t # Root /\ h # t /\ Root \in Handle /\ t \in Handle
    BY <1>1, TaskHandle DEF LaunchesTask
  <2>2. childRw'[Root] \in {childRw[Root], childRw[Root] \cup {Done(t)}, childRw[Root] \cup {Rel(t)}}
    BY <1>0, <2>1
    DEF Launch, LaunchRW, LaunchRO, LaunchStore, LaunchView, MoveStore, MoveView, TypeOK
  <2>3. (Created \in childRw'[Root]) <=> (Created \in childRw[Root])
    BY <2>2, EventsDistinct
  <2> QED BY <1>1, <2>3 DEF Phase, LaunchesTask
<1>3. ASSUME NEW x \in Handle, x # t, x # h
      PROVE  (Reading(x)' <=> Reading(x)) /\ (Writing(x)' <=> Writing(x))
  <2>1. kind'[x] = kind[x] /\ hst'[x] = hst[x] /\ using'[x] = using[x]
    BY <1>1, <1>3 DEF LaunchesTask, LaunchesEvents
  <2>2. x \in Task => st'[x] = st[x] BY <1>1, <1>3 DEF LaunchesTask
  <2>3. x \notin Task => kind[x] = "store" BY <1>0, TaskHandle DEF IInv, Shape
  <2> QED BY <2>1, <2>2, <2>3 DEF Reading, Writing, IsStore, IsView
<1>4. ~Reading(t) /\ ~Reading(t)' /\ ~Writing(t) /\ ~Writing(t)'
  <2>1. ~using[t] BY <1>0, <1>1, TaskHandle DEF IInv, Life, LaunchesTask
  <2>2. ~using'[t] BY <1>1, <2>1, TaskHandle DEF LaunchesTask
  <2> QED BY <1>1, <2>1, <2>2 DEF Reading, Writing, IsStore, IsView, LaunchesTask, LaunchesEvents
<1>5. CASE kind[h] = "store"
  <2>1. kind'[h] = "store" /\ ~using'[h] BY <1>1, <1>5 DEF LaunchesTask
  <2>2. ~Reading(h) /\ ~Reading(h)' /\ ~Writing(h)'
    BY <1>5, <2>1 DEF Reading, Writing, IsStore, IsView
  <2>3. Readers' = Readers BY <1>3, <1>4, <2>2 DEF Readers
  <2>4. Writers' = Writers \ {h} BY <1>3, <1>4, <2>2 DEF Writers
  <2> QED BY <1>2, <2>3, <2>4, EndsWrite
<1>6. CASE kind[h] = "view"
  <2>1. kind'[h] = "view" /\ hst[h] = "held" BY <1>1, <1>6 DEF LaunchesTask
  <2>2. Reading(h) /\ ~Writing(h) /\ ~Writing(h)'
    BY <1>6, <2>1 DEF Reading, Writing, IsStore, IsView
  <2>3. Writers' = Writers BY <1>3, <1>4, <2>2 DEF Writers
  <2>4. CASE Reading(h)'
    <3>1. Readers' = Readers BY <1>3, <1>4, <2>2, <2>4 DEF Readers
    <3> QED BY <1>2, <2>3, <3>1, DatumSteps
  <2>5. CASE ~Reading(h)'
    <3>1. Readers' = Readers \ {h} BY <1>3, <1>4, <2>2, <2>5 DEF Readers
    <3> QED BY <1>2, <2>3, <3>1, EndsRead
  <2> QED BY <2>4, <2>5
<1> QED BY <1>1, <1>5, <1>6 DEF LaunchesTask

\* A task that starts begins an access: its own if it is a leaf, else its handle's.
LEMMA StartSeen ==
  ASSUME DInv, OneWriter', Touchable', NEW t \in Task, Start(t)
  PROVE  [Datum!Next]_Datum!vars
<1>0. IInv /\ TypeOK BY DEF DInv, IInv
<1>1. /\ st[t] = "waiting" /\ kind' = kind /\ par' = par /\ childRw' = childRw /\ fired' = fired
      /\ st' = [st EXCEPT ![t] = "running"]
  BY DEF Start
<1>2. Phase' = Phase BY <1>1 DEF Phase
<1>3. kind[t] # "none" BY <1>0, <1>1 DEF IInv, Shape
<1>4. Root \notin Task /\ t \in Handle /\ kind[Root] = "store" BY <1>0, TaskHandle DEF IInv, Shape
<1>5. CASE kind[t] \in {"rw", "ro"}
  <2>1. hst' = hst /\ using' = using BY <1>5 DEF Start
  <2>2. \A x \in Handle : x # t => (Reading(x)' <=> Reading(x)) /\ (Writing(x)' <=> Writing(x))
    <3> SUFFICES ASSUME NEW x \in Handle, x # t
                 PROVE  (Reading(x)' <=> Reading(x)) /\ (Writing(x)' <=> Writing(x))
      OBVIOUS
    <3>1. x \in Task => st'[x] = st[x] BY <1>0, <1>1 DEF TypeOK
    <3>2. x \notin Task => kind[x] = "store" BY <1>4, TaskHandle
    <3> QED BY <1>1, <2>1, <3>1, <3>2 DEF Reading, Writing, IsStore, IsView
  <2>3. st'[t] = "running" BY <1>0, <1>1 DEF TypeOK
  <2>4. CASE kind[t] = "rw"
    <3>1. Writing(t)' /\ ~Writing(t) /\ ~Reading(t) /\ ~Reading(t)'
      BY <1>1, <2>3, <2>4 DEF Reading, Writing, IsStore, IsView
    <3>2. Writers' = Writers \cup {t} /\ Readers' = Readers
      BY <1>4, <2>2, <3>1 DEF Readers, Writers
    <3> QED BY <1>2, <1>4, <3>1, <3>2, BeginsWrite
  <2>5. CASE kind[t] = "ro"
    <3>1. Reading(t)' /\ ~Writing(t) /\ ~Writing(t)'
      BY <1>1, <2>3, <2>5 DEF Reading, Writing, IsStore, IsView
    <3>2. Readers' = Readers \cup {t} /\ Writers' = Writers
      BY <1>4, <2>2, <3>1 DEF Readers, Writers
    <3> QED BY <1>2, <1>4, <3>1, <3>2, BeginsRead
  <2> QED BY <1>5, <2>4, <2>5
<1>6. CASE kind[t] \in {"store", "view", "move"}
  <2>0. PICK g : g = Resolve(t) OBVIOUS
  <2>1. /\ hst' = [hst EXCEPT ![g] = "held"] /\ using' = [using EXCEPT ![g] = TRUE]
    BY <1>6, <2>0 DEF Start
  <2>2. g \in Handle /\ hst[g] = "transit" /\ kind[g] \in {"store", "view"}
    <3>1. CASE kind[t] \in {"store", "view"}
      BY <1>0, <1>1, <1>4, <2>0, <3>1 DEF Resolve, IInv, Life
    <3>2. CASE kind[t] = "move"
      <4>1. g = par[t] /\ par[t] \in Handle /\ par[t] \in anc[t]
        BY <1>0, <2>0, <3>2 DEF Resolve, IInv, Shape, TypeOK
      <4> QED BY <1>0, <1>1, <3>2, <4>1 DEF IInv, Shape, Life
    <3> QED BY <1>6, <3>1, <3>2
  <2>3. hst'[g] = "held" /\ using'[g] = TRUE /\ kind'[g] = kind[g] BY <1>0, <1>1, <2>1, <2>2 DEF TypeOK
  <2>4. ~using[g] BY <1>0, <2>2 DEF IInv, Life
  <2>5. \A x \in Handle : x # g => (Reading(x)' <=> Reading(x)) /\ (Writing(x)' <=> Writing(x))
    <3> SUFFICES ASSUME NEW x \in Handle, x # g
                 PROVE  (Reading(x)' <=> Reading(x)) /\ (Writing(x)' <=> Writing(x))
      OBVIOUS
    <3>1. hst'[x] = hst[x] /\ using'[x] = using[x] BY <1>0, <2>1 DEF TypeOK
    <3>2. x \in Task /\ kind[x] \in {"rw", "ro"} => st'[x] = st[x] BY <1>0, <1>1, <1>6 DEF TypeOK
    <3>3. x \notin Task => kind[x] = "store" BY <1>4, TaskHandle
    <3> QED BY <1>1, <3>1, <3>2, <3>3 DEF Reading, Writing, IsStore, IsView
  <2>6. CASE kind[g] = "store"
    <3>1. Writing(g)' /\ ~Writing(g) /\ ~Reading(g) /\ ~Reading(g)'
      BY <2>3, <2>4, <2>6 DEF Reading, Writing, IsStore, IsView
    <3>2. Writers' = Writers \cup {g} /\ Readers' = Readers
      BY <2>2, <2>5, <3>1 DEF Readers, Writers
    <3> QED BY <1>2, <2>2, <3>1, <3>2, BeginsWrite
  <2>7. CASE kind[g] = "view"
    <3>1. Reading(g)' /\ ~Writing(g) /\ ~Writing(g)'
      BY <2>3, <2>7 DEF Reading, Writing, IsStore, IsView
    <3>2. Readers' = Readers \cup {g} /\ Writers' = Writers
      BY <2>2, <2>5, <3>1 DEF Readers, Writers
    <3> QED BY <1>2, <2>2, <3>1, <3>2, BeginsRead
  <2> QED BY <2>2, <2>6, <2>7
<1>7. kind[t] \in {"rw", "ro", "store", "view", "move"} BY <1>0, <1>3, <1>4 DEF TypeOK, Kinds
<1> QED BY <1>5, <1>6, <1>7

\* A leaf task that returns ends its access.
LEMMA CompleteSeen ==
  ASSUME DInv, NEW t \in Task, Complete(t)
  PROVE  [Datum!Next]_Datum!vars
<1>0. IInv /\ TypeOK BY DEF DInv, IInv
<1>1. /\ kind' = kind /\ hst' = hst /\ using' = using /\ childRw' = childRw
      /\ fired' = fired \cup {Done(t)} /\ st' = [st EXCEPT ![t] = "done"]
  BY DEF Complete
<1>2. Phase' = Phase BY <1>1, EventsDistinct DEF Phase
<1>3. t \in Handle /\ kind[Root] = "store" /\ st'[t] = "done"
  BY <1>0, <1>1, TaskHandle DEF IInv, Shape, TypeOK
<1>4. \A x \in Handle : x # t => (Reading(x)' <=> Reading(x)) /\ (Writing(x)' <=> Writing(x))
  <2> SUFFICES ASSUME NEW x \in Handle, x # t
               PROVE  (Reading(x)' <=> Reading(x)) /\ (Writing(x)' <=> Writing(x))
    OBVIOUS
  <2>1. x \in Task => st'[x] = st[x] BY <1>0, <1>1 DEF TypeOK
  <2>2. x \notin Task => kind[x] = "store" BY <1>3, TaskHandle
  <2> QED BY <1>1, <2>1, <2>2 DEF Reading, Writing, IsStore, IsView
<1>5. CASE kind[t] = "rw"
  <2>1. ~Writing(t)' /\ ~Reading(t) /\ ~Reading(t)'
    BY <1>1, <1>3, <1>5 DEF Reading, Writing, IsStore, IsView
  <2>2. Writers' = Writers \ {t} /\ Readers' = Readers BY <1>4, <2>1 DEF Readers, Writers
  <2> QED BY <1>2, <1>3, <2>2, EndsWrite
<1>6. CASE kind[t] = "ro"
  <2>1. ~Reading(t)' /\ ~Writing(t) /\ ~Writing(t)'
    BY <1>1, <1>3, <1>6 DEF Reading, Writing, IsStore, IsView
  <2>2. Readers' = Readers \ {t} /\ Writers' = Writers BY <1>4, <2>1 DEF Readers, Writers
  <2> QED BY <1>2, <1>3, <2>2, EndsRead
<1>7. CASE kind[t] \notin {"rw", "ro"}
  <2>1. (Reading(t)' <=> Reading(t)) /\ (Writing(t)' <=> Writing(t))
    BY <1>1, <1>7 DEF Reading, Writing, IsStore, IsView
  <2>2. Readers' = Readers /\ Writers' = Writers BY <1>4, <2>1 DEF Readers, Writers
  <2> QED BY <1>2, <2>2, DatumSteps
<1> QED BY <1>5, <1>6, <1>7

\* After Wait the holder of a Store writes.
LEMMA WaitSeen ==
  ASSUME DInv, OneWriter', Touchable', NEW h \in Handle, Wait(h)
  PROVE  [Datum!Next]_Datum!vars
<1>0. IInv /\ TypeOK BY DEF DInv, IInv
<1>1. /\ kind' = kind /\ st' = st /\ hst' = hst /\ fired' = fired /\ kind[h] = "store"
      /\ childRw' = [childRw EXCEPT ![h] = {}] /\ using' = [using EXCEPT ![h] = TRUE]
      /\ childRw[h] \subseteq fired
  BY DEF Wait, taskVars, IsStore, Precondition
<1>2. Phase' = Phase BY <1>0, <1>1, TaskHandle DEF Phase, TypeOK
<1>3. \A x \in Handle : Reading(x)' <=> Reading(x) BY <1>1 DEF Reading, IsView
<1>4. \A x \in Handle : x # h => (Writing(x)' <=> Writing(x))
  BY <1>0, <1>1 DEF Writing, IsStore, TypeOK
<1>5. Writing(h)' BY <1>0, <1>1 DEF Writing, IsStore, TypeOK
<1>6. Readers' = Readers /\ Writers' = Writers \cup {h} BY <1>3, <1>4, <1>5 DEF Readers, Writers
<1>7. CASE Writing(h)
  <2>1. Writers' = Writers BY <1>6, <1>7 DEF Writers
  <2> QED BY <1>2, <1>6, <2>1, DatumSteps
<1>8. CASE ~Writing(h) BY <1>2, <1>5, <1>6, <1>8, BeginsWrite
<1> QED BY <1>7, <1>8

\* The destruction of a handle ends the use that its holder made of the datum.
LEMMA DropSeen ==
  ASSUME DInv, NEW h \in Handle, Drop(h)
  PROVE  [Datum!Next]_Datum!vars
<1>0. IInv /\ TypeOK BY DEF DInv, IInv
<1>1. /\ kind' = kind /\ st' = st /\ childRw' = childRw /\ fired' = fired /\ hst[h] = "held"
      /\ hst' = [hst EXCEPT ![h] = "dead"] /\ using' = [using EXCEPT ![h] = FALSE]
  BY DEF Drop, DropStore, DropView, DropRoot, Destroy, taskVars
<1>2. Phase' = Phase BY <1>1 DEF Phase
<1>3. kind[h] \in {"store", "view"} BY <1>0, <1>1, TaskHandle DEF IInv, Shape
<1>4. \A x \in Handle : x # h => (Reading(x)' <=> Reading(x)) /\ (Writing(x)' <=> Writing(x))
  BY <1>0, <1>1 DEF Reading, Writing, IsStore, IsView, TypeOK
<1>5. CASE kind[h] = "store"
  <2>1. ~Writing(h)' /\ ~Reading(h) /\ ~Reading(h)'
    BY <1>0, <1>1, <1>5 DEF Reading, Writing, IsStore, IsView, TypeOK
  <2>2. Writers' = Writers \ {h} /\ Readers' = Readers BY <1>4, <2>1 DEF Readers, Writers
  <2> QED BY <1>2, <2>2, EndsWrite
<1>6. CASE kind[h] = "view"
  <2>1. ~Reading(h)' /\ ~Writing(h) /\ ~Writing(h)'
    BY <1>0, <1>1, <1>6 DEF Reading, Writing, IsStore, IsView, TypeOK
  <2>2. Readers' = Readers \ {h} /\ Writers' = Writers BY <1>4, <2>1 DEF Readers, Writers
  <2> QED BY <1>2, <2>2, EndsRead
<1> QED BY <1>3, <1>5, <1>6

\* The release of a root frees the datum; that of another handle shows nothing.
LEMMA FireSeen ==
  ASSUME DInv, Touchable', NEW h \in Handle, Fire(h)
  PROVE  [Datum!Next]_Datum!vars
<1>1. /\ kind' = kind /\ st' = st /\ childRw' = childRw /\ hst' = hst /\ using' = using
      /\ fired' = fired \cup {Rel(h)} /\ hst[h] = "dead" /\ Rel(h) \notin fired
      /\ armed[h] \subseteq fired
  BY DEF Fire, taskVars
<1>2. \A x : (Reading(x)' <=> Reading(x)) /\ (Writing(x)' <=> Writing(x))
  BY <1>1 DEF Reading, Writing, IsStore, IsView
<1>3. Readers' = Readers /\ Writers' = Writers BY <1>2 DEF Readers, Writers
<1>4. CASE h = Root
  <2>1. Phase = "present"
    BY <1>1, <1>4 DEF Phase, DInv, RootArmed
  <2>2. Phase' = "freed" BY <1>1, <1>4 DEF Phase
  <2>3. Readers' = {} /\ Writers' = {} BY <2>2 DEF Touchable, Readers, Writers
  <2> QED BY <1>3, <2>1, <2>2, <2>3, DatumSteps
<1>5. CASE h # Root
  <2>1. Phase' = Phase BY <1>1, <1>5, EventsDistinct DEF Phase
  <2> QED BY <1>3, <2>1, DatumSteps
<1> QED BY <1>4, <1>5

\* The datum appears when Store::DeferredCreate has finished.
LEMMA CreateSeen ==
  ASSUME DInv, Create
  PROVE  [Datum!Next]_Datum!vars
<1>1. /\ kind' = kind /\ st' = st /\ childRw' = childRw /\ hst' = hst /\ using' = using
      /\ fired' = fired \cup {Created} /\ Created \notin fired
  BY DEF Create, taskVars
<1>2. \A x : (Reading(x)' <=> Reading(x)) /\ (Writing(x)' <=> Writing(x))
  BY <1>1 DEF Reading, Writing, IsStore, IsView
<1>3. Readers' = Readers /\ Writers' = Writers BY <1>2 DEF Readers, Writers
<1>4. CASE Absent
  <2>1. Rel(Root) \notin fired
    BY <1>4, TaskHandle DEF DInv, IInv, Fired, RootArmed, Absent
  <2>2. Phase = "absent" /\ Phase' = "present"
    BY <1>1, <1>4, <2>1, EventsDistinct DEF Phase, Absent
  <2> QED BY <1>3, <2>2, DatumSteps
<1>5. CASE ~Absent
  <2>1. Phase' = Phase BY <1>1, <1>5, EventsDistinct DEF Phase, Absent
  <2> QED BY <1>3, <2>1, DatumSteps
<1> QED BY <1>4, <1>5

\* Every step of a tree of tasks is a step of the datum, or shows nothing.
LEMMA StepSeen ==
  ASSUME DInv, OneWriter', Touchable', [Next]_vars
  PROVE  [Datum!Next]_Datum!vars
<1>1. CASE UNCHANGED vars
  <2>1. \A x : (Reading(x)' <=> Reading(x)) /\ (Writing(x)' <=> Writing(x))
    BY <1>1 DEF vars, taskVars, Reading, Writing, IsStore, IsView
  <2>2. Readers' = Readers /\ Writers' = Writers BY <2>1 DEF Readers, Writers
  <2>3. Phase' = Phase BY <1>1 DEF vars, Phase
  <2> QED BY <2>2, <2>3, DatumSteps
<1> QED
  BY <1>1, LaunchSeen, StartSeen, CompleteSeen, WaitSeen, DropSeen, FireSeen, CreateSeen
  DEF Next, Terminated

\* A tree of tasks over a Store, whatever its size and depth, is a datum that many read or one
\* writes, from the end of its creation to its deletion: the events of store.h and future.h
\* stand in for the lock they do without, in a disciplined program.
THEOREM StoreImplementsDatum ==
  ASSUME Disciplined
  PROVE  Spec => ImplementsDatum
<1>1. Init => Datum!Init
  <2> SUFFICES ASSUME Init PROVE Datum!Init
    OBVIOUS
  <2>1. /\ \A x \in Task : kind[x] = "none"
        /\ kind[Root] = "store" /\ hst[Root] = "held" /\ fired = {}
        /\ using[Root] <=> Created \notin childRw[Root]
    BY TaskHandle DEF Init
  <2>2. \A x \in Handle : ~Reading(x) /\ (Writing(x) <=> x = Root /\ using[Root])
    BY <2>1, TaskHandle DEF Reading, Writing, IsStore, IsView
  <2>3. Readers = {} /\ Writers = IF using[Root] THEN {Root} ELSE {}
    BY <2>2, TaskHandle DEF Readers, Writers
  <2>4. Phase = IF using[Root] THEN "present" ELSE "absent" BY <2>1 DEF Phase
  <2> QED BY <2>3, <2>4, TaskHandle, DatumSteps
<1>2. DInv => OneWriter /\ Touchable
  BY Exclusion, TouchedIsPresent DEF DInv, Touchable
<1>3. Spec => []DInv BY DInvInit, DInvStep, PTL DEF Spec
<1>4. DInv /\ (OneWriter /\ Touchable)' /\ [Next]_vars => [Datum!Next]_Datum!vars BY StepSeen
<1> QED BY <1>1, <1>2, <1>3, <1>4, PTL DEF Spec, ImplementsDatum, Datum!Spec

-----------------------------------------------------------------------------
(***************************************************************************)
(* The events of a tree never wait for each other in a circle.             *)
(*                                                                         *)
(* x ends before y if it comes before y in program order or is below y.    *)
(* Tasks and handles wait only for what ends before them.  So among those  *)
(* that wait, the first in this order has nothing to wait for.             *)
(***************************************************************************)
Ends(x, y) == y \in anc[x] \/ Before(x, y)

\* Every event of S is the create event, or that of an access before t or ending before h.
AwaitsBefore(S, t) ==
  \A e \in S : e = Created \/ \E x \in Task : HasAccess(x) /\ Ev(x) = e /\ Before(x, t)
AwaitsEnding(S, h) ==
  \A e \in S : e = Created \/ \E x \in Task : HasAccess(x) /\ Ev(x) = e /\ Ends(x, h)

\* What a handle keeps to make others wait for.
Kept(h) == childRw[h] \cup war[h] \cup armed[h]

\* A task was launched on a handle that is older.
Downward == \A x \in Task : kind[x] # "none" => par[x] < x

TasksWaitBack == \A t \in Task : kind[t] # "none" => AwaitsBefore(pre[t], t)
HandlesWaitBack ==
  \A h \in Handle : IF hst[h] = "none" THEN Kept(h) = {} ELSE AwaitsEnding(Kept(h), h)

\* A handle in transit is among the arguments of a task that waits: its own, or the one it
\* was moved into.
InTransit ==
  \A h \in Handle : hst[h] = "transit" =>
    \E m \in Task : st[m] = "waiting" /\ (m = h \/ (kind[m] = "move" /\ par[m] = h))

CInv == IInv /\ Downward /\ TasksWaitBack /\ HandlesWaitBack /\ InTransit

\* The guards of the steps that must happen sooner or later: Realm starts and ends tasks
\* and triggers events, and the scope rules destroy the handles.
CanStart(t) == st[t] = "waiting" /\ pre[t] \subseteq fired
CanComplete(t) == st[t] = "running"
CanDrop(h) ==
  hst[h] = "held" /\ (h = Root \/ IsView(h) \/ DropReaders \/ war[h] \subseteq fired)
CanFire(h) ==
  /\ hst[h] = "dead" /\ Rel(h) \notin fired /\ armed[h] \subseteq fired
  /\ h = Root => armed[h] # {}
Settled ==
  /\ Created \in fired
  /\ \A t \in Task : ~CanStart(t) /\ ~CanComplete(t)
  /\ \A h \in Handle : ~CanDrop(h) /\ ~CanFire(h)

\* What WindsDown promises in the end: all tasks are done and all handles released.
WoundDown ==
  /\ \A t \in Task : t <= launched => st[t] = "done"
  /\ \A h \in Handle : hst[h] # "none" /\ (h = Root => armed[h] # {}) => Rel(h) \in fired

\* Nothing waits in a circle: when nothing can move any more, nothing has to.
NoCircle == Settled => WoundDown

\* What ends before another still does.
LEMMA LaunchEnds ==
  ASSUME IInv, NEW t \in Task, NEW h \in Handle, Launch(t, h),
         NEW x \in Task, kind[x] # "none", NEW y \in Handle, kind[y] # "none", Ends(x, y)
  PROVE  Ends(x, y)'
<1>1. LaunchesTask(t, h) /\ LaunchKeeps(t) BY LaunchTask, LaunchOld
<1>2. x # t /\ anc'[x] = anc[x] BY <1>1 DEF LaunchKeeps, LaunchesTask
<1> QED BY <1>2, LaunchBefore DEF Ends

\* What ends before the handle comes before the task launched on it.
LEMMA LaunchAfter ==
  ASSUME IInv, NEW t \in Task, NEW h \in Handle, Launch(t, h),
         NEW x \in Task, kind[x] # "none", Ends(x, h)
  PROVE  Before(x, t)'
<1>1. LaunchesTask(t, h) /\ LaunchKeeps(t) BY LaunchTask, LaunchOld
<1>2. /\ x # t /\ t \notin anc[x] /\ anc[x] \subseteq Handle
      /\ anc'[x] = anc[x] /\ anc'[t] = anc[h] \cup {h} /\ par'[t] = h /\ t # Root
  BY <1>1, TaskHandle DEF LaunchKeeps, LaunchesTask, IInv, TypeOK
<1>3. ASSUME NEW a \in (anc[x] \cup {x}) \ {Root}, par[a] = h PROVE Before(x, t)'
  <2>1. a \in Task /\ a # t /\ kind[a] # "none"
    BY <1>2, TaskHandle DEF IInv, Shape
  <2>2. par'[a] = h /\ a < t BY <1>1, <1>3, <2>1 DEF LaunchKeeps
  <2> QED BY <1>2, <2>2 DEF Before
<1>4. CASE h \in anc[x]
  <2>1. h = par[x] \/ \E a \in anc[x] \cap Task : par[a] = h
    BY <1>4 DEF IInv, Shape
  <2> QED BY <1>3, <2>1, TaskHandle
<1>5. CASE Before(x, h)
  <2>1. kind[h] # "none" /\ h # t BY <1>1 DEF LaunchesTask
  <2>2. Before(x, h)' BY <1>5, <2>1, LaunchBefore
  <2>3. anc'[h] \cup {h} \subseteq anc'[t] BY <1>1, <1>2, <2>1 DEF LaunchesTask
  <2> QED BY <2>2, <2>3 DEF Before
<1> QED BY <1>4, <1>5 DEF Ends

\* A handle that exists is the root or that of a task.
LEMMA HandleKind ==
  ASSUME IInv, NEW h \in Handle, hst[h] # "none"
  PROVE  kind[h] \in {"store", "view"}
BY TaskHandle DEF IInv, Shape

\* The handle a task is launched on is older than the task.
LEMMA DownwardStep == IInv /\ Downward /\ [Next]_vars => Downward'
<1> SUFFICES ASSUME IInv, Downward, [Next]_vars, NEW x \in Task, kind'[x] # "none"
             PROVE  par'[x] < x
  BY DEF Downward
<1>1. CASE Quiet BY <1>1, QuietTree DEF Downward
<1>2. ASSUME NEW t \in Task, NEW h \in Handle, Launch(t, h) PROVE par'[x] < x
  <2>1. LaunchesTask(t, h) /\ LaunchKeeps(t) BY <1>2, LaunchTask, LaunchOld
  <2>2. CASE x = t
    <3>1. par'[t] = h /\ t = launched + 1 /\ kind[h] # "none" /\ launched \in Int
      BY <2>1 DEF LaunchesTask, IInv, TypeOK
    <3>2. h = 0 \/ (h \in Task /\ h <= launched)
      BY <3>1, TaskHandle DEF IInv, Shape, Root
    <3> QED BY <2>2, <3>1, <3>2 DEF Task
  <2>3. CASE x # t BY <2>1, <2>3 DEF LaunchKeeps, Downward
  <2> QED BY <2>2, <2>3
<1> QED BY <1>1, <1>2, NextSplit

\* What a launch takes from the handle: the task waits for what the handle keeps, an open
\* child copies from it, and the handle adds the event of the child.
LEMMA LaunchTakes ==
  ASSUME IInv, NEW t \in Task, NEW h \in Handle, Launch(t, h)
  PROVE  /\ pre'[t] \subseteq Kept(h)
         /\ Kept(h)' \subseteq Kept(h) \cup (IF HasAccess(t)' THEN {Ev(t)'} ELSE {})
         /\ Kept(t)' \subseteq Kept(t) \cup (IF hst'[t] = "none" THEN {} ELSE Kept(h))
<1>1. h # t /\ hst[t] = "none"
  <2>1. LaunchesTask(t, h) BY LaunchTask
  <2> QED BY <2>1 DEF LaunchesTask
<1>2. TypeOK BY DEF IInv
<1> USE <1>1, <1>2, TaskHandle
       DEF TypeOK, Spawn, Precondition, ViewPrecondition, HasAccess, Ev, Kept
<1>3. CASE LaunchRW(t, h) BY <1>3 DEF LaunchRW
<1>4. CASE LaunchRO(t, h) BY <1>4 DEF LaunchRO
<1>5. CASE LaunchStore(t, h) BY <1>5 DEF LaunchStore
<1>6. CASE LaunchView(t, h) BY <1>6 DEF LaunchView
<1>7. CASE MoveStore(t, h) BY <1>7 DEF MoveStore
<1>8. CASE MoveView(t, h) BY <1>8 DEF MoveView
<1> QED BY <1>3, <1>4, <1>5, <1>6, <1>7, <1>8 DEF Launch

\* A step that launches nothing lets a handle keep no new event.
LEMMA QuietKept ==
  ASSUME IInv, Quiet
  PROVE  \A h \in Handle : Kept(h)' \subseteq Kept(h)
<1>1. TypeOK BY DEF IInv
<1>2. ASSUME \/ \E t \in Task : Start(t) \/ Complete(t)
             \/ \E h \in Handle : Fire(h)
             \/ Create \/ UNCHANGED vars
      PROVE  \A h \in Handle : Kept(h)' \subseteq Kept(h)
  BY <1>2 DEF Start, Complete, Fire, Create, vars, Kept
<1>3. ASSUME NEW g \in Handle, Wait(g) PROVE \A h \in Handle : Kept(h)' \subseteq Kept(h)
  BY <1>1, <1>3 DEF Wait, Kept, TypeOK
<1>4. ASSUME NEW g \in Handle, Drop(g) PROVE \A h \in Handle : Kept(h)' \subseteq Kept(h)
  BY <1>1, <1>4
  DEF Drop, DropStore, DropView, DropRoot, Destroy, Precondition, Kept, TypeOK
<1> QED BY <1>2, <1>3, <1>4 DEF Quiet

\* A task waits only for what comes before it: the events its handle kept at the launch are
\* those of accesses below the handle or before it.
LEMMA TasksWaitBackStep ==
  IInv /\ TasksWaitBack /\ HandlesWaitBack /\ [Next]_vars => TasksWaitBack'
<1> SUFFICES ASSUME IInv, TasksWaitBack, HandlesWaitBack, [Next]_vars,
                    NEW s \in Task, kind'[s] # "none", NEW e \in pre'[s], e # Created
             PROVE  \E x \in Task : HasAccess(x)' /\ Ev(x)' = e /\ Before(x, s)'
  BY DEF TasksWaitBack, AwaitsBefore
<1>1. CASE Quiet
  <2>1. kind' = kind /\ par' = par /\ anc' = anc /\ pre' = pre BY <1>1, QuietTree
  <2>2. PICK x \in Task : HasAccess(x) /\ Ev(x) = e /\ Before(x, s)
    BY <2>1 DEF TasksWaitBack, AwaitsBefore
  <2> QED BY <2>1, <2>2 DEF HasAccess, Ev, Before
<1>2. ASSUME NEW t \in Task, NEW h \in Handle, Launch(t, h)
      PROVE  \E x \in Task : HasAccess(x)' /\ Ev(x)' = e /\ Before(x, s)'
  <2>1. LaunchesTask(t, h) /\ LaunchKeeps(t) BY <1>2, LaunchTask, LaunchOld
  <2>2. kind[t] = "none" /\ hst[h] # "none" BY <2>1 DEF LaunchesTask
  <2>3. CASE s = t
    <3>1. e \in Kept(h) BY <1>2, <2>3, LaunchTakes
    <3>2. PICK x \in Task : HasAccess(x) /\ Ev(x) = e /\ Ends(x, h)
      BY <2>2, <3>1 DEF HandlesWaitBack, AwaitsEnding
    <3>3. kind[x] # "none" /\ x # t BY <2>2, <3>2 DEF HasAccess
    <3>4. Before(x, t)' BY <1>2, <3>2, <3>3, LaunchAfter
    <3> QED BY <2>1, <2>3, <3>2, <3>3, <3>4 DEF LaunchKeeps
  <2>4. CASE s # t
    <3>1. kind[s] # "none" /\ pre'[s] = pre[s] /\ s \in Handle
      BY <2>1, <2>4, TaskHandle DEF LaunchKeeps
    <3>2. PICK x \in Task : HasAccess(x) /\ Ev(x) = e /\ Before(x, s)
      BY <3>1 DEF TasksWaitBack, AwaitsBefore
    <3>3. kind[x] # "none" /\ x # t BY <2>2, <3>2 DEF HasAccess
    <3>4. Before(x, s)' BY <1>2, <3>1, <3>2, <3>3, LaunchBefore
    <3> QED BY <2>1, <3>2, <3>3, <3>4 DEF LaunchKeeps
  <2> QED BY <2>3, <2>4
<1> QED BY <1>1, <1>2, NextSplit

\* A handle keeps only the events of what ends before it.
LEMMA HandlesWaitBackStep == IInv /\ HandlesWaitBack /\ [Next]_vars => HandlesWaitBack'
<1> SUFFICES ASSUME IInv, HandlesWaitBack, [Next]_vars, NEW g \in Handle
             PROVE  /\ hst'[g] = "none" => Kept(g)' = {}
                    /\ \A e \in Kept(g)' : hst'[g] # "none" /\ e # Created =>
                         \E x \in Task : HasAccess(x)' /\ Ev(x)' = e /\ Ends(x, g)'
  BY DEF HandlesWaitBack, AwaitsEnding
<1>1. CASE Quiet
  <2>1. kind' = kind /\ par' = par /\ anc' = anc BY <1>1, QuietTree
  <2>2. Kept(g)' \subseteq Kept(g) /\ (hst'[g] = "none" <=> hst[g] = "none")
    BY <1>1, QuietKept, QuietLife
  <2>3. hst'[g] = "none" => Kept(g)' = {} BY <2>2 DEF HandlesWaitBack
  <2>4. ASSUME NEW e \in Kept(g)', hst'[g] # "none", e # Created
        PROVE  \E x \in Task : HasAccess(x)' /\ Ev(x)' = e /\ Ends(x, g)'
    <3>1. PICK x \in Task : HasAccess(x) /\ Ev(x) = e /\ Ends(x, g)
      BY <2>2, <2>4 DEF HandlesWaitBack, AwaitsEnding
    <3> QED BY <2>1, <3>1 DEF HasAccess, Ev, Ends, Before
  <2> QED BY <2>3, <2>4
<1>2. ASSUME NEW t \in Task, NEW h \in Handle, Launch(t, h)
      PROVE  /\ hst'[g] = "none" => Kept(g)' = {}
             /\ \A e \in Kept(g)' : hst'[g] # "none" /\ e # Created =>
                  \E x \in Task : HasAccess(x)' /\ Ev(x)' = e /\ Ends(x, g)'
  <2>1. /\ LaunchesTask(t, h) /\ LaunchKeeps(t) /\ LaunchesEvents(t, h) /\ t \in Handle
        /\ kind[t] = "none" /\ hst[t] = "none" /\ hst[h] # "none" /\ kind[h] # "none" /\ h # t
    <3>1. LaunchesTask(t, h) /\ LaunchKeeps(t) /\ LaunchesEvents(t, h) /\ t \in Handle
      BY <1>2, LaunchTask, LaunchOld, LaunchEvents, TaskHandle
    <3>2. /\ kind[t] = "none" /\ hst[t] = "none" /\ hst[h] # "none" /\ kind[h] # "none" /\ h # t
      BY <3>1 DEF LaunchesTask
    <3> QED BY <3>1, <3>2
  <2>2. CASE g = t
    <3>1. Kept(t)' \subseteq IF hst'[t] = "none" THEN {} ELSE Kept(h)
      BY <1>2, <2>1, LaunchTakes DEF HandlesWaitBack
    <3>2. ASSUME NEW e \in Kept(h), e # Created
          PROVE  \E x \in Task : HasAccess(x)' /\ Ev(x)' = e /\ Ends(x, t)'
      <4>1. PICK x \in Task : HasAccess(x) /\ Ev(x) = e /\ Ends(x, h)
        BY <2>1, <3>2 DEF HandlesWaitBack, AwaitsEnding
      <4>2. kind[x] # "none" /\ x # t BY <2>1, <4>1 DEF HasAccess
      <4>3. Before(x, t)' BY <1>2, <4>1, <4>2, LaunchAfter
      <4> QED BY <2>1, <4>1, <4>2, <4>3 DEF LaunchKeeps, Ends
    <3> QED BY <2>2, <3>1, <3>2
  <2>3. ASSUME g # t, hst[g] # "none", NEW e \in Kept(g), e # Created
        PROVE  \E x \in Task : HasAccess(x)' /\ Ev(x)' = e /\ Ends(x, g)'
    <3>1. PICK x \in Task : HasAccess(x) /\ Ev(x) = e /\ Ends(x, g)
      BY <2>3 DEF HandlesWaitBack, AwaitsEnding
    <3>2. kind[x] # "none" /\ x # t BY <2>1, <3>1 DEF HasAccess
    <3>3. kind[g] # "none" BY <2>3, HandleKind
    <3>4. Ends(x, g)' BY <1>2, <3>1, <3>2, <3>3, LaunchEnds
    <3> QED BY <2>1, <3>1, <3>2, <3>4 DEF LaunchKeeps
  <2>4. CASE g = h
    <3>1. hst'[h] # "none" BY <2>1 DEF LaunchesEvents
    <3>2. Kept(h)' \subseteq Kept(h) \cup (IF HasAccess(t)' THEN {Ev(t)'} ELSE {})
      BY <1>2, LaunchTakes
    <3>3. Ends(t, h)' BY <2>1 DEF LaunchesTask, Ends
    <3>4. ASSUME NEW e \in Kept(h)', e # Created
          PROVE  \E x \in Task : HasAccess(x)' /\ Ev(x)' = e /\ Ends(x, h)'
      <4>1. CASE e \in Kept(h) BY <2>1, <2>3, <2>4, <3>4, <4>1
      <4>2. CASE e \notin Kept(h) BY <3>2, <3>3, <3>4, <4>2
      <4> QED BY <4>1, <4>2
    <3> QED BY <2>4, <3>1, <3>4
  <2>5. CASE g # t /\ g # h
    <3>1. hst'[g] = hst[g] /\ Kept(g)' = Kept(g)
      BY <2>1, <2>5 DEF LaunchesTask, LaunchesEvents, Kept
    <3>2. hst'[g] = "none" => Kept(g)' = {} BY <3>1 DEF HandlesWaitBack
    <3> QED BY <2>3, <2>5, <3>1, <3>2
  <2> QED BY <2>2, <2>4, <2>5
<1> QED BY <1>1, <1>2, NextSplit

\* A handle on its way is in the hands of a task that has yet to start.
LEMMA InTransitStep == IInv /\ InTransit /\ [Next]_vars => InTransit'
<1> SUFFICES ASSUME IInv, InTransit, [Next]_vars, NEW g \in Handle, hst'[g] = "transit"
             PROVE  \E m \in Task : st'[m] = "waiting"
                                    /\ (m = g \/ (kind'[m] = "move" /\ par'[m] = g))
  BY DEF InTransit
<1>0. TypeOK BY DEF IInv
<1>1. ASSUME NEW t \in Task, NEW h \in Handle, Launch(t, h)
      PROVE  \E m \in Task : st'[m] = "waiting"
                             /\ (m = g \/ (kind'[m] = "move" /\ par'[m] = g))
  <2>1. LaunchesTask(t, h) /\ LaunchKeeps(t) /\ LaunchesEvents(t, h)
    BY <1>1, LaunchTask, LaunchOld, LaunchEvents
  <2>2. CASE g = t BY <2>1, <2>2 DEF LaunchesTask
  <2>3. CASE g = h BY <2>1, <2>3 DEF LaunchesTask, LaunchesEvents
  <2>4. CASE g # t /\ g # h
    <3>1. hst[g] = "transit" BY <2>1, <2>4 DEF LaunchesEvents
    <3>2. PICK m \in Task : st[m] = "waiting" /\ (m = g \/ (kind[m] = "move" /\ par[m] = g))
      BY <3>1 DEF InTransit
    <3>3. m # t
      BY <2>1, <3>2 DEF LaunchesTask, IInv, Shape
    <3> QED BY <2>1, <3>2, <3>3 DEF LaunchKeeps
  <2> QED BY <2>2, <2>3, <2>4
<1>2. ASSUME NEW t \in Task, Start(t)
      PROVE  \E m \in Task : st'[m] = "waiting"
                             /\ (m = g \/ (kind'[m] = "move" /\ par'[m] = g))
  <2>1. kind' = kind /\ par' = par /\ st[t] = "waiting" BY <1>2 DEF Start
  <2>2. /\ \A x \in Task : x # t => st'[x] = st[x]
        /\ kind[t] \in {"store", "view", "move"} => hst'[Resolve(t)] = "held"
        /\ hst[g] = "transit"
    BY <1>0, <1>2, TaskHandle DEF Start, Resolve, TypeOK, IInv, Life
  <2>3. PICK m \in Task : st[m] = "waiting" /\ (m = g \/ (kind[m] = "move" /\ par[m] = g))
    BY <2>2 DEF InTransit
  <2>4. m # t
    <3>1. kind[g] \in {"store", "view"} BY <2>2, HandleKind
    <3> QED BY <2>2, <2>3, <3>1 DEF Resolve
  <2> QED BY <2>1, <2>2, <2>3, <2>4
<1>3. ASSUME NEW t \in Task, Complete(t)
      PROVE  \E m \in Task : st'[m] = "waiting"
                             /\ (m = g \/ (kind'[m] = "move" /\ par'[m] = g))
  BY <1>0, <1>3 DEF Complete, InTransit, TypeOK
<1>4. ASSUME \/ \E h \in Handle : Wait(h) \/ Drop(h) \/ Fire(h)
             \/ Create \/ UNCHANGED vars
      PROVE  \E m \in Task : st'[m] = "waiting"
                             /\ (m = g \/ (kind'[m] = "move" /\ par'[m] = g))
  <2>1. kind' = kind /\ par' = par /\ st' = st /\ hst[g] = "transit"
    BY <1>0, <1>4
    DEF Wait, Drop, DropStore, DropView, DropRoot, Destroy, Fire, Create, vars, taskVars, TypeOK
  <2> QED BY <2>1 DEF InTransit
<1> QED BY <1>1, <1>2, <1>3, <1>4 DEF Next, Terminated

\* At the start only the root exists, and it keeps at most the create event.
LEMMA CInvInit == Init => CInv
<1> SUFFICES ASSUME Init PROVE CInv
  OBVIOUS
<1>1. /\ \A x \in Task : kind[x] = "none"
      /\ \A h \in Handle : /\ hst[h] # "transit"
                           /\ Kept(h) \subseteq IF h = Root THEN {Created} ELSE {}
                           /\ hst[h] = "none" => h # Root
  BY TaskHandle DEF Init, Kept
<1>2. HandlesWaitBack BY <1>1 DEF HandlesWaitBack, AwaitsEnding
<1> QED BY <1>1, <1>2, IInvInit DEF CInv, Downward, TasksWaitBack, InTransit

\* Every step of a program preserves it.
LEMMA CInvStep == CInv /\ [Next]_vars => CInv'
BY IInvStep, DownwardStep, TasksWaitBackStep, HandlesWaitBackStep, InTransitStep DEF CInv

-----------------------------------------------------------------------------
\* Who waits for others: a task that has not started, and a handle that has not released
\* its parent.
Waits(x) ==
  \/ x \in Task /\ st[x] = "waiting"
  \/ hst[x] = "held"
  \/ hst[x] = "dead" /\ Rel(x) \notin fired /\ (x = Root => armed[x] # {})

\* y ends before x by an access that y belongs to; so does whoever holds y's handle.
LEMMA HolderEnds ==
  ASSUME IInv, NEW y \in Task, NEW m \in Task, kind[m] # "none", par[m] = y, NEW x \in Handle,
         Ends(y, x)
  PROVE  Ends(m, x)
<1>1. anc[m] = anc[y] \cup {y} BY DEF IInv, Shape
<1> QED BY <1>1 DEF Ends, Before

\* When nothing can move, the event of an access that has not fired belongs to one that
\* waits and that ends no later.
LEMMA UnfiredWaits ==
  ASSUME CInv, Settled, NEW y \in Task, HasAccess(y), Ev(y) \notin fired,
         NEW x \in Handle, Ends(y, x)
  PROVE  \E m \in Task : Waits(m) /\ Ends(m, x)
<1>0. IInv BY DEF CInv
<1>1. CASE kind[y] \in {"rw", "ro"}
  <2>1. st[y] # "done" /\ st[y] # "idle" /\ st[y] # "running"
    BY <1>0, <1>1 DEF IInv, Fired, Shape, Ev, Settled, CanComplete
  <2>2. st[y] = "waiting" BY <1>0, <2>1 DEF IInv, TypeOK
  <2> QED BY <2>2 DEF Waits
<1>2. CASE kind[y] \in {"store", "view"}
  <2>1. hst[y] # "none" /\ Rel(y) \notin fired /\ y \in Handle /\ y # Root
    BY <1>0, <1>2, TaskHandle DEF IInv, Shape, Ev
  <2>2. CASE hst[y] \in {"held", "dead"} BY <2>1, <2>2 DEF Waits
  <2>3. CASE hst[y] = "transit"
    <3>1. PICK m \in Task : st[m] = "waiting" /\ (m = y \/ (kind[m] = "move" /\ par[m] = y))
      BY <2>1, <2>3 DEF CInv, InTransit
    <3>2. Ends(m, x) BY <1>0, <3>1, HolderEnds
    <3> QED BY <3>1, <3>2 DEF Waits
  <2> QED BY <1>0, <2>1, <2>2, <2>3 DEF IInv, TypeOK
<1> QED BY <1>1, <1>2 DEF HasAccess

\* When nothing can move, whoever waits does so for another that waits and ends before it.
LEMMA WaitsForOther ==
  ASSUME CInv, Settled, NEW x \in Handle, Waits(x)
  PROVE  \E m \in Task : Waits(m) /\ Ends(m, x)
<1>0. IInv BY DEF CInv
<1>1. ASSUME NEW e, e \notin fired,
             e = Created \/ \E y \in Task : HasAccess(y) /\ Ev(y) = e /\ Ends(y, x)
      PROVE  \E m \in Task : Waits(m) /\ Ends(m, x)
  <2>1. e # Created BY <1>1 DEF Settled
  <2> QED BY <1>1, <2>1, UnfiredWaits
<1>2. ASSUME hst[x] # "none", NEW e \in Kept(x), e \notin fired
      PROVE  \E m \in Task : Waits(m) /\ Ends(m, x)
  BY <1>1, <1>2 DEF CInv, HandlesWaitBack, AwaitsEnding
<1>3. CASE x \in Task /\ st[x] = "waiting"
  <2>1. PICK e \in pre[x] : e \notin fired BY <1>3 DEF Settled, CanStart
  <2>2. kind[x] # "none" BY <1>0, <1>3 DEF IInv, Shape
  <2> QED BY <1>1, <1>3, <2>1, <2>2 DEF CInv, TasksWaitBack, AwaitsBefore, Ends
<1>4. CASE hst[x] = "held"
  <2>1. PICK e \in war[x] : e \notin fired BY <1>4 DEF Settled, CanDrop
  <2> QED BY <1>2, <1>4, <2>1 DEF Kept
<1>5. CASE hst[x] = "dead" /\ Rel(x) \notin fired /\ (x = Root => armed[x] # {})
  <2>1. PICK e \in armed[x] : e \notin fired BY <1>5 DEF Settled, CanFire
  <2> QED BY <1>2, <1>5, <2>1 DEF Kept
<1> QED BY <1>3, <1>4, <1>5 DEF Waits

\* Nobody that waits comes before h, and somebody that waits is below it.
First(h) ==
  /\ h = Root \/ kind[h] # "none"
  /\ \E x \in Task : Waits(x) /\ h \in anc[x]
  /\ \A x \in Task : Waits(x) => ~Before(x, h)

\* Whoever comes before a task was launched before it on the same handle, or is below such
\* a task, or comes before that handle.
LEMMA BeforeChild ==
  ASSUME IInv, NEW c \in Task, kind[c] # "none", NEW x \in Task, Before(x, c)
  PROVE  \/ Before(x, par[c])
         \/ \E a \in (anc[x] \cup {x}) \ {Root} : par[a] = par[c] /\ a < c
<1>1. PICK a \in (anc[x] \cup {x}) \ {Root}, b \in (anc[c] \cup {c}) \ {Root} :
        par[a] = par[b] /\ a < b
  BY DEF Before
<1>2. anc[c] = anc[par[c]] \cup {par[c]} BY DEF IInv, Shape
<1>3. CASE b = c BY <1>1, <1>3
<1>4. CASE b \in anc[c] BY <1>1, <1>2, <1>4 DEF Before
<1> QED BY <1>1, <1>3, <1>4

\* Every nonempty set of numbers of handles has a least and a greatest member.
LEMMA Extremes ==
  ASSUME NEW S \in SUBSET Handle, S # {}
  PROVE  /\ \E m \in S : \A n \in S : m <= n
         /\ \E m \in S : \A n \in S : n <= m
<1> DEFINE U == {i \in Nat : \E n \in S : i = NTasks - n}
<1>1. S \subseteq Nat /\ \A n \in S : NTasks - n \in Nat
  BY NTasksAssumption DEF Handle
<1>2. ASSUME NEW T \in SUBSET Nat, T # {} PROVE \E m \in T : \A n \in T : m <= n
  <2>1. PICK m \in T : \A n \in T : ~(<<n, m>> \in OpToRel(<, Nat))
    BY <1>2, NatLessThanWellFounded, WFMin
  <2>2. \A n \in T : ~(n < m) BY <2>1 DEF OpToRel
  <2> QED BY <2>2
<1>3. \E m \in S : \A n \in S : m <= n BY <1>1, <1>2
<1>4. U \in SUBSET Nat /\ U # {} BY <1>1
<1>5. PICK i \in U : \A j \in U : i <= j
  <2> HIDE DEF U
  <2> QED BY <1>2, <1>4
<1>6. PICK m \in S : i = NTasks - m BY <1>5
<1>7. ASSUME NEW n \in S PROVE n <= m
  <2>1. i <= NTasks - n BY <1>1, <1>5
  <2>2. n \in Nat /\ m \in Nat BY <1>1
  <2> QED BY <1>6, <2>1, <2>2, NTasksAssumption
<1> QED BY <1>3, <1>7

\* Of the tasks launched on such a handle, the first that waits or has somebody waiting
\* below it is such a handle again: it cannot wait itself, for nothing that waits ends
\* before it.
LEMMA FirstBelow ==
  ASSUME CInv, Settled, NEW h \in Handle, First(h)
  PROVE  \E c \in Task : h < c /\ First(c)
<1>0. IInv /\ TypeOK BY DEF CInv, IInv
<1> DEFINE Holds(c) == \E x \in Task : Waits(x) /\ c \in (anc[x] \cup {x}) \ {Root}
           S == {c \in Task : par[c] = h /\ kind[c] # "none" /\ Holds(c)}
<1>1. \A x \in Task : Waits(x) => kind[x] # "none"
  BY <1>0, TaskHandle DEF Waits, IInv, Shape
<1>2. S # {}
  <2>1. PICK x \in Task : Waits(x) /\ h \in anc[x] BY DEF First
  <2>2. h = par[x] \/ \E a \in anc[x] \cap Task : par[a] = h BY <1>0, <2>1 DEF IInv, Shape
  <2>3. \A a \in anc[x] : kind[a] # "none" BY <1>0 DEF IInv, Shape
  <2> QED BY <1>1, <2>1, <2>2, <2>3, TaskHandle
<1>3. PICK c \in S : \A a \in S : c <= a
  <2>1. S \in SUBSET Handle BY TaskHandle
  <2> HIDE DEF S
  <2> QED BY <1>2, <2>1, Extremes
<1>4. c \in Task /\ par[c] = h /\ kind[c] # "none" /\ c \in Handle BY <1>3, TaskHandle
<1>5. ASSUME NEW x \in Task, Waits(x) PROVE ~Before(x, c)
  <2>1. SUFFICES ASSUME Before(x, c) PROVE FALSE OBVIOUS
  <2>2. ~Before(x, h) BY <1>5 DEF First
  <2>3. PICK a \in (anc[x] \cup {x}) \ {Root} : par[a] = h /\ a < c
    BY <1>0, <1>4, <2>1, <2>2, BeforeChild
  <2>4. a \in Task /\ kind[a] # "none"
    BY <1>0, <1>1, <1>5, TaskHandle DEF IInv, Shape, TypeOK
  <2>5. a \in S BY <1>5, <2>3, <2>4
  <2> QED BY <1>3, <1>4, <2>3, <2>4, <2>5, TaskHandle
<1>6. \E x \in Task : Waits(x) /\ c \in anc[x]
  <2>1. PICK x \in Task : Waits(x) /\ c \in (anc[x] \cup {x}) \ {Root} BY <1>3
  <2>2. CASE x = c
    <3>1. PICK m \in Task : Waits(m) /\ Ends(m, c) BY <1>4, <2>1, <2>2, WaitsForOther
    <3> QED BY <1>5, <3>1 DEF Ends
  <2> QED BY <2>1, <2>2
<1>7. h < c BY <1>4 DEF CInv, Downward
<1> QED BY <1>4, <1>5, <1>6, <1>7 DEF First

\* When nothing can move any more, nobody waits.
LEMMA NobodyWaits ==
  ASSUME CInv, Settled, NEW x \in Handle, Waits(x)
  PROVE  FALSE
<1>0. IInv /\ TypeOK BY DEF CInv, IInv
<1> DEFINE S == {h \in Handle : First(h)}
<1>1. Root \in S
  <2>1. PICK m \in Task : Waits(m) /\ Ends(m, x) BY WaitsForOther
  <2>2. kind[m] # "none" BY <1>0, <2>1, TaskHandle DEF Waits, IInv, Shape
  <2>3. Root \in anc[m] /\ anc[Root] = {} BY <1>0, <2>2 DEF IInv, Shape
  <2>4. \A y \in Task : ~Before(y, Root) BY <2>3 DEF Before
  <2> QED BY <2>1, <2>3, <2>4, TaskHandle DEF First
<1>2. PICK h \in S : \A g \in S : g <= h
  <2>1. S \in SUBSET Handle /\ S # {} BY <1>1
  <2> HIDE DEF S
  <2> QED BY <2>1, Extremes
<1>3. PICK c \in Task : h < c /\ First(c) BY <1>2, FirstBelow
<1> QED BY <1>2, <1>3, TaskHandle, NTasksAssumption DEF Handle, Task

\* The safety half of WindsDown, for any number of tasks and for every program, with or
\* without the discipline of ReadersAlwaysFirst: the preconditions that child(), view(),
\* DoneAfter and the destructors of store.h and future.h leave behind never wait for each
\* other in a circle, so as long as a task or a handle is pending some task can start or
\* end, some handle can be destroyed or some event can trigger.
THEOREM NeverCircular == Spec => []NoCircle
<1>1. ASSUME CInv, Settled PROVE WoundDown
  <2>0. IInv /\ TypeOK BY <1>1 DEF CInv, IInv
  <2>1. \A x \in Handle : ~Waits(x) BY <1>1, NobodyWaits
  <2>2. ASSUME NEW t \in Task, t <= launched PROVE st[t] = "done"
    <3>1. st[t] # "idle" /\ st[t] # "running"
      BY <1>1, <2>0, <2>2 DEF IInv, Shape, Settled, CanComplete
    <3>2. st[t] # "waiting" BY <2>1, TaskHandle DEF Waits
    <3> QED BY <2>0, <3>1, <3>2 DEF TypeOK
  <2>3. ASSUME NEW h \in Handle, hst[h] # "none", h = Root => armed[h] # {}
        PROVE  Rel(h) \in fired
    <3>1. hst[h] # "transit" BY <1>1, <2>1, TaskHandle DEF CInv, InTransit, Waits
    <3>2. hst[h] # "held" BY <2>1 DEF Waits
    <3>3. hst[h] = "dead" BY <2>0, <2>3, <3>1, <3>2 DEF TypeOK
    <3> QED BY <2>1, <2>3, <3>3 DEF Waits
  <2> QED BY <2>2, <2>3 DEF WoundDown
<1>2. CInv => NoCircle BY <1>1 DEF NoCircle
<1>3. Spec => []CInv BY CInvInit, CInvStep, PTL DEF Spec
<1> QED BY <1>2, <1>3, PTL
=============================================================================
