---------------------------- MODULE FuturesProofs ----------------------------
(***************************************************************************)
(* Proofs about Futures, for every number of tasks and of arguments.       *)
(*                                                                         *)
(* The inductive invariant says, besides the types, which events can have  *)
(* triggered, what the events of a future stand for, what a waiting task   *)
(* waits for, who has a future or a view that is stored in arguments, and  *)
(* how many futures lead to one cell.  All but the types needs a program   *)
(* that releases no view before the value exists ("release"); what else    *)
(* the program must not do is in the statement that needs it.              *)
(***************************************************************************)
EXTENDS Futures, TLAPS, FiniteSetTheorems, FunctionTheorems

Moving == {"take", "future"}
Viewing == {"peek", "view"}

\* Tasks are launched in order, and nothing is known of one that was not.
Fresh ==
  \A t \in Task :
    /\ st[t] = "idle" <=> t > launched
    /\ st[t] = "idle" => /\ own[t] = Nowhere /\ vown[t] = Nowhere /\ war[t] = {}
                         /\ args[t] = {} /\ cell[t] = "unset" /\ inner[t] = NoCell
    /\ \A x \in args[t] : st[x[2]] # "idle"

\* An event that has triggered belongs to a task that is done, or was triggered with
\* events that have.
Fired ==
  /\ \A t \in Task : Done(t) \in fired <=> st[t] = "done"
  /\ \A e \in fired : \/ \E t \in Task : e = Done(t)
                     \/ \E u \in armed : u.event = e /\ u.after \subseteq fired

\* A deferred event waits for the readers of the value that was handed back, which
\* nobody owns any more.
Handed ==
  /\ \A t \in Task : inner[t] # NoCell =>
       /\ ret[t] = "future" /\ st[t] = "done"
       /\ ret[inner[t]] = "value" /\ st[inner[t]] # "idle" /\ own[inner[t]] = Nowhere
  /\ \A u \in armed, t \in Task : u.event = Deferred(t) =>
       /\ ret[t] = "future" /\ st[t] = "done"
       /\ inner[t] = NoCell => "nest" \in Uses
       /\ inner[t] # NoCell => u.after = Precondition(inner[t])

\* A view is released when the value exists, by whoever had it last.
Released ==
  \A u \in armed, f \in Task : u.event = Reader(f) =>
    /\ RawPrecondition(f) \subseteq fired
    /\ Reader(f) \in war[f] /\ vown[f] = Nowhere
    /\ \A t \in Task : <<"peek", f>> \in args[t] => st[t] = "done"

\* The readers of a future: the tasks that were given a view of it, and its open view.
Readers ==
  \A f \in Task :
    /\ \A e \in war[f] : e = Reader(f) \/ \E t \in Task : e = Done(t) /\ <<"copy", f>> \in args[t]
    /\ \A t \in Task : <<"copy", f>> \in args[t] => Done(t) \in war[f]
    /\ \A t \in Task : <<"peek", f>> \in args[t] => Reader(f) \in war[f]
    /\ vown[f] # Nowhere => Reader(f) \in war[f]
    /\ war[f] # {} /\ ret[f] = "future" => "peek" \in Uses

\* What a task waits for; the readers of a future it moves are all known.
Waits ==
  \A t \in Task :
    /\ \A x \in args[t] :
         /\ x[1] \notin Moving => RawPrecondition(x[2]) \subseteq pre[t]
         /\ x[1] \in Moving /\ st[t] = "waiting" => Precondition(x[2]) \subseteq pre[t]
    /\ st[t] \in {"running", "done"} => pre[t] \subseteq fired

\* A task is given a future once, and a view of it once.
Single ==
  \A t \in Task : \A x, y \in args[t] :
    x[2] = y[2] /\ (x[1] \in OfFuture <=> y[1] \in OfFuture) => x = y

\* Futures and views that are stored in the arguments of a task.
Moves(t, f) == st[t] = "waiting" /\ \E k \in Moving : <<k, f>> \in args[t]
Views(t, f) ==
  \/ st[t] = "waiting" /\ <<"view", f>> \in args[t]
  \/ st[t] \in {"waiting", "running"} /\ <<"peek", f>> \in args[t]
Stored ==
  \A t, f \in Task :
    /\ Moves(t, f) => own[f] = InArgs /\ \A s \in Task : Moves(s, f) => s = t
    /\ Views(t, f) => vown[f] = InArgs /\ \A s \in Task : Views(s, f) => s = t

\* A cell is filled when its task ends; one future leads to it, and none once the
\* value was taken, which is after everybody who reads it.
Cells ==
  \A c \in Task :
    /\ cell[c] # "unset" <=> ret[c] = "value" /\ st[c] = "done"
    /\ cell[c] = "moved" => war[c] \subseteq fired
    /\ \A f \in Task : own[f] # Nowhere /\ ValueCell(f) = c =>
         /\ cell[c] # "moved"
         /\ \A g \in Task : own[g] # Nowhere /\ ValueCell(g) = c => g = f

IInv ==
  /\ TypeOK /\ Fresh /\ Fired /\ Handed /\ Released
  /\ Readers /\ Waits /\ Single /\ Stored /\ Cells

-----------------------------------------------------------------------------
(***************************************************************************)
(* Tasks, arguments and events.                                            *)
(***************************************************************************)

\* Task numbers are natural numbers, apart from the markers for no owner.
LEMMA Domains ==
  /\ NTasks \in Nat /\ Task \subseteq Nat /\ 0 \notin Task /\ Nowhere \notin Actor
  /\ InArgs \notin Actor /\ InArgs # Nowhere /\ Actor = Task \cup {Main} /\ IsFiniteSet(Task)
<1>1. NTasks \in Nat BY NTasksAssumption
<1>2. IsFiniteSet(Task) BY <1>1, FS_Interval DEF Task
<1> QED BY <1>1, <1>2 DEF Task, Actor, Nowhere, InArgs, Main

\* The primitive events are all different.
LEMMA EventsDiffer ==
  \A t, f \in Task :
    /\ Done(t) # Reader(f) /\ Done(t) # Deferred(f) /\ Reader(t) # Deferred(f)
    /\ Done(t) = Done(f) <=> t = f
    /\ Reader(t) = Reader(f) <=> t = f
    /\ Deferred(t) = Deferred(f) <=> t = f
    /\ Done(t) \in Event /\ Reader(t) \in UserEvent /\ Deferred(t) \in UserEvent
BY DEF Done, Reader, Deferred, Event, UserEvent

\* An event is the completion of a task or a UserEvent.
LEMMA EventKinds ==
  /\ \A e \in Event : (\E t \in Task : e = Done(t)) \/ e \in UserEvent
  /\ UserEvent \subseteq Event
  /\ \A e \in UserEvent, t \in Task : e # Done(t)
BY EventsDiffer DEF Event, UserEvent

\* An argument is a pair of a kind and a task.
LEMMA Pairs ==
  /\ \A x \in Arg : x[1] \in ArgKind /\ x[2] \in Task /\ x = <<x[1], x[2]>>
  /\ \A k \in ArgKind, f \in Task : <<k, f>> \in Arg
BY DEF Arg

\* The futures that a set of arguments names in one of several ways.
Named(K, A) == {f \in Task : \E k \in K : <<k, f>> \in A}

\* The futures that a set of arguments names, without the pairs.
LEMMA NamedAs ==
  ASSUME NEW A \in SUBSET Arg, NEW K
  PROVE  {x[2] : x \in {y \in A : y[1] \in K}} = Named(K, A)
<1>1. \A x \in A : x[2] \in Task /\ x = <<x[1], x[2]>> BY Pairs
<1> QED BY <1>1 DEF Named

\* A set of arguments of one kind that names as many futures as it has members names
\* each once.
LEMMA NamedOnce ==
  ASSUME NEW B \in SUBSET Arg, IsFiniteSet(B), NEW F, F = {x[2] : x \in B}
  PROVE  /\ IsFiniteSet(F) /\ Cardinality(F) \in Nat /\ Cardinality(B) \in Nat
         /\ Cardinality(F) <= Cardinality(B)
         /\ Cardinality(F) = Cardinality(B) => \A x, y \in B : x[2] = y[2] => x = y
<1> DEFINE g == [x \in B |-> x[2]]
<1>1. g \in Surjection(B, F) BY DEF Surjection
<1>2. /\ IsFiniteSet(F) /\ Cardinality(F) <= Cardinality(B)
      /\ Cardinality(F) = Cardinality(B) <=> g \in Injection(B, F)
  BY <1>1, FS_Surjection
<1>3. Cardinality(F) \in Nat /\ Cardinality(B) \in Nat BY <1>2, FS_CardinalityType
<1>4. g \in Injection(B, F) => \A x, y \in B : x[2] = y[2] => x = y BY DEF Injection, IsInjective
<1> QED BY <1>2, <1>3, <1>4

\* The guard of a launch counts the arguments: none names a future or view twice.
LEMMA GivenOnce ==
  ASSUME NEW A \in SUBSET Arg,
         Cardinality(Named(OfFuture, A)) + Cardinality(Named(Viewing, A)) = Cardinality(A)
  PROVE  \A x, y \in A : x[2] = y[2] /\ (x[1] \in OfFuture <=> y[1] \in OfFuture) => x = y
<1> DEFINE G == {y \in A : y[1] \in OfFuture}
           V == {y \in A : y[1] \in Viewing}
<1>1. IsFiniteSet(A)
  <2>1. IsFiniteSet(ArgKind)
    <3>1. \A x, y : IsFiniteSet({x} \cup {y}) BY FS_Singleton, FS_Union
    <3>2. IsFiniteSet(({"copy"} \cup {"take"}) \cup ({"peek"} \cup {"future"})) BY <3>1, FS_Union
    <3>3. ArgKind = (({"copy"} \cup {"take"}) \cup ({"peek"} \cup {"future"})) \cup {"view"}
      BY DEF ArgKind
    <3> QED BY <3>2, <3>3, FS_AddElement
  <2> QED BY <2>1, Domains, FS_Product, FS_Subset DEF Arg
<1>2. /\ G \in SUBSET Arg /\ V \in SUBSET Arg /\ IsFiniteSet(G) /\ IsFiniteSet(V)
      /\ G \cap V = {} /\ A = G \cup V
  <2>1. \A x \in A : x[1] \in ArgKind BY Pairs
  <2>2. A = G \cup V /\ G \cap V = {} BY <2>1 DEF ArgKind, OfFuture, Viewing
  <2> QED BY <1>1, <2>2, FS_Subset
<1>3. Named(OfFuture, A) = {x[2] : x \in G} /\ Named(Viewing, A) = {x[2] : x \in V} BY NamedAs
<1>4. /\ Cardinality(Named(OfFuture, A)) \in Nat /\ Cardinality(G) \in Nat
      /\ Cardinality(Named(OfFuture, A)) <= Cardinality(G)
      /\ Cardinality(Named(OfFuture, A)) = Cardinality(G) =>
           \A x, y \in G : x[2] = y[2] => x = y
  BY <1>2, <1>3, NamedOnce
<1>5. /\ Cardinality(Named(Viewing, A)) \in Nat /\ Cardinality(V) \in Nat
      /\ Cardinality(Named(Viewing, A)) <= Cardinality(V)
      /\ Cardinality(Named(Viewing, A)) = Cardinality(V) =>
           \A x, y \in V : x[2] = y[2] => x = y
  BY <1>2, <1>3, NamedOnce
<1> HIDE DEF G, V
<1>6. Cardinality(A) = Cardinality(G) + Cardinality(V)
  <2>1. Cardinality(G \cup V) = Cardinality(G) + Cardinality(V) - Cardinality(G \cap V)
    BY <1>2, FS_Union
  <2>2. Cardinality(G \cap V) = 0 BY <1>2, FS_EmptySet, Zenon
  <2>3. Cardinality(G \cup V) = Cardinality(A) BY <1>2, Zenon
  <2> QED BY <1>4, <1>5, <2>1, <2>2, <2>3
<1>7. /\ \A x, y \in G : x[2] = y[2] => x = y
      /\ \A x, y \in V : x[2] = y[2] => x = y
  BY <1>4, <1>5, <1>6
<1> QED BY <1>2, <1>7 DEF G, V

\* What a future waits for is a set of events, and its value is behind at least one.
LEMMA PreconditionType ==
  ASSUME TypeOK, NEW f \in Task
  PROVE  /\ RawPrecondition(f) \in SUBSET Event /\ Precondition(f) \in SUBSET Event
         /\ RawPrecondition(f) # {}
BY EventsDiffer, EventKinds DEF TypeOK, RawPrecondition, Precondition

-----------------------------------------------------------------------------
(***************************************************************************)
(* What a launch does, argument by argument.                               *)
(***************************************************************************)

Launches(a, t, r, A) ==
  /\ t \in Task /\ launched < NTasks /\ t = launched + 1 /\ launched' = t
  /\ \A f \in Named(OfFuture, A) : own[f] = a
  /\ \A f \in Named(Viewing, A) : vown[f] = a
  /\ \A x, y \in A : x[2] = y[2] /\ (x[1] \in OfFuture <=> y[1] \in OfFuture) => x = y
  /\ \A f \in Named({"copy"}, A) : ret[f] = "future" => "peek" \in Uses
  /\ ret' = [ret EXCEPT ![t] = r]
  /\ args' = [args EXCEPT ![t] = A]
  /\ st' = [st EXCEPT ![t] = "waiting"]
  /\ pre' = [pre EXCEPT ![t] = UNION {ArgPrecondition(x) : x \in A}]
  /\ own' = [f \in Task |-> IF f = t THEN a
                            ELSE IF f \in Named(Moving, A) THEN InArgs ELSE own[f]]
  /\ vown' = [f \in Task |-> IF f \in Named(Viewing, A) THEN InArgs ELSE vown[f]]
  /\ war' = [f \in Task |-> IF f \in Named({"copy"}, A) THEN war[f] \cup {Done(t)} ELSE war[f]]
  /\ UNCHANGED <<cell, inner, armed, fired, missed>>

\* What a launch does, argument kind by argument kind.
LEMMA LaunchEffect ==
  ASSUME TypeOK, NEW a \in Actor, NEW t, NEW r \in {"value", "future"},
         NEW A \in SUBSET Held(a), Launch(a, t, r, A)
  PROVE  A \in SUBSET Arg /\ Launches(a, t, r, A)
<1>1. A \in SUBSET Arg BY DEF Held
<1> DEFINE given == {x[2] : x \in {y \in A : y[1] \in OfFuture}}
           moved == {x[2] : x \in {y \in A : y[1] \in {"take", "future"}}}
           copied == {x[2] : x \in {y \in A : y[1] = "copy"}}
           viewed == {x[2] : x \in {y \in A : y[1] \in {"peek", "view"}}}
<1>2. /\ given = Named(OfFuture, A) /\ moved = Named(Moving, A)
      /\ copied = Named({"copy"}, A) /\ viewed = Named(Viewing, A)
  <2>1. {y \in A : y[1] = "copy"} = {y \in A : y[1] \in {"copy"}} OBVIOUS
  <2>2. copied = Named({"copy"}, A) BY <1>1, <2>1, NamedAs
  <2> QED BY <1>1, <2>2, NamedAs DEF Moving, Viewing
<1>3. /\ launched < NTasks /\ t = launched + 1 /\ launched' = t
      /\ Cardinality(given) + Cardinality(viewed) = Cardinality(A)
      /\ \A f \in copied : ret[f] = "future" => "peek" \in Uses
      /\ ret' = [ret EXCEPT ![t] = r]
      /\ args' = [args EXCEPT ![t] = A]
      /\ st' = [st EXCEPT ![t] = "waiting"]
      /\ pre' = [pre EXCEPT ![t] = UNION {ArgPrecondition(x) : x \in A}]
      /\ own' = [f \in Task |-> IF f = t THEN a ELSE IF f \in moved THEN InArgs ELSE own[f]]
      /\ vown' = [f \in Task |-> IF f \in viewed THEN InArgs ELSE vown[f]]
      /\ war' = [f \in Task |-> IF f \in copied THEN war[f] \cup {Done(t)} ELSE war[f]]
      /\ UNCHANGED <<cell, inner, armed, fired, missed>>
  BY Zenon DEF Launch
<1> HIDE DEF given, moved, copied, viewed
<1>4. \A f \in Named(OfFuture, A) : own[f] = a BY DEF Named, Held, Arg
<1>5. \A f \in Named(Viewing, A) : vown[f] = a
  BY DEF Named, Held, Arg, Viewing, OfFuture
<1>6. \A x, y \in A : x[2] = y[2] /\ (x[1] \in OfFuture <=> y[1] \in OfFuture) => x = y
  BY <1>1, <1>2, <1>3, GivenOnce
<1>7. t \in Task BY <1>3, Domains DEF TypeOK, Task
<1>8. /\ own' = [f \in Task |-> IF f = t THEN a
                                ELSE IF f \in Named(Moving, A) THEN InArgs ELSE own[f]]
      /\ vown' = [f \in Task |-> IF f \in Named(Viewing, A) THEN InArgs ELSE vown[f]]
      /\ war' = [f \in Task |-> IF f \in Named({"copy"}, A) THEN war[f] \cup {Done(t)} ELSE war[f]]
      /\ \A f \in Named({"copy"}, A) : ret[f] = "future" => "peek" \in Uses
  BY <1>2, <1>3, Zenon
<1> QED BY <1>1, <1>3, <1>4, <1>5, <1>6, <1>7, <1>8 DEF Launches

\* The disjuncts of Next, with Launches for a launch.
LEMMA Steps ==
  ASSUME TypeOK, [Next]_vars
  PROVE  \/ \E a \in Actor, t \in Task, r \in {"value", "future"}, A \in SUBSET Arg :
              Launches(a, t, r, A)
         \/ \E a \in Actor, f \in Task : MakeView(a, f) \/ DropView(a, f) \/ WaitAndGet(a, f)
         \/ \E t \in Task : Start(t) \/ ReturnValue(t)
         \/ \E t, f \in Task : ReturnFuture(t, f)
         \/ \E u \in armed : Fire(u)
         \/ UNCHANGED vars
<1>1. ASSUME NEW a \in Actor, LaunchSome(a)
      PROVE  \E t \in Task, r \in {"value", "future"}, A \in SUBSET Arg : Launches(a, t, r, A)
  <2>1. PICK A \in SUBSET Held(a), r \in {"value", "future"} : Launch(a, launched + 1, r, A)
    BY <1>1 DEF LaunchSome
  <2>2. A \in SUBSET Arg /\ Launches(a, launched + 1, r, A) BY <2>1, LaunchEffect
  <2>3. launched + 1 \in Task BY <2>2 DEF Launches
  <2> QED BY <2>2, <2>3
<1> QED BY <1>1, Zenon DEF Next, Terminated

\* The types hold at the start.
LEMMA TypeInit == Init => TypeOK
BY Domains DEF Init, TypeOK, Arg, Event, Actor, Task, NoCell

\* Every step keeps the types, whatever the program does.
LEMMA TypeStep == ASSUME TypeOK, [Next]_vars PROVE TypeOK'
<1>1. ASSUME NEW a \in Actor, NEW t \in Task, NEW r \in {"value", "future"},
             NEW A \in SUBSET Arg, Launches(a, t, r, A)
      PROVE  TypeOK'
  <2>1. launched' \in 0 .. NTasks BY <1>1, Domains DEF Launches, Task
  <2>2. UNION {ArgPrecondition(x) : x \in A} \in SUBSET Event
    <3>1. \A x \in A : ArgPrecondition(x) \in SUBSET Event
      BY Pairs, PreconditionType DEF ArgPrecondition
    <3> QED BY <3>1
  <2>3. pre' \in [Task -> SUBSET Event] BY <1>1, <2>2 DEF Launches, TypeOK
  <2>4. /\ own' \in [Task -> Actor \cup {Nowhere, InArgs}]
        /\ vown' \in [Task -> Actor \cup {Nowhere, InArgs}]
    BY <1>1 DEF Launches, TypeOK
  <2>5. war' \in [Task -> SUBSET Event] BY <1>1, EventsDiffer DEF Launches, TypeOK
  <2>6. /\ ret' \in [Task -> {"value", "future"}] /\ args' \in [Task -> SUBSET Arg]
        /\ st' \in [Task -> {"idle", "waiting", "running", "done"}]
    BY <1>1 DEF Launches, TypeOK
  <2> QED BY <1>1, <2>1, <2>3, <2>4, <2>5, <2>6 DEF Launches, TypeOK
<1>2. ASSUME NEW a \in Actor, NEW f \in Task, MakeView(a, f) PROVE TypeOK'
  <2>1. war' \in [Task -> SUBSET Event] /\ vown' \in [Task -> Actor \cup {Nowhere, InArgs}]
    BY <1>2, EventsDiffer, EventKinds DEF MakeView, TypeOK
  <2> QED BY <1>2, <2>1 DEF MakeView, TypeOK, taskVars
<1>3. ASSUME NEW a \in Actor, NEW f \in Task, DropView(a, f) PROVE TypeOK'
  <2>1. armed' \subseteq [event : UserEvent, after : SUBSET Event]
    BY <1>3, EventsDiffer DEF DropView, TypeOK
  <2> QED BY <1>3, <2>1 DEF DropView, TypeOK, taskVars
<1>4. ASSUME NEW a \in Actor, NEW f \in Task, WaitAndGet(a, f) PROVE TypeOK'
  BY <1>4 DEF WaitAndGet, TypeOK, taskVars
<1>5. ASSUME NEW t \in Task, Start(t) PROVE TypeOK'
  <2>1. /\ cell' \in [Task -> {"unset", "set", "moved"}]
        /\ own' \in [Task -> Actor \cup {Nowhere, InArgs}]
        /\ vown' \in [Task -> Actor \cup {Nowhere, InArgs}]
        /\ missed' \subseteq Actor
    BY <1>5, Domains DEF Start, TypeOK
  <2>2. st' \in [Task -> {"idle", "waiting", "running", "done"}] BY <1>5 DEF Start, TypeOK
  <2> QED BY <1>5, <2>1, <2>2 DEF Start, TypeOK
<1>6. ASSUME NEW t \in Task, Leave(t)
      PROVE  /\ st' \in [Task -> {"idle", "waiting", "running", "done"}]
             /\ own' \in [Task -> Actor \cup {Nowhere, InArgs}]
             /\ vown' \in [Task -> Actor \cup {Nowhere, InArgs}]
             /\ fired' \subseteq Event
             /\ Releases(t) \subseteq [event : UserEvent, after : SUBSET Event]
  <2>1. /\ st' \in [Task -> {"idle", "waiting", "running", "done"}]
        /\ own' \in [Task -> Actor \cup {Nowhere, InArgs}]
        /\ vown' \in [Task -> Actor \cup {Nowhere, InArgs}]
    BY <1>6 DEF Leave, TypeOK
  <2>2. fired' \subseteq Event BY <1>6, EventsDiffer DEF Leave, TypeOK
  <2>3. Releases(t) \subseteq [event : UserEvent, after : SUBSET Event]
    <3>1. \A f \in Task : [event |-> Reader(f), after |-> {}] \in [event : UserEvent, after : SUBSET Event]
      BY EventsDiffer
    <3>2. LastViews(t) \subseteq Task BY DEF LastViews
    <3> QED BY <3>1, <3>2, Zenon DEF Releases
  <2> QED BY <2>1, <2>2, <2>3
<1>7. ASSUME NEW t \in Task, ReturnValue(t) PROVE TypeOK'
  <2>1. cell' \in [Task -> {"unset", "set", "moved"}] BY <1>7 DEF ReturnValue, TypeOK
  <2> QED BY <1>6, <1>7, <2>1 DEF ReturnValue, Leave, TypeOK
<1>8. ASSUME NEW t \in Task, NEW f \in Task, ReturnFuture(t, f) PROVE TypeOK'
  <2>1. inner' \in [Task -> Task \cup {NoCell}] BY <1>8 DEF ReturnFuture, TypeOK
  <2>2. Leave(t) BY <1>8 DEF ReturnFuture
  <2>3. [event |-> Deferred(t), after |-> Precondition(f)] \in [event : UserEvent, after : SUBSET Event]
    BY EventsDiffer, PreconditionType
  <2>4. armed' \subseteq [event : UserEvent, after : SUBSET Event]
    BY <1>6, <1>8, <2>2, <2>3 DEF ReturnFuture, TypeOK
  <2> QED BY <1>6, <1>8, <2>1, <2>2, <2>4 DEF ReturnFuture, Leave, TypeOK
<1>9. ASSUME NEW u \in armed, Fire(u) PROVE TypeOK'
  <2>1. u.event \in Event BY EventKinds DEF TypeOK
  <2> QED BY <1>9, <2>1 DEF Fire, TypeOK, taskVars
<1>10. CASE UNCHANGED vars BY <1>10 DEF vars, taskVars, TypeOK
<1> QED BY <1>1, <1>2, <1>3, <1>4, <1>5, <1>7, <1>8, <1>9, <1>10, Steps

\* Every variable stays in its domain.
THEOREM TypeCorrect == Spec => []TypeOK
<1> QED BY TypeInit, TypeStep, PTL DEF Spec

-----------------------------------------------------------------------------
(***************************************************************************)
(* What the invariant says of events.                                      *)
(***************************************************************************)

\* A UserEvent that has triggered was triggered with events that have.
LEMMA FiredUser ==
  ASSUME IInv, NEW e \in UserEvent, e \in fired
  PROVE  \E u \in armed : u.event = e /\ u.after \subseteq fired
BY EventKinds DEF IInv, Fired

\* When the readers of a future are over, its value exists.
LEMMA ReadersFollowValue ==
  ASSUME IInv, NEW f \in Task, war[f] # {}, war[f] \subseteq fired
  PROVE  RawPrecondition(f) \subseteq fired
<1>1. PICK e \in war[f] : TRUE OBVIOUS
<1>2. CASE e = Reader(f)
  <2>1. PICK u \in armed : u.event = Reader(f) BY <1>2, FiredUser, EventsDiffer
  <2> QED BY <2>1 DEF IInv, Released
<1>3. CASE \E t \in Task : e = Done(t) /\ <<"copy", f>> \in args[t]
  <2>1. PICK t \in Task : e = Done(t) /\ <<"copy", f>> \in args[t] BY <1>3
  <2>2. st[t] = "done" BY <2>1 DEF IInv, Fired
  <2>3. pre[t] \subseteq fired BY <2>2 DEF IInv, Waits
  <2>4. RawPrecondition(<<"copy", f>>[2]) \subseteq pre[t]
    <3>1. <<"copy", f>>[1] \notin Moving BY DEF Moving
    <3> QED BY <2>1, <3>1 DEF IInv, Waits
  <2> QED BY <2>3, <2>4
<1> QED BY <1>2, <1>3 DEF IInv, Readers

\* Whoever waits for the readers of a future waits for its value too.
LEMMA PreconditionStronger ==
  ASSUME IInv, NEW f \in Task, Precondition(f) \subseteq fired
  PROVE  RawPrecondition(f) \subseteq fired /\ war[f] \subseteq fired
BY ReadersFollowValue DEF Precondition

\* The cell that a future leads to is filled when the event of the future has
\* triggered; one that was handed back has no readers left.
LEMMA CellFilled ==
  ASSUME IInv, NEW f \in Task, RawPrecondition(f) \subseteq fired, ValueCell(f) # NoCell
  PROVE  /\ ValueCell(f) \in Task
         /\ ret[ValueCell(f)] = "value" /\ st[ValueCell(f)] = "done"
         /\ cell[ValueCell(f)] # "unset"
         /\ ret[f] = "future" => war[ValueCell(f)] \subseteq fired
<1>1. TypeOK /\ ret[f] \in {"value", "future"} BY DEF IInv, TypeOK
<1>2. CASE ret[f] = "value"
  <2>1. ValueCell(f) = f /\ Done(f) \in fired BY <1>2 DEF ValueCell, RawPrecondition
  <2>2. st[f] = "done" BY <2>1 DEF IInv, Fired
  <2> QED BY <1>2, <2>1, <2>2 DEF IInv, Cells
<1>3. CASE ret[f] = "future"
  <2>1. ValueCell(f) = inner[f] /\ Deferred(f) \in fired
    BY <1>3 DEF ValueCell, RawPrecondition
  <2>2. PICK u \in armed : u.event = Deferred(f) /\ u.after \subseteq fired
    BY <2>1, FiredUser, EventsDiffer
  <2>3. inner[f] \in Task BY <1>1, <2>1 DEF TypeOK
  <2>4. u.after = Precondition(inner[f]) /\ ret[inner[f]] = "value"
    BY <2>1, <2>2 DEF IInv, Handed
  <2>5. RawPrecondition(inner[f]) \subseteq fired /\ war[inner[f]] \subseteq fired
    BY <2>2, <2>3, <2>4, PreconditionStronger
  <2>6. st[inner[f]] = "done" BY <2>3, <2>4, <2>5 DEF IInv, Fired, RawPrecondition
  <2> QED BY <2>1, <2>3, <2>4, <2>5, <2>6 DEF IInv, Cells
<1> QED BY <1>1, <1>2, <1>3

\* Whoever reads a value that was taken is done.
LEMMA MovedMeansRead ==
  ASSUME IInv, NEW c \in Task, cell[c] = "moved", NEW t \in Task,
         <<"copy", c>> \in args[t] \/ <<"peek", c>> \in args[t]
  PROVE  st[t] = "done"
<1>1. war[c] \subseteq fired BY DEF IInv, Cells
<1>2. CASE <<"copy", c>> \in args[t]
  <2>1. Done(t) \in fired BY <1>1, <1>2 DEF IInv, Readers
  <2> QED BY <2>1 DEF IInv, Fired
<1>3. CASE <<"peek", c>> \in args[t]
  <2>1. Reader(c) \in fired BY <1>1, <1>3 DEF IInv, Readers
  <2>2. PICK u \in armed : u.event = Reader(c) BY <2>1, FiredUser, EventsDiffer
  <2> QED BY <1>3, <2>2 DEF IInv, Released
<1> QED BY <1>2, <1>3

\* Nobody owns a future whose value was taken.
LEMMA MovedMeansGone ==
  ASSUME IInv, NEW c \in Task, cell[c] = "moved"
  PROVE  ret[c] = "value" /\ own[c] = Nowhere
<1>1. ret[c] = "value" BY DEF IInv, Cells
<1>2. ValueCell(c) = c BY <1>1 DEF ValueCell
<1> QED BY <1>1, <1>2 DEF IInv, Cells

-----------------------------------------------------------------------------
(***************************************************************************)
(* A launch keeps the invariant.                                           *)
(***************************************************************************)
LEMMA LaunchKeeps ==
  ASSUME IInv, TypeOK', NEW a \in Actor, NEW t \in Task, NEW r \in {"value", "future"},
         NEW A \in SUBSET Arg, Launches(a, t, r, A)
  PROVE  IInv'
<1>1. /\ TypeOK /\ launched \in Nat /\ a # Nowhere /\ a # InArgs /\ InArgs # Nowhere
      /\ \A s \in Task : s \in Nat /\ s # NoCell
  BY Domains DEF IInv, TypeOK, NoCell
<1>2. /\ st[t] = "idle" /\ own[t] = Nowhere /\ vown[t] = Nowhere /\ war[t] = {} /\ args[t] = {}
      /\ cell[t] = "unset" /\ inner[t] = NoCell
  <2>1. t > launched BY <1>1 DEF Launches
  <2> QED BY <2>1 DEF IInv, Fresh
<1>3. \A f \in Task : /\ f \in Named({"copy"}, A) <=> <<"copy", f>> \in A
                      /\ f \in Named(Moving, A) <=> <<"take", f>> \in A \/ <<"future", f>> \in A
                      /\ f \in Named(Viewing, A) <=> <<"peek", f>> \in A \/ <<"view", f>> \in A
                      /\ f \in Named({"copy"}, A) \/ f \in Named(Moving, A) => own[f] = a
                      /\ f \in Named(Viewing, A) => vown[f] = a
  BY DEF Launches, Named, Moving, Viewing, OfFuture
<1>4. /\ t \notin Named({"copy"}, A) /\ t \notin Named(Moving, A) /\ t \notin Named(Viewing, A)
      /\ \A f \in Task : f \in Named({"copy"}, A) => f \notin Named(Moving, A)
  <2>1. \A f \in Task, k \in Moving : <<k, f>> \in A => <<"copy", f>> \notin A
    <3> SUFFICES ASSUME NEW f \in Task, NEW k \in Moving, <<k, f>> \in A, <<"copy", f>> \in A
                 PROVE  FALSE
      OBVIOUS
    <3>1. <<k, f>>[2] = <<"copy", f>>[2] /\ <<k, f>>[1] \in OfFuture /\ <<"copy", f>>[1] \in OfFuture
      BY DEF Moving, OfFuture
    <3>2. <<k, f>> = <<"copy", f>> BY <3>1 DEF Launches
    <3> QED BY <3>2 DEF Moving
  <2> QED BY <1>1, <1>2, <1>3, <2>1 DEF Moving
<1>5. \A x \in A : x = <<x[1], x[2]>> /\ x[1] \in ArgKind /\ x[2] \in Task BY Pairs
<1>6. \A f \in Task :
        /\ f # t /\ f \in Named(Moving, A) => own'[f] = InArgs
        /\ f # t /\ f \notin Named(Moving, A) => own'[f] = own[f]
        /\ f \in Named(Viewing, A) => vown'[f] = InArgs
        /\ f \notin Named(Viewing, A) => vown'[f] = vown[f]
        /\ f \in Named({"copy"}, A) => war'[f] = war[f] \cup {Done(t)}
        /\ f \notin Named({"copy"}, A) => war'[f] = war[f]
        /\ f # t => /\ ret'[f] = ret[f] /\ args'[f] = args[f] /\ st'[f] = st[f]
                    /\ pre'[f] = pre[f]
  BY <1>1 DEF Launches, TypeOK
<1>7. /\ ret'[t] = r /\ args'[t] = A /\ st'[t] = "waiting" /\ own'[t] = a
      /\ pre'[t] = UNION {ArgPrecondition(x) : x \in A}
      /\ launched' = t /\ t = launched + 1
      /\ cell' = cell /\ inner' = inner /\ armed' = armed /\ fired' = fired
  BY <1>1 DEF Launches, TypeOK
<1>8. \A s \in Task : /\ inner[s] # t
                      /\ \A x \in args[s] : x[2] # t /\ x[2] \in Task /\ x = <<x[1], x[2]>>
  <2>1. \A s \in Task : inner[s] # NoCell => st[inner[s]] # "idle" BY DEF IInv, Handed
  <2>2. \A s \in Task : \A x \in args[s] : st[x[2]] # "idle" /\ x \in Arg
    BY <1>1 DEF IInv, Fresh, TypeOK
  <2> QED BY <1>1, <1>2, <2>1, <2>2, Pairs
<1>9. \A f \in Task : f # t =>
        /\ RawPrecondition(f)' = RawPrecondition(f) /\ ValueCell(f)' = ValueCell(f)
        /\ f \notin Named({"copy"}, A) => Precondition(f)' = Precondition(f)
  BY <1>6, <1>7 DEF RawPrecondition, ValueCell, Precondition
<1> HIDE DEF Launches
<1>10. Fresh'
  <2>1. ASSUME NEW x \in A PROVE st[x[2]] # "idle"
    <3>1. x[1] \in OfFuture \/ x[1] \in Viewing BY <1>5 DEF ArgKind, OfFuture, Viewing
    <3>2. x[2] \in Task /\ <<x[1], x[2]>> \in A BY <1>5
    <3>3. own[x[2]] = a \/ vown[x[2]] = a
      BY <1>3, <1>5, <3>1, <3>2 DEF OfFuture, Viewing
    <3> QED BY <1>1, <3>2, <3>3 DEF IInv, Fresh
  <2>2. ASSUME NEW s \in Task PROVE st'[s] = "idle" <=> s > launched'
    <3>1. s \in Nat /\ launched \in Nat /\ launched' = launched + 1 /\ t = launched + 1
      BY <1>1, <1>7
    <3>2. st[s] = "idle" <=> s > launched BY DEF IInv, Fresh
    <3>3. s > launched' <=> s # t /\ s > launched BY <3>1
    <3> QED BY <1>6, <1>7, <3>2, <3>3
  <2>3. \A s \in Task : st'[s] = "idle" => s # t /\ st[s] = "idle" BY <1>6, <1>7
  <2>4. \A s \in Task : st[s] = "idle" =>
          /\ s \notin Named(Moving, A) /\ s \notin Named(Viewing, A) /\ s \notin Named({"copy"}, A)
    BY <1>1, <1>3 DEF IInv, Fresh
  <2>5. \A s \in Task : st'[s] = "idle" =>
          /\ own'[s] = Nowhere /\ vown'[s] = Nowhere /\ war'[s] = {}
          /\ args'[s] = {} /\ cell'[s] = "unset" /\ inner'[s] = NoCell
    BY <1>6, <1>7, <2>3, <2>4 DEF IInv, Fresh
  <2>6. \A s \in Task : \A x \in args'[s] : st[x[2]] # "idle" /\ x[2] \in Task
    BY <1>5, <1>6, <1>7, <1>8, <2>1 DEF IInv, Fresh
  <2>7. \A s \in Task : \A x \in args'[s] : st'[x[2]] # "idle" BY <1>6, <1>7, <2>6
  <2> QED BY <2>2, <2>5, <2>7 DEF Fresh
<1>11. Fired'
  <2>1. \A s \in Task : st'[s] = "done" <=> st[s] = "done" BY <1>2, <1>6, <1>7
  <2> QED BY <1>7, <2>1 DEF IInv, Fired
<1>12. Handed'
  <2>1. \A s \in Task : inner[s] # NoCell =>
          /\ s # t /\ inner[s] \in Task /\ inner[s] # t /\ own[inner[s]] = Nowhere
    BY <1>1, <1>2, <1>8 DEF IInv, Handed, TypeOK
  <2>2. \A s \in Task : inner[s] # NoCell =>
          /\ inner[s] \notin Named({"copy"}, A) /\ inner[s] \notin Named(Moving, A)
    BY <1>1, <1>3, <2>1
  <2>3. ASSUME NEW s \in Task, inner'[s] # NoCell
        PROVE  /\ ret'[s] = "future" /\ st'[s] = "done" /\ ret'[inner'[s]] = "value"
               /\ st'[inner'[s]] # "idle" /\ own'[inner'[s]] = Nowhere
    <3> DEFINE c == inner[s]
    <3>1. /\ inner'[s] = c /\ c # NoCell /\ s # t /\ c \in Task /\ c # t
          /\ c \notin Named(Moving, A)
      BY <1>7, <2>1, <2>2, <2>3
    <3>2. /\ ret[s] = "future" /\ st[s] = "done" /\ ret[c] = "value"
          /\ st[c] # "idle" /\ own[c] = Nowhere
      BY <3>1 DEF IInv, Handed
    <3> HIDE DEF c
    <3> QED BY <1>6, <3>1, <3>2
  <2>4. \A u \in armed, s \in Task : u.event = Deferred(s) => s # t
    BY <1>2 DEF IInv, Handed
  <2>5. \A s \in Task : inner[s] # NoCell => Precondition(inner[s])' = Precondition(inner[s])
    BY <1>7, <1>9, <2>1, <2>2 DEF Precondition, RawPrecondition
  <2>6. ASSUME NEW u \in armed', NEW s \in Task, u.event = Deferred(s)
        PROVE  /\ ret'[s] = "future" /\ st'[s] = "done"
               /\ inner'[s] = NoCell => "nest" \in Uses
               /\ inner'[s] # NoCell => u.after = Precondition(inner[s])'
    <3>1. u \in armed /\ s # t /\ inner'[s] = inner[s] BY <1>7, <2>4, <2>6
    <3>2. /\ ret[s] = "future" /\ st[s] = "done"
          /\ inner[s] = NoCell => "nest" \in Uses
          /\ inner[s] # NoCell => u.after = Precondition(inner[s])
      BY <2>6, <3>1 DEF IInv, Handed
    <3> QED BY <1>6, <2>5, <3>1, <3>2
  <2> QED BY <2>3, <2>6 DEF Handed
<1>13. Released'
  <2> SUFFICES ASSUME NEW u \in armed', NEW f \in Task, u.event = Reader(f)
               PROVE  /\ (RawPrecondition(f) \subseteq fired)'
                      /\ Reader(f) \in war'[f] /\ vown'[f] = Nowhere
                      /\ \A s \in Task : <<"peek", f>> \in args'[s] => st'[s] = "done"
    BY DEF Released
  <2>1. /\ RawPrecondition(f) \subseteq fired /\ Reader(f) \in war[f] /\ vown[f] = Nowhere
        /\ \A s \in Task : <<"peek", f>> \in args[s] => st[s] = "done"
    BY <1>7 DEF IInv, Released
  <2>2. f # t BY <1>2, <2>1
  <2>3. f \notin Named(Viewing, A) BY <1>1, <1>3, <2>1
  <2>4. \A s \in Task : <<"peek", f>> \in args'[s] => s # t BY <1>3, <1>7, <2>3
  <2> QED BY <1>6, <1>7, <1>9, <2>1, <2>2, <2>3, <2>4
<1>14. Readers'
  <2> SUFFICES ASSUME NEW f \in Task
               PROVE  /\ \A e \in war'[f] : e = Reader(f) \/ \E s \in Task : e = Done(s) /\ <<"copy", f>> \in args'[s]
                      /\ \A s \in Task : <<"copy", f>> \in args'[s] => Done(s) \in war'[f]
                      /\ \A s \in Task : <<"peek", f>> \in args'[s] => Reader(f) \in war'[f]
                      /\ vown'[f] # Nowhere => Reader(f) \in war'[f]
                      /\ war'[f] # {} /\ ret'[f] = "future" => "peek" \in Uses
    BY DEF Readers
  <2>1. \A e \in war[f] : e = Reader(f) \/ \E s \in Task : e = Done(s) /\ <<"copy", f>> \in args[s]
    BY DEF IInv, Readers
  <2>2. /\ \A s \in Task : \A x \in args[s] : x \in args'[s]
        /\ \A s \in Task : \A x \in args'[s] : (s = t /\ x \in A) \/ x \in args[s]
    BY <1>2, <1>6, <1>7
  <2>3. \A e \in war'[f] : e = Reader(f) \/ \E s \in Task : e = Done(s) /\ <<"copy", f>> \in args'[s]
    <3>1. \A e \in war'[f] : e \in war[f] \/ (e = Done(t) /\ f \in Named({"copy"}, A)) BY <1>6
    <3> QED BY <1>3, <1>7, <2>1, <2>2, <3>1
  <2>4. \A s \in Task : <<"copy", f>> \in args'[s] => Done(s) \in war'[f]
    <3>1. \A s \in Task : <<"copy", f>> \in args[s] => Done(s) \in war[f] BY DEF IInv, Readers
    <3>2. war[f] \subseteq war'[f] /\ (f \in Named({"copy"}, A) => Done(t) \in war'[f]) BY <1>6
    <3> QED BY <1>3, <2>2, <3>1, <3>2
  <2>5. vown[f] # Nowhere => Reader(f) \in war'[f] BY <1>6 DEF IInv, Readers
  <2>6. \A s \in Task : <<"peek", f>> \in args'[s] => Reader(f) \in war'[f]
    <3>1. \A s \in Task : <<"peek", f>> \in args[s] => Reader(f) \in war[f] BY DEF IInv, Readers
    <3>2. war[f] \subseteq war'[f] BY <1>6
    <3>3. <<"peek", f>> \in A => vown[f] # Nowhere BY <1>1, <1>3
    <3> QED BY <2>2, <2>5, <3>1, <3>2, <3>3
  <2>7. vown'[f] # Nowhere => Reader(f) \in war'[f] BY <1>1, <1>3, <1>6, <2>5
  <2>8. war'[f] # {} => f # t /\ (war[f] # {} \/ f \in Named({"copy"}, A)) BY <1>2, <1>4, <1>6
  <2>9. war'[f] # {} /\ ret'[f] = "future" => "peek" \in Uses
    <3>1. f \in Named({"copy"}, A) /\ ret[f] = "future" => "peek" \in Uses BY DEF Launches
    <3>2. war[f] # {} /\ ret[f] = "future" => "peek" \in Uses BY DEF IInv, Readers
    <3>3. f # t => ret'[f] = ret[f] BY <1>6
    <3> QED BY <2>8, <3>1, <3>2, <3>3
  <2> QED BY <2>3, <2>4, <2>6, <2>7, <2>9
<1>15. Waits'
  <2>1. ASSUME NEW s \in Task, NEW x \in args'[s], s # t
        PROVE  /\ x[1] \notin Moving => RawPrecondition(x[2])' \subseteq pre'[s]
               /\ x[1] \in Moving /\ st'[s] = "waiting" => Precondition(x[2])' \subseteq pre'[s]
    <3>1. /\ x \in args[s] /\ st'[s] = st[s] /\ pre'[s] = pre[s]
          /\ x[2] \in Task /\ x[2] # t /\ x = <<x[1], x[2]>>
      BY <1>6, <1>8, <2>1
    <3>2. x[1] \in Moving /\ st[s] = "waiting" => x[2] \notin Named({"copy"}, A)
      <4>1. x[1] \in Moving /\ st[s] = "waiting" => Moves(s, x[2]) BY <3>1 DEF Moves
      <4> QED BY <1>1, <1>3, <3>1, <4>1 DEF IInv, Stored
    <3> QED BY <1>9, <3>1, <3>2 DEF IInv, Waits
  <2>2. ASSUME NEW x \in args'[t]
        PROVE  /\ x[1] \notin Moving => RawPrecondition(x[2])' \subseteq pre'[t]
               /\ x[1] \in Moving => Precondition(x[2])' \subseteq pre'[t]
    <3>1. x \in A /\ x[2] \in Task /\ x = <<x[1], x[2]>> /\ x[1] \in ArgKind BY <1>5, <1>7
    <3>2. x[2] # t
      <4>1. x[1] \in {"copy"} \/ x[1] \in Moving \/ x[1] \in Viewing
        BY <3>1 DEF ArgKind, Moving, Viewing
      <4>2. <<x[1], x[2]>> \in A BY <3>1
      <4>3. \/ x[2] \in Named({"copy"}, A) \/ x[2] \in Named(Moving, A)
            \/ x[2] \in Named(Viewing, A)
        BY <3>1, <4>1, <4>2 DEF Named
      <4> QED BY <1>4, <4>3
    <3>3. x[1] \in Moving => x[2] \notin Named({"copy"}, A)
      <4>1. x[1] \in Moving => x[2] \in Named(Moving, A) BY <3>1 DEF Named
      <4> QED BY <1>4, <3>1, <4>1
    <3>4. ArgPrecondition(x) \subseteq pre'[t] BY <1>7, <3>1
    <3>5. /\ x[1] \in Moving => ArgPrecondition(x) = Precondition(x[2])
          /\ x[1] \notin Moving => ArgPrecondition(x) = RawPrecondition(x[2])
      BY DEF ArgPrecondition, Moving
    <3> QED BY <1>9, <3>1, <3>2, <3>3, <3>4, <3>5
  <2>3. \A s \in Task : st'[s] \in {"running", "done"} => pre'[s] \subseteq fired'
    BY <1>6, <1>7 DEF IInv, Waits
  <2> QED BY <2>1, <2>2, <2>3 DEF Waits
<1>16. Single'
  <2>1. \A x, y \in A : x[2] = y[2] /\ (x[1] \in OfFuture <=> y[1] \in OfFuture) => x = y
    BY DEF Launches
  <2> QED BY <1>6, <1>7, <2>1 DEF IInv, Single
<1>17. Stored'
  <2>1. \A s, f \in Task : s # t =>
          /\ Moves(s, f)' <=> Moves(s, f)
          /\ Views(s, f)' <=> Views(s, f)
    BY <1>6 DEF Moves, Views
  <2>2. \A f \in Task : /\ Moves(t, f)' <=> f \in Named(Moving, A)
                        /\ Views(t, f)' <=> f \in Named(Viewing, A)
    BY <1>3, <1>7 DEF Moves, Views, Moving
  <2>3. \A s, f \in Task : Moves(s, f) => own[f] = InArgs /\ f # t /\ f \notin Named(Moving, A)
    BY <1>1, <1>2, <1>3 DEF IInv, Stored
  <2>4. \A s, f \in Task : Views(s, f) => vown[f] = InArgs /\ f # t /\ f \notin Named(Viewing, A)
    BY <1>1, <1>2, <1>3 DEF IInv, Stored
  <2>5. ASSUME NEW s \in Task, NEW f \in Task, Moves(s, f)'
        PROVE  own'[f] = InArgs /\ \A i \in Task : Moves(i, f)' => i = s
    <3>1. CASE s = t
      <4>1. f \in Named(Moving, A) /\ f # t BY <1>4, <2>2, <2>5, <3>1
      <4>2. \A i \in Task : i # t => ~ Moves(i, f)' BY <2>1, <2>3, <4>1
      <4> QED BY <1>6, <3>1, <4>1, <4>2
    <3>2. CASE s # t
      <4>1. Moves(s, f) BY <2>1, <2>5, <3>2
      <4>2. own[f] = InArgs /\ f # t /\ f \notin Named(Moving, A) BY <2>3, <4>1
      <4>3. \A i \in Task : Moves(i, f)' => Moves(i, f) BY <2>1, <2>2, <4>2
      <4>4. \A i \in Task : Moves(i, f) => i = s BY <4>1 DEF IInv, Stored
      <4> QED BY <1>6, <4>2, <4>3, <4>4
    <3> QED BY <3>1, <3>2
  <2>6. ASSUME NEW s \in Task, NEW f \in Task, Views(s, f)'
        PROVE  vown'[f] = InArgs /\ \A i \in Task : Views(i, f)' => i = s
    <3>1. CASE s = t
      <4>1. f \in Named(Viewing, A) /\ f # t BY <1>4, <2>2, <2>6, <3>1
      <4>2. \A i \in Task : i # t => ~ Views(i, f)' BY <2>1, <2>4, <4>1
      <4> QED BY <1>6, <3>1, <4>1, <4>2
    <3>2. CASE s # t
      <4>1. Views(s, f) BY <2>1, <2>6, <3>2
      <4>2. vown[f] = InArgs /\ f # t /\ f \notin Named(Viewing, A) BY <2>4, <4>1
      <4>3. \A i \in Task : Views(i, f)' => Views(i, f) BY <2>1, <2>2, <4>2
      <4>4. \A i \in Task : Views(i, f) => i = s BY <4>1 DEF IInv, Stored
      <4> QED BY <1>6, <4>2, <4>3, <4>4
    <3> QED BY <3>1, <3>2
  <2> QED BY <2>5, <2>6 DEF Stored
<1>18. Cells'
  <2>1. \A c \in Task : cell'[c] # "unset" <=> ret'[c] = "value" /\ st'[c] = "done"
    BY <1>2, <1>6, <1>7 DEF IInv, Cells
  <2>2. \A c \in Task : cell[c] = "moved" => c \notin Named({"copy"}, A)
    BY <1>1, <1>3, MovedMeansGone
  <2>3. \A c \in Task : cell'[c] = "moved" => war'[c] \subseteq fired'
    BY <1>6, <1>7, <2>2 DEF IInv, Cells
  <2>4. \A f \in Task : f # t /\ own'[f] # Nowhere => own[f] # Nowhere BY <1>1, <1>3, <1>6
  <2>5. \A f \in Task : f # t => ValueCell(f)' # t
    BY <1>8, <1>9 DEF ValueCell
  <2>6. ValueCell(t)' = t \/ ValueCell(t)' \notin Task BY <1>1, <1>2, <1>7 DEF ValueCell
  <2>7. \A c, f \in Task : own'[f] # Nowhere /\ ValueCell(f)' = c =>
          /\ cell'[c] # "moved"
          /\ \A g \in Task : own'[g] # Nowhere /\ ValueCell(g)' = c => g = f
    BY <1>2, <1>7, <1>9, <2>4, <2>5, <2>6 DEF IInv, Cells
  <2> QED BY <2>1, <2>3, <2>7 DEF Cells
<1> QED BY <1>10, <1>11, <1>12, <1>13, <1>14, <1>15, <1>16, <1>17, <1>18 DEF IInv

-----------------------------------------------------------------------------
(***************************************************************************)
(* Views, and events that trigger.                                         *)
(***************************************************************************)
LEMMA MakeViewKeeps ==
  ASSUME IInv, TypeOK', NEW a \in Actor, NEW v \in Task, MakeView(a, v)
  PROVE  IInv'
<1>1. TypeOK /\ a # Nowhere /\ a # InArgs /\ InArgs # Nowhere BY Domains DEF IInv
<1>2. /\ own[v] = a /\ Reader(v) \notin war[v] /\ (ret[v] = "future" => "peek" \in Uses)
      /\ war' = [war EXCEPT ![v] = @ \cup {Reader(v)}] /\ vown' = [vown EXCEPT ![v] = a]
      /\ launched' = launched /\ ret' = ret /\ args' = args /\ st' = st /\ pre' = pre
      /\ cell' = cell /\ inner' = inner /\ own' = own /\ armed' = armed /\ fired' = fired
  BY DEF MakeView, taskVars
<1>3. /\ war'[v] = war[v] \cup {Reader(v)} /\ vown'[v] = a
      /\ \A f \in Task : f # v => war'[f] = war[f] /\ vown'[f] = vown[f]
  BY <1>1, <1>2 DEF TypeOK
<1>4. /\ vown[v] = Nowhere /\ \A t \in Task : <<"peek", v>> \notin args[t]
      /\ \A t \in Task : ~Views(t, v) /\ ~Moves(t, v)
  <2>1. vown[v] = Nowhere /\ \A t \in Task : <<"peek", v>> \notin args[t]
    BY <1>2 DEF IInv, Readers
  <2> QED BY <1>1, <1>2, <2>1 DEF IInv, Stored
<1>5. /\ \A f \in Task : RawPrecondition(f)' = RawPrecondition(f) /\ ValueCell(f)' = ValueCell(f)
      /\ \A f \in Task : f # v => Precondition(f)' = Precondition(f)
  BY <1>2, <1>3 DEF RawPrecondition, ValueCell, Precondition
<1>6. Fresh' /\ Fired' /\ Single'
  <2>1. st[v] # "idle" BY <1>1, <1>2 DEF IInv, Fresh
  <2> QED BY <1>2, <1>3, <2>1 DEF IInv, Fresh, Fired, Single
<1>7. Handed'
  <2>1. \A t \in Task : inner[t] # NoCell => inner[t] # v /\ inner[t] \in Task
    BY <1>1, <1>2 DEF IInv, Handed, TypeOK
  <2>2. \A t \in Task : inner[t] # NoCell => Precondition(inner[t])' = Precondition(inner[t])
    BY <1>2, <1>3, <2>1 DEF Precondition, RawPrecondition
  <2> QED BY <1>2, <2>2 DEF IInv, Handed
<1>8. Released'
  <2>1. \A u \in armed, f \in Task : u.event = Reader(f) => f # v BY <1>2 DEF IInv, Released
  <2> SUFFICES ASSUME NEW u \in armed, NEW f \in Task, u.event = Reader(f)
               PROVE  /\ (RawPrecondition(f) \subseteq fired)'
                      /\ Reader(f) \in war'[f] /\ vown'[f] = Nowhere
                      /\ \A t \in Task : <<"peek", f>> \in args[t] => st[t] = "done"
    BY <1>2 DEF Released
  <2>2. /\ RawPrecondition(f) \subseteq fired /\ Reader(f) \in war[f] /\ vown[f] = Nowhere
        /\ \A t \in Task : <<"peek", f>> \in args[t] => st[t] = "done"
    BY DEF IInv, Released
  <2> QED BY <1>2, <1>3, <1>5, <2>1, <2>2
<1>9. Readers' BY <1>2, <1>3 DEF IInv, Readers
<1>10. Waits'
  <2> SUFFICES ASSUME NEW t \in Task, NEW x \in args[t]
               PROVE  /\ x[1] \notin Moving => RawPrecondition(x[2])' \subseteq pre[t]
                      /\ x[1] \in Moving /\ st[t] = "waiting" => Precondition(x[2])' \subseteq pre[t]
    BY <1>2 DEF IInv, Waits
  <2>1. x[2] \in Task /\ x = <<x[1], x[2]>> BY <1>1, Pairs DEF TypeOK
  <2>2. x[1] \in Moving /\ st[t] = "waiting" => x[2] # v
    <3>1. x[1] \in Moving /\ st[t] = "waiting" => Moves(t, x[2]) BY <2>1 DEF Moves
    <3> QED BY <1>4, <3>1
  <2> QED BY <1>5, <2>1, <2>2 DEF IInv, Waits
<1>11. Stored'
  <2>1. \A t, f \in Task : (Moves(t, f)' <=> Moves(t, f)) /\ (Views(t, f)' <=> Views(t, f))
    BY <1>2 DEF Moves, Views
  <2>2. \A t, f \in Task : Views(t, f) => f # v BY <1>4
  <2> QED BY <1>2, <1>3, <2>1, <2>2 DEF IInv, Stored
<1>12. Cells'
  <2>1. \A c \in Task : cell[c] = "moved" => c # v BY <1>1, <1>2, MovedMeansGone
  <2> QED BY <1>2, <1>3, <1>5, <2>1 DEF IInv, Cells
<1> QED BY <1>6, <1>7, <1>8, <1>9, <1>10, <1>11, <1>12 DEF IInv

\* Dropping a view arms its event, after the value exists.
LEMMA DropViewKeeps ==
  ASSUME "release" \notin Uses, IInv, TypeOK', NEW a \in Actor, NEW v \in Task, DropView(a, v)
  PROVE  IInv'
<1>1. TypeOK /\ a # Nowhere /\ a # InArgs /\ InArgs # Nowhere BY Domains DEF IInv
<1> DEFINE n == [event |-> Reader(v), after |-> {}]
<1>2. /\ vown[v] = a /\ RawPrecondition(v) \subseteq fired
      /\ vown' = [vown EXCEPT ![v] = Nowhere] /\ armed' = armed \cup {n}
      /\ launched' = launched /\ ret' = ret /\ args' = args /\ st' = st /\ pre' = pre
      /\ cell' = cell /\ inner' = inner /\ own' = own /\ war' = war /\ fired' = fired
  BY DEF DropView, MayRelease, taskVars
<1>3. vown'[v] = Nowhere /\ \A f \in Task : f # v => vown'[f] = vown[f] BY <1>1, <1>2 DEF TypeOK
<1>4. /\ n.event = Reader(v) /\ Reader(v) \in war[v]
      /\ \A t \in Task : ~Views(t, v)
      /\ \A t \in Task : <<"peek", v>> \in args[t] => st[t] = "done"
  <2>1. Reader(v) \in war[v] /\ \A t \in Task : ~Views(t, v)
    BY <1>1, <1>2 DEF IInv, Readers, Stored
  <2>2. \A t \in Task : <<"peek", v>> \in args[t] => st[t] = "done"
    BY <1>1, <2>1 DEF IInv, Fresh, Views, TypeOK
  <2> QED BY <2>1, <2>2
<1> HIDE DEF n
<1>5. \A f \in Task : /\ RawPrecondition(f)' = RawPrecondition(f) /\ ValueCell(f)' = ValueCell(f)
                      /\ Precondition(f)' = Precondition(f)
  BY <1>2 DEF RawPrecondition, ValueCell, Precondition
<1>6. Fresh' /\ Fired' /\ Single' /\ Cells' /\ Waits'
  <2>1. Fresh' BY <1>2, <1>3 DEF IInv, Fresh
  <2>2. Fired' BY <1>2 DEF IInv, Fired
  <2>3. Single' BY <1>2 DEF IInv, Single
  <2>4. Cells' BY <1>2, <1>5 DEF IInv, Cells
  <2>5. Waits'
    <3>1. \A t \in Task : \A x \in args[t] : x[2] \in Task BY <1>1, Pairs DEF TypeOK
    <3> QED BY <1>2, <1>5, <3>1 DEF IInv, Waits
  <2> QED BY <2>1, <2>2, <2>3, <2>4, <2>5
<1>7. Handed'
  <2>1. \A t \in Task : inner[t] # NoCell => Precondition(inner[t])' = Precondition(inner[t])
    BY <1>2 DEF Precondition, RawPrecondition
  <2>2. \A u \in armed', t \in Task : u.event = Deferred(t) => u \in armed
    BY <1>2, <1>4, EventsDiffer
  <2> QED BY <1>2, <2>1, <2>2 DEF IInv, Handed
<1>8. Released'
  <2> SUFFICES ASSUME NEW u \in armed', NEW f \in Task, u.event = Reader(f)
               PROVE  /\ (RawPrecondition(f) \subseteq fired)'
                      /\ Reader(f) \in war[f] /\ vown'[f] = Nowhere
                      /\ \A t \in Task : <<"peek", f>> \in args[t] => st[t] = "done"
    BY <1>2 DEF Released
  <2>1. CASE u \in armed BY <1>2, <1>3, <1>5, <2>1 DEF IInv, Released
  <2>2. CASE u = n
    <3>1. f = v BY <1>4, <2>2, EventsDiffer
    <3> QED BY <1>2, <1>3, <1>4, <1>5, <3>1
  <2> QED BY <1>2, <2>1, <2>2
<1>9. Readers' BY <1>2, <1>3 DEF IInv, Readers
<1>10. Stored'
  <2>1. \A t, f \in Task : (Moves(t, f)' <=> Moves(t, f)) /\ (Views(t, f)' <=> Views(t, f))
    BY <1>2 DEF Moves, Views
  <2> QED BY <1>2, <1>3, <1>4, <2>1 DEF IInv, Stored
<1> QED BY <1>6, <1>7, <1>8, <1>9, <1>10 DEF IInv

\* A UserEvent triggers when what it was triggered with has.
LEMMA FireKeeps ==
  ASSUME IInv, TypeOK', NEW u \in armed, Fire(u)
  PROVE  IInv'
<1>1. /\ u.event \in UserEvent /\ u.after \subseteq fired /\ fired' = fired \cup {u.event}
      /\ launched' = launched /\ ret' = ret /\ args' = args /\ st' = st /\ pre' = pre
      /\ cell' = cell /\ inner' = inner /\ own' = own /\ war' = war /\ vown' = vown
      /\ armed' = armed /\ TypeOK
  BY DEF Fire, taskVars, IInv, TypeOK
<1>2. \A f \in Task : /\ RawPrecondition(f)' = RawPrecondition(f) /\ ValueCell(f)' = ValueCell(f)
                      /\ Precondition(f)' = Precondition(f)
  BY <1>1 DEF RawPrecondition, ValueCell, Precondition
<1>3. Fired'
  <2>1. \A t \in Task : Done(t) # u.event BY <1>1, EventKinds
  <2> QED BY <1>1, <2>1 DEF IInv, Fired
<1>4. Fresh' /\ Single' /\ Readers' BY <1>1 DEF IInv, Fresh, Single, Readers
<1>5. Handed'
  <2>1. \A t \in Task : Precondition(inner[t])' = Precondition(inner[t])
    BY <1>1 DEF Precondition, RawPrecondition
  <2> QED BY <1>1, <2>1 DEF IInv, Handed
<1>6. Released' BY <1>1, <1>2 DEF IInv, Released
<1>7. Waits'
  <2>1. \A t \in Task : \A x \in args[t] : x[2] \in Task BY <1>1, Pairs DEF TypeOK
  <2> QED BY <1>1, <1>2, <2>1 DEF IInv, Waits
<1>8. Stored'
  <2>1. \A t, f \in Task : (Moves(t, f)' <=> Moves(t, f)) /\ (Views(t, f)' <=> Views(t, f))
    BY <1>1 DEF Moves, Views
  <2> QED BY <1>1, <2>1 DEF IInv, Stored
<1>9. Cells' BY <1>1, <1>2 DEF IInv, Cells
<1> QED BY <1>3, <1>4, <1>5, <1>6, <1>7, <1>8, <1>9 DEF IInv

-----------------------------------------------------------------------------
(***************************************************************************)
(* The start of a task.                                                    *)
(***************************************************************************)
Takes(t, f) == <<"take", f>> \in args[t]

\* A task that starts finds the cells it takes the value from filled, and no reader.
LEMMA TakenCell ==
  ASSUME IInv, NEW t \in Task, st[t] = "waiting", pre[t] \subseteq fired,
         NEW f \in Task, Takes(t, f)
  PROVE  /\ own[f] = InArgs /\ RawPrecondition(f) \subseteq fired
         /\ ValueCell(f) # NoCell =>
              /\ ValueCell(f) \in Task /\ ret[ValueCell(f)] = "value" /\ st[ValueCell(f)] = "done"
              /\ cell[ValueCell(f)] # "unset" /\ war[ValueCell(f)] \subseteq fired
<1>1. own[f] = InArgs
  <2>1. Moves(t, f) BY DEF Moves, Moving, Takes
  <2> QED BY <2>1 DEF IInv, Stored
<1>2. Precondition(f) \subseteq fired
  <2>1. <<"take", f>>[1] \in Moving BY DEF Moving
  <2>2. Precondition(<<"take", f>>[2]) \subseteq pre[t] BY <2>1 DEF IInv, Waits, Takes
  <2> QED BY <2>2
<1>3. RawPrecondition(f) \subseteq fired /\ war[f] \subseteq fired BY <1>2, PreconditionStronger
<1>4. ret[f] = "value" => ValueCell(f) = f BY DEF ValueCell
<1>5. ret[f] \in {"value", "future"} BY DEF IInv, TypeOK
<1> QED BY <1>1, <1>3, <1>4, <1>5, CellFilled

\* ResolveDependency: a task that starts takes or reads what its arguments lead to.
LEMMA StartKeeps ==
  ASSUME IInv, TypeOK', NEW t \in Task, Start(t)
  PROVE  IInv'
<1>1. TypeOK /\ InArgs # Nowhere /\ t # Nowhere BY Domains DEF IInv
<1>2. /\ st[t] = "waiting" /\ pre[t] \subseteq fired /\ st' = [st EXCEPT ![t] = "running"]
      /\ launched' = launched /\ ret' = ret /\ args' = args /\ pre' = pre
      /\ inner' = inner /\ war' = war /\ armed' = armed /\ fired' = fired
  BY DEF Start
<1>3. \A c \in Task :
        /\ (\E f \in Task : Takes(t, f) /\ ValueCell(f) = c) => cell'[c] = "moved"
        /\ ~(\E f \in Task : Takes(t, f) /\ ValueCell(f) = c) => cell'[c] = cell[c]
  BY DEF Start, Takes
<1>4. \A f \in Task :
        /\ <<"future", f>> \in args[t] => own'[f] = t
        /\ <<"future", f>> \notin args[t] /\ Takes(t, f) => own'[f] = Nowhere
        /\ <<"future", f>> \notin args[t] /\ ~Takes(t, f) => own'[f] = own[f]
        /\ <<"view", f>> \in args[t] => vown'[f] = t
        /\ <<"view", f>> \notin args[t] => vown'[f] = vown[f]
  BY DEF Start, Takes
<1>5. st'[t] = "running" /\ \A s \in Task : s # t => st'[s] = st[s] BY <1>1, <1>2 DEF TypeOK
<1>6. \A f \in Task :
        /\ <<"future", f>> \in args[t] \/ Takes(t, f) => Moves(t, f) /\ own[f] = InArgs
        /\ <<"view", f>> \in args[t] => Views(t, f) /\ vown[f] = InArgs /\ <<"peek", f>> \notin args[t]
        /\ Takes(t, f) => <<"future", f>> \notin args[t]
  <2> SUFFICES ASSUME NEW f \in Task
               PROVE  /\ <<"future", f>> \in args[t] \/ Takes(t, f) => Moves(t, f) /\ own[f] = InArgs
                      /\ <<"view", f>> \in args[t] => Views(t, f) /\ vown[f] = InArgs /\ <<"peek", f>> \notin args[t]
                      /\ Takes(t, f) => <<"future", f>> \notin args[t]
    OBVIOUS
  <2>1. <<"future", f>> \in args[t] \/ Takes(t, f) => Moves(t, f)
    BY <1>2 DEF Moves, Moving, Takes
  <2>2. <<"view", f>> \in args[t] => Views(t, f) BY <1>2 DEF Views
  <2>3. ~(<<"view", f>> \in args[t] /\ <<"peek", f>> \in args[t])
    <3>1. /\ <<"view", f>>[2] = <<"peek", f>>[2] /\ <<"view", f>> # <<"peek", f>>
          /\ <<"view", f>>[1] \notin OfFuture /\ <<"peek", f>>[1] \notin OfFuture
      BY DEF OfFuture
    <3> QED BY <3>1 DEF IInv, Single
  <2>4. ~(Takes(t, f) /\ <<"future", f>> \in args[t])
    <3>1. /\ <<"take", f>>[2] = <<"future", f>>[2] /\ <<"take", f>> # <<"future", f>>
          /\ <<"take", f>>[1] \in OfFuture /\ <<"future", f>>[1] \in OfFuture
      BY DEF OfFuture
    <3> QED BY <3>1 DEF IInv, Single, Takes
  <2> QED BY <2>1, <2>2, <2>3, <2>4 DEF IInv, Stored
<1>7. \A f \in Task : /\ RawPrecondition(f)' = RawPrecondition(f) /\ ValueCell(f)' = ValueCell(f)
                      /\ Precondition(f)' = Precondition(f)
  BY <1>2 DEF RawPrecondition, ValueCell, Precondition
<1>8. \A c \in Task : cell'[c] = cell[c] \/
        /\ cell'[c] = "moved" /\ ret[c] = "value" /\ st[c] = "done" /\ cell[c] # "unset"
        /\ war[c] \subseteq fired /\ \E f \in Task : Takes(t, f) /\ ValueCell(f) = c
  <2> SUFFICES ASSUME NEW c \in Task, NEW f \in Task, Takes(t, f), ValueCell(f) = c
               PROVE  /\ ret[c] = "value" /\ st[c] = "done" /\ cell[c] # "unset"
                      /\ war[c] \subseteq fired
    BY <1>3
  <2>1. ValueCell(f) # NoCell BY Domains DEF NoCell
  <2> QED BY <1>2, <2>1, TakenCell
<1>9. Fresh'
  <2>1. \A s \in Task : st'[s] = "idle" <=> st[s] = "idle" BY <1>2, <1>5
  <2>2. \A s \in Task : st[s] = "idle" =>
          <<"future", s>> \notin args[t] /\ ~Takes(t, s) /\ <<"view", s>> \notin args[t]
    <3>1. \A s \in Task : st[s] = "idle" => own[s] = Nowhere /\ vown[s] = Nowhere
      BY DEF IInv, Fresh
    <3> QED BY <1>1, <1>6, <3>1
  <2>3. \A s \in Task : st[s] = "idle" => cell'[s] = cell[s] BY <1>8
  <2>4. \A s \in Task : \A x \in args[s] : x[2] \in Task BY <1>1, Pairs DEF TypeOK
  <2> QED BY <1>2, <1>4, <2>1, <2>2, <2>3, <2>4 DEF IInv, Fresh
<1>10. Fired' BY <1>2, <1>5 DEF IInv, Fired
<1>11. Handed'
  <2>1. \A s \in Task : inner[s] # NoCell =>
          inner[s] \in Task /\ own[inner[s]] = Nowhere
    BY <1>1, <1>2 DEF IInv, Handed, TypeOK
  <2>2. \A s \in Task : inner[s] # NoCell => own'[inner[s]] = Nowhere
    BY <1>1, <1>4, <1>6, <2>1
  <2>3. \A s \in Task : /\ st[s] = "done" => st'[s] = "done"
                        /\ st[s] # "idle" => st'[s] # "idle"
    BY <1>2, <1>5
  <2>4. \A s \in Task : Precondition(inner[s])' = Precondition(inner[s])
    BY <1>2 DEF Precondition, RawPrecondition
  <2>5. \A s \in Task : inner'[s] # NoCell =>
          /\ ret'[s] = "future" /\ st'[s] = "done" /\ ret'[inner'[s]] = "value"
          /\ st'[inner'[s]] # "idle" /\ own'[inner'[s]] = Nowhere
    BY <1>2, <2>1, <2>2, <2>3 DEF IInv, Handed
  <2> QED BY <1>2, <2>3, <2>4, <2>5 DEF IInv, Handed
<1>12. Released'
  <2> SUFFICES ASSUME NEW u \in armed, NEW f \in Task, u.event = Reader(f)
               PROVE  /\ (RawPrecondition(f) \subseteq fired)'
                      /\ Reader(f) \in war[f] /\ vown'[f] = Nowhere
                      /\ \A s \in Task : <<"peek", f>> \in args[s] => st'[s] = "done"
    BY <1>2 DEF Released
  <2>1. /\ RawPrecondition(f) \subseteq fired /\ Reader(f) \in war[f] /\ vown[f] = Nowhere
        /\ \A s \in Task : <<"peek", f>> \in args[s] => st[s] = "done"
    BY DEF IInv, Released
  <2>2. vown'[f] = Nowhere BY <1>1, <1>4, <1>6, <2>1
  <2> QED BY <1>2, <1>5, <1>7, <2>1, <2>2
<1>13. Readers'
  <2>1. \A f \in Task : vown'[f] # Nowhere => vown[f] # Nowhere BY <1>1, <1>4, <1>6
  <2> QED BY <1>2, <2>1 DEF IInv, Readers
<1>14. Waits'
  <2>1. \A s \in Task : \A x \in args[s] : x[2] \in Task BY <1>1, Pairs DEF TypeOK
  <2>2. \A s \in Task : st'[s] = "waiting" => st[s] = "waiting" BY <1>2, <1>5
  <2>3. \A s \in Task : st'[s] \in {"running", "done"} => pre[s] \subseteq fired
    BY <1>2, <1>5 DEF IInv, Waits
  <2> QED BY <1>2, <1>7, <2>1, <2>2, <2>3 DEF IInv, Waits
<1>15. Single' BY <1>2 DEF IInv, Single
<1>16. Stored'
  <2>1. ASSUME NEW s \in Task, NEW f \in Task, Moves(s, f)'
        PROVE  s # t /\ Moves(s, f) /\ own'[f] = InArgs
    <3>1. s # t /\ Moves(s, f) BY <1>2, <1>5, <2>1 DEF Moves
    <3>2. ~Moves(t, f) /\ own[f] = InArgs BY <3>1 DEF IInv, Stored
    <3> QED BY <1>4, <1>6, <3>1, <3>2
  <2>2. ASSUME NEW s \in Task, NEW f \in Task, Views(s, f)'
        PROVE  Views(s, f) /\ vown'[f] = InArgs
    <3>1. Views(s, f) /\ (s = t => <<"peek", f>> \in args[t])
      BY <1>2, <1>5, <2>2 DEF Views
    <3>2. vown[f] = InArgs /\ (Views(t, f) => s = t) BY <3>1 DEF IInv, Stored
    <3>3. <<"view", f>> \notin args[t] BY <1>6, <3>1, <3>2
    <3> QED BY <1>4, <3>1, <3>2, <3>3
  <2> QED BY <2>1, <2>2 DEF IInv, Stored
<1>17. Cells'
  <2>1. \A c \in Task : /\ cell'[c] # "unset" <=> cell[c] # "unset"
                        /\ cell'[c] = "moved" => war[c] \subseteq fired
    BY <1>8 DEF IInv, Cells
  <2>2. \A c \in Task : st'[c] = "done" <=> st[c] = "done" BY <1>2, <1>5
  <2>3. \A f \in Task : own'[f] # Nowhere => own[f] # Nowhere /\ ~Takes(t, f)
    BY <1>1, <1>4, <1>6
  <2>4. \A f \in Task : Takes(t, f) => own[f] # Nowhere BY <1>1, <1>6
  <2>5. ASSUME NEW c \in Task, NEW f \in Task, own'[f] # Nowhere, ValueCell(f) = c
        PROVE  /\ cell'[c] # "moved"
               /\ \A g \in Task : own'[g] # Nowhere /\ ValueCell(g) = c => g = f
    <3>1. /\ cell[c] # "moved"
          /\ \A g \in Task : own[g] # Nowhere /\ ValueCell(g) = c => g = f
      BY <2>3, <2>5 DEF IInv, Cells
    <3>2. ~ \E g \in Task : Takes(t, g) /\ ValueCell(g) = c BY <2>3, <2>4, <2>5, <3>1
    <3> QED BY <1>3, <2>3, <3>1, <3>2
  <2> QED BY <1>2, <1>7, <2>1, <2>2, <2>5 DEF IInv, Cells
<1> QED BY <1>9, <1>10, <1>11, <1>12, <1>13, <1>14, <1>15, <1>16, <1>17 DEF IInv

-----------------------------------------------------------------------------
(***************************************************************************)
(* The end of a task.                                                      *)
(***************************************************************************)

\* What a task that ends leaves behind, whatever it returns: R are the events it
\* triggers.
LEMMA LeaveKeeps ==
  ASSUME "release" \notin Uses, IInv, TypeOK', NEW t \in Task, Leave(t),
         NEW R, armed' = armed \cup Releases(t) \cup R,
         \A u \in R : u.event = Deferred(t),
         \A s \in Task : st[s] = "idle" => cell'[s] = cell[s] /\ inner'[s] = inner[s]
  PROVE  /\ Fresh' /\ Fired' /\ Released' /\ Readers' /\ Waits' /\ Single' /\ Stored'
         /\ \A u \in armed', s \in Task : u.event = Deferred(s) => u \in armed \/ (s = t /\ u \in R)
<1>1. TypeOK /\ InArgs # Nowhere /\ t # Nowhere /\ t # InArgs BY Domains DEF IInv
<1>2. /\ st[t] = "running" /\ st' = [st EXCEPT ![t] = "done"] /\ fired' = fired \cup {Done(t)}
      /\ launched' = launched /\ ret' = ret /\ args' = args /\ pre' = pre /\ war' = war
      /\ \A f \in LastViews(t) : RawPrecondition(f) \subseteq fired
  BY DEF Leave, MayRelease
<1>3. \A f \in Task :
        /\ own[f] = t => own'[f] = Nowhere
        /\ own[f] # t => own'[f] = own[f]
        /\ f \in LastViews(t) => vown'[f] = Nowhere
        /\ f \notin LastViews(t) => vown'[f] = vown[f]
        /\ f \in LastViews(t) <=> vown[f] = t \/ <<"peek", f>> \in args[t]
  BY DEF Leave, LastViews
<1>4. st'[t] = "done" /\ \A s \in Task : s # t => st'[s] = st[s] BY <1>1, <1>2 DEF TypeOK
<1>5. \A f \in Task : /\ RawPrecondition(f)' = RawPrecondition(f)
                      /\ Precondition(f)' = Precondition(f)
  BY <1>2 DEF RawPrecondition, Precondition
<1>6. \A u \in Releases(t) : \E f \in LastViews(t) : u.event = Reader(f)
  BY DEF Releases
<1>7. LastViews(t) \subseteq Task BY DEF LastViews
<1>8. Fresh'
  <2>1. \A s \in Task : st'[s] = "idle" <=> st[s] = "idle" BY <1>2, <1>4
  <2>2. \A s \in Task : st[s] = "idle" => own[s] = Nowhere /\ vown[s] = Nowhere
    BY DEF IInv, Fresh
  <2>3. \A s \in Task : st[s] = "idle" => own'[s] = Nowhere /\ vown'[s] = Nowhere
    BY <1>3, <2>2
  <2>4. \A s \in Task : \A x \in args[s] : x[2] \in Task BY <1>1, Pairs DEF TypeOK
  <2> QED BY <1>2, <2>1, <2>3, <2>4 DEF IInv, Fresh
<1>9. Fired'
  <2>1. \A s \in Task : Done(s) \in fired' <=> st'[s] = "done"
    BY <1>2, <1>4, EventsDiffer DEF IInv, Fired
  <2>2. \A e \in fired' : (\E s \in Task : e = Done(s)) \/ \E u \in armed' : u.event = e /\ u.after \subseteq fired'
    BY <1>2 DEF IInv, Fired
  <2> QED BY <2>1, <2>2 DEF Fired
<1>10. \A s \in Task : \A f \in LastViews(t) : <<"peek", f>> \in args[s] => st'[s] = "done"
  <2> SUFFICES ASSUME NEW s \in Task, NEW f \in Task, f \in LastViews(t), <<"peek", f>> \in args[s], s # t
               PROVE  st[s] = "done"
    BY <1>4, <1>7
  <2>1. st[s] # "idle" BY DEF IInv, Fresh
  <2>2. ~Views(s, f)
    <3>1. CASE vown[f] = t BY <1>1, <3>1 DEF IInv, Stored
    <3>2. CASE <<"peek", f>> \in args[t]
      <4>1. Views(t, f) BY <1>2, <3>2 DEF Views
      <4> QED BY <4>1 DEF IInv, Stored
    <3> QED BY <1>3, <3>1, <3>2
  <2>3. st[s] \in {"idle", "waiting", "running", "done"} BY <1>1 DEF TypeOK
  <2> QED BY <2>1, <2>2, <2>3 DEF Views
<1>11. Released'
  <2> SUFFICES ASSUME NEW u \in armed', NEW f \in Task, u.event = Reader(f)
               PROVE  /\ (RawPrecondition(f) \subseteq fired)'
                      /\ Reader(f) \in war[f] /\ vown'[f] = Nowhere
                      /\ \A s \in Task : <<"peek", f>> \in args[s] => st'[s] = "done"
    BY <1>2 DEF Released
  <2>1. CASE u \in armed
    <3>1. /\ RawPrecondition(f) \subseteq fired /\ Reader(f) \in war[f] /\ vown[f] = Nowhere
          /\ \A s \in Task : <<"peek", f>> \in args[s] => st[s] = "done"
      BY <2>1 DEF IInv, Released
    <3>2. \A s \in Task : st[s] = "done" => st'[s] = "done" BY <1>4
    <3> QED BY <1>2, <1>3, <1>5, <3>1, <3>2
  <2>2. CASE u \in Releases(t)
    <3>1. f \in LastViews(t) BY <1>6, <1>7, <2>2, EventsDiffer
    <3>2. Reader(f) \in war[f] BY <1>1, <1>3, <3>1 DEF IInv, Readers
    <3> QED BY <1>2, <1>3, <1>5, <1>10, <3>1, <3>2
  <2>3. CASE u \in R BY <2>3, EventsDiffer
  <2> QED BY <2>1, <2>2, <2>3
<1>12. Readers'
  <2>1. \A f \in Task : vown'[f] # Nowhere => vown[f] # Nowhere BY <1>3
  <2> QED BY <1>2, <2>1 DEF IInv, Readers
<1>13. Waits'
  <2>1. \A s \in Task : \A x \in args[s] : x[2] \in Task BY <1>1, Pairs DEF TypeOK
  <2>2. \A s \in Task : st'[s] = "waiting" => st[s] = "waiting" BY <1>2, <1>4
  <2>3. \A s \in Task : st'[s] \in {"running", "done"} => pre[s] \subseteq fired'
    BY <1>2, <1>4 DEF IInv, Waits
  <2> QED BY <1>2, <1>5, <2>1, <2>2, <2>3 DEF IInv, Waits
<1>14. Single' BY <1>2 DEF IInv, Single
<1>15. Stored'
  <2>1. ASSUME NEW s \in Task, NEW f \in Task, Moves(s, f)'
        PROVE  Moves(s, f) /\ own'[f] = InArgs
    <3>1. Moves(s, f) BY <1>2, <1>4, <2>1 DEF Moves
    <3>2. own[f] = InArgs BY <3>1 DEF IInv, Stored
    <3> QED BY <1>1, <1>3, <3>1, <3>2
  <2>2. ASSUME NEW s \in Task, NEW f \in Task, Views(s, f)'
        PROVE  Views(s, f) /\ vown'[f] = InArgs
    <3>1. s # t /\ Views(s, f) BY <1>2, <1>4, <2>2 DEF Views
    <3>2. vown[f] = InArgs /\ ~Views(t, f) BY <3>1 DEF IInv, Stored
    <3>3. f \notin LastViews(t) BY <1>1, <1>2, <1>3, <3>2 DEF Views
    <3> QED BY <1>3, <3>1, <3>2, <3>3
  <2> QED BY <2>1, <2>2 DEF IInv, Stored
<1>16. \A u \in armed', s \in Task : u.event = Deferred(s) => u \in armed \/ (s = t /\ u \in R)
  <2>1. \A u \in Releases(t), s \in Task : u.event # Deferred(s) BY <1>6, <1>7, EventsDiffer
  <2>2. \A u \in R, s \in Task : u.event = Deferred(s) => s = t BY EventsDiffer
  <2> QED BY <2>1, <2>2
<1> QED BY <1>8, <1>9, <1>11, <1>12, <1>13, <1>14, <1>15, <1>16

\* What an end of task t leaves alone.
LEMMA LeaveEffect ==
  ASSUME TypeOK, NEW t \in Task, Leave(t)
  PROVE  /\ st[t] = "running" /\ st'[t] = "done" /\ \A s \in Task : s # t => st'[s] = st[s]
         /\ ret' = ret /\ war' = war /\ fired \subseteq fired' /\ t # Nowhere
         /\ \A f \in Task : (own[f] = t => own'[f] = Nowhere) /\ (own[f] # t => own'[f] = own[f])
BY Domains DEF Leave, TypeOK

\* FulfillPromise with a value fills the cell and releases the arguments.
LEMMA ReturnValueKeeps ==
  ASSUME "release" \notin Uses, IInv, TypeOK', NEW t \in Task, ReturnValue(t)
  PROVE  IInv'
<1>1. /\ TypeOK /\ Leave(t) /\ ret[t] = "value" /\ cell' = [cell EXCEPT ![t] = "set"]
      /\ inner' = inner /\ armed' = armed \cup Releases(t) \cup {}
  BY DEF ReturnValue, IInv
<1>2. /\ st[t] = "running" /\ st'[t] = "done" /\ \A s \in Task : s # t => st'[s] = st[s]
      /\ ret' = ret /\ war' = war /\ fired \subseteq fired'
      /\ \A f \in Task : (own[f] = t => own'[f] = Nowhere) /\ (own[f] # t => own'[f] = own[f])
  BY <1>1, LeaveEffect
<1>3. cell'[t] = "set" /\ \A s \in Task : s # t => cell'[s] = cell[s] BY <1>1 DEF TypeOK
<1>4. /\ Fresh' /\ Fired' /\ Released' /\ Readers' /\ Waits' /\ Single' /\ Stored'
      /\ \A u \in armed', s \in Task : u.event = Deferred(s) => u \in armed
  <2>1. \A s \in Task : st[s] = "idle" => cell'[s] = cell[s] /\ inner'[s] = inner[s]
    BY <1>1, <1>2, <1>3
  <2> DEFINE R == {}
  <2>2. \A u \in R : u.event = Deferred(t) OBVIOUS
  <2>3. armed' = armed \cup Releases(t) \cup R BY <1>1
  <2> HIDE DEF R
  <2>4. /\ Fresh' /\ Fired' /\ Released' /\ Readers' /\ Waits' /\ Single' /\ Stored'
        /\ \A u \in armed', s \in Task : u.event = Deferred(s) => u \in armed \/ (s = t /\ u \in R)
    BY <1>1, <2>1, <2>2, <2>3, LeaveKeeps
  <2> QED BY <2>4 DEF R
<1>5. Handed'
  <2>1. \A s \in Task : /\ st[s] = "done" => st'[s] = "done"
                        /\ st[s] # "idle" => st'[s] # "idle"
                        /\ own[s] = Nowhere => own'[s] = Nowhere
    BY <1>2
  <2>2. \A s \in Task : Precondition(inner[s])' = Precondition(inner[s])
    BY <1>1, <1>2 DEF Precondition, RawPrecondition
  <2>3. \A s \in Task : inner[s] # NoCell => inner[s] \in Task BY <1>1 DEF TypeOK
  <2> QED BY <1>1, <1>2, <1>4, <2>1, <2>2, <2>3 DEF IInv, Handed
<1>6. Cells'
  <2>1. \A f \in Task : /\ ValueCell(f)' = ValueCell(f)
                        /\ own'[f] # Nowhere => own[f] # Nowhere
    BY <1>1, <1>2 DEF ValueCell
  <2>2. \A c \in Task : /\ cell'[c] # "unset" <=> ret[c] = "value" /\ st'[c] = "done"
                        /\ cell'[c] = "moved" => cell[c] = "moved"
    BY <1>1, <1>2, <1>3 DEF IInv, Cells
  <2> QED BY <1>2, <2>1, <2>2 DEF IInv, Cells
<1> QED BY <1>4, <1>5, <1>6 DEF IInv

\* FulfillPromise with a future links the promise to the cell of that future.
LEMMA ReturnFutureKeeps ==
  ASSUME "release" \notin Uses, IInv, TypeOK', NEW t \in Task, NEW v \in Task, ReturnFuture(t, v)
  PROVE  IInv'
<1> DEFINE n == [event |-> Deferred(t), after |-> Precondition(v)]
<1>1. /\ TypeOK /\ Leave(t) /\ ret[t] = "future" /\ own[v] = t /\ MayReturn(v)
      /\ inner' = [inner EXCEPT ![t] = IF ret[v] = "value" THEN v ELSE @]
      /\ cell' = cell /\ armed' = armed \cup Releases(t) \cup {n}
  BY DEF ReturnFuture, IInv
<1>2. /\ st[t] = "running" /\ st'[t] = "done" /\ \A s \in Task : s # t => st'[s] = st[s]
      /\ ret' = ret /\ war' = war /\ fired \subseteq fired' /\ t # Nowhere
      /\ \A f \in Task : (own[f] = t => own'[f] = Nowhere) /\ (own[f] # t => own'[f] = own[f])
  BY <1>1, LeaveEffect
<1>3. /\ inner[t] = NoCell
      /\ \A s \in Task : s # t => inner'[s] = inner[s]
      /\ ret[v] = "value" => inner'[t] = v
      /\ ret[v] = "future" => inner'[t] = NoCell
      /\ ret[v] \in {"value", "future"}
  BY <1>1, <1>2 DEF IInv, Handed, TypeOK
<1>4. n.event = Deferred(t) /\ n.after = Precondition(v) OBVIOUS
<1> HIDE DEF n
<1>5. /\ Fresh' /\ Fired' /\ Released' /\ Readers' /\ Waits' /\ Single' /\ Stored'
      /\ \A u \in armed', s \in Task : u.event = Deferred(s) => u \in armed \/ (s = t /\ u = n)
  <2> DEFINE R == {n}
  <2>1. \A s \in Task : st[s] = "idle" => cell'[s] = cell[s] /\ inner'[s] = inner[s]
    BY <1>1, <1>2, <1>3
  <2>2. \A u \in R : u.event = Deferred(t) BY <1>4
  <2>3. armed' = armed \cup Releases(t) \cup R BY <1>1
  <2> HIDE DEF R
  <2>4. /\ Fresh' /\ Fired' /\ Released' /\ Readers' /\ Waits' /\ Single' /\ Stored'
        /\ \A u \in armed', s \in Task : u.event = Deferred(s) => u \in armed \/ (s = t /\ u \in R)
    BY <1>1, <2>1, <2>2, <2>3, LeaveKeeps
  <2> QED BY <2>4 DEF R
<1>6. st[v] # "idle" /\ v # NoCell BY <1>1, <1>2, Domains DEF IInv, Fresh, NoCell
<1>7. Handed'
  <2>1. \A s \in Task : /\ st[s] = "done" => st'[s] = "done"
                        /\ st[s] # "idle" => st'[s] # "idle"
                        /\ own[s] = Nowhere => own'[s] = Nowhere
    BY <1>2
  <2>2. \A s \in Task : s # t => Precondition(inner[s])' = Precondition(inner[s])
    BY <1>2, <1>3 DEF Precondition, RawPrecondition
  <2>3. \A s \in Task : inner[s] # NoCell => inner[s] \in Task BY <1>1 DEF TypeOK
  <2>4. ASSUME NEW s \in Task, inner'[s] # NoCell
        PROVE  /\ ret'[s] = "future" /\ st'[s] = "done" /\ ret'[inner'[s]] = "value"
               /\ st'[inner'[s]] # "idle" /\ own'[inner'[s]] = Nowhere
    <3>1. CASE s = t BY <1>1, <1>2, <1>3, <1>6, <2>1, <2>4, <3>1
    <3>2. CASE s # t BY <1>2, <1>3, <2>1, <2>3, <2>4, <3>2 DEF IInv, Handed
    <3> QED BY <3>1, <3>2
  <2>5. ASSUME NEW u \in armed', NEW s \in Task, u.event = Deferred(s)
        PROVE  /\ ret'[s] = "future" /\ st'[s] = "done"
               /\ inner'[s] = NoCell => "nest" \in Uses
               /\ inner'[s] # NoCell => u.after = Precondition(inner[s])'
    <3>1. CASE u \in armed
      <4>1. s # t BY <1>2, <2>5, <3>1 DEF IInv, Handed
      <4> QED BY <1>2, <1>3, <2>1, <2>2, <2>5, <3>1, <4>1 DEF IInv, Handed
    <3>2. CASE s = t /\ u = n
      <4>1. inner'[t] # NoCell => Precondition(inner[t])' = Precondition(v)
        BY <1>2, <1>3 DEF Precondition, RawPrecondition
      <4> QED BY <1>1, <1>2, <1>3, <1>4, <1>6, <3>2, <4>1 DEF MayReturn
    <3> QED BY <1>5, <2>5, <3>1, <3>2
  <2> QED BY <2>4, <2>5 DEF Handed
<1>8. Cells'
  <2>1. \A f \in Task : /\ f # t => ValueCell(f)' = ValueCell(f)
                        /\ own'[f] # Nowhere => own[f] # Nowhere /\ f # v
    BY <1>1, <1>2, <1>3 DEF ValueCell
  <2>2. \A c \in Task : ValueCell(t)' = c => c = v /\ ret[v] = "value"
    BY <1>1, <1>2, <1>3, Domains DEF ValueCell, NoCell
  <2>3. ret[v] = "value" =>
          cell[v] # "moved" /\ \A g \in Task : own[g] # Nowhere /\ ValueCell(g) = v => g = v
    BY <1>1, <1>2 DEF IInv, Cells, ValueCell
  <2>4. \A c \in Task : /\ cell'[c] # "unset" <=> ret[c] = "value" /\ st'[c] = "done"
                        /\ cell'[c] = "moved" => war[c] \subseteq fired'
    BY <1>1, <1>2 DEF IInv, Cells
  <2>5. ASSUME NEW c \in Task, NEW f \in Task, own'[f] # Nowhere, ValueCell(f)' = c
        PROVE  /\ cell[c] # "moved"
               /\ \A g \in Task : own'[g] # Nowhere /\ ValueCell(g)' = c => g = f
    <3>1. CASE f = t BY <2>1, <2>2, <2>3, <2>5, <3>1
    <3>2. CASE f # t
      <4>1. own[f] # Nowhere /\ ValueCell(f) = c BY <2>1, <2>5, <3>2
      <4>2. /\ cell[c] # "moved"
            /\ \A g \in Task : own[g] # Nowhere /\ ValueCell(g) = c => g = f
        BY <4>1 DEF IInv, Cells
      <4>3. ValueCell(t)' # c BY <2>1, <2>2, <2>3, <2>5, <3>2, <4>1
      <4> QED BY <2>1, <4>2, <4>3
    <3> QED BY <3>1, <3>2
  <2> QED BY <1>1, <1>2, <2>4, <2>5 DEF Cells
<1> QED BY <1>5, <1>7, <1>8 DEF IInv

-----------------------------------------------------------------------------
(***************************************************************************)
(* The invariant and what follows from it.                                 *)
(***************************************************************************)
\* A step that changes no more than what was missed.
LEMMA Unchanged ==
  ASSUME IInv, TypeOK', launched' = launched, ret' = ret, args' = args, st' = st, pre' = pre,
         cell' = cell, inner' = inner, own' = own, war' = war, vown' = vown, armed' = armed,
         fired' = fired
  PROVE  IInv'
<1>1. \A f : /\ RawPrecondition(f)' = RawPrecondition(f) /\ ValueCell(f)' = ValueCell(f)
             /\ Precondition(f)' = Precondition(f)
  BY DEF RawPrecondition, ValueCell, Precondition
<1>2. \A t, f : (Moves(t, f)' <=> Moves(t, f)) /\ (Views(t, f)' <=> Views(t, f))
  BY DEF Moves, Views
<1>3. Fresh' /\ Fired' /\ Readers' /\ Single' BY DEF IInv, Fresh, Fired, Readers, Single
<1>4. Handed'
  <2>1. \A t \in Task : Precondition(inner[t])' = Precondition(inner[t]) BY DEF Precondition, RawPrecondition
  <2> QED BY <2>1 DEF IInv, Handed
<1>5. Released' BY <1>1 DEF IInv, Released
<1>6. Waits'
  <2>1. \A t \in Task : \A x \in args[t] :
          RawPrecondition(x[2])' = RawPrecondition(x[2]) /\ Precondition(x[2])' = Precondition(x[2])
    BY DEF RawPrecondition, Precondition
  <2> QED BY <2>1 DEF IInv, Waits
<1>7. Stored' BY <1>2 DEF IInv, Stored
<1>8. Cells' BY <1>1 DEF IInv, Cells
<1> QED BY <1>3, <1>4, <1>5, <1>6, <1>7, <1>8 DEF IInv

\* The invariant holds at the start.
LEMMA IInvInit == Init => IInv
<1> SUFFICES ASSUME Init PROVE IInv OBVIOUS
<1>1. TypeOK BY TypeInit
<1>2. \A t \in Task : /\ st[t] = "idle" /\ own[t] = Nowhere /\ vown[t] = Nowhere /\ war[t] = {}
                      /\ args[t] = {} /\ cell[t] = "unset" /\ inner[t] = NoCell
                      /\ t \in Nat /\ t > launched
  <2>1. \A t \in Task : t > 0 BY Domains DEF Task
  <2> QED BY <2>1, Domains DEF Init
<1>3. armed = {} /\ fired = {} BY DEF Init
<1>4. Fresh /\ Fired BY <1>2, <1>3 DEF Fresh, Fired
<1>5. Handed /\ Released /\ Readers BY <1>2, <1>3 DEF Handed, Released, Readers
<1>6. Waits /\ Single BY <1>2 DEF Waits, Single
<1>7. Stored BY <1>2 DEF Stored, Moves, Views
<1>8. Cells BY <1>2 DEF Cells
<1> QED BY <1>1, <1>4, <1>5, <1>6, <1>7, <1>8 DEF IInv

\* Every step keeps the invariant.
LEMMA IInvStep ==
  ASSUME "release" \notin Uses, IInv, [Next]_vars PROVE IInv'
<1>1. TypeOK /\ TypeOK' BY TypeStep DEF IInv
<1>2. ASSUME NEW a \in Actor, NEW f \in Task, WaitAndGet(a, f) PROVE IInv'
  BY <1>1, <1>2, Unchanged DEF WaitAndGet, taskVars
<1>3. CASE UNCHANGED vars BY <1>1, <1>3, Unchanged DEF vars, taskVars
<1> QED BY <1>1, <1>2, <1>3, Steps, LaunchKeeps, MakeViewKeeps, DropViewKeeps, StartKeeps,
           ReturnValueKeeps, ReturnFutureKeeps, FireKeeps

\* The inductive invariant, for a program that releases a view only when the value is
\* there: events, arguments and cells of futures stay consistent however tasks
\* interleave.
THEOREM IInvAlways ==
  ASSUME "release" \notin Uses PROVE Spec => []IInv
<1> QED BY IInvInit, IInvStep, PTL DEF Spec

\* Waiting for the readers of a future (Future::Precondition) is also waiting for its
\* value.
THEOREM WarAlwaysStronger ==
  ASSUME "release" \notin Uses PROVE Spec => []WarIsStronger
<1>1. IInv => WarIsStronger BY PreconditionStronger DEF WarIsStronger
<1> QED BY <1>1, IInvAlways, PTL

\* A future that is ready leads to a value, unless the program returns from a task a
\* future that a task returning a future gave it.
LEMMA ReadyHasValue ==
  ASSUME "nest" \notin Uses, IInv, NEW f \in Task, own[f] # Nowhere,
         RawPrecondition(f) \subseteq fired
  PROVE  HasValue(f)
<1>1. TypeOK /\ ret[f] \in {"value", "future"} /\ f # NoCell BY Domains DEF IInv, TypeOK, NoCell
<1>2. ValueCell(f) # NoCell
  <2>1. CASE ret[f] = "value" BY <1>1, <2>1 DEF ValueCell
  <2>2. CASE ret[f] = "future"
    <3>1. Deferred(f) \in fired BY <2>2 DEF RawPrecondition
    <3>2. PICK u \in armed : u.event = Deferred(f) BY <3>1, FiredUser, EventsDiffer
    <3>3. inner[f] # NoCell BY <3>2 DEF IInv, Handed
    <3> QED BY <2>2, <3>3 DEF ValueCell
  <2> QED BY <1>1, <2>1, <2>2
<1>3. ValueCell(f) \in Task /\ cell[ValueCell(f)] # "unset" BY <1>2, CellFilled
<1>4. cell[ValueCell(f)] # "moved" BY <1>3 DEF IInv, Cells
<1> QED BY <1>1, <1>2, <1>3, <1>4 DEF HasValue, TypeOK

\* promise.h:231: the value of a future is there when its event has triggered, also for
\* the future of a task that hands back the future of a value.
THEOREM ReadyAlwaysMeansValue ==
  ASSUME "release" \notin Uses, "nest" \notin Uses PROVE Spec => []ReadyMeansValue
<1>1. IInv => ReadyMeansValue
  <2>1. \A f \in Task : own[f] \in Actor \cup {InArgs} => own[f] # Nowhere BY Domains
  <2> QED BY <2>1, ReadyHasValue DEF ReadyMeansValue
<1> QED BY <1>1, IInvAlways, PTL

\* What a task reads is there from the moment it may start until it is done.
LEMMA ReadHasValue ==
  ASSUME "peek" \notin Uses, IInv, NEW t \in Task, pre[t] \subseteq fired, st[t] # "done",
         NEW f \in Task, <<"copy", f>> \in args[t] \/ <<"peek", f>> \in args[t]
  PROVE  ret[f] = "value" /\ cell[f] = "set"
<1>1. war[f] # {} BY DEF IInv, Readers
<1>2. ret[f] = "value" BY <1>1 DEF IInv, Readers, TypeOK
<1>3. RawPrecondition(f) \subseteq pre[t]
  <2>1. /\ <<"copy", f>>[1] \notin Moving /\ <<"peek", f>>[1] \notin Moving
        /\ <<"copy", f>>[2] = f /\ <<"peek", f>>[2] = f
    BY DEF Moving
  <2> QED BY <2>1 DEF IInv, Waits
<1>4. ValueCell(f) = f /\ f # NoCell BY <1>2, Domains DEF ValueCell, NoCell
<1>5. cell[f] # "unset" BY <1>3, <1>4, CellFilled
<1>6. cell[f] # "moved" BY MovedMeansRead
<1> QED BY <1>2, <1>5, <1>6 DEF IInv, TypeOK

\* A value is taken out of its cell only when nobody reads it any more.
THEOREM ReadersAlwaysKeepValue ==
  ASSUME "release" \notin Uses, "peek" \notin Uses PROVE Spec => []ReadersKeepValue
<1>1. ASSUME IInv, NEW t \in Task, st[t] = "running", NEW f \in Reads(t) PROVE HasValue(f)
  <2>1. f \in Task /\ (<<"copy", f>> \in args[t] \/ <<"peek", f>> \in args[t])
    <3>1. PICK x \in args[t] : x[1] \in {"copy", "peek"} /\ f = x[2] BY DEF Reads
    <3>2. x = <<x[1], x[2]>> /\ x[2] \in Task BY <1>1, Pairs DEF IInv, TypeOK
    <3> QED BY <3>1, <3>2
  <2>2. pre[t] \subseteq fired BY <1>1 DEF IInv, Waits
  <2>3. ret[f] = "value" /\ cell[f] = "set" BY <1>1, <2>1, <2>2, ReadHasValue
  <2> QED BY <2>1, <2>3, Domains DEF HasValue, ValueCell, NoCell
<1>2. IInv => ReadersKeepValue BY <1>1 DEF ReadersKeepValue
<1> QED BY <1>2, IInvAlways, PTL

\* Whoever asks a future or a view for its value gets it: no task starts, and no
\* wait_and_get returns, before the value is stored or after it was taken.
THEOREM NobodyEverMisses ==
  ASSUME "release" \notin Uses, "nest" \notin Uses, "peek" \notin Uses
  PROVE  Spec => []NobodyMisses
<1>1. Init => NobodyMisses BY DEF Init, NobodyMisses
<1>2. ASSUME IInv, NobodyMisses, [Next]_vars PROVE NobodyMisses'
  <2>1. TypeOK BY <1>2 DEF IInv
  <2>2. ASSUME NEW a \in Actor, NEW f \in Task, WaitAndGet(a, f) PROVE missed' = missed
    <3>1. own[f] # Nowhere BY <2>2, Domains DEF WaitAndGet
    <3>2. HasValue(f) BY <1>2, <2>2, <3>1, ReadyHasValue DEF WaitAndGet
    <3> QED BY <2>2, <3>2 DEF WaitAndGet
  <2>3. ASSUME NEW t \in Task, Start(t) PROVE missed' = missed
    <3>1. ASSUME NEW x \in args[t] PROVE Resolves(x)
      <4>1. x = <<x[1], x[2]>> /\ x[2] \in Task /\ x[1] \in ArgKind BY <2>1, Pairs DEF TypeOK
      <4>2. st[t] = "waiting" /\ pre[t] \subseteq fired BY <2>3 DEF Start
      <4>3. x[1] = "take" => HasValue(x[2])
        <5>1. x[1] = "take" => Takes(t, x[2]) BY <4>1 DEF Takes
        <5>2. x[1] = "take" => own[x[2]] # Nowhere /\ RawPrecondition(x[2]) \subseteq fired
          BY <1>2, <4>1, <4>2, <5>1, TakenCell, Domains
        <5> QED BY <1>2, <4>1, <5>2, ReadyHasValue
      <4>4. x[1] \in {"copy", "peek"} => ViewHasValue(x[2])
        <5>1. /\ x[1] = "copy" => <<"copy", x[2]>> \in args[t]
              /\ x[1] = "peek" => <<"peek", x[2]>> \in args[t]
          BY <4>1
        <5>2. st[t] # "done" BY <4>2
        <5> QED BY <1>2, <4>1, <4>2, <5>1, <5>2, ReadHasValue DEF ViewHasValue
      <4> QED BY <4>3, <4>4 DEF Resolves
    <3> QED BY <2>3, <3>1 DEF Start
  <2>4. ASSUME NEW t \in Task, Leave(t) PROVE missed' = missed BY <2>4 DEF Leave
  <2>5. missed' = missed
    BY <1>2, <2>1, <2>2, <2>3, <2>4, Steps
       DEF Launches, MakeView, DropView, ReturnValue, ReturnFuture, Fire, vars
  <2> QED BY <1>2, <2>5 DEF NobodyMisses
<1> QED BY <1>1, <1>2, IInvAlways, PTL DEF Spec

=============================================================================
