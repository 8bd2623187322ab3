---------------------------- MODULE DeferProofs ----------------------------
(***************************************************************************)
(* Proofs about Defer, for any number of tasks, Stores and processors.     *)
(*                                                                         *)
(* The argument.  A Store keeps the events of every unfinished task that   *)
(* writes it, and of every unfinished task that reads it until a writer is *)
(* launched (Registered).  So a task that conflicts with an earlier one is *)
(* held back by it, or by a writer between the two that is itself behind   *)
(* the earlier one (Ordered).  HeldBack has the two halves of a launch: a  *)
(* task waits for the completion of the other, or, both being              *)
(* stream-ordered, first for its control and then behind it in the stream. *)
(***************************************************************************)
EXTENDS Defer, TLAPS, FiniteSetTheorems

Live(t) == st[t] \in {"waiting", "running", "queued"}

\* The precondition P of a Store has the events a task must wait for behind u.
Keeps(P, u) ==
  /\ Done(u) \in P.effects
  /\ mode[u] # "ordered" => Done(u) \in P.stream
  /\ mode[u] = "ordered" => st[u] = "queued" \/ Control(u) \in P.stream

\* u is ahead of t in the stream of a GPU.
Ahead(u, t, p) ==
  \E i, j \in 1 .. Len(cuda[p]) : i < j /\ cuda[p][i] = u /\ cuda[p][j] = t

\* Both are stream-ordered, and if u has kernels they go to the stream of t.
SameStream(u, t) ==
  /\ mode[u] = "ordered" /\ mode[t] = "ordered"
  /\ proc[u] \in Gpu => proc[t] = proc[u]

\* t cannot touch its data before u is over.
HeldBack(u, t) ==
  \/ st[t] = "waiting" /\ Done(u) \in pre[t]
  \/ SameStream(u, t) /\ st[t] = "waiting" /\ Control(u) \in pre[t]
  \/ SameStream(u, t) /\ st[t] \in {"waiting", "running"} /\ st[u] = "queued"
  \/ SameStream(u, t) /\ st[t] = "queued" /\ Ahead(u, t, proc[t])

ConflictAt(s, A, B) == A[s] # {} /\ B[s] # {} /\ "rw" \in A[s] \cup B[s]

-----------------------------------------------------------------------------
(***************************************************************************)
(* The inductive invariant.                                                *)
(***************************************************************************)

\* The life of a task: what it has before, during and after.
Life ==
  \A t \in Task :
    /\ (t <= launched) <=> (st[t] # "idle")
    /\ ~Live(t) => acc[t] = NoAccess
    /\ Live(t) => stored[t]
    /\ st[t] = "queued" => proc[t] \in Gpu

\* A token has the completion of all it stands for, and a task launched after it
\* waits for them.
Tokens ==
  \A t, u \in Task :
    /\ u \in team[t] => Done(u) \in token[t]
    /\ u \in aft[t] => st[t] = "waiting" /\ Done(u) \in pre[t]

\* The program waits for every task it has launched.
Awaited ==
  /\ \A t \in Task : Live(t) => Done(t) \in barrier \cup bulk
  /\ \A t \in 1 .. synced : Over(t)

\* The order of the end: the tasks, the program, the runtime.
EndOrder ==
  /\ prog = "ended" /\ "nosync" \notin Uses => synced = launched
  /\ stop = "down" => prog = "ended"

\* The stream of a GPU has the stream-ordered tasks whose kernels are enqueued, once.
Streams ==
  /\ \A p \in Gpu : \A i \in 1 .. Len(cuda[p]) :
       /\ st[cuda[p][i]] = "queued" /\ mode[cuda[p][i]] = "ordered" /\ proc[cuda[p][i]] = p
       /\ \A j \in 1 .. Len(cuda[p]) : cuda[p][i] = cuda[p][j] => i = j
  /\ \A t \in Task : st[t] = "queued" /\ mode[t] = "ordered" =>
       \E i \in 1 .. Len(cuda[proc[t]]) : cuda[proc[t]][i] = t

\* A Store keeps the events of its unfinished users, of readers up to the next writer.
Registered ==
  \A u \in Task, s \in Data : Live(u) =>
    /\ "rw" \in acc[u][s] => Keeps(rw[s], u)
    /\ acc[u][s] = {"ro"} =>
         \/ Keeps(war[s], u)
         \/ \E w \in Task : u < w /\ Live(w) /\ "rw" \in acc[w][s]

\* Of two conflicting tasks the later is held back, by the earlier or by a writer
\* between them.
Ordered ==
  \A u, t \in Task, s \in Data :
    u < t /\ Live(u) /\ Live(t) /\ ConflictAt(s, acc[u], acc[t]) =>
      \E w \in Task : /\ w < t /\ Live(w) /\ HeldBack(w, t)
                      /\ w = u \/ (u < w /\ "rw" \in acc[w][s])

IInv ==
  /\ TypeOK /\ Life /\ Tokens /\ Awaited /\ EndOrder /\ Streams
  /\ "streams" \notin Uses => Registered /\ Ordered

-----------------------------------------------------------------------------
(***************************************************************************)
(* The domains.                                                            *)
(***************************************************************************)
\* The primitive events are all different.
LEMMA EventsDistinct ==
  /\ \A s, t : Done(s) = Done(t) => s = t
  /\ \A s, t : Control(s) = Control(t) => s = t
  /\ \A s, t : Done(s) # Control(t)
BY DEF Done, Control

\* Every completion and control event is in the domain of the event fields.
LEMMA EventType == \A t \in Task : Done(t) \in Event /\ Control(t) \in Event
BY DEF Event

\* A task number is an integer, and a bulk launch has at least one task.
LEMMA Domains ==
  /\ Task \subseteq Int /\ NTasks \in Int
  /\ AnyProc \in Proc
  /\ Cardinality(Proc) \in Nat \ {0}
<1>1. AnyProc \in Proc BY ProcAssumption DEF AnyProc, Proc
<1>2. Cardinality(Proc) \in Nat \ {0}
  BY ProcAssumption, FS_CardinalityType, FS_EmptySet DEF Proc
<1> QED BY <1>1, <1>2, NTasksAssumption DEF Task

\* A bulk launch puts each of its tasks on a processor.
LEMMA WhereType ==
  ASSUME NEW k \in Int
  PROVE  LET group == k + 1 .. k + Cardinality(Proc)
         IN  (CHOOSE f \in [group -> Proc] : \A p \in Proc : \E t \in group : f[t] = p)
               \in [group -> Proc]
<1> DEFINE n == Cardinality(Proc)
           group == k + 1 .. k + n
<1>1. n \in Nat BY Domains
<1>2. PICK b \in [1 .. n -> Proc] : \A p \in Proc : \E i \in 1 .. n : b[i] = p
  <2>1. ExistsBijection(1 .. n, Proc)
    BY ProcAssumption, FS_CardinalityType DEF Proc
  <2>2. PICK b \in Surjection(1 .. n, Proc) : TRUE
    BY <2>1 DEF ExistsBijection, Bijection
  <2> QED BY <2>2 DEF Surjection
<1> HIDE DEF n
<1>3. DEFINE f == [t \in group |-> b[t - k]]
<1>4. f \in [group -> Proc] BY <1>1, <1>2
<1>5. ASSUME NEW p \in Proc PROVE \E t \in group : f[t] = p
  <2>1. PICK i \in 1 .. n : b[i] = p BY <1>2
  <2>2. k + i \in group /\ f[k + i] = p BY <1>1, <2>1
  <2> QED BY <2>2
<1>6. \E g \in [group -> Proc] : \A p \in Proc : \E t \in group : g[t] = p
  BY <1>4, <1>5
<1> QED BY <1>6 DEF n

-----------------------------------------------------------------------------
(***************************************************************************)
(* Type correctness.                                                       *)
(***************************************************************************)
\* The runtime and the program start in a well-formed state.
LEMMA TypeInit == Init => TypeOK
<1> SUFFICES ASSUME Init PROVE TypeOK OBVIOUS
<1>1. NoAccess \in Access /\ Nothing \in Precondition
  BY DEF NoAccess, Access, Nothing, Precondition
<1>2. launched \in 0 .. NTasks /\ synced \in 0 .. launched
  BY NTasksAssumption DEF Init
<1>3. cuda \in [Gpu -> Seq(Task)] BY DEF Init
<1> QED BY <1>1, <1>2, <1>3, Domains DEF Init, TypeOK

\* The preconditions of a Store are events, merged or not.
LEMMA MergeType ==
  /\ Nothing \in Precondition
  /\ \A P, Q \in Precondition : Merge(P, Q) \in Precondition
  /\ \A P \in Precondition : P.stream \subseteq Event /\ P.effects \subseteq Event
BY DEF Precondition, Nothing, Merge

\* GetStreamOrderedEvent gives an event of the task.
LEMMA StreamEventType ==
  ASSUME NEW t \in Task, NEW m
  PROVE  /\ StreamEvent(t, m) \subseteq Event
         /\ [stream |-> StreamEvent(t, m), effects |-> {Done(t)}] \in Precondition
BY EventType DEF StreamEvent, Precondition

\* The event that AddDeferredPrecondition adds, and that of a token, are events.
LEMMA LaunchType ==
  ASSUME TypeOK, NEW t \in Task, NEW m, NEW A \in Access, NEW v
  PROVE  /\ \A s \in Data : ArgPrecondition(t, m, s, A[s]) \subseteq Event
         /\ TokenEvent(t, A, v) \subseteq Event
         /\ \A x \in Afters : x.event \subseteq Event /\ x.tasks \subseteq Task
<1>1. ASSUME NEW s \in Data PROVE ArgPrecondition(t, m, s, A[s]) \subseteq Event
  <2>1. rw[s] \in Precondition /\ war[s] \in Precondition BY DEF TypeOK
  <2>2. Carried(t, m, s, A[s]) \in Precondition
    BY <2>1, MergeType, StreamEventType DEF Carried
  <2> QED BY <2>2, MergeType DEF ArgPrecondition
<1>2. TokenEvent(t, A, v) \subseteq Event
  <2>1. \A s \in Data : rw[s].effects \subseteq Event /\ war[s].effects \subseteq Event
    BY MergeType DEF TypeOK
  <2> QED BY <2>1, EventType DEF TokenEvent
<1>3. ASSUME NEW x \in Afters PROVE x.event \subseteq Event /\ x.tasks \subseteq Task
  <2>1. Recent \subseteq Task BY Domains DEF TypeOK, Recent, Task
  <2> QED BY <2>1, EventType DEF Afters, TypeOK
<1> QED BY <1>1, <1>2, <1>3

\* Triggering events and deleting tasks keeps the event fields well-formed.
LEMMA TriggerType ==
  ASSUME TypeOK, NEW E, NEW gone \in SUBSET Task, TriggerAndDelete(E, gone)
  PROVE  /\ pre' \in [Task -> SUBSET Event]
         /\ token' \in [Task -> SUBSET Event]
         /\ args' \in [Task -> SUBSET [store : Data, after : SUBSET Event]]
         /\ stored' \in [Task -> BOOLEAN]
         /\ rw' \in [Data -> Precondition] /\ war' \in [Data -> Precondition]
         /\ barrier' \subseteq Event /\ bulk' \subseteq Event
         /\ pending' \subseteq [task : 0 .. NTasks, store : Data, after : SUBSET Event]
<1>1. pre' \in [Task -> SUBSET Event] /\ token' \in [Task -> SUBSET Event]
  BY DEF TypeOK, TriggerAndDelete
<1>2. args' \in [Task -> SUBSET [store : Data, after : SUBSET Event]]
  <2>1. ASSUME NEW t \in Task, NEW a \in args[t]
        PROVE  [a EXCEPT !.after = @ \ E] \in [store : Data, after : SUBSET Event]
    <3>1. a \in [store : Data, after : SUBSET Event] BY DEF TypeOK
    <3> QED BY <3>1
  <2> QED BY <2>1 DEF TriggerAndDelete
<1>3. stored' \in [Task -> BOOLEAN] /\ barrier' \subseteq Event /\ bulk' \subseteq Event
  BY DEF TypeOK, TriggerAndDelete
<1>4. rw' \in [Data -> Precondition] /\ war' \in [Data -> Precondition]
  BY DEF TypeOK, TriggerAndDelete, Precondition
<1>5. pending' \subseteq [task : 0 .. NTasks, store : Data, after : SUBSET Event]
  <2> DEFINE R == [task : 0 .. NTasks, store : Data, after : SUBSET Event]
             Released(t) == {[task |-> t, store |-> a.store, after |-> a.after] : a \in args[t]}
  <2>1. ASSUME NEW t \in gone PROVE Released(t) \subseteq R
    <3>1. t \in 0 .. NTasks BY NTasksAssumption DEF Task
    <3>2. args[t] \subseteq [store : Data, after : SUBSET Event] BY DEF TypeOK
    <3> QED BY <3>1, <3>2
  <2>2. pending \subseteq R BY DEF TypeOK
  <2>3. \A r \in R : [r EXCEPT !.after = @ \ E] \in R OBVIOUS
  <2>4. pending' = {[r EXCEPT !.after = @ \ E] :
                      r \in pending \cup UNION {Released(t) : t \in gone}}
    BY DEF TriggerAndDelete
  <2> HIDE DEF R, Released
  <2>5. pending' \subseteq R BY <2>1, <2>2, <2>3, <2>4
  <2> QED BY <2>5 DEF R
<1> QED BY <1>1, <1>2, <1>3, <1>4, <1>5

\* A bulk launch keeps the domains.
LEMMA TypeBulk == ASSUME TypeOK, BulkLaunch PROVE TypeOK'
<1> DEFINE n == Cardinality(Proc)
           group == launched + 1 .. launched + n
           where == CHOOSE f \in [group -> Proc] : \A p \in Proc : \E t \in group : f[t] = p
           Members(t) == IF t = launched + n THEN group ELSE {t}
           Events(T) == UNION {TokenEvent(t, NoAccess, FALSE) : t \in T}
<1>1. n \in Nat /\ n # 0 /\ launched \in Int /\ launched \in 0 .. NTasks /\ NTasks \in Int
  BY Domains DEF TypeOK
<1>2. group \subseteq Task /\ launched' = launched + n BY DEF BulkLaunch
<1>3. where \in [group -> Proc] BY <1>1, WhereType
<1>4. \A T \in SUBSET Task : Events(T) \subseteq Event
  <2>1. NoAccess \in Access BY DEF NoAccess, Access
  <2>2. \A t \in Task : TokenEvent(t, NoAccess, FALSE) \subseteq Event BY <2>1, LaunchType
  <2> QED BY <2>2
<1>5. \A t \in group : Members(t) \subseteq Task BY <1>2
<1>6. /\ proc' = [t \in Task |-> IF t \in group THEN where[t] ELSE proc[t]]
      /\ st' = [t \in Task |-> IF t \in group THEN [u \in group |-> "waiting"][t] ELSE st[t]]
      /\ token' = [t \in Task |-> IF t \in group THEN [u \in group |-> Events(Members(u))][t]
                                  ELSE token[t]]
      /\ team' = [t \in Task |-> IF t \in group THEN [u \in group |-> Members(u)][t] ELSE team[t]]
      /\ stored' = [t \in Task |-> IF t \in group THEN [u \in group |-> TRUE][t] ELSE stored[t]]
      /\ bulk' = bulk \cup Events(group)
      /\ UNCHANGED <<acc, mode, aft, pre, args, rw, war, written, barrier, cuda, synced, pending,
                     prog, stop>>
  BY DEF BulkLaunch
<1>7. launched' \in 0 .. NTasks /\ synced' \in 0 .. launched'
  <2>1. launched + n \in group BY <1>1
  <2>2. launched + n \in 1 .. NTasks BY <1>2, <2>1 DEF Task
  <2> QED BY <1>1, <1>2, <1>6, <2>2 DEF TypeOK
<1> HIDE DEF n, group, where, Members, Events
<1>8. proc' \in [Task -> Proc] BY <1>3, <1>6 DEF TypeOK
<1>9. st' \in [Task -> {"idle", "waiting", "running", "queued", "done", "absent"}]
  BY <1>6 DEF TypeOK
<1>10. token' \in [Task -> SUBSET Event] BY <1>4, <1>5, <1>6 DEF TypeOK
<1>11. team' \in [Task -> SUBSET Task] BY <1>5, <1>6 DEF TypeOK
<1>12. stored' \in [Task -> BOOLEAN] BY <1>6 DEF TypeOK
<1>13. bulk' \subseteq Event BY <1>2, <1>4, <1>6 DEF TypeOK
<1> QED BY <1>6, <1>7, <1>8, <1>9, <1>10, <1>11, <1>12, <1>13 DEF TypeOK

\* So does a launch with arguments.
LEMMA TypeLaunch ==
  ASSUME TypeOK, NEW p \in Proc, NEW m \in Modes, NEW x \in Afters, NEW A \in Access,
         NEW v \in BOOLEAN, NEW t, Launch(t, p, m, x, A, v)
  PROVE  TypeOK'
<1>1. t \in Task /\ t = launched + 1 /\ launched' = t BY DEF Launch
<1>2. launched' \in 0 .. NTasks /\ synced' \in 0 .. launched'
  BY <1>1, NTasksAssumption DEF TypeOK, Launch, Task
<1>3. /\ acc' \in [Task -> Access] /\ proc' \in [Task -> Proc]
      /\ mode' \in [Task -> {"plain", "split", "ordered"}]
      /\ st' \in [Task -> {"idle", "waiting", "running", "queued", "done", "absent"}]
      /\ stored' \in [Task -> BOOLEAN]
  BY ModesAssumption DEF Launch, TypeOK
<1>4. pre' \in [Task -> SUBSET Event]
  <2> DEFINE S == x.event \cup UNION {ArgPrecondition(t, m, s, A[s]) : s \in Data}
  <2>1. x.event \subseteq Event /\ \A s \in Data : ArgPrecondition(t, m, s, A[s]) \subseteq Event
    BY <1>1, LaunchType
  <2>2. S \subseteq Event BY <2>1
  <2>3. pre' = [pre EXCEPT ![t] = S] BY DEF Launch
  <2> HIDE DEF S
  <2> QED BY <2>2, <2>3 DEF TypeOK
<1>5. TokenEvent(t, A, v) \subseteq Event /\ x.tasks \subseteq Task BY <1>1, LaunchType
<1>6. /\ token' \in [Task -> SUBSET Event] /\ team' \in [Task -> SUBSET Task]
      /\ aft' \in [Task -> SUBSET Task] /\ barrier' \subseteq Event
  BY <1>1, <1>5 DEF Launch, TypeOK, BarrierEvent
<1>7. args' \in [Task -> SUBSET [store : Data, after : SUBSET Event]]
  <2> DEFINE S == {[store |-> s, after |-> rw[s].effects] :
                     s \in {d \in Data : "rw" \in A[d]} \cap written}
  <2>1. \A s \in Data : rw[s].effects \subseteq Event BY MergeType DEF TypeOK
  <2>2. S \subseteq [store : Data, after : SUBSET Event] BY <2>1
  <2>3. args' = [args EXCEPT ![t] = S] BY DEF Launch
  <2> HIDE DEF S
  <2> QED BY <2>2, <2>3 DEF TypeOK
<1>8. rw' \in [Data -> Precondition] /\ war' \in [Data -> Precondition]
  <2> DEFINE new == [stream |-> StreamEvent(t, m), effects |-> {Done(t)}]
  <2>1. \A s \in Data : /\ rw[s] \in Precondition /\ war[s] \in Precondition
                        /\ Merge(rw[s], new) \in Precondition
                        /\ Merge(war[s], new) \in Precondition
    BY <1>1, MergeType, StreamEventType DEF TypeOK
  <2>2. Nothing \in Precondition BY MergeType
  <2>3. /\ rw' = [s \in Data |-> IF s \in {d \in Data : "rw" \in A[d]} THEN Merge(rw[s], new)
                                 ELSE rw[s]]
        /\ war' = [s \in Data |-> IF s \in {d \in Data : "rw" \in A[d]} THEN Nothing
                                  ELSE IF s \in {d \in Data : A[d] = {"ro"}}
                                       THEN Merge(war[s], new) ELSE war[s]]
    BY DEF Launch
  <2> HIDE DEF new
  <2> QED BY <2>1, <2>2, <2>3
<1> QED BY <1>1, <1>2, <1>3, <1>4, <1>6, <1>7, <1>8 DEF Launch, TypeOK

\* No step of the program, of a task or of Stop leaves the domains; the stream has
\* what KernelEnd takes from it.
LEMMA TypeStep == ASSUME TypeOK, Streams, [Next]_vars PROVE TypeOK'
<1> USE DEF taskVars, eventVars
<1>1. CASE LaunchSome
  BY <1>1, TypeLaunch DEF LaunchSome
<1>2. ASSUME NEW t \in Task, LaunchElsewhere(t) PROVE TypeOK'
  BY <1>2, NTasksAssumption DEF LaunchElsewhere, TypeOK, Task
<1>3. CASE BulkLaunch BY <1>3, TypeBulk
<1>4. CASE BarrierWait BY <1>4, NTasksAssumption DEF BarrierWait, TypeOK
<1>5. ASSUME NEW t \in Task, Start(t) PROVE TypeOK'
  BY <1>5 DEF Start, TypeOK
<1>6. ASSUME NEW t \in Task, Finish(t)
      PROVE  /\ st' \in [Task -> {"idle", "waiting", "running", "queued", "done", "absent"}]
             /\ acc' \in [Task -> Access]
             /\ mode' \in [Task -> {"plain", "split", "ordered"}]
             /\ team' \in [Task -> SUBSET Task] /\ aft' \in [Task -> SUBSET Task]
  <2>1. NoAccess \in Access BY DEF NoAccess, Access
  <2> QED BY <1>6, <2>1 DEF Finish, TypeOK
<1>7. ASSUME NEW t \in Task, ReturnCpu(t) PROVE TypeOK'
  <2>1. TriggerAndDelete({Done(t)} \cup ControlOf(t), {t}) /\ Finish(t)
    BY <1>7 DEF ReturnCpu
  <2>2. proc' \in [Task -> Proc] BY <1>7, Domains DEF ReturnCpu, TypeOK
  <2> QED BY <1>6, <1>7, <2>1, <2>2, TriggerType DEF ReturnCpu, TypeOK
<1>8. ASSUME NEW t \in Task, ReturnGpu(t) PROVE TypeOK'
  <2>1. TriggerAndDelete(ControlOf(t), {}) /\ {} \in SUBSET Task
    BY <1>8 DEF ReturnGpu, DeletedOnGpu
  <2>2. cuda' \in [Gpu -> Seq(Task)] BY <1>8 DEF ReturnGpu, TypeOK
  <2>3. st' \in [Task -> {"idle", "waiting", "running", "queued", "done", "absent"}]
    BY <1>8 DEF ReturnGpu, TypeOK
  <2> QED BY <1>8, <2>1, <2>2, <2>3, TriggerType DEF ReturnGpu, TypeOK
<1>9. ASSUME NEW t \in Task, KernelEnd(t) PROVE TypeOK'
  <2>1. TriggerAndDelete({Done(t)}, {}) /\ Finish(t) /\ {} \in SUBSET Task
    BY <1>9 DEF KernelEnd
  <2>2. cuda' \in [Gpu -> Seq(Task)]
    <3>1. CASE mode[t] # "ordered" BY <1>9, <3>1 DEF KernelEnd, TypeOK
    <3>2. CASE mode[t] = "ordered" /\ proc[t] \in Gpu
      <4>1. cuda[proc[t]] \in Seq(Task) /\ cuda[proc[t]] # <<>>
        BY <1>9, <3>2 DEF KernelEnd, Executing, Streams, TypeOK
      <4>2. Tail(cuda[proc[t]]) \in Seq(Task) BY <4>1
      <4> QED BY <1>9, <3>2, <4>2 DEF KernelEnd, TypeOK
    <3>3. CASE mode[t] = "ordered" /\ proc[t] \notin Gpu
      BY <1>9, <3>3 DEF KernelEnd, TypeOK
    <3> QED BY <3>1, <3>2, <3>3
  <2> QED BY <1>6, <1>9, <2>1, <2>2, TriggerType DEF KernelEnd, TypeOK
<1>10. ASSUME NEW t \in Task, Delete(t) PROVE TypeOK'
  <2>1. TriggerAndDelete({}, {t}) BY <1>10 DEF Delete
  <2>2. proc' \in [Task -> Proc] BY <1>10, Domains DEF Delete, TypeOK
  <2> QED BY <1>10, <2>1, <2>2, TriggerType DEF Delete, TypeOK
<1>11. ASSUME NEW r, Release(r) PROVE TypeOK'
  BY <1>11 DEF Release, DecPendingOp, TypeOK
<1>12. CASE End
  <2>1. ASSUME NEW s \in written
        PROVE  [task |-> Program, store |-> s, after |-> rw[s].effects]
                 \in [task : 0 .. NTasks, store : Data, after : SUBSET Event]
    BY NTasksAssumption, MergeType DEF TypeOK, Program
  <2>2. pending' \subseteq [task : 0 .. NTasks, store : Data, after : SUBSET Event]
    BY <1>12, <2>1 DEF End, TypeOK
  <2> QED BY <1>12, <2>2 DEF End, TypeOK
<1>13. CASE WaitForPendingOps \/ Shutdown
  BY <1>13 DEF WaitForPendingOps, Shutdown, TypeOK
<1>14. CASE UNCHANGED vars BY <1>14 DEF vars, TypeOK
<1> QED
  BY <1>1, <1>2, <1>3, <1>4, <1>5, <1>7, <1>8, <1>9, <1>10, <1>11, <1>12, <1>13, <1>14
  DEF Next, Down

-----------------------------------------------------------------------------
(***************************************************************************)
(* The steps that launch nothing: events trigger, tasks advance.           *)
(***************************************************************************)
Quietly ==
  \/ BarrierWait
  \/ \E t \in Task : Start(t) \/ ReturnCpu(t) \/ ReturnGpu(t) \/ KernelEnd(t) \/ Delete(t)
  \/ \E r \in pending : Release(r)
  \/ End \/ WaitForPendingOps \/ Shutdown \/ UNCHANGED vars

\* The events E are triggered.
Triggers(E) ==
  /\ launched' = launched
  /\ \A x \in Task : pre'[x] = pre[x] \ E /\ token'[x] = token[x] \ E
  /\ \A s \in Data :
       /\ rw'[s].stream = rw[s].stream \ E /\ rw'[s].effects = rw[s].effects \ E
       /\ war'[s].stream = war[s].stream \ E /\ war'[s].effects = war[s].effects \ E
  /\ barrier' = barrier \ E /\ bulk' = bulk \ E

\* The tasks D end, one of the others may start or enqueue its kernels.
Advances(D) ==
  /\ \A x \in D : x \in Task /\ Touching(x) /\ st'[x] = "done" /\ acc'[x] = NoAccess
  /\ \A x \in Task :
       /\ team'[x] = team[x] \ D /\ aft'[x] = aft[x] \ D
       /\ x \notin D =>
            /\ acc'[x] = acc[x] /\ mode'[x] = mode[x]
            /\ Live(x) => proc'[x] = proc[x] /\ stored'[x] = stored[x]
            /\ \/ st'[x] = st[x]
               \/ st[x] = "waiting" /\ pre[x] = {} /\ st'[x] = "running"
               \/ st[x] = "running" /\ proc[x] \in Gpu /\ st'[x] = "queued"

\* A completion triggers when its task ends, a control event when it ends or has
\* enqueued its kernels.
Together(E, D) ==
  \A x \in Task : /\ (Done(x) \in E) <=> (x \in D)
                  /\ Control(x) \in E => x \in D \/ st'[x] = "queued"

Quiet(E, D) == Triggers(E) /\ Advances(D) /\ Together(E, D)

\* A step launches tasks or is quiet.
LEMMA NextSplit ==
  [Next]_vars => Quietly \/ LaunchSome \/ BulkLaunch \/ \E t \in Task : LaunchElsewhere(t)
BY DEF Next, Quietly, Down

\* TriggerAndDelete triggers its events, and deletes the arguments of gone only.
LEMMA TriggersEvents ==
  ASSUME TypeOK, NEW E, NEW gone, TriggerAndDelete(E, gone), launched' = launched
  PROVE  Triggers(E) /\ \A x \in Task \ gone : stored'[x] = stored[x]
<1>1. Triggers(E) BY DEF TriggerAndDelete, Triggers
<1>2. \A x \in Task \ gone : stored'[x] = stored[x] BY DEF TriggerAndDelete, TypeOK
<1> QED BY <1>1, <1>2

\* Steps that trigger nothing and end no task.
LEMMA QuietNothing ==
  ASSUME IInv,
         UNCHANGED <<launched, acc, mode, team, aft, pre, token, rw, war, barrier, bulk>>,
         \A x \in Task : /\ Live(x) => proc'[x] = proc[x] /\ stored'[x] = stored[x]
                         /\ \/ st'[x] = st[x]
                            \/ st[x] = "waiting" /\ pre[x] = {} /\ st'[x] = "running"
  PROVE  Quiet({}, {})
BY DEF Quiet, Triggers, Advances, Together, IInv, TypeOK

\* Every quiet step triggers the events of the tasks it ends and no others.
LEMMA QuietStep ==
  ASSUME IInv, Quietly
  PROVE  \E E \in SUBSET Event, D \in SUBSET Task : Quiet(E, D)
<1> USE EventType, EventsDistinct
<1>0. TypeOK BY DEF IInv
<1>1. ASSUME NEW t \in Task, ReturnCpu(t)
      PROVE  \E E \in SUBSET Event, D \in SUBSET Task : Quiet(E, D)
  <2> DEFINE E == {Done(t)} \cup ControlOf(t)
  <2>1. E \in SUBSET Event BY DEF ControlOf
  <2>2. Triggers(E) /\ \A x \in Task \ {t} : stored'[x] = stored[x]
    BY <1>0, <1>1, TriggersEvents DEF ReturnCpu
  <2>3. Advances({t})
    BY <1>1, <2>2 DEF ReturnCpu, Finish, Advances, IInv, TypeOK, Touching
  <2>4. Together(E, {t}) BY DEF Together, ControlOf
  <2> QED BY <2>1, <2>2, <2>3, <2>4 DEF Quiet
<1>2. ASSUME NEW t \in Task, ReturnGpu(t)
      PROVE  \E E \in SUBSET Event, D \in SUBSET Task : Quiet(E, D)
  <2> DEFINE E == ControlOf(t)
  <2>1. E \in SUBSET Event BY DEF ControlOf
  <2>2. Triggers(E) /\ \A x \in Task : stored'[x] = stored[x]
    BY <1>0, <1>2, TriggersEvents DEF ReturnGpu, DeletedOnGpu
  <2>3. Advances({})
    BY <1>2, <2>2 DEF ReturnGpu, Advances, IInv, TypeOK
  <2>4. Together(E, {}) BY <1>2 DEF Together, ControlOf, ReturnGpu, IInv, TypeOK
  <2> QED BY <2>1, <2>2, <2>3, <2>4 DEF Quiet
<1>3. ASSUME NEW t \in Task, KernelEnd(t)
      PROVE  \E E \in SUBSET Event, D \in SUBSET Task : Quiet(E, D)
  <2> DEFINE E == {Done(t)}
  <2>1. Triggers(E) /\ \A x \in Task : stored'[x] = stored[x]
    BY <1>0, <1>3, TriggersEvents DEF KernelEnd
  <2>2. Advances({t})
    BY <1>3, <2>1 DEF KernelEnd, Finish, Advances, IInv, TypeOK, Touching
  <2>3. Together(E, {t}) BY DEF Together
  <2> QED BY <2>1, <2>2, <2>3 DEF Quiet
<1>4. ASSUME NEW t \in Task, Delete(t)
      PROVE  \E E \in SUBSET Event, D \in SUBSET Task : Quiet(E, D)
  <2>1. Triggers({}) /\ \A x \in Task \ {t} : stored'[x] = stored[x]
    BY <1>0, <1>4, TriggersEvents DEF Delete
  <2>2. Advances({}) BY <1>4, <2>1 DEF Delete, Advances, IInv, TypeOK, Live
  <2>3. Together({}, {}) BY DEF Together
  <2> QED BY <2>1, <2>2, <2>3 DEF Quiet
<1>5. ASSUME \/ BarrierWait \/ End \/ WaitForPendingOps \/ Shutdown \/ UNCHANGED vars
             \/ \E t \in Task : Start(t)
             \/ \E r \in pending : Release(r)
      PROVE  Quiet({}, {})
  <2>1. UNCHANGED <<launched, acc, mode, team, aft, pre, token, rw, war, barrier, bulk,
                    proc, stored>>
    BY <1>5 DEF BarrierWait, End, WaitForPendingOps, Shutdown, vars, taskVars, eventVars, Start,
                Release
  <2>2. \A x \in Task : \/ st'[x] = st[x]
                        \/ st[x] = "waiting" /\ pre[x] = {} /\ st'[x] = "running"
    BY <1>5 DEF BarrierWait, End, WaitForPendingOps, Shutdown, vars, taskVars, eventVars, Start,
                Release, IInv, TypeOK
  <2> QED BY <2>1, <2>2, QuietNothing
<1> QED BY <1>1, <1>2, <1>3, <1>4, <1>5 DEF Quietly

-----------------------------------------------------------------------------
(***************************************************************************)
(* The steps that launch tasks G.                                          *)
(***************************************************************************)
Launches(G) ==
  /\ prog = "run" /\ UNCHANGED <<cuda, synced, prog, stop>>
  /\ barrier \subseteq barrier' /\ bulk \subseteq bulk'
  /\ \A x \in Task :
       /\ (x <= launched') <=> (x <= launched \/ x \in G)
       /\ x \notin G =>
            /\ acc'[x] = acc[x] /\ proc'[x] = proc[x] /\ mode'[x] = mode[x] /\ pre'[x] = pre[x]
            /\ st'[x] = st[x] /\ token'[x] = token[x] /\ team'[x] = team[x] /\ aft'[x] = aft[x]
            /\ stored'[x] = stored[x]
  /\ \A x \in G : x \in Task /\ st[x] = "idle" /\ launched < x

\* The tasks launched have what the invariant says of a task.
Equips(G) ==
  \A x \in G :
    /\ \/ st'[x] = "absent" /\ acc'[x] = NoAccess
       \/ st'[x] = "waiting" /\ stored'[x] /\ Done(x) \in barrier' \cup bulk'
    /\ \A u \in Task : /\ u \in team'[x] => Done(u) \in token'[x]
                       /\ u \in aft'[x] => st'[x] = "waiting" /\ Done(u) \in pre'[x]

\* Outside the tasks it launches, _defer changes nothing of a task.
LEMMA LaunchStep ==
  ASSUME IInv, NEW p, NEW m, NEW x \in Afters, NEW A,
         NEW v, NEW t, Launch(t, p, m, x, A, v)
  PROVE  Launches({t}) /\ Equips({t})
<1>1. t \in Task /\ t = launched + 1 /\ launched' = t /\ launched \in Int
  BY DEF Launch, IInv, TypeOK
<1>2. st[t] = "idle" BY <1>1, Domains DEF IInv, Life
<1>3. Launches({t})
  <2>1. /\ prog = "run" /\ UNCHANGED <<cuda, synced, prog, stop>>
        /\ barrier \subseteq barrier' /\ bulk \subseteq bulk'
    BY DEF Launch
  <2>2. \A y \in Task : (y <= launched') <=> (y <= launched \/ y = t)
    BY <1>1, Domains
  <2>3. ASSUME NEW y \in Task, y # t
        PROVE  /\ acc'[y] = acc[y] /\ proc'[y] = proc[y] /\ mode'[y] = mode[y]
               /\ pre'[y] = pre[y] /\ st'[y] = st[y] /\ token'[y] = token[y]
               /\ team'[y] = team[y] /\ aft'[y] = aft[y] /\ stored'[y] = stored[y]
    BY <2>3 DEF Launch, IInv, TypeOK
  <2> QED BY <1>1, <1>2, <2>1, <2>2, <2>3 DEF Launches
<1>4. st'[t] = "waiting" /\ stored'[t] /\ Done(t) \in barrier'
  BY <1>1 DEF Launch, BarrierEvent, TokenEvent, IInv, TypeOK
<1>5. ASSUME NEW u \in team'[t] PROVE Done(u) \in token'[t]
  BY <1>1 DEF Launch, TokenEvent, IInv, TypeOK
<1>6. ASSUME NEW u \in Task, u \in aft'[t] PROVE Done(u) \in pre'[t]
  <2>1. aft'[t] = x.tasks /\ x.event \subseteq pre'[t]
    BY <1>1 DEF Launch, IInv, TypeOK
  <2>2. Recent \subseteq Task BY <1>1, Domains DEF Recent, IInv, TypeOK, Task
  <2>3. Done(u) \in x.event
    BY <1>6, <2>1, <2>2 DEF Afters, IInv, Tokens
  <2> QED BY <2>1, <2>3
<1> QED BY <1>3, <1>4, <1>5, <1>6 DEF Equips

\* The same for a launch on other devices: its token is ready.
LEMMA ElsewhereStep ==
  ASSUME IInv, NEW t \in Task, LaunchElsewhere(t)
  PROVE  Launches({t}) /\ Equips({t}) /\ UNCHANGED <<acc, rw, war>>
<1>1. t = launched + 1 /\ launched' = t /\ launched \in Int
  BY DEF LaunchElsewhere, IInv, TypeOK
<1>2. st[t] = "idle" BY <1>1, Domains DEF IInv, Life
<1>3. Launches({t})
  BY <1>1, <1>2, Domains DEF Launches, LaunchElsewhere, IInv, TypeOK, eventVars
<1>4. st'[t] = "absent" /\ acc'[t] = NoAccess
  BY <1>2 DEF LaunchElsewhere, IInv, TypeOK, Life, Live
<1>5. \A u \in Task : (u \in team'[t] => Done(u) \in token'[t]) /\ u \notin aft'[t]
  BY <1>2 DEF LaunchElsewhere, IInv, Tokens, eventVars
<1>6. Equips({t}) BY <1>4, <1>5 DEF Equips
<1> QED BY <1>3, <1>6 DEF LaunchElsewhere, eventVars

\* The same for a bulk launch: its token has the completion of every task.
LEMMA BulkStep ==
  ASSUME IInv, BulkLaunch
  PROVE  \E G \in SUBSET Task : Launches(G) /\ Equips(G) /\ UNCHANGED <<acc, rw, war>>
<1> DEFINE n == Cardinality(Proc)
           group == launched + 1 .. launched + n
           where == CHOOSE f \in [group -> Proc] : \A p \in Proc : \E t \in group : f[t] = p
           Members(t) == IF t = launched + n THEN group ELSE {t}
           Events(T) == UNION {TokenEvent(t, NoAccess, FALSE) : t \in T}
<1>1. n \in Nat /\ launched \in Int BY Domains DEF IInv, TypeOK
<1>2. /\ group \subseteq Task /\ launched' = launched + n /\ prog = "run"
      /\ proc' = [t \in Task |-> IF t \in group THEN where[t] ELSE proc[t]]
      /\ st' = [t \in Task |-> IF t \in group THEN [u \in group |-> "waiting"][t] ELSE st[t]]
      /\ token' = [t \in Task |-> IF t \in group THEN [u \in group |-> Events(Members(u))][t]
                                  ELSE token[t]]
      /\ team' = [t \in Task |-> IF t \in group THEN [u \in group |-> Members(u)][t] ELSE team[t]]
      /\ stored' = [t \in Task |-> IF t \in group THEN [u \in group |-> TRUE][t] ELSE stored[t]]
      /\ bulk' = bulk \cup Events(group)
      /\ UNCHANGED <<acc, mode, aft, pre, args, rw, war, written, barrier, cuda, synced, pending,
                     prog, stop>>
  BY DEF BulkLaunch
<1>3. \A x \in Task : /\ (x <= launched') <=> (x <= launched \/ x \in group)
                      /\ x \in group => launched < x
  BY <1>1, <1>2, Domains
<1>4. \A T \in SUBSET Task : \A u \in T : Done(u) \in Events(T)
  BY DEF TokenEvent
<1>5. \A u \in group : u \in Members(u) OBVIOUS
<1>6. \A u \in group : Members(u) \in SUBSET Task BY <1>2
<1> HIDE DEF n, group, where, Members, Events
<1>7. \A x \in group : st[x] = "idle"
  BY <1>1, <1>2, <1>3, Domains DEF IInv, Life
<1>8. Launches(group)
  BY <1>2, <1>3, <1>7 DEF Launches, IInv, TypeOK
<1>9. Equips(group)
  <2>1. ASSUME NEW x \in group
        PROVE  st'[x] = "waiting" /\ stored'[x] /\ Done(x) \in bulk'
    BY <1>2, <1>4, <2>1
  <2>2. ASSUME NEW x \in group, NEW u \in Task
        PROVE  (u \in team'[x] => Done(u) \in token'[x]) /\ u \notin aft'[x]
    <3>1. team'[x] = Members(x) /\ token'[x] = Events(Members(x)) BY <1>2
    <3>2. u \notin aft'[x] BY <1>2, <1>7 DEF IInv, Tokens
    <3> QED BY <1>4, <1>6, <3>1, <3>2
  <2> QED BY <2>1, <2>2 DEF Equips
<1> QED BY <1>2, <1>8, <1>9

-----------------------------------------------------------------------------
(***************************************************************************)
(* Each part of the invariant is preserved.                                *)
(***************************************************************************)
\* A step launches tasks that are equipped, or is quiet.
LEMMA StepKinds ==
  ASSUME IInv, [Next]_vars
  PROVE  \/ \E E \in SUBSET Event, D \in SUBSET Task : Quietly /\ Quiet(E, D)
         \/ \E G \in SUBSET Task : Launches(G) /\ Equips(G)
<1>1. CASE Quietly BY <1>1, QuietStep
<1>2. CASE LaunchSome
  <2>1. PICK p \in Proc, m \in Modes, x \in Afters, A \in Access, v \in BOOLEAN :
          Launch(launched + 1, p, m, x, A, v)
    BY <1>2 DEF LaunchSome
  <2>2. launched + 1 \in Task BY <2>1 DEF Launch
  <2>3. Launches({launched + 1}) /\ Equips({launched + 1}) BY <2>1, LaunchStep
  <2> QED BY <2>2, <2>3
<1>3. CASE BulkLaunch BY <1>3, BulkStep
<1>4. CASE \E t \in Task : LaunchElsewhere(t) BY <1>4, ElsewhereStep
<1> QED BY <1>1, <1>2, <1>3, <1>4, NextSplit

\* A task is given its arguments when it is launched and keeps them until it is over.
LEMMA LifeStep == ASSUME IInv, [Next]_vars PROVE Life'
<1>1. ASSUME NEW E, NEW D, Quiet(E, D) PROVE Life'
  <2> SUFFICES ASSUME NEW t \in Task
               PROVE  /\ (t <= launched') <=> (st'[t] # "idle")
                      /\ ~Live(t)' => acc'[t] = NoAccess
                      /\ Live(t)' => stored'[t]
                      /\ st'[t] = "queued" => proc'[t] \in Gpu
    BY DEF Life
  <2>1. launched' = launched BY <1>1 DEF Quiet, Triggers
  <2>2. CASE t \in D
    BY <1>1, <2>1, <2>2 DEF Quiet, Advances, Touching, Executing, Live, IInv, Life
  <2>3. CASE t \notin D
    BY <1>1, <2>1, <2>3 DEF Quiet, Advances, Live, IInv, Life
  <2> QED BY <2>2, <2>3
<1>2. ASSUME NEW G, Launches(G), Equips(G) PROVE Life'
  BY <1>2 DEF Launches, Equips, Live, IInv, Life
<1> QED BY <1>1, <1>2, StepKinds

\* A token keeps the completion of each of its tasks until that task is over, and so
\* does a task launched after it.
LEMMA TokensStep == ASSUME IInv, [Next]_vars PROVE Tokens'
<1>1. ASSUME NEW E, NEW D, Quiet(E, D) PROVE Tokens'
  <2> SUFFICES ASSUME NEW t \in Task, NEW u \in Task
               PROVE  /\ u \in team'[t] => Done(u) \in token'[t]
                      /\ u \in aft'[t] => st'[t] = "waiting" /\ Done(u) \in pre'[t]
    BY DEF Tokens
  <2>1. ASSUME u \in team'[t] PROVE Done(u) \in token'[t]
    BY <1>1, <2>1 DEF Quiet, Triggers, Advances, Together, IInv, Tokens
  <2>2. ASSUME u \in aft'[t] PROVE st'[t] = "waiting" /\ Done(u) \in pre'[t]
    <3>1. u \in aft[t] /\ Done(u) \notin E
      BY <1>1, <2>2 DEF Quiet, Advances, Together
    <3>2. st[t] = "waiting" /\ Done(u) \in pre[t]
      BY <3>1 DEF IInv, Tokens
    <3>3. t \notin D
      BY <1>1, <3>2 DEF Quiet, Advances, Touching, Executing
    <3> QED BY <1>1, <3>1, <3>2, <3>3 DEF Quiet, Advances, Triggers
  <2> QED BY <2>1, <2>2
<1>2. ASSUME NEW G, Launches(G), Equips(G) PROVE Tokens'
  BY <1>2 DEF Launches, Equips, IInv, Tokens
<1> QED BY <1>1, <1>2, StepKinds

\* The barrier and the tokens of the bulk launches lose no unfinished task.
LEMMA AwaitedStep == ASSUME IInv, [Next]_vars PROVE Awaited'
<1>1. synced \in Int /\ launched \in Int /\ synced <= launched /\ launched <= NTasks
  BY Domains DEF IInv, TypeOK
<1>2. 1 .. synced \subseteq Task BY <1>1, Domains DEF Task
<1>3. ASSUME NEW E, NEW D, Quietly, Quiet(E, D) PROVE Awaited'
  <2>1. ASSUME NEW t \in Task, Live(t)' PROVE Done(t) \in barrier' \cup bulk'
    <3>1. t \notin D BY <1>3, <2>1 DEF Quiet, Advances, Live
    <3>2. Live(t) BY <1>3, <2>1, <3>1 DEF Quiet, Advances, Live
    <3> QED BY <1>3, <3>1, <3>2 DEF Quiet, Triggers, Together, IInv, Awaited
  <2>2. ASSUME NEW t \in Task, Over(t) PROVE Over(t)'
    BY <1>3, <2>2 DEF Quiet, Advances, Over
  <2>3. CASE ~BarrierWait
    <3>1. synced' = synced
      BY <1>3, <2>3 DEF Quietly, Start, ReturnCpu, ReturnGpu, KernelEnd, Delete, Release, End,
                        WaitForPendingOps, Shutdown, vars
    <3> QED BY <1>2, <2>1, <2>2, <3>1 DEF IInv, Awaited
  <2>4. CASE BarrierWait
    <3>1. synced' = launched /\ barrier = {} /\ bulk = {} BY <2>4 DEF BarrierWait
    <3>2. ASSUME NEW t \in 1 .. launched PROVE Over(t)
      <4>1. t \in Task BY <1>1, Domains DEF Task
      <4>2. ~Live(t) BY <3>1, <4>1 DEF IInv, Awaited
      <4>3. st[t] # "idle" BY <4>1 DEF IInv, Life
      <4> QED BY <4>1, <4>2, <4>3 DEF IInv, TypeOK, Live, Over
    <3>3. 1 .. launched \subseteq Task BY <1>1, Domains DEF Task
    <3> QED BY <2>1, <2>2, <3>1, <3>2, <3>3 DEF Awaited
  <2> QED BY <2>3, <2>4
<1>4. ASSUME NEW G, Launches(G), Equips(G) PROVE Awaited'
  <2>1. ASSUME NEW t \in Task, Live(t)' PROVE Done(t) \in barrier' \cup bulk'
    BY <1>4, <2>1 DEF Launches, Equips, Live, IInv, Awaited
  <2>2. ASSUME NEW t \in 1 .. synced PROVE Over(t)'
    <3>1. t \in Task /\ t <= launched BY <1>1, <1>2
    <3>2. t \notin G BY <1>1, <1>4, <3>1, Domains DEF Launches
    <3> QED BY <1>4, <3>1, <3>2 DEF Launches, IInv, Awaited, Over
  <2> QED BY <1>4, <2>1, <2>2 DEF Launches, Awaited
<1> QED BY <1>3, <1>4, StepKinds

\* The program returns when it has waited, and the runtime stops after it.
LEMMA EndOrderStep == ASSUME IInv, [Next]_vars PROVE EndOrder'
<1> USE DEF EndOrder, IInv
<1>1. ASSUME NEW G, Launches(G) PROVE EndOrder' BY <1>1 DEF Launches
<1>2. CASE Quietly
  <2>1. CASE BarrierWait \/ End \/ WaitForPendingOps \/ Shutdown \/ UNCHANGED vars
    BY <2>1 DEF BarrierWait, End, WaitForPendingOps, Shutdown, Agreed, vars, taskVars
  <2>2. ASSUME NEW t \in Task, Start(t) \/ ReturnCpu(t) \/ ReturnGpu(t) \/ KernelEnd(t) \/ Delete(t)
        PROVE  EndOrder'
    BY <2>2 DEF Start, ReturnCpu, ReturnGpu, KernelEnd, Delete
  <2>3. ASSUME NEW r, Release(r) PROVE EndOrder'
    BY <2>3 DEF Release, taskVars
  <2> QED BY <1>2, <2>1, <2>2, <2>3 DEF Quietly
<1> QED BY <1>1, <1>2, StepKinds

-----------------------------------------------------------------------------
(***************************************************************************)
(* The streams.                                                            *)
(***************************************************************************)
\* Appending to a sequence keeps its elements; the last is the new one.
LEMMA AppendAt ==
  ASSUME NEW S, NEW q \in Seq(S), NEW e \in S
  PROVE  /\ Append(q, e) \in Seq(S) /\ Len(Append(q, e)) = Len(q) + 1 /\ Len(q) \in Nat
         /\ \A i \in 1 .. Len(q) : Append(q, e)[i] = q[i] /\ q[i] \in S
         /\ Append(q, e)[Len(q) + 1] = e
OBVIOUS

\* The tail of a sequence has its elements one place further ahead.
LEMMA TailAt ==
  ASSUME NEW S, NEW q \in Seq(S), q # <<>>
  PROVE  /\ Tail(q) \in Seq(S) /\ Len(Tail(q)) = Len(q) - 1 /\ Len(q) \in Nat /\ Len(q) >= 1
         /\ \A i \in 1 .. Len(q) - 1 : Tail(q)[i] = q[i + 1]
         /\ Head(q) = q[1]
OBVIOUS

\* What a quiet step does to the streams: nothing, or the kernels of one task are
\* enqueued, or those at the head of a stream end.
StreamMoves(D) ==
  \/ /\ cuda' = cuda
     /\ \A x \in Task : mode[x] = "ordered" =>
          (x \notin D \/ st[x] # "queued") /\ (st'[x] = "queued" => st[x] = "queued")
  \/ \E t \in Task :
       /\ mode[t] = "ordered" /\ st[t] = "running" /\ st'[t] = "queued" /\ D = {}
       /\ proc[t] \in Gpu /\ cuda' = [cuda EXCEPT ![proc[t]] = Append(@, t)]
       /\ \A x \in Task : x # t => st'[x] = st[x]
  \/ \E t \in Task :
       /\ mode[t] = "ordered" /\ st[t] = "queued" /\ D = {t}
       /\ proc[t] \in Gpu /\ t = cuda[proc[t]][1] /\ cuda[proc[t]] # <<>>
       /\ cuda' = [cuda EXCEPT ![proc[t]] = Tail(@)]
       /\ \A x \in Task : x # t => st'[x] = st[x]

\* KernelEnd takes the head of the stream, ReturnGpu appends to it.
LEMMA StreamStep ==
  ASSUME IInv, Quietly, NEW E, NEW D, Quiet(E, D)
  PROVE  StreamMoves(D)
<1>1. ASSUME NEW t \in Task, ReturnGpu(t) PROVE StreamMoves(D)
  <2>1. D = {}
    <3>1. \A x \in Task : st'[x] = "done" => st[x] = "done"
      BY <1>1 DEF ReturnGpu, IInv, TypeOK
    <3> QED BY <3>1 DEF Quiet, Advances, Touching, Executing
  <2>2. CASE mode[t] = "ordered"
    BY <1>1, <2>1, <2>2 DEF ReturnGpu, StreamMoves, IInv, TypeOK
  <2>3. CASE mode[t] # "ordered"
    <3>1. cuda' = cuda BY <1>1, <2>3 DEF ReturnGpu
    <3>2. \A x \in Task : mode[x] = "ordered" => st'[x] = st[x]
      BY <1>1, <2>3 DEF ReturnGpu, IInv, TypeOK
    <3> QED BY <2>1, <3>1, <3>2 DEF StreamMoves
  <2> QED BY <2>2, <2>3
<1>2. ASSUME NEW t \in Task, KernelEnd(t) PROVE StreamMoves(D)
  <2>1. st[t] = "queued" /\ st' = [st EXCEPT ![t] = "done"]
    BY <1>2 DEF KernelEnd, Executing, Finish
  <2>2. D = {t}
    <3>1. \A x \in D : x = t
      BY <2>1 DEF Quiet, Advances, Touching, Executing, IInv, TypeOK
    <3>2. t \in D
      BY <2>1 DEF Quiet, Advances, IInv, TypeOK
    <3> QED BY <3>1, <3>2
  <2>3. CASE mode[t] = "ordered"
    <3>1. proc[t] \in Gpu BY <2>1 DEF IInv, Life
    <3>2. cuda[proc[t]] \in Seq(Task) BY <3>1 DEF IInv, TypeOK
    <3>3. cuda[proc[t]] # <<>> BY <2>1, <2>3, <3>2 DEF IInv, Streams
    <3>4. t = cuda[proc[t]][1]
      BY <1>2, <2>3, <3>2, <3>3, TailAt DEF KernelEnd, Executing
    <3>5. cuda' = [cuda EXCEPT ![proc[t]] = Tail(@)] BY <1>2, <2>3 DEF KernelEnd
    <3> QED BY <2>1, <2>2, <2>3, <3>1, <3>3, <3>4, <3>5 DEF StreamMoves, IInv, TypeOK
  <2>4. CASE mode[t] # "ordered"
    BY <1>2, <2>1, <2>2, <2>4 DEF KernelEnd, StreamMoves, IInv, TypeOK
  <2> QED BY <2>3, <2>4
<1>3. ASSUME NEW t \in Task, ReturnCpu(t) PROVE StreamMoves(D)
  <2>1. cuda' = cuda /\ st[t] = "running" /\ st' = [st EXCEPT ![t] = "done"]
    BY <1>3 DEF ReturnCpu, Finish
  <2>2. \A x \in D : x = t
    BY <2>1 DEF Quiet, Advances, Touching, Executing, IInv, TypeOK
  <2> QED BY <2>1, <2>2 DEF StreamMoves, IInv, TypeOK
<1>4. ASSUME NEW t \in Task, Start(t) \/ Delete(t) PROVE StreamMoves(D)
  <2>1. cuda' = cuda /\ \A x \in Task : st'[x] = st[x] \/ st'[x] = "running"
    BY <1>4 DEF Start, Delete, IInv, TypeOK
  <2> QED
    BY <2>1 DEF StreamMoves, Quiet, Advances, Touching, Executing
<1>5. ASSUME \/ BarrierWait \/ End \/ WaitForPendingOps \/ Shutdown \/ UNCHANGED vars
             \/ \E r \in pending : Release(r)
      PROVE  StreamMoves(D)
  <2>1. cuda' = cuda /\ st' = st
    BY <1>5 DEF BarrierWait, End, WaitForPendingOps, Shutdown, vars, taskVars, Release
  <2> QED
    BY <2>1 DEF StreamMoves, Quiet, Advances, Touching, Executing
<1> QED BY <1>1, <1>2, <1>3, <1>4, <1>5 DEF Quietly

\* A stream has each task with enqueued stream-ordered kernels once.
LEMMA StreamsStep == ASSUME IInv, [Next]_vars PROVE Streams'
<1>1. ASSUME NEW G, Launches(G), Equips(G) PROVE Streams'
  <2>1. \A p \in Gpu : \A i \in 1 .. Len(cuda[p]) : cuda[p][i] \in Task
    BY DEF IInv, TypeOK
  <2>2. \A x \in Task : st[x] = "queued" => x \notin G BY <1>1 DEF Launches
  <2>3. \A x \in Task : st'[x] = "queued" => x \notin G /\ st[x] = "queued"
    BY <1>1 DEF Launches, Equips
  <2> QED BY <1>1, <2>1, <2>2, <2>3 DEF Launches, IInv, Streams
<1>2. ASSUME NEW E, NEW D, Quietly, Quiet(E, D) PROVE Streams'
  <2>1. /\ \A p \in Gpu : /\ cuda[p] \in Seq(Task) /\ Len(cuda[p]) \in Nat
                          /\ \A i \in 1 .. Len(cuda[p]) : cuda[p][i] \in Task
        /\ Streams
    BY DEF IInv, TypeOK
  <2>2. \A x \in Task \ D : /\ mode'[x] = mode[x]
                            /\ st[x] = "queued" => st'[x] = "queued" /\ proc'[x] = proc[x]
                            /\ st'[x] = "queued" => proc'[x] = proc[x]
    BY <1>2 DEF Quiet, Advances, Live
  <2>3. \A x \in D : st'[x] = "done" BY <1>2 DEF Quiet, Advances
  <2>4. \A x \in Task : st[x] = "queued" => proc[x] \in Gpu BY DEF IInv, Life
  <2>5. StreamMoves(D) BY <1>2, StreamStep
  <2>6. CASE /\ cuda' = cuda
             /\ \A x \in Task : mode[x] = "ordered" =>
                  (x \notin D \/ st[x] # "queued") /\ (st'[x] = "queued" => st[x] = "queued")
    BY SMTT(30), <2>1, <2>2, <2>3, <2>6 DEF Streams
  <2>7. ASSUME NEW t \in Task,
               mode[t] = "ordered", st[t] = "running", st'[t] = "queued", D = {},
               proc[t] \in Gpu, cuda' = [cuda EXCEPT ![proc[t]] = Append(@, t)],
               \A x \in Task : x # t => st'[x] = st[x]
        PROVE  Streams'
    <3> DEFINE q == proc[t]
    <3>1. /\ Len(cuda'[q]) = Len(cuda[q]) + 1 /\ cuda'[q][Len(cuda[q]) + 1] = t
          /\ \A i \in 1 .. Len(cuda[q]) : cuda'[q][i] = cuda[q][i]
          /\ \A p \in Gpu : p # q => cuda'[p] = cuda[p]
      BY <2>1, <2>7, AppendAt DEF IInv, TypeOK
    <3>2. \A i \in 1 .. Len(cuda[q]) : cuda[q][i] # t
      BY <2>1, <2>7 DEF Streams
    <3>3. \A p \in Gpu : \A i \in 1 .. Len(cuda'[p]) :
            cuda'[p][i] \in Task /\ st'[cuda'[p][i]] = "queued" /\ mode'[cuda'[p][i]] = "ordered"
              /\ proc'[cuda'[p][i]] = p
      <4> SUFFICES ASSUME NEW p \in Gpu, NEW i \in 1 .. Len(cuda'[p])
                   PROVE  /\ cuda'[p][i] \in Task /\ st'[cuda'[p][i]] = "queued"
                          /\ mode'[cuda'[p][i]] = "ordered" /\ proc'[cuda'[p][i]] = p
        OBVIOUS
      <4>1. CASE p = q /\ i = Len(cuda[q]) + 1
        BY <2>1, <2>2, <2>7, <3>1, <4>1
      <4>2. CASE p # q \/ i # Len(cuda[q]) + 1
        <5>1. i \in 1 .. Len(cuda[p]) /\ cuda'[p][i] = cuda[p][i]
          BY <2>1, <2>7, <3>1, <4>2
        <5>2. cuda[p][i] \in Task \ D BY <2>1, <2>7, <5>1
        <5> HIDE DEF q
        <5> QED BY <2>1, <2>2, <5>1, <5>2 DEF Streams
      <4> QED BY <4>1, <4>2
    <3>4. \A p \in Gpu : \A i, j \in 1 .. Len(cuda'[p]) : cuda'[p][i] = cuda'[p][j] => i = j
      BY <2>1, <2>7, <3>1, <3>2 DEF Streams
    <3>5. ASSUME NEW x \in Task, st'[x] = "queued", mode'[x] = "ordered"
          PROVE  \E i \in 1 .. Len(cuda'[proc'[x]]) : cuda'[proc'[x]][i] = x
      <4>1. CASE x = t
        BY <2>1, <2>2, <2>7, <3>1, <4>1
      <4>2. CASE x # t
        <5>1. st[x] = "queued" /\ mode[x] = "ordered" /\ proc'[x] = proc[x] /\ proc[x] \in Gpu
          BY <2>2, <2>4, <2>7, <3>5, <4>2
        <5>2. PICK i \in 1 .. Len(cuda[proc[x]]) : cuda[proc[x]][i] = x
          BY <2>1, <5>1 DEF Streams
        <5> QED BY <2>1, <2>7, <3>1, <5>1, <5>2
      <4> QED BY <4>1, <4>2
    <3> QED BY <3>3, <3>4, <3>5 DEF Streams
  <2>8. ASSUME NEW t \in Task,
               mode[t] = "ordered", st[t] = "queued", D = {t},
               proc[t] \in Gpu, t = cuda[proc[t]][1], cuda[proc[t]] # <<>>,
               cuda' = [cuda EXCEPT ![proc[t]] = Tail(@)],
               \A x \in Task : x # t => st'[x] = st[x]
        PROVE  Streams'
    <3> DEFINE q == proc[t]
    <3>1. /\ Len(cuda'[q]) = Len(cuda[q]) - 1 /\ Len(cuda[q]) >= 1
          /\ \A i \in 1 .. Len(cuda[q]) - 1 : cuda'[q][i] = cuda[q][i + 1]
          /\ \A p \in Gpu : p # q => cuda'[p] = cuda[p]
      BY <2>1, <2>8, TailAt DEF IInv, TypeOK
    <3>2. \A i \in 2 .. Len(cuda[q]) : cuda[q][i] # t
      BY <2>1, <2>8, <3>1 DEF Streams
    <3>3. \A p \in Gpu : p # q => \A i \in 1 .. Len(cuda[p]) : cuda[p][i] # t
      BY <2>1, <2>8 DEF Streams
    <3>4. \A p \in Gpu : \A i \in 1 .. Len(cuda'[p]) :
            cuda'[p][i] \in Task /\ st'[cuda'[p][i]] = "queued" /\ mode'[cuda'[p][i]] = "ordered"
              /\ proc'[cuda'[p][i]] = p
      <4> SUFFICES ASSUME NEW p \in Gpu, NEW i \in 1 .. Len(cuda'[p])
                   PROVE  /\ cuda'[p][i] \in Task /\ st'[cuda'[p][i]] = "queued"
                          /\ mode'[cuda'[p][i]] = "ordered" /\ proc'[cuda'[p][i]] = p
        OBVIOUS
      <4>1. PICK j \in 1 .. Len(cuda[p]) : cuda'[p][i] = cuda[p][j] /\ cuda[p][j] # t
        <5>1. CASE p = q
          <6>1. i + 1 \in 2 .. Len(cuda[q]) /\ cuda'[q][i] = cuda[q][i + 1]
            BY <2>1, <2>8, <3>1, <5>1
          <6> QED BY <2>1, <2>8, <3>2, <5>1, <6>1
        <5>2. CASE p # q BY <3>1, <3>3, <5>2
        <5> QED BY <5>1, <5>2
      <4>2. cuda[p][j] \in Task \ D BY <2>1, <2>8, <4>1
      <4> QED BY <2>1, <2>2, <4>1, <4>2 DEF Streams
    <3>5. \A p \in Gpu : \A i, j \in 1 .. Len(cuda'[p]) : cuda'[p][i] = cuda'[p][j] => i = j
      BY <2>1, <2>8, <3>1 DEF Streams
    <3>6. ASSUME NEW x \in Task, st'[x] = "queued", mode'[x] = "ordered"
          PROVE  \E i \in 1 .. Len(cuda'[proc'[x]]) : cuda'[proc'[x]][i] = x
      <4>1. x # t BY <2>3, <2>8, <3>6
      <4>2. st[x] = "queued" /\ mode[x] = "ordered" /\ proc'[x] = proc[x] /\ proc[x] \in Gpu
        BY <2>2, <2>4, <2>8, <3>6, <4>1
      <4>3. PICK i \in 1 .. Len(cuda[proc[x]]) : cuda[proc[x]][i] = x
        BY <2>1, <4>2 DEF Streams
      <4>4. CASE proc[x] = q
        <5>1. i # 1 BY <2>8, <4>1, <4>3, <4>4
        <5>2. i - 1 \in 1 .. Len(cuda'[q]) /\ cuda'[q][i - 1] = x
          BY <2>1, <2>8, <3>1, <4>3, <4>4, <5>1
        <5> QED BY <4>2, <4>4, <5>2
      <4>5. CASE proc[x] # q BY <3>1, <4>2, <4>3, <4>5
      <4> QED BY <4>4, <4>5
    <3> QED BY <3>4, <3>5, <3>6 DEF Streams
  <2> QED BY <2>5, <2>6, <2>7, <2>8 DEF StreamMoves
<1> QED BY <1>1, <1>2, StepKinds

-----------------------------------------------------------------------------
(***************************************************************************)
(* The order of conflicting tasks.                                         *)
(***************************************************************************)
\* A task that is held back by an unfinished one does not touch its data.
LEMMA HeldBackWaits ==
  ASSUME IInv, NEW u \in Task, NEW t \in Task, Live(u), HeldBack(u, t)
  PROVE  ~Touching(t)
<1>1. CASE st[t] = "waiting" BY <1>1 DEF Touching, Executing
<1>2. CASE SameStream(u, t) /\ st[t] = "running" /\ st[u] = "queued"
  <2>1. proc[u] \in Gpu BY <1>2 DEF IInv, Life
  <2> QED BY <1>2, <2>1, ProcAssumption DEF Touching, Executing, SameStream
<1>3. CASE SameStream(u, t) /\ st[t] = "queued" /\ Ahead(u, t, proc[t])
  <2> DEFINE q == cuda[proc[t]]
  <2>1. proc[t] \in Gpu /\ q \in Seq(Task) BY <1>3 DEF IInv, Life, TypeOK
  <2>2. PICK i, j \in 1 .. Len(q) : i < j /\ q[i] = u /\ q[j] = t
    BY <1>3 DEF Ahead
  <2>3. q # <<>> /\ Len(q) \in Nat BY <2>1, <2>2
  <2>4. Head(q) = q[1] /\ 1 \in 1 .. Len(q) BY <2>1, <2>3, TailAt
  <2>5. \A k, l \in 1 .. Len(q) : q[k] = q[l] => k = l BY <2>1 DEF IInv, Streams
  <2>6. t # Head(q) BY <2>2, <2>3, <2>4, <2>5
  <2> QED BY <1>3, <2>6 DEF Touching, Executing, SameStream
<1> QED BY <1>1, <1>2, <1>3 DEF HeldBack

\* A task stays held back until the other is over.
LEMMA HeldBackQuiet ==
  ASSUME IInv, Quietly, NEW E, NEW D, Quiet(E, D),
         NEW w \in Task \ D, NEW t \in Task \ D, Live(w), Live(t), HeldBack(w, t)
  PROVE  HeldBack(w, t)'
<1>1. /\ mode'[w] = mode[w] /\ mode'[t] = mode[t] /\ proc'[w] = proc[w] /\ proc'[t] = proc[t]
      /\ Done(w) \notin E
      /\ Control(w) \in E => st'[w] = "queued"
      /\ st[w] = "queued" => st'[w] = "queued"
      /\ st[t] = "queued" => st'[t] = "queued"
      /\ pre'[t] = pre[t] \ E
      /\ st[t] = "waiting" => st'[t] = "waiting" \/ (pre[t] = {} /\ st'[t] = "running")
      /\ st[t] = "running" => st'[t] \in {"running", "queued"}
  BY DEF Quiet, Advances, Together, Triggers, Live
<1>2. SameStream(w, t)' <=> SameStream(w, t) BY <1>1 DEF SameStream
<1>3. CASE st[t] = "waiting" /\ Done(w) \in pre[t]
  BY <1>1, <1>3 DEF HeldBack
<1>4. CASE SameStream(w, t) /\ st[t] = "waiting" /\ Control(w) \in pre[t]
  BY <1>1, <1>2, <1>4 DEF HeldBack
<1>5. StreamMoves(D) BY StreamStep
<1>6. \A p \in Gpu : cuda[p] \in Seq(Task) /\ Len(cuda[p]) \in Nat BY DEF IInv, TypeOK
<1>7. CASE SameStream(w, t) /\ st[t] \in {"waiting", "running"} /\ st[w] = "queued"
  <2>1. CASE st'[t] # "queued" BY <1>1, <1>2, <1>7, <2>1 DEF HeldBack
  <2>2. CASE st'[t] = "queued"
    <3>1. /\ st[t] = "running" /\ proc[w] \in Gpu /\ proc[t] = proc[w]
          /\ mode[t] = "ordered" /\ mode[w] = "ordered"
      BY <1>1, <1>7, <2>2 DEF SameStream, IInv, Life
    <3>2. cuda' = [cuda EXCEPT ![proc[t]] = Append(@, t)]
      BY <1>5, <2>2, <3>1 DEF StreamMoves
    <3>3. PICK i \in 1 .. Len(cuda[proc[t]]) : cuda[proc[t]][i] = w
      BY <1>7, <3>1 DEF IInv, Streams
    <3> DEFINE q == cuda[proc[t]]
    <3>4. cuda'[proc[t]] = Append(q, t) BY <3>1, <3>2 DEF IInv, TypeOK
    <3>5. /\ Len(cuda'[proc[t]]) = Len(q) + 1 /\ cuda'[proc[t]][i] = w
          /\ cuda'[proc[t]][Len(q) + 1] = t
      BY <1>6, <3>1, <3>3, <3>4, AppendAt
    <3>6. Ahead(w, t, proc[t])' BY <1>1, <1>6, <3>1, <3>3, <3>5 DEF Ahead
    <3> QED BY <1>1, <1>2, <1>7, <2>2, <3>6 DEF HeldBack
  <2> QED BY <2>1, <2>2
<1>8. CASE SameStream(w, t) /\ st[t] = "queued" /\ Ahead(w, t, proc[t])
  <2> DEFINE q == cuda[proc[t]]
  <2>1. proc[t] \in Gpu /\ q \in Seq(Task) /\ Len(q) \in Nat BY <1>8 DEF IInv, Life, TypeOK
  <2>2. PICK i, j \in 1 .. Len(q) : i < j /\ q[i] = w /\ q[j] = t
    BY <1>8 DEF Ahead
  <2>3. Ahead(w, t, proc[t])'
    <3>1. CASE cuda' = cuda BY <1>1, <2>2, <3>1 DEF Ahead
    <3>2. ASSUME NEW k \in Task, proc[k] \in Gpu, cuda' = [cuda EXCEPT ![proc[k]] = Append(@, k)]
          PROVE  Ahead(w, t, proc[t])'
      <4>1. /\ Len(cuda'[proc[t]]) >= Len(q) /\ Len(cuda'[proc[t]]) \in Nat
            /\ \A l \in 1 .. Len(q) : cuda'[proc[t]][l] = q[l]
        BY <2>1, <3>2, AppendAt DEF IInv, TypeOK
      <4> QED BY <1>1, <2>1, <2>2, <4>1 DEF Ahead
    <3>3. ASSUME NEW k \in Task, D = {k}, proc[k] \in Gpu, k = cuda[proc[k]][1],
                 cuda[proc[k]] # <<>>, cuda' = [cuda EXCEPT ![proc[k]] = Tail(@)]
          PROVE  Ahead(w, t, proc[t])'
      <4>1. CASE proc[k] # proc[t]
        <5>1. cuda'[proc[t]] = q BY <2>1, <3>3, <4>1 DEF IInv, TypeOK
        <5> QED BY <1>1, <2>2, <5>1 DEF Ahead
      <4>2. CASE proc[k] = proc[t]
        <5>1. cuda'[proc[t]] = Tail(q) BY <2>1, <3>3, <4>2 DEF IInv, TypeOK
        <5>2. i # 1 /\ q # <<>> BY <2>2, <3>3, <4>2
        <5>3. /\ i - 1 \in 1 .. Len(Tail(q)) /\ j - 1 \in 1 .. Len(Tail(q)) /\ i - 1 < j - 1
              /\ Tail(q)[i - 1] = w /\ Tail(q)[j - 1] = t
          BY <2>1, <2>2, <5>2, TailAt
        <5> QED BY <1>1, <5>1, <5>3 DEF Ahead
      <4> QED BY <4>1, <4>2
    <3> QED BY <1>5, <3>1, <3>2, <3>3 DEF StreamMoves
  <2> QED BY <1>1, <1>2, <1>8, <2>3 DEF HeldBack
<1> QED BY <1>3, <1>4, <1>7, <1>8 DEF HeldBack

\* Two tasks conflict at a Store.
LEMMA ConflictsAt ==
  \A A, B : Conflicts(A, B) <=> \E s \in Data : ConflictAt(s, A, B)
BY DEF Conflicts, ConflictAt

\* In the order of the invariant a task that ends has no unfinished task before it
\* that it conflicts with.
LEMMA EndsInOrder ==
  ASSUME IInv, Ordered, NEW u \in Task, NEW t \in Task, NEW s \in Data, u < t, Live(u),
         ConflictAt(s, acc[u], acc[t]), Touching(t)
  PROVE  FALSE
<1>1. Live(t) BY DEF Touching, Executing, Live
<1>2. PICK w \in Task : Live(w) /\ HeldBack(w, t) BY <1>1 DEF Ordered
<1> QED BY <1>2, HeldBackWaits

\* A precondition keeps the events of a task that does not end.
LEMMA KeepsQuiet ==
  ASSUME IInv, NEW E, NEW D, Quiet(E, D), NEW u \in Task \ D, NEW s \in Data, Live(u)
  PROVE  /\ Keeps(rw[s], u) => Keeps(rw[s], u)'
         /\ Keeps(war[s], u) => Keeps(war[s], u)'
<1>1. /\ mode'[u] = mode[u] /\ Done(u) \notin E
      /\ Control(u) \in E => st'[u] = "queued"
      /\ st[u] = "queued" => st'[u] = "queued"
  BY DEF Quiet, Advances, Together, Live
<1>2. /\ rw'[s].stream = rw[s].stream \ E /\ rw'[s].effects = rw[s].effects \ E
      /\ war'[s].stream = war[s].stream \ E /\ war'[s].effects = war[s].effects \ E
  BY DEF Quiet, Triggers
<1> QED BY <1>1, <1>2 DEF Keeps

\* A quiet step keeps what the Stores know and the order.
LEMMA OrderQuiet ==
  ASSUME IInv, "streams" \notin Uses, Quietly, NEW E, NEW D, Quiet(E, D)
  PROVE  Registered' /\ Ordered'
<1>1. Registered /\ Ordered BY DEF IInv
<1>2. ASSUME NEW x \in Task, Live(x)' PROVE x \notin D /\ Live(x) /\ acc'[x] = acc[x]
  BY <1>2 DEF Quiet, Advances, Live
<1>3. ASSUME NEW x \in Task \ D, Live(x) PROVE Live(x)' /\ acc'[x] = acc[x]
  BY <1>3 DEF Quiet, Advances, Live
<1>4. ASSUME NEW x \in D PROVE x \in Task /\ Touching(x) BY DEF Quiet, Advances
<1>5. ASSUME NEW u \in Task, NEW s \in Data, Live(u)'
      PROVE  /\ "rw" \in acc'[u][s] => Keeps(rw[s], u)'
             /\ acc'[u][s] = {"ro"} =>
                  \/ Keeps(war[s], u)'
                  \/ \E w \in Task : u < w /\ Live(w)' /\ "rw" \in acc'[w][s]
  <2>1. u \notin D /\ Live(u) /\ acc'[u] = acc[u] BY <1>2, <1>5
  <2>2. "rw" \in acc[u][s] => Keeps(rw[s], u) BY <1>1, <2>1 DEF Registered
  <2>3. ASSUME acc[u][s] = {"ro"}, NEW w \in Task, u < w, Live(w), "rw" \in acc[w][s]
        PROVE  Live(w)' /\ "rw" \in acc'[w][s]
    <3>1. w \notin D BY <1>1, <1>4, <2>1, <2>3, EndsInOrder DEF ConflictAt
    <3> QED BY <1>3, <2>3, <3>1
  <2>4. acc[u][s] = {"ro"} =>
          \/ Keeps(war[s], u)
          \/ \E w \in Task : u < w /\ Live(w) /\ "rw" \in acc[w][s]
    BY <1>1, <2>1 DEF Registered
  <2> QED BY <2>1, <2>2, <2>3, <2>4, KeepsQuiet
<1>6. ASSUME NEW u \in Task, NEW t \in Task, NEW s \in Data,
             u < t, Live(u)', Live(t)', ConflictAt(s, acc'[u], acc'[t])
      PROVE  \E w \in Task : /\ w < t /\ Live(w)' /\ HeldBack(w, t)'
                             /\ w = u \/ (u < w /\ "rw" \in acc'[w][s])
  <2>1. /\ u \notin D /\ Live(u) /\ acc'[u] = acc[u]
        /\ t \notin D /\ Live(t) /\ acc'[t] = acc[t]
    BY <1>2, <1>6
  <2>2. PICK w \in Task : /\ w < t /\ Live(w) /\ HeldBack(w, t)
                          /\ w = u \/ (u < w /\ "rw" \in acc[w][s])
    BY <1>1, <1>6, <2>1 DEF Ordered
  <2>3. w \notin D
    <3>1. CASE w = u BY <2>1, <3>1
    <3>2. CASE u < w /\ "rw" \in acc[w][s]
      <4>1. ConflictAt(s, acc[u], acc[w]) BY <1>6, <2>1, <3>2 DEF ConflictAt
      <4> QED BY <1>1, <1>4, <2>1, <3>2, <4>1, EndsInOrder
    <3> QED BY <2>2, <3>1, <3>2
  <2>4. Live(w)' /\ acc'[w] = acc[w] BY <1>3, <2>2, <2>3
  <2>5. HeldBack(w, t)' BY <2>1, <2>2, <2>3, HeldBackQuiet
  <2> QED BY <2>2, <2>4, <2>5
<1>7. Registered' BY <1>5 DEF Registered
<1>8. Ordered' BY <1>6 DEF Ordered
<1> QED BY <1>7, <1>8

\* The precondition Q has all that P has.
Within(P, Q) == P.stream \subseteq Q.stream /\ P.effects \subseteq Q.effects

\* A launch changes nothing about the tasks launched before.
LEMMA LaunchOld ==
  ASSUME IInv, NEW G, Launches(G)
  PROVE  /\ \A x \in Task \ G :
              /\ Live(x)' <=> Live(x)
              /\ \A s \in Data :
                   /\ Within(rw[s], rw'[s]) /\ Keeps(rw[s], x) => Keeps(rw[s], x)'
                   /\ Within(war[s], war'[s]) /\ Keeps(war[s], x) => Keeps(war[s], x)'
         /\ \A w, t \in Task \ G : HeldBack(w, t) => HeldBack(w, t)'
         /\ \A x \in Task : Live(x) => x \notin G /\ x <= launched
<1>1. cuda' = cuda BY DEF Launches
<1>2. \A x \in Task \ G : /\ proc'[x] = proc[x] /\ mode'[x] = mode[x]
                          /\ pre'[x] = pre[x] /\ st'[x] = st[x]
  BY DEF Launches
<1>3. \A x \in Task : Live(x) => x \notin G /\ x <= launched
  BY DEF Launches, Live, IInv, Life
<1>4. \A x \in Task \ G : Live(x)' <=> Live(x) BY <1>2 DEF Live
<1>5. \A x \in Task \ G : \A s \in Data :
        /\ Within(rw[s], rw'[s]) /\ Keeps(rw[s], x) => Keeps(rw[s], x)'
        /\ Within(war[s], war'[s]) /\ Keeps(war[s], x) => Keeps(war[s], x)'
  BY <1>2 DEF Keeps, Within
<1>6. \A w, t \in Task \ G : HeldBack(w, t) => HeldBack(w, t)'
  BY <1>1, <1>2 DEF HeldBack, SameStream, Ahead
<1> QED BY <1>3, <1>4, <1>5, <1>6

\* A launch without Stores has no conflicts.
LEMMA OrderNoStores ==
  ASSUME IInv, "streams" \notin Uses, NEW G, Launches(G), UNCHANGED <<acc, rw, war>>
  PROVE  Registered' /\ Ordered'
<1>1. Registered /\ Ordered BY DEF IInv
<1>2. ASSUME NEW x \in Task, NEW s \in Data, acc'[x][s] # {} PROVE x \notin G
  <2>1. CASE x \in G
    BY <1>2, <2>1 DEF Launches, IInv, Life, Live, NoAccess
  <2> QED BY <2>1
<1>3. ASSUME NEW u \in Task, NEW s \in Data, Live(u)'
      PROVE  /\ "rw" \in acc'[u][s] => Keeps(rw[s], u)'
             /\ acc'[u][s] = {"ro"} =>
                  \/ Keeps(war[s], u)'
                  \/ \E w \in Task : u < w /\ Live(w)' /\ "rw" \in acc'[w][s]
  <2>1. CASE u \in G BY <1>2, <2>1
  <2>2. CASE u \notin G
    <3>1. Live(u) BY <1>3, <2>2, LaunchOld
    <3>2. "rw" \in acc[u][s] => Keeps(rw[s], u) BY <1>1, <3>1 DEF Registered
    <3>3. acc[u][s] = {"ro"} =>
            \/ Keeps(war[s], u)
            \/ \E w \in Task : u < w /\ Live(w) /\ "rw" \in acc[w][s]
      BY <1>1, <3>1 DEF Registered
    <3>4. \A w \in Task : Live(w) => Live(w)' BY LaunchOld
    <3>5. rw' = rw /\ war' = war /\ acc' = acc OBVIOUS
    <3>6. Within(rw[s], rw'[s]) /\ Within(war[s], war'[s]) BY <3>5 DEF Within
    <3>7. /\ Keeps(rw[s], u) => Keeps(rw[s], u)'
          /\ Keeps(war[s], u) => Keeps(war[s], u)'
      BY <2>2, <3>6, LaunchOld
    <3> QED BY <3>2, <3>3, <3>4, <3>5, <3>7
  <2> QED BY <2>1, <2>2
<1>4. ASSUME NEW u \in Task, NEW t \in Task, NEW s \in Data,
             u < t, Live(u)', Live(t)', ConflictAt(s, acc'[u], acc'[t])
      PROVE  \E w \in Task : /\ w < t /\ Live(w)' /\ HeldBack(w, t)'
                             /\ w = u \/ (u < w /\ "rw" \in acc'[w][s])
  <2>1. u \notin G /\ t \notin G BY <1>2, <1>4 DEF ConflictAt
  <2>2. Live(u) /\ Live(t) BY <1>4, <2>1, LaunchOld
  <2>3. PICK w \in Task : /\ w < t /\ Live(w) /\ HeldBack(w, t)
                          /\ w = u \/ (u < w /\ "rw" \in acc[w][s])
    BY <1>1, <1>4, <2>2 DEF Ordered
  <2>4. w \notin G BY <2>3, LaunchOld
  <2>5. Live(w)' /\ HeldBack(w, t)' BY <2>1, <2>3, <2>4, LaunchOld
  <2> QED BY <2>3, <2>5
<1>5. Registered' BY <1>3 DEF Registered
<1>6. Ordered' BY <1>4 DEF Ordered
<1> QED BY <1>5, <1>6

\* A task that finds the events of w at a Store is held back by w.
LEMMA LaunchHeldBack ==
  ASSUME IInv, "streams" \notin Uses,
         NEW p, NEW m, NEW x \in Afters, NEW A \in Access, NEW v, NEW t,
         Launch(t, p, m, x, A, v),
         NEW w \in Task, NEW s \in Data, w # t, Live(w), ConflictAt(s, acc[w], A),
         Keeps(rw[s], w) \/ ("rw" \in A[s] /\ Keeps(war[s], w))
  PROVE  HeldBack(w, t)'
<1>1. t \in Task /\ st'[t] = "waiting" /\ mode'[t] = m /\ proc'[t] = p
  BY DEF Launch, IInv, TypeOK
<1>2. mode'[w] = mode[w] /\ proc'[w] = proc[w] /\ st'[w] = st[w]
  BY <1>1 DEF Launch, IInv, TypeOK
<1>3. ArgPrecondition(t, m, s, A[s]) \subseteq pre'[t]
  BY <1>1 DEF Launch, IInv, TypeOK
<1>4. A[s] # {} /\ A[s] \subseteq {"ro", "rw"} BY DEF ConflictAt, Access
<1>5. /\ rw[s].stream \subseteq Carried(t, m, s, A[s]).stream
      /\ rw[s].effects \subseteq Carried(t, m, s, A[s]).effects
      /\ "rw" \in A[s] => /\ war[s].stream \subseteq Carried(t, m, s, A[s]).stream
                          /\ war[s].effects \subseteq Carried(t, m, s, A[s]).effects
  BY <1>4 DEF Carried, Merge, Nothing
<1>6. CASE m # "ordered"
  <2>1. Done(w) \in ArgPrecondition(t, m, s, A[s])
    BY <1>5, <1>6 DEF ArgPrecondition, Keeps
  <2> QED BY <1>1, <1>3, <2>1 DEF HeldBack
<1>7. CASE m = "ordered" /\ mode[w] # "ordered"
  <2>1. Done(w) \in ArgPrecondition(t, m, s, A[s])
    BY <1>5, <1>7 DEF ArgPrecondition, Keeps
  <2> QED BY <1>1, <1>3, <2>1 DEF HeldBack
<1>8. CASE m = "ordered" /\ mode[w] = "ordered"
  <2>1. SameStream(w, t)'
    <3>1. OneStream(p, m, A) BY DEF Launch
    <3>2. w \in 1 .. launched /\ ~Over(w)
      BY Domains DEF IInv, Life, Live, Over, TypeOK, Task
    <3>3. Conflicts(A, acc[w]) BY DEF Conflicts, ConflictAt
    <3> QED BY <1>1, <1>2, <1>8, <3>1, <3>2, <3>3 DEF OneStream, SameStream
  <2>2. CASE st[w] = "queued" BY <1>1, <1>2, <2>1, <2>2 DEF HeldBack
  <2>3. CASE st[w] # "queued"
    <3>1. Control(w) \in ArgPrecondition(t, m, s, A[s])
      BY <1>5, <1>8, <2>3 DEF ArgPrecondition, Keeps
    <3> QED BY <1>1, <1>3, <2>1, <3>1 DEF HeldBack
  <2> QED BY <2>2, <2>3
<1> QED BY <1>6, <1>7, <1>8

\* A launch with Stores registers the task there, and the task finds the events of
\* those it conflicts with.
LEMMA OrderLaunch ==
  ASSUME IInv, "streams" \notin Uses,
         NEW p, NEW m, NEW x \in Afters, NEW A \in Access, NEW v, NEW t,
         Launch(t, p, m, x, A, v)
  PROVE  Registered' /\ Ordered'
<1>1. Registered /\ Ordered BY DEF IInv
<1>2. Launches({t}) BY LaunchStep
<1>3. t \in Task /\ st'[t] = "waiting" /\ mode'[t] = m /\ acc'[t] = A /\ t = launched + 1
  BY DEF Launch, IInv, TypeOK
<1>4. \A y \in Task : y # t => acc'[y] = acc[y] BY <1>2 DEF Launches
<1>5. ASSUME NEW y \in Task, Live(y) PROVE Live(y)' /\ y # t /\ y < t
  <2>1. y # t /\ y <= launched BY <1>2, <1>5, LaunchOld
  <2> QED BY <1>2, <1>3, <1>5, <2>1, Domains, LaunchOld DEF IInv, TypeOK
<1>6. \A y \in Task : Live(y)' /\ y # t => Live(y) BY <1>2, LaunchOld
<1>7. \A s \in Data : /\ Within(rw[s], rw'[s])
                      /\ "rw" \notin A[s] => Within(war[s], war'[s])
  BY DEF Launch, Within, Merge
<1>8. ASSUME NEW s \in Data
      PROVE  /\ "rw" \in A[s] => Keeps(rw[s], t)'
             /\ A[s] = {"ro"} => Keeps(war[s], t)'
  <2>1. /\ "rw" \in A[s] => /\ StreamEvent(t, m) \subseteq rw'[s].stream
                            /\ Done(t) \in rw'[s].effects
        /\ A[s] = {"ro"} => /\ StreamEvent(t, m) \subseteq war'[s].stream
                            /\ Done(t) \in war'[s].effects
    BY DEF Launch, Merge
  <2> QED BY <1>3, <2>1 DEF Keeps, StreamEvent
<1>9. ASSUME NEW u \in Task, NEW s \in Data, Live(u)'
      PROVE  /\ "rw" \in acc'[u][s] => Keeps(rw[s], u)'
             /\ acc'[u][s] = {"ro"} =>
                  \/ Keeps(war[s], u)'
                  \/ \E w \in Task : u < w /\ Live(w)' /\ "rw" \in acc'[w][s]
  <2>1. CASE u = t BY <1>3, <1>8, <2>1
  <2>2. CASE u # t
    <3>1. Live(u) /\ acc'[u] = acc[u] BY <1>4, <1>6, <1>9, <2>2
    <3>2. "rw" \in acc[u][s] => Keeps(rw[s], u)' BY <1>1, <1>2, <1>7, <2>2, <3>1, LaunchOld DEF Registered
    <3>3. ASSUME acc[u][s] = {"ro"}
          PROVE  \/ Keeps(war[s], u)'
                 \/ \E w \in Task : u < w /\ Live(w)' /\ "rw" \in acc'[w][s]
      <4>1. CASE Keeps(war[s], u) /\ "rw" \notin A[s]
        BY <1>2, <1>7, <2>2, <4>1, LaunchOld
      <4>2. CASE "rw" \in A[s]
        BY <1>3, <1>5, <3>1, <4>2 DEF Live
      <4>3. CASE \E w \in Task : u < w /\ Live(w) /\ "rw" \in acc[w][s]
        BY <1>4, <1>5, <4>3
      <4> QED BY <1>1, <3>1, <3>3, <4>1, <4>2, <4>3 DEF Registered
    <3> QED BY <3>1, <3>2, <3>3
  <2> QED BY <2>1, <2>2
<1>10. ASSUME NEW u \in Task, NEW y \in Task, NEW s \in Data,
              u < y, Live(u)', Live(y)', ConflictAt(s, acc'[u], acc'[y])
       PROVE  \E w \in Task : /\ w < y /\ Live(w)' /\ HeldBack(w, y)'
                              /\ w = u \/ (u < w /\ "rw" \in acc'[w][s])
  <2>1. CASE y = t
    <3>1. u # t /\ Live(u) /\ acc'[u] = acc[u] BY <1>4, <1>6, <1>10, <2>1, Domains
    <3>2. ConflictAt(s, acc[u], A) BY <1>3, <1>10, <2>1, <3>1
    <3>3. acc[u][s] # {} /\ acc[u][s] \subseteq {"ro", "rw"}
      BY <3>2 DEF ConflictAt, IInv, TypeOK, Access
    <3>4. CASE "rw" \in acc[u][s]
      <4>1. Keeps(rw[s], u) BY <1>1, <3>1, <3>4 DEF Registered
      <4>2. HeldBack(u, t)' BY <3>1, <3>2, <4>1, LaunchHeldBack
      <4> QED BY <1>10, <2>1, <4>2
    <3>5. CASE "rw" \notin acc[u][s]
      <4>1. acc[u][s] = {"ro"} /\ "rw" \in A[s] BY <3>2, <3>3, <3>5 DEF ConflictAt
      <4>2. CASE Keeps(war[s], u)
        <5>1. HeldBack(u, t)' BY <3>1, <3>2, <4>1, <4>2, LaunchHeldBack
        <5> QED BY <1>10, <2>1, <5>1
      <4>3. ASSUME NEW w \in Task, u < w, Live(w), "rw" \in acc[w][s]
            PROVE  /\ w < t /\ Live(w)' /\ HeldBack(w, t)' /\ "rw" \in acc'[w][s]
        <5>1. Keeps(rw[s], w) BY <1>1, <4>3 DEF Registered
        <5>2. ConflictAt(s, acc[w], A) BY <4>1, <4>3 DEF ConflictAt
        <5>3. w # t /\ w < t /\ Live(w)' BY <1>5, <4>3
        <5>4. HeldBack(w, t)' BY <4>3, <5>1, <5>2, <5>3, LaunchHeldBack
        <5> QED BY <1>4, <4>3, <5>3, <5>4
      <4> QED BY <1>1, <2>1, <3>1, <4>1, <4>2, <4>3 DEF Registered
    <3> QED BY <3>4, <3>5
  <2>2. CASE y # t
    <3>1. Live(y) /\ acc'[y] = acc[y] /\ y < t BY <1>4, <1>5, <1>6, <1>10, <2>2
    <3>2. u # t BY <1>10, <3>1, <1>3, Domains
    <3>3. Live(u) /\ acc'[u] = acc[u] BY <1>4, <1>6, <1>10, <3>2
    <3>4. PICK w \in Task : /\ w < y /\ Live(w) /\ HeldBack(w, y)
                            /\ w = u \/ (u < w /\ "rw" \in acc[w][s])
      BY <1>1, <1>10, <3>1, <3>3 DEF Ordered
    <3>5. w # t /\ Live(w)' BY <1>5, <3>4
    <3>6. HeldBack(w, y)' BY <1>2, <2>2, <3>4, <3>5, LaunchOld
    <3> QED BY <1>4, <3>4, <3>5, <3>6
  <2> QED BY <2>1, <2>2
<1>11. Registered' BY <1>9 DEF Registered
<1>12. Ordered' BY <1>10 DEF Ordered
<1> QED BY <1>11, <1>12

-----------------------------------------------------------------------------
(***************************************************************************)
(* The theorems.                                                           *)
(***************************************************************************)
\* The invariant holds when nothing is launched.
LEMMA IInvInit == Init => IInv
<1> SUFFICES ASSUME Init PROVE IInv OBVIOUS
<1>1. TypeOK BY TypeInit
<1>2. \A t \in Task : ~Live(t) /\ t > 0 /\ t \in Int /\ acc[t] = NoAccess /\ st[t] = "idle"
                      /\ team[t] = {} /\ aft[t] = {}
  BY Domains DEF Init, Live, Task
<1>3. Life BY <1>2 DEF Life, Init, Live
<1>4. Tokens BY <1>2 DEF Tokens
<1>5. Awaited BY <1>2 DEF Awaited, Init
<1>6. EndOrder BY DEF EndOrder, Init
<1>7. Streams BY <1>2 DEF Streams, Init
<1>8. Registered /\ Ordered BY <1>2 DEF Registered, Ordered
<1> QED BY <1>1, <1>3, <1>4, <1>5, <1>6, <1>7, <1>8 DEF IInv

\* Every step of the program, the tasks and Stop preserves the inductive invariant.
LEMMA IInvStep == IInv /\ [Next]_vars => IInv'
<1> SUFFICES ASSUME IInv, [Next]_vars PROVE IInv' OBVIOUS
<1>1. TypeOK' BY TypeStep DEF IInv
<1>2. Life' /\ Tokens' /\ Awaited' /\ EndOrder' /\ Streams'
  BY LifeStep, TokensStep, AwaitedStep, EndOrderStep, StreamsStep
<1>3. ASSUME "streams" \notin Uses PROVE Registered' /\ Ordered'
  <2>1. CASE Quietly BY <1>3, <2>1, QuietStep, OrderQuiet
  <2>2. CASE LaunchSome BY <1>3, <2>2, OrderLaunch DEF LaunchSome
  <2>3. CASE BulkLaunch BY <1>3, <2>3, BulkStep, OrderNoStores
  <2>4. ASSUME NEW t \in Task, LaunchElsewhere(t) PROVE Registered' /\ Ordered'
    BY <1>3, <2>4, ElsewhereStep, OrderNoStores
  <2> QED BY <2>1, <2>2, <2>3, <2>4, NextSplit
<1> QED BY <1>1, <1>2, <1>3 DEF IInv

\* The inductive invariant holds throughout, whatever the program does.
THEOREM IInvAlways == Spec => []IInv
BY IInvInit, IInvStep, PTL DEF Spec

\* The tasks, events, streams and counters of defer.h and init.cc stay well-formed, for
\* any number of tasks, Stores and processors and for every use.
THEOREM TypeCorrect == Spec => []TypeOK
<1>1. IInv => TypeOK BY DEF IInv
<1> QED BY <1>1, IInvAlways, PTL

\* Of two conflicting tasks the later touches its data when the earlier is over: for
\* any number of tasks, Stores and GPUs and any mixture of plain, split and
\* stream-ordered tasks, if the program orders by streams on one processor only.  No
\* other use need be avoided.
THEOREM ConflictsAlwaysInOrder ==
  ASSUME "streams" \notin Uses
  PROVE  Spec => []ConflictsInOrder
<1>1. ASSUME IInv PROVE ConflictsInOrder
  <2> SUFFICES ASSUME NEW u \in Task, NEW t \in Task, u < t, t <= launched,
                      Conflicts(acc[u], acc[t]), Touching(t)
               PROVE  Over(u)
    BY DEF ConflictsInOrder
  <2>1. PICK s \in Data : ConflictAt(s, acc[u], acc[t]) BY ConflictsAt
  <2>2. ~Live(u) BY <1>1, <2>1, EndsInOrder DEF IInv
  <2>3. acc[u] = NoAccess BY <1>1, <2>2 DEF IInv, Life
  <2> QED BY <2>1, <2>3 DEF ConflictAt, NoAccess
<1> QED BY <1>1, IInvAlways, PTL

\* A task launched after() a token, of one task or of a bulk launch, starts when all
\* of its tasks are over, whatever the program does.
THEOREM AfterTokenAlways == Spec => []AfterToken
<1>1. ASSUME IInv PROVE AfterToken
  <2>1. \A t \in Task : aft[t] \subseteq Task BY <1>1 DEF IInv, TypeOK
  <2> QED BY <1>1, <2>1 DEF IInv, Tokens, AfterToken
<1> QED BY <1>1, IInvAlways, PTL

\* No task is deleted while its function or its kernels may use the arguments.
THEOREM ArgumentsAlwaysAlive == Spec => []ArgumentsAlive
<1>1. IInv => ArgumentsAlive
  BY DEF IInv, Life, Live, ArgumentsAlive, Touching, Executing
<1> QED BY <1>1, IInvAlways, PTL

\* Barrier::Wait and the tokens of bulk launches miss no task.
THEOREM SyncedAlwaysOver == Spec => []SyncedMeansOver
<1>1. IInv => SyncedMeansOver BY DEF IInv, Awaited, SyncedMeansOver
<1> QED BY <1>1, IInvAlways, PTL

\* Stop does not shut the runtime down under a task or kernel, if the program waits
\* for its tasks.
THEOREM AlwaysQuietAtShutdown ==
  ASSUME "nosync" \notin Uses
  PROVE  Spec => []QuietAtShutdown
<1>1. IInv => QuietAtShutdown
  BY DEF IInv, Awaited, EndOrder, QuietAtShutdown
<1> QED BY <1>1, IInvAlways, PTL

=============================================================================
