------------------------------- MODULE Defer --------------------------------
(***************************************************************************)
(* _defer and the life of a task: launch with several Store arguments,     *)
(* after(), split control, stream-ordered tasks and their kernels, tokens  *)
(* and barriers, the deletion of tasks, and Stop.                          *)
(*                                                                         *)
(* A program function launches tasks; each one uses root Stores through    *)
(* arguments of type T& or const T&.  On a GPU the function of a task only *)
(* enqueues kernels, which run later; a stream-ordered task starts when    *)
(* its predecessors have enqueued theirs and relies on the order of the    *)
(* CUDA stream.  So every event of a Store has two halves, and each task   *)
(* must wait for the right one.                                            *)
(*                                                                         *)
(* Meanwhile the main thread is in Stop, which counts pending releases,    *)
(* waits for the program and shuts the runtime down.  Nested launches are  *)
(* the subject of Store; Realm and CUDA are external.                      *)
(*                                                                         *)
(* An event is the set of the primitive events it still waits for.  The    *)
(* variables of a task are cleared when nothing can depend on them.        *)
(***************************************************************************)
EXTENDS Integers, Sequences, FiniteSets

CONSTANTS
  Data,     \* the root Stores of the program
  Gpu, Cpu, \* the processors of either kind
  Modes,    \* plain, split (split_control_execution), ordered (stream_ordered)
  NTasks,   \* bound: how many tasks the program launches
  Reach,    \* bound: how many launches back after() refers
  Uses      \* which delicate uses the program makes

ASSUME NTasksAssumption == NTasks \in Nat
ASSUME ReachAssumption == Reach \in Nat
ASSUME ProcAssumption ==
  Gpu \cap Cpu = {} /\ Gpu \cup Cpu # {} /\ IsFiniteSet(Gpu \cup Cpu)
ASSUME ModesAssumption == Modes \subseteq {"plain", "split", "ordered"}

\* alias: gives one task the same Store twice, once for writing; streams: orders
\* tasks of different processors by streams; nosync: returns before its tasks have
\* finished.
ASSUME UsesAssumption == Uses \subseteq {"alias", "streams", "nosync"}

Proc == Gpu \cup Cpu
Task == 1 .. NTasks
Program == 0
Done(t) == <<"done", t>>         \* the task's completion, kernels included
Control(t) == <<"control", t>>   \* ReturnControlEvent: its function has returned
Event == {Done(t) : t \in Task} \cup {Control(t) : t \in Task}
Precondition == [stream : SUBSET Event, effects : SUBSET Event]
Nothing == [stream |-> {}, effects |-> {}]

NoAccess == [s \in Data |-> {}]
AnyProc == CHOOSE p \in Proc : TRUE

VARIABLES
  launched,  \* how many tasks were launched
  acc,       \* how the task uses every Store: a subset of {"ro", "rw"}
  proc,      \* where it runs
  mode,      \* its mode
  pre,       \* the event its start waits for
  st,        \* idle, waiting, running (its function), queued (its kernels, on a
             \* GPU), done; absent: not on the devices of across()
  token,     \* ReturnToken::ev_
  team,      \* history: the tasks its token stands for (itself, or those of a bulk
             \* launch) that are not over
  aft,       \* history: the tasks whose token after() was given that are not over
  args,      \* the Stores in its arguments that have a child_rw_event_, with it
  stored,    \* do its arguments exist?
  rw, war,   \* child_rw_event_ and war_precondition_ of every root Store
  written,   \* the root Stores whose child_rw_event_ has a value
  cuda,      \* the CUDA stream of stream-ordered kernels, for every GPU
  barrier,   \* Barrier::events_
  bulk,      \* the events of the tokens of bulk launches
  synced,    \* how many tasks were launched when the program waited last
  pending,   \* the releases sPendingEvents counts, with their events
  prog,      \* the program function: run, ended
  stop       \* the main thread in Stop: pending, agree, down

taskVars == <<launched, acc, proc, mode, st, team, aft, stored>>
eventVars == <<pre, token, args, rw, war, barrier, bulk, pending>>
vars == <<taskVars, eventVars, written, cuda, synced, prog, stop>>

Init ==
  /\ launched = 0
  /\ acc = [t \in Task |-> NoAccess]
  /\ proc = [t \in Task |-> AnyProc]
  /\ mode = [t \in Task |-> "plain"]
  /\ pre = [t \in Task |-> {}]
  /\ st = [t \in Task |-> "idle"]
  /\ token = [t \in Task |-> {}]
  /\ team = [t \in Task |-> {}] /\ aft = [t \in Task |-> {}]
  /\ args = [t \in Task |-> {}]
  /\ stored = [t \in Task |-> FALSE]
  /\ rw = [s \in Data |-> Nothing] /\ war = [s \in Data |-> Nothing]
  /\ written = {}
  /\ cuda = [p \in Gpu |-> <<>>]
  /\ barrier = {} /\ bulk = {}
  /\ synced = 0
  /\ pending = {}
  /\ prog = "run"
  /\ stop = "pending"

-----------------------------------------------------------------------------
(***************************************************************************)
(* Launching.                                                              *)
(***************************************************************************)

\* Mutants: every task with a control event orders by it; the event of the next task.
StreamEventSplit(t, m) == IF m = "plain" THEN {Done(t)} ELSE {Control(t)}
StreamEventNext(t, m) == IF m = "ordered" THEN {Control(t + 1)} ELSE {Done(t)}

\* GetStreamOrderedEvent.
StreamEvent(t, m) == IF m = "ordered" THEN {Control(t)} ELSE {Done(t)}

Merge(p, q) == [stream |-> p.stream \cup q.stream, effects |-> p.effects \cup q.effects]

\* What the argument for Store s carries: a child both conditions of the Store, a
\* view only child_rw_event_; with an alias also what the other argument has added.
Carried(t, m, s, a) ==
  Merge(IF "rw" \in a THEN Merge(rw[s], war[s]) ELSE IF "ro" \in a THEN rw[s] ELSE Nothing,
        IF a = {"ro", "rw"} THEN [stream |-> StreamEvent(t, m), effects |-> {Done(t)}]
        ELSE Nothing)

\* AddDeferredPrecondition.
ArgPrecondition(t, m, s, a) ==
  IF m = "ordered" THEN Carried(t, m, s, a).stream ELSE Carried(t, m, s, a).effects

\* Mutant: the token is ready when the function has returned.
TokenEventControl(t, A, v) == {Control(t)}

\* all_effects_done_ev: the completion and, if the function returns a value, what the
\* Stores among the arguments wait for.
TokenEvent(t, A, v) ==
  {Done(t)} \cup
    UNION {rw[s].effects \cup war[s].effects : s \in {d \in Data : v /\ "rw" \in A[d]}}

\* The context's Realm::Event: a token, or the control event of one.
Recent == {u \in 1 .. launched : launched - u < Reach}
Afters ==
  {[event |-> {}, tasks |-> {}]}
    \cup {[event |-> token[u], tasks |-> team[u]] : u \in Recent}
    \cup {[event |-> {Control(u)}, tasks |-> {}] : u \in
             {v \in Recent : mode[v] # "plain" /\ st[v] \in {"waiting", "running"}}}

\* The kernels of stream-ordered tasks on a GPU are ordered by its stream only.
Over(t) == st[t] \in {"done", "absent"}
Conflicts(A, B) == \E s \in Data : A[s] # {} /\ B[s] # {} /\ "rw" \in A[s] \cup B[s]
OneStream(p, m, A) ==
  m = "ordered" => \A u \in 1 .. launched :
    mode[u] = "ordered" /\ proc[u] \in Gpu /\ ~Over(u) /\ Conflicts(A, acc[u]) => proc[u] = p

\* Mutant: the barrier waits until control comes back.
BarrierEventControl(t, A, v) == {Control(t)}

\* What sync_to adds to the Barrier.
BarrierEvent(t, A, v) == TokenEvent(t, A, v)

\* StoreArgsAndSetPostcondition, the Task constructor and the rest of _defer; v: the
\* function returns a value.
Launch(t, p, m, x, A, v) ==
  LET writes == {s \in Data : "rw" \in A[s]}
      reads == {s \in Data : A[s] = {"ro"}}
      new == [stream |-> StreamEvent(t, m), effects |-> {Done(t)}]
  IN /\ prog = "run" /\ t = launched + 1 /\ t \in Task
     /\ \A s \in Data : A[s] = {"ro", "rw"} => "alias" \in Uses
     /\ OneStream(p, m, A) \/ "streams" \in Uses
     /\ v => m # "ordered"
     /\ launched' = t
     /\ acc' = [acc EXCEPT ![t] = A]
     /\ proc' = [proc EXCEPT ![t] = p]
     /\ mode' = [mode EXCEPT ![t] = m]
     /\ pre' = [pre EXCEPT ![t] = x.event \cup UNION {ArgPrecondition(t, m, s, A[s]) : s \in Data}]
     /\ st' = [st EXCEPT ![t] = "waiting"]
     /\ token' = [token EXCEPT ![t] = TokenEvent(t, A, v)]
     /\ team' = [team EXCEPT ![t] = {t}]
     /\ aft' = [aft EXCEPT ![t] = x.tasks]
     /\ args' = [args EXCEPT ![t] =
                   {[store |-> s, after |-> rw[s].effects] : s \in writes \cap written}]
     /\ stored' = [stored EXCEPT ![t] = TRUE]
     /\ rw' = [s \in Data |-> IF s \in writes THEN Merge(rw[s], new) ELSE rw[s]]
     /\ war' = [s \in Data |-> IF s \in writes THEN Nothing
                               ELSE IF s \in reads THEN Merge(war[s], new) ELSE war[s]]
     /\ written' = written \cup writes
     /\ barrier' = barrier \cup BarrierEvent(t, A, v)
     /\ UNCHANGED <<bulk, cuda, synced, pending, prog, stop>>

\* across() devices the processor is not one of: a token that is ready.
LaunchElsewhere(t) ==
  /\ prog = "run" /\ t = launched + 1 /\ t \in Task
  /\ launched' = t
  /\ st' = [st EXCEPT ![t] = "absent"]
  /\ UNCHANGED <<acc, proc, mode, team, aft, stored, eventVars, written, cuda, synced, prog, stop>>

\* on(ProcessorGroup).defer: a plain task without Stores on every processor.  The
\* token of the launch, kept for the last of them, merges theirs.  Context::drop only
\* compiles for a context without other fields, so there is no after or sync_to.
BulkLaunch ==
  LET n == Cardinality(Proc)
      group == launched + 1 .. launched + n
      where == CHOOSE f \in [group -> Proc] : \A p \in Proc : \E t \in group : f[t] = p
      Members(t) == IF t = launched + n THEN group ELSE {t}
      Events(T) == UNION {TokenEvent(t, NoAccess, FALSE) : t \in T}
      On(f, g) == [t \in Task |-> IF t \in group THEN g[t] ELSE f[t]]
  IN /\ prog = "run" /\ group \subseteq Task
     /\ launched' = launched + n
     /\ proc' = On(proc, where)
     /\ st' = On(st, [t \in group |-> "waiting"])
     /\ token' = On(token, [t \in group |-> Events(Members(t))])
     /\ team' = On(team, [t \in group |-> Members(t)])
     /\ stored' = On(stored, [t \in group |-> TRUE])
     /\ bulk' = bulk \cup Events(group)
     /\ UNCHANGED <<acc, mode, aft, pre, args, rw, war, written, barrier, cuda, synced, pending,
                    prog, stop>>

\* Barrier::Wait, and ReturnToken::Wait for the bulk launches.
BarrierWait ==
  /\ prog = "run" /\ synced # launched
  /\ barrier = {} /\ bulk = {}
  /\ synced' = launched
  /\ UNCHANGED <<taskVars, eventVars, written, cuda, prog, stop>>

-----------------------------------------------------------------------------
(***************************************************************************)
(* Running and deleting.                                                   *)
(***************************************************************************)
Start(t) ==
  /\ st[t] = "waiting"
  /\ pre[t] = {}
  /\ st' = [st EXCEPT ![t] = "running"]
  /\ UNCHANGED <<launched, acc, proc, mode, team, aft, stored, eventVars, written, cuda, synced,
                 prog, stop>>

\* Primitive events trigger; gone is the set of the tasks that are deleted.  ~Store of
\* every child in their arguments starts a deferred_release.
TriggerAndDelete(E, gone) ==
  LET Less(p) == [stream |-> p.stream \ E, effects |-> p.effects \ E]
      Released(t) == {[task |-> t, store |-> a.store, after |-> a.after] : a \in args[t]}
  IN /\ pre' = [t \in Task |-> pre[t] \ E]
     /\ token' = [t \in Task |-> token[t] \ E]
     /\ args' = [t \in Task |-> IF t \in gone THEN {}
                               ELSE {[a EXCEPT !.after = @ \ E] : a \in args[t]}]
     /\ rw' = [s \in Data |-> Less(rw[s])] /\ war' = [s \in Data |-> Less(war[s])]
     /\ barrier' = barrier \ E /\ bulk' = bulk \ E
     /\ pending' = {[r EXCEPT !.after = @ \ E] : r \in pending \cup UNION {Released(t) : t \in gone}}
     /\ stored' = [t \in Task |-> stored[t] /\ t \notin gone]

\* The task is over.
Finish(t) ==
  /\ st' = [st EXCEPT ![t] = "done"]
  /\ acc' = [acc EXCEPT ![t] = NoAccess]
  /\ mode' = [mode EXCEPT ![t] = "plain"]
  /\ team' = [u \in Task |-> team[u] \ {t}]
  /\ aft' = [u \in Task |-> aft[u] \ {t}]

ControlOf(t) == IF mode[t] = "plain" THEN {} ELSE {Control(t)}

\* Invoke returns and triggers the control event.  On a CPU all work is done and
\* deferred_task_launcher deletes the task; on a GPU the kernels are enqueued.
ReturnCpu(t) ==
  /\ st[t] = "running" /\ proc[t] \in Cpu
  /\ Finish(t)
  /\ TriggerAndDelete({Done(t)} \cup ControlOf(t), {t})
  /\ proc' = [proc EXCEPT ![t] = AnyProc]
  /\ UNCHANGED <<launched, written, cuda, synced, prog, stop>>

\* Mutant: the task is deleted when its function has returned.
DeletedAfterReturn(t) == {t}

\* The tasks deferred_task_launcher deletes on a GPU.
DeletedOnGpu(t) == {}

\* The function returns.  A stream-ordered one has called Record by then: otherwise
\* dispatch_void throws, which ends the process.
ReturnGpu(t) ==
  /\ st[t] = "running" /\ proc[t] \in Gpu
  /\ st' = [st EXCEPT ![t] = "queued"]
  /\ TriggerAndDelete(ControlOf(t), DeletedOnGpu(t))
  /\ cuda' = IF mode[t] = "ordered" THEN [cuda EXCEPT ![proc[t]] = Append(@, t)] ELSE cuda
  /\ UNCHANGED <<launched, acc, proc, mode, team, aft, written, synced, prog, stop>>

\* Kernels execute, those of stream-ordered tasks in the order of their stream,
\* others as soon as they are enqueued.
Executing(t) == st[t] = "queued" /\ (mode[t] = "ordered" => t = Head(cuda[proc[t]]))

\* The kernels end.  Record made the task's own stream wait for them, so they end the
\* task.
KernelEnd(t) ==
  /\ Executing(t)
  /\ Finish(t)
  /\ TriggerAndDelete({Done(t)}, {})
  /\ cuda' = IF mode[t] = "ordered" THEN [cuda EXCEPT ![proc[t]] = Tail(@)] ELSE cuda
  /\ UNCHANGED <<launched, proc, written, synced, prog, stop>>

\* DELETE_TASK, spawned after the completion of a GPU task.
Delete(t) ==
  /\ stop # "down"
  /\ st[t] = "done" /\ stored[t]
  /\ TriggerAndDelete({}, {t})
  /\ proc' = [proc EXCEPT ![t] = AnyProc]
  /\ UNCHANGED <<launched, acc, mode, st, team, aft, written, cuda, synced, prog, stop>>

\* Mutant: the count is not decreased.
StillPending(r) == pending

\* DecPendingOp.
DecPendingOp(r) == pending \ {r}

\* deferred_release_shared_pointer.
Release(r) ==
  /\ stop # "down"
  /\ r.after = {}
  /\ pending' = DecPendingOp(r)
  /\ UNCHANGED <<taskVars, pre, token, args, rw, war, barrier, bulk, written, cuda, synced, prog, stop>>

-----------------------------------------------------------------------------
(***************************************************************************)
(* Stopping.                                                               *)
(***************************************************************************)

\* The program function returns; its Stores are destroyed.
End ==
  /\ prog = "run"
  /\ synced = launched \/ "nosync" \in Uses
  /\ prog' = "ended"
  /\ pending' = pending \cup
       {[task |-> Program, store |-> s, after |-> rw[s].effects] : s \in written}
  /\ UNCHANGED <<taskVars, pre, token, args, rw, war, barrier, bulk, written, cuda, synced, stop>>

WaitForPendingOps ==
  /\ stop = "pending"
  /\ pending = {}
  /\ stop' = "agree"
  /\ UNCHANGED <<taskVars, eventVars, written, cuda, synced, prog>>

\* Mutant: the collective task does not wait for the program.
AgreedAtOnce == TRUE

\* agree: the collective task waits for the token of the program.
Agreed == prog = "ended"

\* agree.wait(), sleep(1) and shutdown.
Shutdown ==
  /\ stop = "agree"
  /\ Agreed
  /\ stop' = "down"
  /\ UNCHANGED <<taskVars, eventVars, written, cuda, synced, prog>>

-----------------------------------------------------------------------------
Access == [Data -> SUBSET {"ro", "rw"}]
LaunchSome ==
  \E p \in Proc, m \in Modes, x \in Afters, A \in Access, v \in BOOLEAN :
    Launch(launched + 1, p, m, x, A, v)

Down ==
  /\ stop = "down"
  /\ \A t \in Task : st[t] \in {"idle", "done", "absent"}
  /\ UNCHANGED vars

Next ==
  \/ LaunchSome
  \/ \E t \in Task : LaunchElsewhere(t)
  \/ BulkLaunch \/ BarrierWait
  \/ \E t \in Task : Start(t) \/ ReturnCpu(t) \/ ReturnGpu(t)
  \/ \E t \in Task : KernelEnd(t) \/ Delete(t)
  \/ \E r \in pending : Release(r)
  \/ End \/ WaitForPendingOps \/ Shutdown
  \/ Down

Spec == Init /\ [][Next]_vars

\* Realm and the GPUs always go on with something, DELETE_TASK and the releases are
\* run, and neither the program nor the main thread stays in a call it can leave.
RunSome == \E t \in Task : Start(t) \/ ReturnCpu(t) \/ ReturnGpu(t) \/ KernelEnd(t)
DeleteSome == \E t \in Task : Delete(t)
ReleaseSome == \E r \in pending : Release(r)
Fairness ==
  /\ WF_vars(RunSome) /\ WF_vars(DeleteSome) /\ WF_vars(ReleaseSome)
  /\ WF_vars(BarrierWait \/ End)
  /\ WF_vars(WaitForPendingOps \/ Shutdown)

FairSpec == Spec /\ Fairness

-----------------------------------------------------------------------------
(***************************************************************************)
(* Properties.                                                             *)
(***************************************************************************)

\* Every variable stays in its domain.
TypeOK ==
  /\ launched \in 0 .. NTasks
  /\ acc \in [Task -> Access]
  /\ proc \in [Task -> Proc]
  /\ mode \in [Task -> {"plain", "split", "ordered"}]
  /\ pre \in [Task -> SUBSET Event]
  /\ st \in [Task -> {"idle", "waiting", "running", "queued", "done", "absent"}]
  /\ token \in [Task -> SUBSET Event]
  /\ team \in [Task -> SUBSET Task] /\ aft \in [Task -> SUBSET Task]
  /\ args \in [Task -> SUBSET [store : Data, after : SUBSET Event]]
  /\ stored \in [Task -> BOOLEAN]
  /\ rw \in [Data -> Precondition] /\ war \in [Data -> Precondition]
  /\ written \subseteq Data
  /\ cuda \in [Gpu -> Seq(Task)]
  /\ barrier \subseteq Event /\ bulk \subseteq Event
  /\ synced \in 0 .. launched
  /\ pending \subseteq [task : 0 .. NTasks, store : Data, after : SUBSET Event]
  /\ prog \in {"run", "ended"}
  /\ stop \in {"pending", "agree", "down"}

\* A task touches its data while its function runs on a CPU or its kernels execute.
Touching(t) == Executing(t) \/ (st[t] = "running" /\ proc[t] \in Cpu)

\* Of two tasks that use one Store, one of them for writing, the later one touches it
\* only when the earlier one is over, whichever of the two are stream-ordered, split
\* or plain, and although a stream-ordered one may start while the other still runs.
ConflictsInOrder ==
  \A u, t \in Task : u < t /\ t <= launched /\ Conflicts(acc[u], acc[t]) /\ Touching(t) => Over(u)

\* A task launched after(token) starts when every kernel of that task, and of all
\* tasks of a bulk launch, is over.
AfterToken ==
  \A t \in Task : st[t] \in {"running", "queued"} => aft[t] = {}

\* defer.h:390: a task is not deleted while kernels that use its arguments may run.
ArgumentsAlive ==
  \A t \in Task : Touching(t) \/ st[t] = "queued" => stored[t]

\* When Barrier::Wait and the Wait of the tokens of bulk launches have returned, every
\* task that was synced to the barrier or launched in bulk is over.
SyncedMeansOver == \A t \in 1 .. synced : Over(t)

\* A program that has waited for its tasks leaves none behind: the runtime is not
\* shut down under a task or kernel.
QuietAtShutdown == stop = "down" => \A t \in 1 .. launched : Over(t)

\* Every program comes to its end and Stop shuts the runtime down: no task waits for
\* itself, and every release that is counted is carried out.
Stops == <>(stop = "down")
=============================================================================
