--------------------------- MODULE ReshardManager ---------------------------
(***************************************************************************)
(* The rendezvous protocol of zuku's ReshardManager (reshard_manager.cc)   *)
(* for one ReshardKey: a source shard sends to a target shard NOps times.  *)
(* The entries of the manager's map are independent, so one key is enough. *)
(*                                                                         *)
(* Each address space has one manager, whose handlers run under mutex_ and *)
(* are single steps here.  When both shards live in one address space they *)
(* meet in the same manager.  Otherwise the target names its instance to   *)
(* the source, which issues the copy, and the source names the barrier on  *)
(* which the target learns that the copy is done.                          *)
(*                                                                         *)
(* Events are sets of primitive events, as in module Store.  Generation g  *)
(* of a Realm barrier triggers when its one arrival has and generation     *)
(* g - 1 has triggered.                                                    *)
(***************************************************************************)
EXTENDS Integers, FiniteSets, Sequences, SequencesExt

CONSTANTS
  NOps,     \* bound: how often the key is resharded
  Fifo      \* are the name messages to a node handled in the order of sending?

ASSUME NOpsAssumption == NOps \in Nat \ {0}
ASSUME FifoAssumption == Fifo \in BOOLEAN

Op == 1 .. NOps
NoBarrier == 0

\* The managers of the two address spaces; a local exchange only uses the first.
Node == {"src", "tgt"}

\* Source and target array ready; UserEvents returned for an operation that has to
\* wait for its partner; the copies; the generations of the two barriers.
EventKinds == {"sready", "tready", "suser", "tuser", "copy", "ready", "ack"}
Event == EventKinds \X Op
SReady(k) == <<"sready", k>>
TReady(k) == <<"tready", k>>
SUser(k)  == <<"suser", k>>
TUser(k)  == <<"tuser", k>>
CopyEv(k) == <<"copy", k>>
Ready(g)  == <<"ready", g>>
Ack(g)    == <<"ack", g>>

VARIABLES
  remote,            \* do the two shards live in different address spaces?
  sIssued, tIssued,  \* operations issued so far on each side
  mgr,               \* PointToPointReshard of each manager
  net,               \* name messages on their way to each manager
  spost, tpost,      \* the event returned for each operation
  copyTo,            \* the target operation whose instance copy k writes
  armed, after,      \* the triggered events and what each waits for
  fired

vars == <<remote, sIssued, tIssued, mgr, net, spost, tpost, copyTo, armed, after, fired>>

\* The managers the two shards meet.
Src == "src"
Tgt == IF remote THEN "tgt" ELSE "src"

\* A PendingOp: the operation, which names its instance and UserEvent, and its
\* precondition.
PendingOp(k, pre) == [op |-> k, pre |-> pre]

Init ==
  /\ remote \in BOOLEAN
  /\ sIssued = 0 /\ tIssued = 0
  /\ mgr = [n \in Node |-> [ready |-> NoBarrier, ack |-> NoBarrier,
                            psrc |-> <<>>, pdst |-> <<>>]]
  /\ net = [n \in Node |-> <<>>]
  /\ spost = [k \in Op |-> {}] /\ tpost = [k \in Op |-> {}]
  /\ copyTo = [k \in Op |-> 0]
  /\ armed = {} /\ after = [e \in Event |-> {}] /\ fired = {}

\* Trigger the events of DOMAIN f, each after its set of events.
Arm(f) ==
  /\ armed' = armed \cup DOMAIN f
  /\ after' = [e \in Event |-> IF e \in DOMAIN f THEN f[e] ELSE after[e]]

\* Mutant: the receive does not wait for the one before it.
DstPreconditionEager(k) == {TReady(k)}

\* src.Precondition(), and dst.Precondition(), which holds the event of the previous
\* receive (Store::ReadyAfter) next to whatever else used the array.
SrcPrecondition(k) == {SReady(k)}
DstPrecondition(k) == {TReady(k)} \cup (IF k = 1 THEN {} ELSE tpost[k - 1])

\* Mutants: the arrival does not wait for the copy; the barrier is advanced before
\* the arrival.
RemoteCopyEarlyAck(s, ready, ack) ==
  [e \in {CopyEv(s), Ack(ack)} |->
     IF e = Ack(ack) THEN {} ELSE ready \cup SrcPrecondition(s)]
RemoteCopyLateAck(s, ready, ack) ==
  [e \in {CopyEv(s), Ack(ack + 1)} |->
     IF e = CopyEv(s) THEN ready \cup SrcPrecondition(s) ELSE {CopyEv(s)}]

\* RemoteCopyNextPendingToTarget: the copy of send s, which also waits for the
\* target's ready generation, and its arrival on the current generation of the ack
\* barrier.
RemoteCopy(s, ready, ack) ==
  [e \in {CopyEv(s), Ack(ack)} |->
     IF e = Ack(ack) THEN {CopyEv(s)} ELSE ready \cup SrcPrecondition(s)]

\* Mutants: the partner is triggered with the precondition, or not at all.
LocalCopyEarly(s, pre, user) == [e \in {CopyEv(s), user} |-> pre]
LocalCopySilent(s, pre, user) == [e \in {CopyEv(s)} |-> pre]

\* A copy inside one address space triggers the partner's UserEvent itself.
LocalCopy(s, pre, user) ==
  [e \in {CopyEv(s), user} |-> IF e = user THEN {CopyEv(s)} ELSE pre]

-----------------------------------------------------------------------------
(***************************************************************************)
(* RendezvousReshardFromLocalSource, for the s-th send.  The view of the   *)
(* source gives up its reference after the send (View::DoneAfter), so if   *)
(* the array was last rewritten after the j-th send, it becomes ready only *)
(* when the first j have released it.                                      *)
(***************************************************************************)
SendNames(n, m) == net' = [net EXCEPT ![n] = Append(@, m)]

\* Mutant of NeedsAckBarrier: the barrier is never created.
NeedsNoBarrier(m) == FALSE

\* The first send to a remote target creates the ack barrier and names it.
NeedsAckBarrier(m) == remote /\ m.ack = NoBarrier

FromLocalSource(s) ==
  LET m      == mgr[Src]
      create == NeedsAckBarrier(m)
      ack    == IF create THEN 1 ELSE m.ack
  IN
  /\ s = sIssued + 1
  /\ sIssued' = s
  /\ IF create THEN SendNames(Tgt, [barrier |-> ack, inst |-> 0]) ELSE UNCHANGED net
  /\ \E j \in 0 .. s - 1 :
     LET sr == [e \in {SReady(s)} |-> UNION {spost[i] : i \in 1 .. j}] IN
     \/ /\ m.pdst = <<>>
        /\ mgr' = [mgr EXCEPT ![Src].ack = ack,
                              ![Src].psrc = Append(@, PendingOp(s, SrcPrecondition(s)))]
        /\ spost' = [spost EXCEPT ![s] = {SUser(s)}]
        /\ Arm(sr)
        /\ UNCHANGED copyTo
     \/ /\ m.pdst # <<>>
        /\ LET op == Head(m.pdst)
               copy == IF remote THEN RemoteCopy(s, op.pre, ack)
                       ELSE LocalCopy(s, op.pre \cup SrcPrecondition(s), TUser(op.op))
           IN /\ mgr' = [mgr EXCEPT ![Src].ack = IF remote THEN ack + 1 ELSE ack,
                                    ![Src].pdst = Tail(@)]
              /\ copyTo' = [copyTo EXCEPT ![s] = op.op]
              /\ Arm([e \in DOMAIN copy \cup DOMAIN sr |->
                        IF e \in DOMAIN copy THEN copy[e] ELSE sr[e]])
        /\ spost' = [spost EXCEPT ![s] = {CopyEv(s)}]
  /\ UNCHANGED <<remote, tIssued, tpost, fired>>

-----------------------------------------------------------------------------
(***************************************************************************)
(* RendezvousReshardToLocalTarget, for the t-th receive.                   *)
(***************************************************************************)
ToLocalTarget(t) ==
  LET m     == mgr[Tgt]
      tr    == [e \in {TReady(t)} |-> {}]
      ready == m.ready + 1       \* created as generation 1, then advanced
  IN
  /\ t = tIssued + 1
  /\ tIssued' = t
  /\ \/ /\ m.psrc # <<>>         \* the source is here and waits
        /\ LET op == Head(m.psrc)
               copy == LocalCopy(op.op, op.pre \cup DstPrecondition(t), SUser(op.op))
           IN /\ copyTo' = [copyTo EXCEPT ![op.op] = t]
              /\ Arm([e \in DOMAIN copy \cup DOMAIN tr |->
                        IF e \in DOMAIN copy THEN copy[e] ELSE tr[e]])
              /\ tpost' = [tpost EXCEPT ![t] = {CopyEv(op.op)}]
        /\ mgr' = [mgr EXCEPT ![Tgt].psrc = Tail(@)]
        /\ UNCHANGED net
     \/ /\ m.psrc = <<>>
        /\ IF remote
           THEN /\ SendNames(Src, [barrier |-> ready, inst |-> t])
                /\ Arm([e \in {TReady(t), Ready(ready)} |->
                          IF e = Ready(ready) THEN DstPrecondition(t) ELSE {}])
           ELSE Arm(tr) /\ UNCHANGED net
        /\ LET m2 == IF remote THEN [m EXCEPT !.ready = ready] ELSE m IN
           IF m.ack = NoBarrier
           THEN /\ mgr' = [mgr EXCEPT ![Tgt] =
                             [m2 EXCEPT !.pdst = Append(@, PendingOp(t, DstPrecondition(t)))]]
                /\ tpost' = [tpost EXCEPT ![t] = {TUser(t)}]
           ELSE /\ mgr' = [mgr EXCEPT ![Tgt] = [m2 EXCEPT !.ack = @ + 1]]
                /\ tpost' = [tpost EXCEPT ![t] = {Ack(m.ack)}]
        /\ UNCHANGED copyTo
  /\ UNCHANGED <<remote, sIssued, spost, fired>>

-----------------------------------------------------------------------------
(***************************************************************************)
(* ReceivePointToPointNames, the handler of the name messages.             *)
(***************************************************************************)

\* Realm need not run two spawned tasks in the order of their spawning.
Take(n, i) ==
  /\ i \in 1 .. Len(net[n])
  /\ Fifo => i = 1
  /\ net' = [net EXCEPT ![n] = RemoveAt(@, i)]

\* At the source: the target's instance and the generation it is ready on.
ReceiveInstance(i) ==
  LET m == mgr[Src]
      msg == net[Src][i]
  IN
  /\ Take(Src, i)
  /\ msg.inst # 0
  /\ \/ /\ m.psrc # <<>>
        /\ LET op == Head(m.psrc)
               copy == RemoteCopy(op.op, {Ready(msg.barrier)}, m.ack)
           IN /\ copyTo' = [copyTo EXCEPT ![op.op] = msg.inst]
              /\ Arm([e \in DOMAIN copy \cup {SUser(op.op)} |->
                        IF e \in DOMAIN copy THEN copy[e] ELSE {CopyEv(op.op)}])
        /\ mgr' = [mgr EXCEPT ![Src].psrc = Tail(@), ![Src].ack = @ + 1]
     \/ /\ m.psrc = <<>>
        /\ mgr' = [mgr EXCEPT ![Src].pdst =
                     Append(@, PendingOp(msg.inst, {Ready(msg.barrier)}))]
        /\ UNCHANGED <<copyTo, armed, after>>
  /\ UNCHANGED <<remote, sIssued, tIssued, spost, tpost, fired>>

\* At the target: the ack barrier.  The j-th waiting receive gets its j-th
\* generation from here on.
ReceiveBarrier(i) ==
  LET waiting == mgr[Tgt].pdst
      msg == net[Tgt][i]
  IN
  /\ Take(Tgt, i)
  /\ msg.inst = 0
  /\ Arm([e \in {TUser(waiting[j].op) : j \in DOMAIN waiting} |->
            {Ack(msg.barrier + j - 1) : j \in {l \in DOMAIN waiting : TUser(waiting[l].op) = e}}])
  /\ mgr' = [mgr EXCEPT ![Tgt].pdst = <<>>, ![Tgt].ack = msg.barrier + Len(waiting)]
  /\ UNCHANGED <<remote, sIssued, tIssued, spost, tpost, copyTo, fired>>

-----------------------------------------------------------------------------
\* Realm triggers an event: the copy engine, a UserEvent, a barrier generation.
Fire(e) ==
  /\ e \in armed \ fired
  /\ after[e] \subseteq fired
  /\ e[1] \in {"ready", "ack"} => \A g \in 1 .. e[2] - 1 : <<e[1], g>> \in fired
  /\ fired' = fired \cup {e}
  /\ UNCHANGED <<remote, sIssued, tIssued, mgr, net, spost, tpost, copyTo, armed, after>>

Issue == \E k \in Op : FromLocalSource(k) \/ ToLocalTarget(k)
ReceiveNames == \E i \in 1 .. NOps + 1 : ReceiveInstance(i) \/ ReceiveBarrier(i)

\* Both sides have issued everything and all of it is done.
Terminated ==
  /\ sIssued = NOps /\ tIssued = NOps /\ armed \subseteq fired
  /\ \A k \in Op : spost[k] \subseteq fired /\ tpost[k] \subseteq fired
  /\ UNCHANGED vars

Next == Issue \/ ReceiveNames \/ (\E e \in Event : Fire(e)) \/ Terminated

Spec == Init /\ [][Next]_vars

\* Realm delivers every message and triggers every event; nothing is assumed of the
\* two sides' programs.
Fairness == WF_vars(ReceiveNames) /\ WF_vars(\E e \in Event : Fire(e))
FairSpec == Spec /\ Fairness

-----------------------------------------------------------------------------
(***************************************************************************)
(* Properties.                                                             *)
(***************************************************************************)
Pending == [op : Op, pre : SUBSET Event]
Manager == [ready : Nat, ack : Nat, psrc : Seq(Pending), pdst : Seq(Pending)]
Name == [barrier : Nat, inst : 0 .. NOps]

\* Every variable stays in its domain.
TypeOK ==
  /\ remote \in BOOLEAN
  /\ sIssued \in 0 .. NOps /\ tIssued \in 0 .. NOps
  /\ mgr \in [Node -> Manager]
  /\ net \in [Node -> Seq(Name)]
  /\ spost \in [Op -> SUBSET Event] /\ tpost \in [Op -> SUBSET Event]
  /\ copyTo \in [Op -> 0 .. NOps]
  /\ armed \subseteq Event /\ fired \subseteq armed
  /\ after \in [Event -> SUBSET Event]

Copied(k) == CopyEv(k) \in fired
SentDone(k) == k <= sIssued /\ spost[k] \subseteq fired
ReceivedDone(k) == k <= tIssued /\ tpost[k] \subseteq fired

\* The copies of a key happen in the order of its operations: the k-th send fills the
\* array of the k-th receive, after both were ready and after the target has seen the
\* previous copy, whichever of the four meeting points issued it.
CopiesInOrder ==
  \A k \in Op : Copied(k) =>
    /\ copyTo[k] = k
    /\ SReady(k) \in fired /\ TReady(k) \in fired
    /\ \A i \in 1 .. k - 1 : ReceivedDone(i)

\* The postconditions that ReshardFromLocalSource and ReshardToLocalTarget return
\* trigger only after the copy they stand for: the source may then be rewritten, and
\* the target holds what the source sent for it.  This does not rest on the order of
\* the name messages: a mispaired copy never completes a receive.
DoneMeansCopied ==
  \A k \in Op :
    /\ SentDone(k) => Copied(k)
    /\ ReceivedDone(k) => Copied(k) /\ copyTo[k] = k

\* The assertions of the manager hold, and the lists agree with each other: not both
\* sides wait in one manager; a source that waits for a remote target has its ack
\* barrier (reshard_manager.cc:129); a local exchange never has one (:272); a target
\* waits only while it has none.
ManagerConsistent ==
  /\ \A n \in Node : mgr[n].psrc = <<>> \/ mgr[n].pdst = <<>>
  /\ remote /\ mgr[Src].psrc # <<>> => mgr[Src].ack # NoBarrier
  /\ ~remote => mgr[Src].ack = NoBarrier
  /\ remote /\ mgr[Tgt].pdst # <<>> => mgr[Tgt].ack = NoBarrier

\* If the name messages are handled in order, a reshard that both sides have issued
\* finishes on both sides.
Delivered ==
  \A k \in Op : (sIssued >= k /\ tIssued >= k) ~> (SentDone(k) /\ ReceivedDone(k))

\* The protocol implements the abstract rendezvous.
Abstract == INSTANCE Rendezvous WITH
  sReady <- {k \in Op : SReady(k) \in fired},
  tReady <- {k \in Op : TReady(k) \in fired},
  copied <- Cardinality({k \in Op : Copied(k)}),
  sDone <- {k \in Op : SentDone(k)},
  tDone <- {k \in Op : ReceivedDone(k)}

\* To its two sides the manager looks like the abstract rendezvous: every step of the
\* protocol is a step of module Rendezvous or invisible to both of them.
ImplementsRendezvous == Abstract!Spec
=============================================================================
